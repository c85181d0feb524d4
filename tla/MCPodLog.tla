------------------------------ MODULE MCPodLog ------------------------------
(* An instance of PodLog for TLC.                                          *)
EXTENDS PodLog, TLC

CONSTANTS l1, l2, l3, c1, c2, a, b

MCSessions == {a, b}

\* l1 and l2 share session a, l3 has session b of its own.
MCSessionOf == [x \in Logs \cup Closes |-> IF x \in {l3, c2} THEN b ELSE a]

\* The agent crashed, or every log is over, and every close is answered.
Exhausted ==
    /\ \/ crashed
       \/ /\ \A l \in Logs : log[l] = "over"
          /\ \A c \in Closes : close[c] = "Success"
    /\ UNCHANGED vars

\* Bounds on the run: of l1 and l2, which are alike, l1 may lose its connection,
\* and l3, which has no close, has one chunk. Neither a break nor a chunk is
\* under fairness.
OneBreaks == body'[l2] # "broken" /\ body'[l3] # "broken"
OneChunk == chunks'[l3] <= 1

MCSpec == Init /\ [][Next \/ Exhausted]_vars /\ Fairness
=============================================================================
