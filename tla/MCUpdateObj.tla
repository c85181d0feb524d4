---------------------------- MODULE MCUpdateObj ----------------------------
(* Instances of UpdateObj for TLC.                                         *)
EXTENDS UpdateObj, TLC

CONSTANTS h1, h2, h0, i1, i2

\* h0 asks for no replicas at all and is refused.
MCAsk == [h \in Handlers |-> IF h = h1 THEN 2 ELSE IF h = h2 THEN 3 ELSE 0]
MCFirst == [replicas |-> 1, image |-> i1]

\* Every handler has answered and the object has used up its versions, or is
\* gone; the real program waits for requests.
Exhausted ==
    /\ \A h \in Handlers : pc[h] = "done"
    /\ gone /\ cacheGone
    /\ UNCHANGED vars

MCSpec == Init /\ [][Next \/ Exhausted]_vars
=============================================================================
