----------------------------- MODULE MCYamlGet -----------------------------
(* An instance of YamlGet for TLC.                                         *)
EXTENDS YamlGet, TLC

CONSTANTS y1, y2, u, g

\* The agent has stopped, or every request is answered and the informer has
\* delivered its last version; the real program waits for more.
Exhausted ==
    /\ crashed # 0 \/ (cached = MaxVersion /\ \A r \in Requests : pc[r] = "done")
    /\ UNCHANGED vars

MCSpec == Init /\ [][Next \/ Exhausted]_vars
=============================================================================
