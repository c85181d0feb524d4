-------------------------- MODULE MCWatchResource --------------------------
(* An instance of WatchResource for TLC.                                   *)
EXTENDS WatchResource, TLC

CONSTANTS o1, o2, c1, bad, k1, k2

MCWant == (o1 :> "open") @@ (o2 :> "open") @@ (c1 :> "close") @@ (bad :> "invalid")

\* The bounds are used up; the real program waits for requests and deltas.
Exhausted ==
    /\ \A a \in Actions : request[a] = "answered"
    /\ \A k \in Resources : seen[k] = MaxDeltas /\ callback[k] = "idle"
    /\ UNCHANGED vars

MCSpec == Init /\ [][Next \/ Exhausted]_vars
=============================================================================
