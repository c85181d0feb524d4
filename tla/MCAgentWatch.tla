---------------------------- MODULE MCAgentWatch ----------------------------
(* Instances of AgentWatch for TLC.                                        *)
EXTENDS AgentWatch, TLC

CONSTANTS o, c, l, x, p

MCKind  == [r \in Requests |-> IF r = x THEN "malformed" ELSE "ordinary"]
MCWant  == [r \in Requests |-> CASE r = l -> "list" [] r = c -> "close" [] OTHER -> "open"]
MCTopic == [r \in Requests |-> p]

\* The second event of the informer cannot be encoded.
MCUnencodable == {<<p, 2>>}

\* The bounds are used up; the real program waits for more.
Exhausted ==
    /\ conn = MaxConn /\ reader = "read" /\ writer = Idle
    /\ \A r \in Requests : req[r] \in {"skipped", "returned"}
    /\ \A k \in Sources : source[k] = "idle" /\ seen[k] = MaxEvents
    /\ UNCHANGED allVars

MCSpec == WatchInit /\ [][WatchNext \/ Exhausted]_allVars
MCFairSpec == MCSpec /\ Fairness /\ \A k \in Sources : WF_allVars(OnDelta(k))
=============================================================================
