------------------------------ MODULE MCAgent ------------------------------
(* Instances of Agent for TLC.                                             *)
EXTENDS Agent, TLC

CONSTANTS b, n, u, m, s1

MCKind == [r \in Requests |-> CASE r = u -> "unknown"
                                [] r = m -> "malformed"
                                [] r = b -> "blocking"
                                [] r = n -> "ordinary"]

\* The reply of the handler that may hang cannot be encoded.
MCUnencodable == {Reply(b)}

(***************************************************************************)
(* The bounds are used up: the last connection is up, the requests are     *)
(* read and the sources have pushed their last event.  The real program    *)
(* waits for more of them.                                                 *)
(***************************************************************************)
Exhausted ==
    /\ conn = MaxConn /\ reader = "read" /\ writer = Idle
    /\ \A r \in Requests : \/ req[r] \in {"skipped", "returned"}
                           \/ req[r] = "running" /\ Kind[r] = "blocking"
    /\ \A s \in Sources : source[s] = "idle" /\ event[s] = MaxEvents
    /\ UNCHANGED vars

\* A bound on the run: the server sends m, b and n; the source pushes after b
\* and before u is sent. Every request has a goroutine of its own, so what
\* follows the reading is in any order, and neither the server's sending nor
\* the source is under fairness.
InOrder == /\ req'[b] # "unread" => req'[m] # "unread"
           /\ event'[s1] > 0 \/ req'[n] # "unread" => req'[b] # "unread"
           /\ req'[u] # "unread" => req'[n] # "unread" /\ event'[s1] = MaxEvents

MCSpec == Init /\ [][Next \/ Exhausted]_vars
MCFairSpec == Init /\ [][Next \/ Exhausted]_vars /\ Fairness
=============================================================================
