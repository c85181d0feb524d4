---------------------------- MODULE RequestReply ----------------------------
(***************************************************************************)
(* What the agent promises a server that sends it requests, with neither   *)
(* goroutines nor channels: a request it has accepted is answered once,    *)
(* with a code its route allows, unless its answer cannot be encoded or    *)
(* the session the request came in on is cut.                              *)
(***************************************************************************)
CONSTANTS Requests,     \* the messages the server may send
          Allowed(_),   \* the codes a request may be answered with
          Unsendable,   \* the requests whose answer cannot be encoded
          MayHang       \* the requests whose handler may never return

VARIABLES phase,        \* pending, accepted, answered or lost
          answer,       \* the code of the answer, once there is one
          cut           \* the accepted requests whose session was cut

vars == <<phase, answer, cut>>

Init ==
    /\ phase = [r \in Requests |-> "pending"]
    /\ answer = [r \in Requests |-> "none"]
    /\ cut = {}

\* A request may come in on a session that is cut already.
Accept(r) ==
    /\ phase[r] = "pending"
    /\ phase' = [phase EXCEPT ![r] = "accepted"]
    /\ cut' \in {cut, cut \cup {r}}
    /\ UNCHANGED answer

Cut == /\ \E S \in SUBSET {r \in Requests : phase[r] # "pending"} : cut' = cut \cup S
       /\ UNCHANGED <<phase, answer>>

Answer(r) ==
    /\ phase[r] = "accepted" /\ r \notin Unsendable
    /\ phase' = [phase EXCEPT ![r] = "answered"]
    /\ \E c \in Allowed(r) : answer' = [answer EXCEPT ![r] = c]
    /\ UNCHANGED cut

Lose(r) ==
    /\ phase[r] = "accepted" /\ r \in cut \cup Unsendable
    /\ phase' = [phase EXCEPT ![r] = "lost"]
    /\ UNCHANGED <<answer, cut>>

Next == Cut \/ \E r \in Requests : Accept(r) \/ Answer(r) \/ Lose(r)

\* What is promised of every request, whether or not its handler returns.
Safety == Init /\ [][Next]_vars

Spec == /\ Safety
        /\ \A r \in Requests \ MayHang : WF_vars(Answer(r) \/ Lose(r))
=============================================================================
