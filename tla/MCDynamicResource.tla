------------------------- MODULE MCDynamicResource -------------------------
(* An instance of DynamicResource for TLC.                                 *)
EXTENDS DynamicResource, Functions, TLC

CONSTANTS d1, u1, u2, a1, a2, x, y, z

MCAction == Restrict(
    d1 :> "delete" @@ u1 :> "update" @@ u2 :> "update" @@ a1 :> "apply" @@ a2 :> "apply",
    Requests)

\* A delete of two objects that an update and an apply are about too, an update
\* that cannot be parsed, an apply with garbage in the middle, and two applies
\* of a custom object.
MCPlan == Restrict(
    d1 :> <<x, y>> @@ u1 :> <<x>> @@ u2 :> <<Garbage>> @@ a1 :> <<z, Garbage, y>> @@ a2 :> <<z>>,
    Requests)

MCKindOf == [o \in Objects |-> IF o = z THEN "custom" ELSE "core"]

\* Every request is answered; the real program waits for more.
Exhausted ==
    /\ \A r \in Requests : pc[r] = "done"
    /\ UNCHANGED vars

MCSpec == Init /\ [][Next \/ Exhausted]_vars
=============================================================================
