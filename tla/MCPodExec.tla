----------------------------- MODULE MCPodExec -----------------------------
(* Instances of PodExec for TLC.                                           *)
EXTENDS PodExec, TLC

CONSTANTS p1, p2, i1, i2, a, b

MCSessions == {a, b}

\* Both inputs are for session a: b only serves to keep two terminals apart.
MCSessionOf == [i \in Inputs |-> a]

\* The agent crashed, or every process is over or waits for its shell, and
\* every input is answered or blocked on a copier that is gone or never came.
Exhausted ==
    /\ \/ crashed
       \/ /\ \A p \in Processes : proc[p] = "over"
          /\ \A i \in Inputs :
                \/ input[i] \in {"Success", "ParamsError"}
                \/ input[i] = "resizing" /\ stdin[target[i]] = "none"
                \/ input[i] = "typing" /\ stdin[target[i]] # "ready"
    /\ UNCHANGED vars

\* A bound on the run: the terminals are interchangeable, so when one is in
\* session a it may as well be p1; when none is, no input finds a handler and
\* what the terminals do they also do in a. EXEC is under no fairness, so
\* choosing its session cuts no behaviour that the liveness properties need.
FirstInA == session'[p1] # b

\* Another: one terminal prints. Output concerns no terminal but its own, and
\* printing is under no fairness either.
OnePrints == printed'[p2] = 0

MCSpec == Init /\ [][Next \/ Exhausted]_vars
MCFairSpec == MCSpec /\ Fairness
=============================================================================
