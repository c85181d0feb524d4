--------------------------- MODULE PodExecProofs ---------------------------
(***************************************************************************)
(* Proofs about PodExec, for every number of terminals, inputs, sessions   *)
(* and chunks of output.                                                   *)
(***************************************************************************)
EXTENDS PodExec, TLAPS

\* The state of PodExec keeps its shape; no STDIN goes on without a handler.
THEOREM TypeCorrect == Spec => []TypeOK
<1> USE ExecAssumption DEF TypeOK, ProcStates, InputStates
<1>1. Init => TypeOK
  <2> SUFFICES ASSUME Init PROVE TypeOK
    OBVIOUS
  <2>1. printed \in [Processes -> 0..MaxOutput]
    <3>1. 0 \in 0..MaxOutput
      OBVIOUS
    <3> QED
      BY <3>1 DEF Init
  <2>2. sent \in [Processes -> Seq({"output", "last"})]
    BY DEF Init
  <2> QED
    BY <2>1, <2>2 DEF Init
<1>2. TypeOK /\ [Next]_vars => TypeOK'
  <2> SUFFICES ASSUME TypeOK, [Next]_vars PROVE TypeOK'
    OBVIOUS
  <2> USE DEF Move, Become, procVars, inputVars
  <2>1. ASSUME NEW p \in Processes, ProcStep(p) PROVE TypeOK'
    <3>1. CASE Exec(p)
      BY <3>1 DEF Exec
    <3>2. CASE MakeExecutor(p)
      <4>1. PICK to \in {"refused", "registering"} : proc' = [proc EXCEPT ![p] = to]
        BY <3>2 DEF MakeExecutor
      <4> QED
        BY <3>2, <4>1 DEF MakeExecutor
    <3>3. CASE Register(p)
      BY <3>3 DEF Register
    <3>4. CASE NegotiationFails(p)
      BY <3>4 DEF NegotiationFails
    <3>5. CASE StreamStarts(p)
      BY <3>5 DEF StreamStarts
    <3>6. CASE PrintChunk(p)
      BY <3>6 DEF PrintChunk
    <3>7. CASE TakeOutput(p)
      <4>1. Append(sent[p], "output") \in Seq({"output", "last"})
        OBVIOUS
      <4> QED
        BY <3>7, <4>1 DEF TakeOutput
    <3>8. CASE Exit(p)
      BY <3>8 DEF Exit
    <3>9. CASE StreamReturns(p)
      <4>1. PICK to \in {"closed", "failed"} : proc' = [proc EXCEPT ![p] = to]
        BY <3>9 DEF StreamReturns
      <4> QED
        BY <3>9, <4>1 DEF StreamReturns
    <3>10. CASE TakeLast(p)
      <4>1. Append(sent[p], "last") \in Seq({"output", "last"})
        OBVIOUS
      <4>2. PICK to \in {"deleting", "over"} : proc' = [proc EXCEPT ![p] = to]
        BY <3>10 DEF TakeLast
      <4> QED
        BY <3>10, <4>1, <4>2 DEF TakeLast
    <3>11. CASE Delete(p)
      BY <3>11 DEF Delete
    <3>12. CASE LinkBreaks(p) \/ Shutdown(p)
      <4>1. /\ link' = [link EXCEPT ![p] = "down"]
            /\ UNCHANGED <<proc, session, table, stdout, printed, sent, inputVars, crashed>>
        BY <3>12 DEF LinkBreaks, Shutdown
      <4> QED
        BY <4>1
    <3> QED
      BY <2>1, <3>1, <3>2, <3>3, <3>4, <3>5, <3>6, <3>7, <3>8, <3>9, <3>10, <3>11, <3>12
         DEF ProcStep
  <2>2. ASSUME NEW i \in Inputs, InputStep(i) PROVE TypeOK'
    <3>1. CASE StdIn(i)
      BY <3>1 DEF StdIn
    <3>2. CASE LookUp(i)
      BY <3>2 DEF LookUp
    <3>3. CASE TakeResize(i)
      BY <3>3 DEF TakeResize
    <3>4. CASE TakeInput(i)
      <4>1. target[i] \in Processes
        BY <3>4 DEF TakeInput
      <4>2. stdin' \in {stdin, [stdin EXCEPT ![target[i]] = "ready"],
                        [stdin EXCEPT ![target[i]] = "gone"]}
        BY <3>4 DEF TakeInput, TakeText, TakeBlank, CopierAfter
      <4>3. stdin' \in [Processes -> {"none", "ready", "gone"}]
        BY <4>1, <4>2
      <4>4. lost' \in {lost, [lost EXCEPT ![target[i]] = @ \cup {i}]}
        BY <3>4 DEF TakeInput, TakeText, TakeBlank
      <4>5. lost' \in [Processes -> SUBSET Inputs]
        <5>1. CASE lost' = lost
          BY <5>1
        <5>2. CASE lost' = [lost EXCEPT ![target[i]] = @ \cup {i}]
          <6>1. lost[target[i]] \cup {i} \in SUBSET Inputs
            BY <4>1
          <6> QED
            BY <4>1, <5>2, <6>1
        <5> QED
          BY <4>4, <5>1, <5>2
      <4> QED
        BY <3>4, <4>3, <4>5 DEF TakeInput
    <3> QED
      BY <2>2, <3>1, <3>2, <3>3, <3>4 DEF InputStep
  <2>3. CASE Crash
    BY <2>3 DEF Crash
  <2>4. CASE UNCHANGED vars
    BY <2>4 DEF vars
  <2> QED
    BY <2>1, <2>2, <2>3, <2>4 DEF Next
<1> QED
  BY <1>1, <1>2, PTL DEF Spec

(***************************************************************************)
(* What the goroutines of a terminal rely on.                              *)
(***************************************************************************)

\* Stream waits for the stdout copier, so nothing is copied after it returns;
\* and the last message is taken on the way to the deferred delete.
CopierStopsFirst ==
    \A p \in Processes :
        /\ stdout[p] = "sending" => proc[p] \in {"streaming", "exited"}
        /\ \A n \in DOMAIN sent[p] :
              sent[p][n] = "last" => n = Len(sent[p]) /\ proc[p] \in {"deleting", "over"}

\* A session id is chosen once, by EXEC.
SessionIsChosenOnce ==
    \A p \in Processes :
        IF proc[p] = "new" THEN session[p] = NoProcess ELSE session[p] \in Sessions

\* An input is lost on a connection that is down, which it was not before the
\* stream was there, and the stdin copier returns with it.
LosesAndStops ==
    \A p \in Processes :
        /\ proc[p] \in {"new", "starting", "refused", "registering", "negotiating"} =>
              link[p] = "none"
        /\ lost[p] # {} => link[p] = "down" /\ stdin[p] = "gone"

ExecInv ==
    /\ CopierStopsFirst /\ SessionIsChosenOnce /\ LosesAndStops
    /\ OnlyReuseHidesSession /\ AtMostOneInputLost

LEMMA InitExec == Init => ExecInv
BY ExecAssumption DEF Init, ExecInv, CopierStopsFirst, SessionIsChosenOnce, LosesAndStops,
   OnlyReuseHidesSession, AtMostOneInputLost

\* A goroutine that moves on and touches neither the sessions nor the copiers
\* leaves the rest as it is, provided it does not come up by this.
LEMMA MovesOn ==
    ASSUME TypeOK, ExecInv, UNCHANGED <<session, table, stdout, link, stdin, sent, lost>>,
           \A p \in Processes :
              /\ proc'[p] = "new" <=> proc[p] = "new"
              /\ proc'[p] \in {"negotiating", "streaming", "exited"} =>
                    proc[p] \in {"negotiating", "streaming", "exited"}
              /\ proc'[p] \in {"new", "starting", "refused", "registering", "negotiating"} =>
                    proc[p] \in {"new", "starting", "refused", "registering", "negotiating"}
              /\ proc[p] \in {"deleting", "over"} => proc'[p] = proc[p]
              /\ stdout[p] = "sending" => proc'[p] \in {"streaming", "exited"}
    PROVE  ExecInv'
<1>1. CopierStopsFirst'
  BY DEF ExecInv, CopierStopsFirst
<1>2. SessionIsChosenOnce'
  BY DEF ExecInv, SessionIsChosenOnce
<1>3. LosesAndStops'
  BY DEF ExecInv, LosesAndStops
<1>4. OnlyReuseHidesSession'
  BY DEF ExecInv, OnlyReuseHidesSession
<1>5. AtMostOneInputLost'
  BY DEF ExecInv, AtMostOneInputLost
<1> QED
  BY <1>1, <1>2, <1>3, <1>4, <1>5 DEF ExecInv

LEMMA NextExec ==
    ASSUME TypeOK, ExecInv, [Next]_vars
    PROVE  ExecInv'
<1> USE ExecAssumption
    DEF TypeOK, ProcStates, ExecInv, CopierStopsFirst, SessionIsChosenOnce, LosesAndStops,
        OnlyReuseHidesSession, AtMostOneInputLost, Move, Become, procVars, inputVars
<1>1. ASSUME NEW p \in Processes, Exec(p) PROVE ExecInv'
  <2>1. CopierStopsFirst'
    BY <1>1 DEF Exec
  <2>2. SessionIsChosenOnce'
    BY <1>1 DEF Exec
  <2>3. LosesAndStops'
    BY <1>1 DEF Exec
  <2>4. OnlyReuseHidesSession'
    <3>1. /\ \A q \in Processes \ {p} : proc'[q] = proc[q] /\ session'[q] = session[q]
          /\ proc'[p] = "starting" /\ proc[p] = "new" /\ session[p] = NoProcess
          /\ table' = table
      BY <1>1 DEF Exec
    <3> SUFFICES ASSUME NEW q \in Processes, proc'[q] \in {"negotiating", "streaming", "exited"}
                 PROVE  \/ table'[session'[q]] = q
                        \/ \E o \in Processes \ {q} :
                              /\ session'[o] = session'[q]
                              /\ \/ table'[session'[q]] = o
                                 \/ table'[session'[q]] = NoProcess /\ proc'[o] = "over"
      OBVIOUS
    <3>2. q # p /\ session[q] \in Sessions
      BY <3>1
    <3>3. CASE table[session[q]] = q
      BY <3>1, <3>2, <3>3
    <3>4. CASE table[session[q]] # q
      <4>1. PICK o \in Processes \ {q} :
               /\ session[o] = session[q]
               /\ table[session[q]] = o \/ (table[session[q]] = NoProcess /\ proc[o] = "over")
        BY <3>1, <3>2, <3>4
      <4>2. o # p /\ o \in Processes \ {q}
        BY <3>1, <3>2, <4>1
      <4>3. /\ session'[o] = session'[q]
            /\ table'[session'[q]] = o \/ (table'[session'[q]] = NoProcess /\ proc'[o] = "over")
        BY <3>1, <3>2, <4>1, <4>2
      <4> QED
        BY <4>2, <4>3
    <3> QED
      BY <3>3, <3>4
  <2>5. AtMostOneInputLost'
    BY <1>1 DEF Exec
  <2> QED
    BY <2>1, <2>2, <2>3, <2>4, <2>5
<1>2. ASSUME NEW p \in Processes, MakeExecutor(p) PROVE ExecInv'
  <2>1. PICK to \in {"refused", "registering"} :
           proc[p] = "starting" /\ proc' = [proc EXCEPT ![p] = to]
    BY <1>2 DEF MakeExecutor
  <2> QED
    BY <1>2, <2>1, MovesOn DEF MakeExecutor
<1>3. ASSUME NEW p \in Processes, Register(p) PROVE ExecInv'
  <2>1. CopierStopsFirst' /\ SessionIsChosenOnce' /\ LosesAndStops' /\ AtMostOneInputLost'
    BY <1>3 DEF Register
  <2>2. OnlyReuseHidesSession'
    BY <1>3 DEF Register
  <2> QED
    BY <2>1, <2>2
<1>4. ASSUME NEW p \in Processes, NegotiationFails(p) PROVE ExecInv'
  BY <1>4, MovesOn DEF NegotiationFails
<1>5. ASSUME NEW p \in Processes, StreamStarts(p) PROVE ExecInv'
  BY <1>5 DEF StreamStarts
<1>6. ASSUME NEW p \in Processes, PrintChunk(p) PROVE ExecInv'
  BY <1>6 DEF PrintChunk
<1>7. ASSUME NEW p \in Processes, TakeOutput(p) PROVE ExecInv'
  <2>1. CopierStopsFirst'
    BY <1>7 DEF TakeOutput
  <2>2. SessionIsChosenOnce' /\ LosesAndStops' /\ OnlyReuseHidesSession' /\ AtMostOneInputLost'
    BY <1>7 DEF TakeOutput
  <2> QED
    BY <2>1, <2>2
<1>8. ASSUME NEW p \in Processes, Exit(p) PROVE ExecInv'
  BY <1>8 DEF Exit
<1>9. ASSUME NEW p \in Processes, StreamReturns(p) PROVE ExecInv'
  <2>1. PICK to \in {"closed", "failed"} :
           proc[p] = "exited" /\ stdout[p] = "idle" /\ proc' = [proc EXCEPT ![p] = to]
    BY <1>9 DEF StreamReturns
  <2> QED
    BY <1>9, <2>1, MovesOn DEF StreamReturns
<1>10. ASSUME NEW p \in Processes, TakeLast(p) PROVE ExecInv'
  <2>1. PICK to \in {"deleting", "over"} : proc' = [proc EXCEPT ![p] = to]
    BY <1>10 DEF TakeLast
  <2>2. proc[p] \in {"closed", "failed", "refused"}
    BY <1>10 DEF TakeLast
  <2>3. sent' = [sent EXCEPT ![p] = Append(@, "last")]
    BY <1>10 DEF TakeLast
  <2>4. UNCHANGED <<session, table, stdout, link, stdin, lost>>
    BY <1>10 DEF TakeLast
  <2>5. CopierStopsFirst'
    BY <2>1, <2>2, <2>3, <2>4
  <2>6. SessionIsChosenOnce' /\ LosesAndStops' /\ AtMostOneInputLost'
    BY <2>1, <2>2, <2>4
  <2>7. OnlyReuseHidesSession'
    <3> SUFFICES ASSUME NEW q \in Processes, proc'[q] \in {"negotiating", "streaming", "exited"}
                 PROVE  \/ table'[session'[q]] = q
                        \/ \E o \in Processes \ {q} :
                              /\ session'[o] = session'[q]
                              /\ \/ table'[session'[q]] = o
                                 \/ table'[session'[q]] = NoProcess /\ proc'[o] = "over"
      OBVIOUS
    <3>1. proc'[q] = proc[q] /\ \A o \in Processes : proc[o] = "over" => proc'[o] = "over"
      BY <2>1, <2>2
    <3> QED
      BY <2>4, <3>1
  <2> QED
    BY <2>5, <2>6, <2>7
<1>11. ASSUME NEW p \in Processes, Delete(p) PROVE ExecInv'
  <2>1. CopierStopsFirst' /\ SessionIsChosenOnce' /\ LosesAndStops' /\ AtMostOneInputLost'
    BY <1>11 DEF Delete
  <2>2. OnlyReuseHidesSession'
    BY <1>11 DEF Delete
  <2> QED
    BY <2>1, <2>2
<1>12. ASSUME NEW i \in Inputs, StdIn(i) PROVE ExecInv'
  BY <1>12 DEF StdIn
<1>13. ASSUME NEW i \in Inputs, LookUp(i) PROVE ExecInv'
  BY <1>13 DEF LookUp
<1>14. ASSUME NEW i \in Inputs, TakeResize(i) PROVE ExecInv'
  BY <1>14 DEF TakeResize
<1>15. ASSUME NEW i \in Inputs, TakeInput(i) PROVE ExecInv'
  <2>1. CopierStopsFirst'
    BY <1>15 DEF TakeInput, TakeText, TakeBlank, CopierAfter
  <2>2. SessionIsChosenOnce'
    BY <1>15 DEF TakeInput, TakeText, TakeBlank, CopierAfter
  <2>3. LosesAndStops'
    BY <1>15 DEF TakeInput, TakeText, TakeBlank, CopierAfter
  <2>4. OnlyReuseHidesSession'
    BY <1>15 DEF TakeInput, TakeText, TakeBlank, CopierAfter
  <2>5. AtMostOneInputLost'
    <3>1. stdin[target[i]] = "ready" /\ target[i] \in Processes
      BY <1>15 DEF TakeInput
    <3>2. lost[target[i]] = {}
      BY <3>1
    <3>3. lost' \in {lost, [lost EXCEPT ![target[i]] = {i}]}
      BY <1>15, <3>1, <3>2 DEF TakeInput, TakeText, TakeBlank
    <3>4. CASE lost' = lost
      BY <3>4
    <3>5. CASE lost' = [lost EXCEPT ![target[i]] = {i}]
      BY <3>5
    <3> QED
      BY <3>3, <3>4, <3>5
  <2> QED
    BY <2>1, <2>2, <2>3, <2>4, <2>5
<1>16. CASE Crash
  BY <1>16 DEF Crash
<1>17. CASE UNCHANGED vars
  BY <1>17 DEF vars
<1>18. ASSUME NEW p \in Processes, LinkBreaks(p) \/ Shutdown(p) PROVE ExecInv'
  <2>1. link[p] = "up" /\ link' = [link EXCEPT ![p] = "down"]
    BY <1>18 DEF LinkBreaks, Shutdown
  <2>2. UNCHANGED <<proc, session, table, stdout, stdin, sent, lost>>
    BY <1>18 DEF LinkBreaks, Shutdown
  <2> QED
    BY <2>1, <2>2
<1> QED
  BY <1>1, <1>2, <1>3, <1>4, <1>5, <1>6, <1>7, <1>8, <1>9, <1>10, <1>11, <1>12, <1>13,
     <1>14, <1>15, <1>16, <1>17, <1>18 DEF Next, ProcStep, InputStep

\* The goroutines of every terminal, its connection and the session map stay
\* in step, an input lost on a broken connection included.
THEOREM ExecInvariant == Spec => [](TypeOK /\ ExecInv)
BY InitExec, NextExec, TypeCorrect, PTL DEF Spec

\* "Connection closed", or the error, comes once and after all output
\* (startProcess of pod.go and the vendored client's Stream).
THEOREM LastMessage == Spec => []LastIsLast
<1>1. ExecInv => LastIsLast
  BY DEF ExecInv, CopierStopsFirst, LastIsLast
<1> QED
  BY <1>1, ExecInvariant, PTL

\* STDIN finds a terminal that is up, unless another EXEC of the same id holds
\* the entry of execSessions, or has ended and deleted it (pod.go).
THEOREM OwnSession == Spec => []OnlyReuseHidesSession
<1>1. ExecInv => OnlyReuseHidesSession
  BY DEF ExecInv
<1> QED
  BY <1>1, ExecInvariant, PTL

\* Per terminal, one STDIN with text at most is answered Success although its
\* write failed; inputs of no text, which are never written, are not counted.
THEOREM OneInputLost == Spec => []AtMostOneInputLost
<1>1. ExecInv => AtMostOneInputLost
  BY DEF ExecInv
<1> QED
  BY <1>1, ExecInvariant, PTL

(***************************************************************************)
(* The session map: an entry is under the id its terminal was opened with, *)
(* and so is every handler that an STDIN has found.                        *)
(***************************************************************************)

\* Where a goroutine stands that has registered and has not deleted its entry.
Alive == {"negotiating", "streaming", "exited", "failed", "closed", "deleting"}

\* An entry of execSessions has a deferred delete still to come.
EntriesAreAlive ==
    \A s \in Sessions : table[s] # NoProcess =>
        /\ session[table[s]] = s
        /\ proc[table[s]] \in Alive

\* An input goes to, or is lost at, a terminal with the session id it names.
InputsKeepToSession ==
    \A i \in Inputs :
        /\ target[i] # NoProcess => session[target[i]] = SessionOf[i]
        /\ \A p \in Processes : i \in lost[p] => target[i] = p /\ input[i] = "Success"

SessionInv == EntriesAreAlive /\ InputsKeepToSession

\* A goroutine that goes on while its entry stands disturbs no session.
LEMMA LivesOn ==
    ASSUME TypeOK, SessionInv, UNCHANGED <<session, table, input, target, lost>>,
           NEW p \in Processes, NEW to, proc' = [proc EXCEPT ![p] = to],
           proc[p] \in Alive => to \in Alive
    PROVE  SessionInv'
<1>1. \A q \in Processes : proc[q] \in Alive => proc'[q] \in Alive
  BY DEF TypeOK
<1>2. EntriesAreAlive'
  BY <1>1 DEF TypeOK, SessionInv, EntriesAreAlive
<1> QED
  BY <1>2 DEF SessionInv, InputsKeepToSession

LEMMA NextSession ==
    ASSUME TypeOK, SessionIsChosenOnce, SessionInv, [Next]_vars
    PROVE  SessionInv'
<1> USE ExecAssumption
    DEF TypeOK, ProcStates, SessionIsChosenOnce, SessionInv, EntriesAreAlive,
        InputsKeepToSession, Move, Become, procVars, inputVars, Alive
<1>1. ASSUME NEW p \in Processes, Exec(p) PROVE SessionInv'
  BY <1>1 DEF Exec
<1>2. ASSUME NEW p \in Processes, MakeExecutor(p) PROVE SessionInv'
  <2>1. PICK to \in {"refused", "registering"} :
           proc[p] = "starting" /\ proc' = [proc EXCEPT ![p] = to]
    BY <1>2 DEF MakeExecutor
  <2> QED
    BY <1>2, <2>1, LivesOn DEF MakeExecutor, Alive
<1>3. ASSUME NEW p \in Processes, Register(p) PROVE SessionInv'
  BY <1>3 DEF Register
<1>4. ASSUME NEW p \in Processes, NegotiationFails(p) \/ Exit(p) PROVE SessionInv'
  <2>1. PICK to \in {"failed", "exited"} : proc' = [proc EXCEPT ![p] = to]
    BY <1>4 DEF NegotiationFails, Exit
  <2> QED
    BY <1>4, <2>1, LivesOn DEF NegotiationFails, Exit, Alive
<1>5. ASSUME NEW p \in Processes, StreamStarts(p) PROVE SessionInv'
  BY <1>5 DEF StreamStarts
<1>6. ASSUME NEW p \in Processes,
             PrintChunk(p) \/ TakeOutput(p) \/ LinkBreaks(p) \/ Shutdown(p)
      PROVE  SessionInv'
  BY <1>6 DEF PrintChunk, TakeOutput, LinkBreaks, Shutdown
<1>7. ASSUME NEW p \in Processes, StreamReturns(p) PROVE SessionInv'
  <2>1. PICK to \in {"closed", "failed"} : proc' = [proc EXCEPT ![p] = to]
    BY <1>7 DEF StreamReturns
  <2> QED
    BY <1>7, <2>1, LivesOn DEF StreamReturns, Alive
<1>8. ASSUME NEW p \in Processes, TakeLast(p) PROVE SessionInv'
  <2>1. PICK to : /\ proc' = [proc EXCEPT ![p] = to]
                  /\ proc[p] \in Alive => to \in Alive
    BY <1>8 DEF TakeLast, Alive
  <2> QED
    BY <1>8, <2>1, LivesOn DEF TakeLast
<1>9. ASSUME NEW p \in Processes, Delete(p) PROVE SessionInv'
  BY <1>9 DEF Delete
<1>10. ASSUME NEW i \in Inputs, StdIn(i) PROVE SessionInv'
  BY <1>10 DEF StdIn
<1>11. ASSUME NEW i \in Inputs, LookUp(i) PROVE SessionInv'
  BY <1>11 DEF LookUp
<1>12. ASSUME NEW i \in Inputs, TakeResize(i) PROVE SessionInv'
  BY <1>12 DEF TakeResize
<1>13. ASSUME NEW i \in Inputs, TakeInput(i) PROVE SessionInv'
  <2>1. /\ UNCHANGED <<proc, session, table, target>>
        /\ input' = [input EXCEPT ![i] = "Success"] /\ target[i] \in Processes
    BY <1>13 DEF TakeInput
  <2>2. \A p \in Processes : lost'[p] \subseteq lost[p] \cup (IF p = target[i] THEN {i} ELSE {})
    BY <1>13, <2>1 DEF TakeInput, TakeText, TakeBlank
  <2>3. \A j \in Inputs : input[j] = "Success" => input'[j] = "Success"
    BY <2>1
  <2>4. \A j \in Inputs : \A p \in Processes : j \in lost'[p] =>
           j \in lost[p] \/ (j = i /\ p = target[i])
    BY <2>2
  <2>5. EntriesAreAlive'
    BY <2>1
  <2>6. InputsKeepToSession'
    BY <2>1, <2>3, <2>4
  <2> QED
    BY <2>5, <2>6
<1>14. CASE Crash
  BY <1>14 DEF Crash
<1>15. CASE UNCHANGED vars
  BY <1>15 DEF vars
<1> QED
  BY <1>1, <1>2, <1>3, <1>4, <1>5, <1>6, <1>7, <1>8, <1>9, <1>10, <1>11, <1>12, <1>13,
     <1>14, <1>15 DEF Next, ProcStep, InputStep

\* ExecStdIn sends to no terminal but one of the session it names, and every
\* entry of execSessions is deleted by the goroutine that made it or before.
THEOREM SessionsAreKept == Spec => []SessionInv
<1>1. Init => SessionInv
  BY ExecAssumption DEF Init, SessionInv, EntriesAreAlive, InputsKeepToSession
<1>2. TypeOK /\ ExecInv /\ SessionInv /\ [Next]_vars => SessionInv'
  BY NextSession DEF ExecInv
<1> QED
  BY <1>1, <1>2, ExecInvariant, PTL DEF Spec
=============================================================================
