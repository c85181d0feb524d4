------------------------------ MODULE PodExec ------------------------------
(***************************************************************************)
(* Terminals in containers: Exec, startProcess, ExecStdIn and streamHandler *)
(* of pkg/container/resource/pod.go over the vendored remotecommand client. *)
(*                                                                         *)
(* EXEC starts a process goroutine and answers at once.  The process puts  *)
(* its handler in execSessions, negotiates with the API server, and from   *)
(* then on three goroutines serve it: one copies stdout to SendResponse,   *)
(* one reads InChan for stdin, one takes resizes; nothing ever stops the   *)
(* last two.  STDIN looks its session up and blocks on those channels.     *)
(* What the stdin copier reads it writes to the connection, and it returns *)
(* when that fails: the connection can break under the stream, and it is   *)
(* shut down by another goroutine some time after Stream has returned.     *)
(* An input of no text, empty or not base64, is never written: it is read, *)
(* dropped and answered Success, whatever has become of the terminal.      *)
(* The map execSessions has no lock: Go throws a fatal error when it sees  *)
(* a write meet another access, and the agent is gone (Crash).             *)
(***************************************************************************)
EXTENDS Naturals, Sequences

CONSTANTS Processes,   \* the EXEC requests, each with its goroutines
          Sessions,    \* the session ids the server uses
          SessionOf,   \* the session id each STDIN names
          Inputs,      \* the STDIN requests
          Resizes,     \* the STDIN requests with a width and a height
          NoProcess,   \* no entry in execSessions
          MaxOutput    \* bound: chunks each process prints

ASSUME ExecAssumption ==
    /\ SessionOf \in [Inputs -> Sessions]
    /\ NoProcess \notin Sessions
    /\ Resizes \subseteq Inputs
    /\ NoProcess \notin Processes
    /\ MaxOutput \in Nat

VARIABLES proc,      \* where startProcess and Stream stand
          session,   \* the session id each EXEC came with
          table,     \* execSessions
          stdout,    \* the stdout copier is idle or in SendResponse
          printed,   \* chunks each process has printed
          stdin,     \* the stdin copier: not yet there, ready or gone
          link,      \* the connection to the API server: none yet, up or down
          sent,      \* history: what the writer took from each process
          input,     \* where each STDIN stands
          target,    \* the handler each STDIN has looked up
          lost,      \* history: inputs answered Success although the write failed
          crashed    \* the runtime has stopped the agent

vars == <<proc, session, table, stdout, printed, link, stdin, sent, input, target, lost,
          crashed>>
procVars == <<proc, session, table, stdout, printed, link, sent>>
inputVars == <<stdin, input, target, lost>>

\* "refused": no executor; "negotiating": registered; "exited": the remote
\* side is done; "failed" and "closed": sending the last message, after which
\* the entry in the table is deleted.
ProcStates == {"new", "starting", "refused", "registering", "negotiating", "streaming",
               "exited", "failed", "closed", "deleting", "over"}
InputStates == {"new", "looking", "resizing", "typing", "Success", "ParamsError"}

Init ==
    /\ proc = [p \in Processes |-> "new"]
    /\ session = [p \in Processes |-> NoProcess]
    /\ table = [s \in Sessions |-> NoProcess]
    /\ stdout = [p \in Processes |-> "idle"]
    /\ printed = [p \in Processes |-> 0]
    /\ link = [p \in Processes |-> "none"]
    /\ stdin = [p \in Processes |-> "none"]
    /\ sent = [p \in Processes |-> <<>>]
    /\ input = [i \in Inputs |-> "new"]
    /\ target = [i \in Inputs |-> NoProcess]
    /\ lost = [p \in Processes |-> {}]
    /\ crashed = FALSE

\* A goroutine runs on, as long as the runtime has not stopped the agent.
Move(p, from, to) ==
    ~crashed /\ proc[p] = from /\ proc' = [proc EXCEPT ![p] = to]

-----------------------------------------------------------------------------
(* The process goroutine.                                                  *)

\* EXEC, with a session id of the server's choice, new or used before:
\* answered with Success whatever comes of it.
Exec(p) ==
    /\ Move(p, "new", "starting")
    /\ \E s \in Sessions : session' = [session EXCEPT ![p] = s]
    /\ UNCHANGED <<table, stdout, printed, sent, link, inputVars, crashed>>

\* NewSPDYExecutor fails, or the goroutine goes on to the table.
MakeExecutor(p) ==
    /\ Move(p, "starting", "refused") \/ Move(p, "starting", "registering")
    /\ UNCHANGED <<session, table, stdout, printed, sent, link, inputVars, crashed>>

Register(p) ==
    /\ Move(p, "registering", "negotiating")
    /\ table' = [table EXCEPT ![session[p]] = p]
    /\ UNCHANGED <<session, stdout, printed, sent, link, inputVars, crashed>>

NegotiationFails(p) ==
    /\ Move(p, "negotiating", "failed")
    /\ UNCHANGED <<session, table, stdout, printed, sent, link, inputVars, crashed>>

\* The streams exist: the copiers and the resize loop start.
StreamStarts(p) ==
    /\ Move(p, "negotiating", "streaming")
    /\ link' = [link EXCEPT ![p] = "up"]
    /\ stdin' = [stdin EXCEPT ![p] = "ready"]
    /\ UNCHANGED <<session, table, stdout, printed, sent, input, target, lost, crashed>>

PrintChunk(p) ==
    /\ ~crashed
    /\ proc[p] = "streaming" /\ stdout[p] = "idle" /\ printed[p] < MaxOutput
    /\ stdout' = [stdout EXCEPT ![p] = "sending"]
    /\ printed' = [printed EXCEPT ![p] = @ + 1]
    /\ UNCHANGED <<proc, session, table, sent, link, inputVars, crashed>>

TakeOutput(p) ==
    /\ ~crashed /\ stdout[p] = "sending"
    /\ stdout' = [stdout EXCEPT ![p] = "idle"]
    /\ sent' = [sent EXCEPT ![p] = Append(@, "output")]
    /\ UNCHANGED <<proc, session, table, printed, link, inputVars, crashed>>

\* The connection to the API server breaks while the stream uses it.
LinkBreaks(p) ==
    /\ ~crashed /\ proc[p] \in {"streaming", "exited"} /\ link[p] = "up"
    /\ link' = [link EXCEPT ![p] = "down"]
    /\ UNCHANGED <<proc, session, table, stdout, printed, sent, inputVars, crashed>>

\* The shell exits, or the client sees that the connection is broken.
Exit(p) ==
    /\ Move(p, "streaming", "exited")
    /\ UNCHANGED <<session, table, stdout, printed, sent, link, inputVars, crashed>>

\* Mutation: Stream does not wait for the stdout copier.
StreamReturns_NoWait(p) ==
    /\ Move(p, "exited", "closed") \/ Move(p, "exited", "failed")
    /\ UNCHANGED <<session, table, stdout, printed, sent, link, inputVars, crashed>>

\* Mutation: Stream waits for an error that a clean exit does not send.
StreamReturns_Never(p) ==
    /\ ~crashed /\ proc[p] = "exited"
    /\ UNCHANGED vars

\* Stream waits until stdout is copied, and returns an error or none.
StreamReturns(p) ==
    /\ stdout[p] = "idle"
    /\ Move(p, "exited", "closed") \/ Move(p, "exited", "failed")
    /\ UNCHANGED <<session, table, stdout, printed, sent, link, inputVars, crashed>>

Returned(p) == proc[p] \in {"closed", "failed", "deleting", "over"}

\* Stream closes the connection as it returns: a goroutine of the library
\* shuts it down some time after that.
Shutdown(p) ==
    /\ ~crashed /\ Returned(p) /\ link[p] = "up"
    /\ link' = [link EXCEPT ![p] = "down"]
    /\ UNCHANGED <<proc, session, table, stdout, printed, sent, inputVars, crashed>>

\* The writer takes the last message: "Connection closed" or the error.
TakeLast(p) ==
    /\ \/ Move(p, "closed", "deleting") \/ Move(p, "failed", "deleting")
       \/ Move(p, "refused", "over")
    /\ sent' = [sent EXCEPT ![p] = Append(@, "last")]
    /\ UNCHANGED <<session, table, stdout, printed, link, inputVars, crashed>>

\* Mutation: the deferred delete empties the whole table.
Delete_All(p) ==
    /\ Move(p, "deleting", "over")
    /\ table' = [s \in Sessions |-> NoProcess]
    /\ UNCHANGED <<session, stdout, printed, sent, link, inputVars, crashed>>

\* The deferred delete removes the session id, whoever is registered by now.
Delete(p) ==
    /\ Move(p, "deleting", "over")
    /\ table' = [table EXCEPT ![session[p]] = NoProcess]
    /\ UNCHANGED <<session, stdout, printed, sent, link, inputVars, crashed>>

-----------------------------------------------------------------------------
(* STDIN.                                                                  *)

Become(i, state) == ~crashed /\ input' = [input EXCEPT ![i] = state]

StdIn(i) ==
    /\ input[i] = "new"
    /\ Become(i, "looking")
    /\ UNCHANGED <<stdin, target, lost, procVars, crashed>>

\* Mutation: the handler is used without a nil check.
LookUp_Unchecked(i) ==
    /\ input[i] = "looking"
    /\ target' = [target EXCEPT ![i] = table[SessionOf[i]]]
    /\ Become(i, IF i \in Resizes THEN "resizing" ELSE "typing")
    /\ UNCHANGED <<stdin, lost, procVars, crashed>>

LookUp(i) ==
    /\ input[i] = "looking"
    /\ target' = [target EXCEPT ![i] = table[SessionOf[i]]]
    /\ Become(i, IF target'[i] = NoProcess THEN "ParamsError"
                 ELSE IF i \in Resizes THEN "resizing" ELSE "typing")
    /\ UNCHANGED <<stdin, lost, procVars, crashed>>

\* The resize loop takes the size: it goes on for ever, stream or no stream.
TakeResize(i) ==
    /\ input[i] = "resizing" /\ stdin[target[i]] # "none"
    /\ Become(i, "typing")
    /\ UNCHANGED <<stdin, target, lost, procVars, crashed>>

Streams(p) == proc[p] = "streaming"
Ended(p) == proc[p] = "exited" \/ Returned(p)

\* Mutation: the copier goes on when it cannot write.
CopierAfter_KeepsOn(p) == "ready"

\* Mutation: the copier reads one input and returns.
CopierAfter_OneShot(p) == "gone"

\* A write fails on a connection that is down, and io.Copy returns; it sees
\* neither that the shell has exited nor that Stream has returned.
CopierAfter(p) == IF link[p] = "up" THEN "ready" ELSE "gone"

\* Whether an input has text is the server's choice; it matters here only.
TakeText(i) ==
    LET p == target[i] IN
    /\ stdin' = [stdin EXCEPT ![p] = CopierAfter(p)]
    /\ lost' = IF link[p] = "down" THEN [lost EXCEPT ![p] = @ \cup {i}] ELSE lost

\* Read returns 0 bytes and no error for an input that is empty or that it
\* cannot decode: io.Copy writes nothing and reads on.
TakeBlank == UNCHANGED <<stdin, lost>>

\* The stdin copier receives from InChan; ExecStdIn answers Success.
TakeInput(i) ==
    /\ input[i] = "typing" /\ stdin[target[i]] = "ready"
    /\ Become(i, "Success")
    /\ TakeText(i) \/ TakeBlank
    /\ UNCHANGED <<target, procVars, crashed>>

-----------------------------------------------------------------------------
\* A goroutine about to write execSessions meets another about to use it.
Crash ==
    /\ ~crashed
    /\ \E p \in Processes :
          /\ proc[p] \in {"registering", "deleting"}
          /\ \/ \E q \in Processes \ {p} : proc[q] \in {"registering", "deleting"}
             \/ \E i \in Inputs : input[i] = "looking"
    /\ crashed' = TRUE
    /\ UNCHANGED <<procVars, inputVars>>

ProcStep(p) ==
    \/ Exec(p) \/ MakeExecutor(p) \/ Register(p) \/ NegotiationFails(p) \/ StreamStarts(p)
    \/ PrintChunk(p) \/ TakeOutput(p) \/ LinkBreaks(p) \/ Exit(p) \/ StreamReturns(p)
    \/ Shutdown(p) \/ TakeLast(p) \/ Delete(p)
InputStep(i) == StdIn(i) \/ LookUp(i) \/ TakeResize(i) \/ TakeInput(i)

Next == \/ \E p \in Processes : ProcStep(p)
        \/ \E i \in Inputs : InputStep(i)
        \/ Crash

Spec == Init /\ [][Next]_vars

\* Goroutines run on, negotiations end, the writer and the copiers serve
\* whoever waits on a channel first come, first served.  The client sees that
\* its connection is broken.  A shell need not print, nor exit, nor the server
\* send anything, and a connection need neither break nor be shut down.
Fairness ==
    /\ \A p \in Processes :
          /\ WF_vars(MakeExecutor(p) \/ Register(p) \/ StreamReturns(p) \/ Delete(p))
          /\ WF_vars(NegotiationFails(p) \/ StreamStarts(p))
          /\ WF_vars(link[p] = "down" /\ Exit(p))
          /\ WF_vars(TakeOutput(p)) /\ WF_vars(TakeLast(p))
    /\ \A i \in Inputs :
          /\ WF_vars(LookUp(i))
          /\ SF_vars(TakeResize(i)) /\ SF_vars(TakeInput(i))

FairSpec == Spec /\ Fairness

-----------------------------------------------------------------------------
(* Properties.                                                             *)

\* The shape of the state; a STDIN goes on with a handler or not at all.
TypeOK ==
    /\ proc \in [Processes -> ProcStates]
    /\ session \in [Processes -> Sessions \cup {NoProcess}]
    /\ table \in [Sessions -> Processes \cup {NoProcess}]
    /\ stdout \in [Processes -> {"idle", "sending"}]
    /\ printed \in [Processes -> 0..MaxOutput]
    /\ link \in [Processes -> {"none", "up", "down"}]
    /\ stdin \in [Processes -> {"none", "ready", "gone"}]
    /\ sent \in [Processes -> Seq({"output", "last"})]
    /\ input \in [Inputs -> InputStates]
    /\ target \in [Inputs -> Processes \cup {NoProcess}]
    /\ \A i \in Inputs : input[i] \in {"resizing", "typing"} => target[i] # NoProcess
    /\ lost \in [Processes -> SUBSET Inputs]
    /\ crashed \in BOOLEAN

\* "Connection closed", or the error, is the last the server hears of a
\* process, and it hears it once, although another goroutine copies stdout.
LastIsLast ==
    \A p \in Processes : \A n \in DOMAIN sent[p] : sent[p][n] = "last" => n = Len(sent[p])

\* STDIN finds a terminal that is up under its session id, unless an EXEC
\* with the same id has registered since and is there still, or has ended and
\* taken with it the entry of the one that is up.
OnlyReuseHidesSession ==
    \A p \in Processes : proc[p] \in {"negotiating", "streaming", "exited"} =>
        LET holder == table[session[p]] IN
        \/ holder = p
        \/ \E q \in Processes \ {p} :
              /\ session[q] = session[p]
              /\ holder = q \/ (holder = NoProcess /\ proc[q] = "over")

\* Of the inputs with text, one at most is answered Success although the
\* terminal's connection was down and its write failed: the copier returns with
\* it, and the next ones are not answered at all.  Inputs of no text are not
\* counted, nor those written between the end of the shell and the shutdown.
AtMostOneInputLost ==
    \A p \in Processes : \A i, j \in lost[p] : i = j

\* A STDIN that found its session is answered, unless the process ends first
\* (then it blocks for ever) or the agent crashes.
StdInIsAnswered ==
    \A i \in Inputs :
        input[i] \in {"resizing", "typing"} ~>
            (input[i] = "Success" \/ crashed \/ \E p \in Processes : target[i] = p /\ Ended(p))

\* An EXEC leads to a terminal or to a last message, and a terminal whose
\* shell exits leads to a last message.
ExecConcludes ==
    \A p \in Processes :
        proc[p] \in {"starting", "exited"} ~> (Streams(p) \/ proc[p] = "over" \/ crashed)
=============================================================================
