------------------------------- MODULE PodLog -------------------------------
(***************************************************************************)
(* Following the log of a pod: OpenLog, logProcess, CloseLog and           *)
(* logHandler of pkg/container/resource/pod.go.                            *)
(*                                                                         *)
(* OPENLOG starts a goroutine and answers at once.  The goroutine opens    *)
(* the stream, enters its handler in logSessions and copies chunk by chunk *)
(* to SendResponse.  CLOSELOG looks the session up and closes the stream   *)
(* under the copier; it answers Success whether it found one or not.  The  *)
(* connection to the API server may also break: to the copier either is an *)
(* error of Read.                                                          *)
(* logSessions has no lock: Go throws a fatal error when it sees a write   *)
(* meet another access (Crash).                                            *)
(***************************************************************************)
EXTENDS Naturals

CONSTANTS Logs,        \* the OPENLOG requests, each with its goroutine
          Closes,      \* the CLOSELOG requests
          Sessions,    \* the session ids the server uses
          SessionOf,   \* the session id of each OPENLOG and each CLOSELOG
          NoLog,       \* no entry in logSessions
          MaxChunks    \* bound: chunks each log has

ASSUME LogAssumption ==
    /\ SessionOf \in [Logs \cup Closes -> Sessions]
    /\ NoLog \notin Logs
    /\ MaxChunks \in Nat

VARIABLES log,       \* where logProcess stands
          body,      \* the stream: open, at its end, closed, its connection broken
          chunks,    \* chunks each log has copied
          table,     \* logSessions
          close,     \* where each CLOSELOG stands
          heard,     \* history: what each CLOSELOG's sender knew, see Issue
          late,      \* history: chunks taken after the stream was closed
          errors,    \* history: error messages the writer took
          crashed    \* the runtime has stopped the agent

vars == <<log, body, chunks, table, close, heard, late, errors, crashed>>

\* "copying": in Read; "sending": a chunk is in SendResponse; "failed": the
\* error is; then the entry is deleted and the stream closed.
LogStates == {"new", "opening", "refused", "registering", "copying", "sending",
              "failed", "deleting", "over"}
BodyStates == {"none", "open", "eof", "broken", "closed"}

Init ==
    /\ log = [l \in Logs |-> "new"]
    /\ body = [l \in Logs |-> "none"]
    /\ chunks = [l \in Logs |-> 0]
    /\ table = [s \in Sessions |-> NoLog]
    /\ close = [c \in Closes |-> "new"]
    /\ heard = [c \in Closes |-> {}]
    /\ late = [l \in Logs |-> 0]
    /\ errors = [l \in Logs |-> 0]
    /\ crashed = FALSE

\* A goroutine runs on, as long as the runtime has not stopped the agent.
Move(l, from, to) ==
    ~crashed /\ log[l] = from /\ log' = [log EXCEPT ![l] = to]

-----------------------------------------------------------------------------
(* The goroutine of a log.                                                 *)

\* OPENLOG: answered with Success whatever comes of it.
OpenLog(l) ==
    /\ Move(l, "new", "opening")
    /\ UNCHANGED <<body, chunks, table, close, heard, late, errors, crashed>>

OpenStream(l) ==
    \/ /\ Move(l, "opening", "refused")
       /\ UNCHANGED <<body, chunks, table, close, heard, late, errors, crashed>>
    \/ /\ Move(l, "opening", "registering")
       /\ body' = [body EXCEPT ![l] = "open"]
       /\ UNCHANGED <<chunks, table, close, heard, late, errors, crashed>>

\* Mutation: the handler is never entered in the table.
Register_Forgotten(l) ==
    /\ Move(l, "registering", "copying")
    /\ UNCHANGED <<body, chunks, table, close, heard, late, errors, crashed>>

Register(l) ==
    /\ Move(l, "registering", "copying")
    /\ table' = [table EXCEPT ![SessionOf[l]] = l]
    /\ UNCHANGED <<body, chunks, close, heard, late, errors, crashed>>

\* Mutation: Read goes on returning what was buffered after a close.
ReadChunk_AfterClose(l) ==
    /\ chunks[l] < MaxChunks
    /\ Move(l, "copying", "sending")
    /\ chunks' = [chunks EXCEPT ![l] = @ + 1]
    /\ UNCHANGED <<body, table, close, heard, late, errors, crashed>>

ReadChunk(l) ==
    /\ body[l] = "open" /\ chunks[l] < MaxChunks
    /\ Move(l, "copying", "sending")
    /\ chunks' = [chunks EXCEPT ![l] = @ + 1]
    /\ UNCHANGED <<body, table, close, heard, late, errors, crashed>>

\* The writer takes the chunk.
TakeChunk(l) ==
    /\ Move(l, "sending", "copying")
    /\ late' = IF body[l] = "closed" THEN [late EXCEPT ![l] = @ + 1] ELSE late
    /\ UNCHANGED <<body, chunks, table, close, heard, errors, crashed>>

\* The container ends, so does its log.
LogEnds(l) ==
    /\ ~crashed
    /\ body[l] = "open" /\ log[l] \in {"copying", "sending"}
    /\ body' = [body EXCEPT ![l] = "eof"]
    /\ UNCHANGED <<log, chunks, table, close, heard, late, errors, crashed>>

\* The connection to the API server breaks: the next Read fails.
LinkBreaks(l) ==
    /\ ~crashed
    /\ body[l] = "open" /\ log[l] \in {"copying", "sending"}
    /\ body' = [body EXCEPT ![l] = "broken"]
    /\ UNCHANGED <<log, chunks, table, close, heard, late, errors, crashed>>

\* Mutation: the error of a closed or broken stream is taken for its end.
CopyEnds_Silent(l) ==
    /\ body[l] \in {"eof", "closed", "broken"} /\ Move(l, "copying", "deleting")
    /\ UNCHANGED <<body, chunks, table, close, heard, late, errors, crashed>>

\* io.Copy ends: without an error at the end of the log, with one when the
\* stream was closed under it or its connection broke.
CopyEnds(l) ==
    /\ \/ body[l] = "eof" /\ Move(l, "copying", "deleting")
       \/ body[l] \in {"closed", "broken"} /\ Move(l, "copying", "failed")
    /\ UNCHANGED <<body, chunks, table, close, heard, late, errors, crashed>>

\* Mutation: the error is sent twice.
TakeError_Twice(l) ==
    /\ Move(l, "refused", "over") \/ Move(l, "failed", "deleting")
    /\ errors' = [errors EXCEPT ![l] = @ + 2]
    /\ UNCHANGED <<body, chunks, table, close, heard, late, crashed>>

\* The writer takes the error message.
TakeError(l) ==
    /\ Move(l, "refused", "over") \/ Move(l, "failed", "deleting")
    /\ errors' = [errors EXCEPT ![l] = @ + 1]
    /\ UNCHANGED <<body, chunks, table, close, heard, late, crashed>>

\* The deferred delete, whoever is registered by now, and the deferred Close.
Delete(l) ==
    /\ Move(l, "deleting", "over")
    /\ table' = [table EXCEPT ![SessionOf[l]] = NoLog]
    /\ body' = [body EXCEPT ![l] = "closed"]
    /\ UNCHANGED <<chunks, close, heard, late, errors, crashed>>

-----------------------------------------------------------------------------
(* CLOSELOG.                                                               *)

\* The server sends a CLOSELOG.  It may have heard of the session: "heard"
\* holds the logs of the session of which it had a chunk by then.
Issue(c) ==
    /\ ~crashed /\ close[c] = "new"
    /\ close' = [close EXCEPT ![c] = "looking"]
    /\ heard' = [heard EXCEPT ![c] =
          {l \in Logs : /\ SessionOf[l] = SessionOf[c]
                        /\ chunks[l] > (IF log[l] = "sending" THEN 1 ELSE 0)}]
    /\ UNCHANGED <<log, body, chunks, table, late, errors, crashed>>

CloseLog(c) ==
    LET l == table[SessionOf[c]] IN
    /\ ~crashed /\ close[c] = "looking"
    /\ close' = [close EXCEPT ![c] = "Success"]
    /\ body' = IF l = NoLog THEN body ELSE [body EXCEPT ![l] = "closed"]
    /\ UNCHANGED <<log, chunks, table, heard, late, errors, crashed>>

\* A goroutine about to write logSessions meets another about to use it.
Crash ==
    /\ ~crashed
    /\ \E l \in Logs :
          /\ log[l] \in {"registering", "deleting"}
          /\ \/ \E m \in Logs \ {l} : log[m] \in {"registering", "deleting"}
             \/ \E c \in Closes : close[c] = "looking"
    /\ crashed' = TRUE
    /\ UNCHANGED <<log, body, chunks, table, close, heard, late, errors>>

Next ==
    \/ \E l \in Logs : \/ OpenLog(l) \/ OpenStream(l) \/ Register(l) \/ ReadChunk(l)
                       \/ TakeChunk(l) \/ LogEnds(l) \/ LinkBreaks(l) \/ CopyEnds(l)
                       \/ TakeError(l) \/ Delete(l)
    \/ \E c \in Closes : Issue(c) \/ CloseLog(c)
    \/ Crash

Spec == Init /\ [][Next]_vars

\* Goroutines run on, the API server answers, the writer serves whoever waits
\* first come, first served.  A container need not print, nor end, and no
\* connection need break.
Fairness ==
    /\ \A l \in Logs :
          /\ WF_vars(OpenStream(l) \/ Register(l) \/ CopyEnds(l) \/ Delete(l))
          /\ WF_vars(TakeChunk(l) \/ TakeError(l))
    /\ \A c \in Closes : WF_vars(CloseLog(c))

FairSpec == Spec /\ Fairness

-----------------------------------------------------------------------------
(* Properties.                                                             *)

\* The shape of the state.
TypeOK ==
    /\ log \in [Logs -> LogStates]
    /\ body \in [Logs -> BodyStates]
    /\ chunks \in [Logs -> 0..MaxChunks]
    /\ table \in [Sessions -> Logs \cup {NoLog}]
    /\ close \in [Closes -> {"new", "looking", "Success"}]
    /\ heard \in [Closes -> SUBSET Logs]
    /\ late \in [Logs -> 0..MaxChunks] /\ errors \in [Logs -> 0..1]
    /\ crashed \in BOOLEAN

\* After a CLOSELOG has closed the stream, one chunk that was being sent may
\* follow, and no more.
AtMostOneLateChunk ==
    \A l \in Logs :
        /\ late[l] <= 1
        /\ late[l] = 1 => log[l] # "sending"

\* A log whose stream is closed under the copier, or whose connection breaks,
\* ends: its server hears one error message and its entry is gone.
CloseEndsTheLog ==
    \A l \in Logs :
        (body[l] \in {"closed", "broken"} /\ log[l] \in {"copying", "sending"}) ~>
            \/ log[l] = "over" /\ errors[l] = 1 /\ table[SessionOf[l]] # l
            \/ crashed

\* The entry of l is another log's of the same session id, or was overwritten
\* and deleted by one that has ended.
Displaced(l) ==
    \E m \in Logs \ {l} :
        /\ SessionOf[m] = SessionOf[l]
        /\ \/ table[SessionOf[l]] = m
           \/ table[SessionOf[l]] = NoLog /\ log[m] = "over" /\ body[m] # "none"

\* A server that closes a session after a chunk of its log has arrived stops
\* that log, unless another log of the same session id has taken its entry.
\* (Before the first chunk the handler may not be registered: CLOSELOG is then
\* answered Success and the log goes on.)
CloseAfterChunkWorks ==
    \A c \in Closes : \A l \in Logs :
        l \in heard[c] ~> (log[l] = "over" \/ crashed \/ Displaced(l))
=============================================================================
