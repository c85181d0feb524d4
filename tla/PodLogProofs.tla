---------------------------- MODULE PodLogProofs ----------------------------
(***************************************************************************)
(* Proofs about PodLog, for every number of logs, closes, sessions and     *)
(* chunks.                                                                 *)
(***************************************************************************)
EXTENDS PodLog, TLAPS

\* What a chunk in the writer's way, a late chunk and an error message say of
\* where their log stands: a late chunk was taken after the stream was closed,
\* so Read returns no other.
ChunksAndErrors ==
    \A l \in Logs :
        /\ log[l] = "sending" => chunks[l] > 0
        /\ late[l] # 0 => /\ late[l] = 1 /\ chunks[l] > 0 /\ body[l] = "closed"
                          /\ log[l] \in {"copying", "failed", "deleting", "over"}
        /\ errors[l] # 0 => log[l] \in {"deleting", "over"}

\* An entry of logSessions is under its own session id, and its goroutine has
\* yet to delete it.
EntriesAreAlive ==
    \A s \in Sessions : table[s] # NoLog =>
        /\ SessionOf[table[s]] = s
        /\ log[table[s]] \in {"copying", "sending", "failed", "deleting"}

\* A stream is there from OpenStream on, and the copy fails when it was closed
\* or its connection broke.
StreamsAreKept ==
    \A l \in Logs :
        /\ log[l] = "registering" => body[l] = "open"
        /\ log[l] \in {"copying", "sending"} => body[l] # "none"
        /\ log[l] = "failed" => body[l] \in {"closed", "broken"}
        /\ log[l] = "deleting" => body[l] # "none"
        /\ log[l] \in {"new", "opening", "refused"} => body[l] = "none"

LogInv == TypeOK /\ ChunksAndErrors /\ EntriesAreAlive /\ StreamsAreKept

LEMMA InitLog == Init => LogInv
<1> SUFFICES ASSUME Init PROVE LogInv
  OBVIOUS
<1> USE LogAssumption DEF Init
<1>1. TypeOK
  <2>1. chunks \in [Logs -> 0..MaxChunks] /\ late \in [Logs -> 0..MaxChunks]
    <3>1. 0 \in 0..MaxChunks
      OBVIOUS
    <3> QED
      BY <3>1
  <2>2. errors \in [Logs -> 0..1]
    OBVIOUS
  <2> QED
    BY <2>1, <2>2 DEF TypeOK, LogStates, BodyStates
<1>2. ChunksAndErrors /\ EntriesAreAlive /\ StreamsAreKept
  BY DEF ChunksAndErrors, EntriesAreAlive, StreamsAreKept
<1> QED
  BY <1>1, <1>2 DEF LogInv

LEMMA NextLog ==
    ASSUME LogInv, [Next]_vars
    PROVE  LogInv'
<1> USE LogAssumption DEF LogInv, TypeOK, LogStates, BodyStates, ChunksAndErrors,
        EntriesAreAlive, StreamsAreKept, Move
<1>1. ASSUME NEW l \in Logs, OpenLog(l) PROVE LogInv'
  BY <1>1 DEF OpenLog
<1>2. ASSUME NEW l \in Logs, OpenStream(l) PROVE LogInv'
  BY <1>2 DEF OpenStream
<1>3. ASSUME NEW l \in Logs, Register(l) PROVE LogInv'
  BY <1>3 DEF Register
<1>4. ASSUME NEW l \in Logs, ReadChunk(l) PROVE LogInv'
  BY <1>4 DEF ReadChunk
<1>5. ASSUME NEW l \in Logs, TakeChunk(l) PROVE LogInv'
  BY <1>5 DEF TakeChunk
<1>6. ASSUME NEW l \in Logs, LogEnds(l) PROVE LogInv'
  BY <1>6 DEF LogEnds
<1>7. ASSUME NEW l \in Logs, CopyEnds(l) PROVE LogInv'
  BY <1>7 DEF CopyEnds
<1>8. ASSUME NEW l \in Logs, TakeError(l) PROVE LogInv'
  BY <1>8 DEF TakeError
<1>9. ASSUME NEW l \in Logs, Delete(l) PROVE LogInv'
  BY <1>9 DEF Delete
<1>10. ASSUME NEW c \in Closes, Issue(c) PROVE LogInv'
  BY <1>10 DEF Issue
<1>11. ASSUME NEW c \in Closes, CloseLog(c) PROVE LogInv'
  BY <1>11 DEF CloseLog
<1>12. CASE Crash
  BY <1>12 DEF Crash
<1>13. CASE UNCHANGED vars
  BY <1>13 DEF vars
<1>14. ASSUME NEW l \in Logs, LinkBreaks(l) PROVE LogInv'
  BY <1>14 DEF LinkBreaks
<1> QED
  BY <1>1, <1>2, <1>3, <1>4, <1>5, <1>6, <1>7, <1>8, <1>9, <1>10, <1>11, <1>12, <1>13, <1>14
     DEF Next

\* The goroutines of logs, their streams, the session map and the closes stay
\* in step; a copy fails only when its stream was closed or its connection broke.
THEOREM LogInvariant == Spec => []LogInv
BY InitLog, NextLog, PTL DEF Spec

\* The state of PodLog keeps its shape: no stream yields more chunks than its
\* log has, and the server hears of an error at most once per log.
THEOREM TypeCorrect == Spec => []TypeOK
<1>1. LogInv => TypeOK
  BY DEF LogInv
<1> QED
  BY <1>1, LogInvariant, PTL

\* After CLOSELOG closed a stream (pod.go), the copier under it lets at most
\* one chunk through, the one it was sending.
THEOREM OneLateChunk == Spec => []AtMostOneLateChunk
<1>1. LogInv => AtMostOneLateChunk
  <2> SUFFICES ASSUME LogInv, NEW l \in Logs
               PROVE  late[l] <= 1 /\ (late[l] = 1 => log[l] # "sending")
    BY DEF AtMostOneLateChunk
  <2>1. \/ late[l] = 0
        \/ late[l] = 1 /\ log[l] \in {"copying", "failed", "deleting", "over"}
    BY DEF LogInv, ChunksAndErrors
  <2> QED
    BY <2>1
<1> QED
  BY <1>1, LogInvariant, PTL

\* No entry of logSessions outlives its goroutine, even when a session id is
\* used again: each entry has a deferred delete still to come.
THEOREM SessionsAreFreed == Spec => []EntriesAreAlive
<1>1. LogInv => EntriesAreAlive
  BY DEF LogInv
<1> QED
  BY <1>1, LogInvariant, PTL

(***************************************************************************)
(* What a CLOSELOG reaches.  The server has heard of a log when a chunk of *)
(* it arrived, which is after the log was registered.                      *)
(***************************************************************************)
\* A log that has entered its handler and not yet deleted the entry.
IsRegistered(l) == log[l] \in {"copying", "sending", "failed", "deleting"}

\* A log has its entry before it copies a chunk, unless another took it.
RegisteredBeforeRead ==
    \A l \in Logs :
        /\ log[l] \in {"new", "opening", "refused", "registering"} => chunks[l] = 0
        /\ IsRegistered(l) => table[SessionOf[l]] = l \/ Displaced(l)

\* The sender of a CLOSELOG had chunks of the logs of its session.
HeardOfChunks ==
    \A c \in Closes : \A l \in heard[c] :
        SessionOf[l] = SessionOf[c] /\ chunks[l] > 0

\* A CLOSELOG that succeeded closed the stream of each log its sender knew,
\* if the log still had its entry.
CloseReachesWhatWasHeard ==
    \A c \in Closes : \A l \in heard[c] :
        close[c] = "Success" => body[l] = "closed" \/ log[l] = "over" \/ Displaced(l)

CloseInv == RegisteredBeforeRead /\ HeardOfChunks /\ CloseReachesWhatWasHeard

\* A log registers once, so what took its entry keeps it from it.
LEMMA DisplacedStays ==
    ASSUME LogInv, [Next]_vars, NEW l \in Logs, IsRegistered(l), Displaced(l)
    PROVE  Displaced(l)' \/ log'[l] = "over"
<1> USE LogAssumption DEF LogInv, TypeOK, Move
<1>1. PICK m \in Logs \ {l} :
         /\ SessionOf[m] = SessionOf[l]
         /\ \/ table[SessionOf[l]] = m
            \/ table[SessionOf[l]] = NoLog /\ log[m] = "over" /\ body[m] # "none"
  BY DEF Displaced
<1>2. CASE \E k \in Logs : Register(k)
  <2>1. PICK k \in Logs : Register(k)
    BY <1>2
  <2>2. k # l
    BY <2>1 DEF Register, IsRegistered
  <2>3. CASE SessionOf[k] = SessionOf[l]
    <3>1. table'[SessionOf[l]] = k
      BY <2>1, <2>3 DEF Register
    <3> QED
      BY <2>2, <2>3, <3>1 DEF Displaced
  <2>4. CASE SessionOf[k] # SessionOf[l]
    <3>1. UNCHANGED body /\ table'[SessionOf[l]] = table[SessionOf[l]]
      BY <2>1, <2>4 DEF Register
    <3>2. log[m] = "over" => log'[m] = "over"
      BY <2>1 DEF Register
    <3> QED
      BY <1>1, <3>1, <3>2 DEF Displaced
  <2> QED
    BY <2>3, <2>4
<1>3. CASE \E k \in Logs : Delete(k)
  <2>1. PICK k \in Logs : Delete(k)
    BY <1>3
  <2>2. /\ log' = [log EXCEPT ![k] = "over"] /\ body' = [body EXCEPT ![k] = "closed"]
        /\ table' = [table EXCEPT ![SessionOf[k]] = NoLog]
    BY <2>1 DEF Delete
  <2>3. CASE k = l
    BY <2>2, <2>3
  <2>4. CASE k # l /\ SessionOf[k] = SessionOf[l]
    BY <2>2, <2>4 DEF Displaced
  <2>5. CASE SessionOf[k] # SessionOf[l]
    <3>1. table'[SessionOf[l]] = table[SessionOf[l]]
      BY <2>2, <2>5
    <3>2. /\ log[m] = "over" => log'[m] = "over"
          /\ body[m] # "none" => body'[m] # "none"
      BY <2>2
    <3> QED
      BY <1>1, <3>1, <3>2 DEF Displaced
  <2> QED
    BY <2>3, <2>4, <2>5
<1>4. CASE ~(\E k \in Logs : Register(k) \/ Delete(k))
  <2>1. /\ UNCHANGED table
        /\ log[m] = "over" => log'[m] = "over"
        /\ body[m] # "none" => body'[m] # "none"
    BY <1>4 DEF Next, vars, OpenLog, OpenStream, ReadChunk, TakeChunk, LogEnds, LinkBreaks,
                CopyEnds, TakeError, Issue, CloseLog, Crash
  <2> QED
    BY <1>1, <2>1 DEF Displaced
<1> QED
  BY <1>2, <1>3, <1>4

\* A log of which the server has a chunk has registered.
LEMMA HeardIsRegistered ==
    ASSUME LogInv, CloseInv, NEW c \in Closes, NEW l \in heard[c]
    PROVE  IsRegistered(l) \/ log[l] = "over"
<1>1. l \in Logs /\ chunks[l] > 0
  BY DEF LogInv, TypeOK, CloseInv, HeardOfChunks
<1>2. log[l] \notin {"new", "opening", "refused", "registering"}
  BY <1>1 DEF CloseInv, RegisteredBeforeRead
<1> QED
  BY <1>1, <1>2 DEF LogInv, TypeOK, LogStates, IsRegistered

\* A goroutine that goes on with neither the sessions nor the closes.
LEMMA GoesOn ==
    ASSUME LogInv, CloseInv, [Next]_vars, UNCHANGED <<table, close, heard>>,
           \A l \in Logs :
              /\ chunks'[l] \in Nat /\ chunks[l] <= chunks'[l]
              /\ body[l] = "closed" => body'[l] = "closed"
              /\ log[l] = "over" => log'[l] = "over"
              /\ log'[l] \in {"new", "opening", "refused", "registering"} =>
                    chunks'[l] = chunks[l] /\ log[l] \in {"new", "opening", "refused", "registering"}
              /\ log'[l] \in {"copying", "sending", "failed", "deleting"} =>
                    log[l] \in {"copying", "sending", "failed", "deleting"}
    PROVE  CloseInv'
<1> USE DEF LogInv, TypeOK, CloseInv
<1>1. \A l \in Logs : IsRegistered(l) /\ Displaced(l) => Displaced(l)' \/ log'[l] = "over"
  BY DisplacedStays
<1>2. RegisteredBeforeRead'
  BY <1>1 DEF RegisteredBeforeRead, IsRegistered
<1>3. HeardOfChunks'
  <2> SUFFICES ASSUME NEW c \in Closes, NEW l \in heard[c]
               PROVE  SessionOf[l] = SessionOf[c] /\ chunks'[l] > 0
    BY DEF HeardOfChunks
  <2>1. l \in Logs /\ SessionOf[l] = SessionOf[c] /\ chunks[l] > 0 /\ chunks[l] \in Nat
    BY DEF HeardOfChunks
  <2> QED
    BY <2>1
<1>4. CloseReachesWhatWasHeard'
  <2>1. \A c \in Closes : \A l \in heard[c] : IsRegistered(l) \/ log[l] = "over"
    BY HeardIsRegistered
  <2> QED
    BY <1>1, <2>1 DEF CloseReachesWhatWasHeard
<1> QED
  BY <1>2, <1>3, <1>4

LEMMA NextClose ==
    ASSUME LogInv, CloseInv, [Next]_vars
    PROVE  CloseInv'
<1> USE LogAssumption DEF LogInv, TypeOK, LogStates, BodyStates, Move
<1>0. \A l \in Logs : IsRegistered(l) /\ Displaced(l) => Displaced(l)' \/ log'[l] = "over"
  BY DisplacedStays
<1>8. \A c \in Closes : \A l \in heard[c] : IsRegistered(l) \/ log[l] = "over"
  BY HeardIsRegistered
<1>1. ASSUME NEW l \in Logs,
             \/ OpenLog(l) \/ ReadChunk(l) \/ TakeChunk(l) \/ LogEnds(l)
             \/ LinkBreaks(l) \/ CopyEnds(l)
      PROVE  CloseInv'
  BY <1>1, GoesOn DEF OpenLog, ReadChunk, TakeChunk, LogEnds, LinkBreaks, CopyEnds
<1>2. ASSUME NEW l \in Logs, OpenStream(l) \/ TakeError(l) PROVE CloseInv'
  BY <1>2, GoesOn DEF OpenStream, TakeError, StreamsAreKept
<1>3. ASSUME NEW l \in Logs, Register(l) \/ Delete(l) PROVE CloseInv'
  <2>1. /\ log[l] \in {"registering", "deleting"} /\ log'[l] \in {"copying", "over"}
        /\ log'[l] = "copying" => table'[SessionOf[l]] = l
        /\ \A m \in Logs \ {l} : log'[m] = log[m]
        /\ \A s \in Sessions \ {SessionOf[l]} : table'[s] = table[s]
        /\ UNCHANGED <<chunks, close, heard>>
        /\ \A m \in Logs : body[m] = "closed" => body'[m] = "closed"
    BY <1>3 DEF Register, Delete
  <2>2. RegisteredBeforeRead'
    <3> SUFFICES ASSUME NEW m \in Logs
                 PROVE  /\ log'[m] \in {"new", "opening", "refused", "registering"} => chunks'[m] = 0
                        /\ IsRegistered(m)' => table'[SessionOf[m]] = m \/ Displaced(m)'
      BY DEF RegisteredBeforeRead
    <3>1. CASE m = l
      BY <1>3, <2>1, <3>1 DEF CloseInv, RegisteredBeforeRead, IsRegistered, Register, Delete
    <3>2. CASE m # l /\ ~IsRegistered(m)
      BY <2>1, <3>2 DEF CloseInv, RegisteredBeforeRead, IsRegistered
    <3>3. CASE m # l /\ IsRegistered(m)
      <4>1. log'[m] = log[m] /\ chunks'[m] = chunks[m] /\ log[m] # "over"
        BY <2>1, <3>3 DEF IsRegistered
      <4>2. CASE SessionOf[m] # SessionOf[l]
        BY <1>0, <2>1, <3>3, <4>1, <4>2 DEF CloseInv, RegisteredBeforeRead, IsRegistered
      <4>3. CASE SessionOf[m] = SessionOf[l]
        <5>1. \/ table'[SessionOf[m]] = l
              \/ table'[SessionOf[m]] = NoLog /\ log'[l] = "over" /\ body'[l] # "none"
          BY <1>3, <4>3 DEF Register, Delete
        <5>2. Displaced(m)'
          BY <3>3, <4>3, <5>1 DEF Displaced
        <5> QED
          BY <3>3, <4>1, <5>2 DEF CloseInv, RegisteredBeforeRead, IsRegistered
      <4> QED
        BY <4>2, <4>3
    <3> QED
      BY <3>1, <3>2, <3>3
  <2>3. HeardOfChunks' /\ CloseReachesWhatWasHeard'
    <3>1. \A m \in Logs : log[m] = "over" => log'[m] = "over"
      BY <2>1
    <3> QED
      BY <1>0, <1>8, <2>1, <3>1 DEF CloseInv, HeardOfChunks, CloseReachesWhatWasHeard
  <2> QED
    BY <2>2, <2>3 DEF CloseInv
<1>4. ASSUME NEW c \in Closes, Issue(c) PROVE CloseInv'
  <2>1. UNCHANGED <<log, body, chunks, table>> /\ close'[c] = "looking"
    BY <1>4 DEF Issue
  <2>2. RegisteredBeforeRead'
    BY <1>0, <2>1 DEF CloseInv, RegisteredBeforeRead, IsRegistered
  <2>3. HeardOfChunks'
    <3> SUFFICES ASSUME NEW d \in Closes, NEW l \in heard'[d]
                 PROVE  SessionOf[l] = SessionOf[d] /\ chunks[l] > 0
      BY <2>1 DEF HeardOfChunks
    <3>1. CASE d = c
      <4>1. l \in Logs /\ SessionOf[l] = SessionOf[c] /\ chunks[l] > (IF log[l] = "sending" THEN 1 ELSE 0)
        BY <1>4, <3>1 DEF Issue
      <4> QED
        BY <3>1, <4>1
    <3>2. CASE d # c
      BY <1>4, <3>2 DEF Issue, CloseInv, HeardOfChunks
    <3> QED
      BY <3>1, <3>2
  <2>4. CloseReachesWhatWasHeard'
    BY <1>0, <1>8, <1>4, <2>1 DEF Issue, CloseInv, CloseReachesWhatWasHeard
  <2> QED
    BY <2>2, <2>3, <2>4 DEF CloseInv
<1>5. ASSUME NEW c \in Closes, CloseLog(c) PROVE CloseInv'
  <2> DEFINE k == table[SessionOf[c]]
  <2>1. /\ UNCHANGED <<log, chunks, table, heard>> /\ close' = [close EXCEPT ![c] = "Success"]
        /\ body' = IF k = NoLog THEN body ELSE [body EXCEPT ![k] = "closed"]
    BY <1>5 DEF CloseLog
  <2>2. RegisteredBeforeRead' /\ HeardOfChunks'
    BY <1>0, <2>1 DEF CloseInv, RegisteredBeforeRead, IsRegistered, HeardOfChunks
  <2>3. CloseReachesWhatWasHeard'
    <3> SUFFICES ASSUME NEW d \in Closes, NEW l \in heard[d], close'[d] = "Success"
                 PROVE  body'[l] = "closed" \/ log[l] = "over" \/ Displaced(l)'
      BY <2>1 DEF CloseReachesWhatWasHeard
    <3>1. l \in Logs /\ SessionOf[l] = SessionOf[d] /\ chunks[l] > 0
      BY DEF CloseInv, HeardOfChunks
    <3>2. CASE d = c
      <4>1. IsRegistered(l) \/ log[l] = "over"
        BY <1>8
      <4>2. CASE k = l
        BY <2>1, <3>1, <4>2
      <4>3. CASE k # l
        BY <1>0, <2>1, <3>1, <3>2, <4>1, <4>3 DEF CloseInv, RegisteredBeforeRead
      <4> QED
        BY <4>2, <4>3
    <3>3. CASE d # c
      <4>1. close[d] = "Success"
        BY <2>1, <3>3
      <4>2. body[l] = "closed" => body'[l] = "closed"
        BY <2>1, <3>1
      <4> QED
        BY <1>0, <1>8, <2>1, <3>1, <4>1, <4>2 DEF CloseInv, CloseReachesWhatWasHeard
    <3> QED
      BY <3>2, <3>3
  <2> QED
    BY <2>2, <2>3 DEF CloseInv
<1>6. CASE Crash
  BY <1>6, GoesOn DEF Crash
<1>7. CASE UNCHANGED vars
  BY <1>7, GoesOn DEF vars
<1> QED
  BY <1>1, <1>2, <1>3, <1>4, <1>5, <1>6, <1>7 DEF Next

\* A CLOSELOG (pod.go) sent after a chunk of the log had arrived finds that
\* log's stream and closes it, unless it is over or another log of the session
\* id has taken its entry: the safety under CloseAfterChunkWorks.
THEOREM CloseIsNotMissed == Spec => []CloseReachesWhatWasHeard
<1>1. Init => CloseInv
  BY LogAssumption
     DEF Init, CloseInv, RegisteredBeforeRead, IsRegistered, HeardOfChunks, CloseReachesWhatWasHeard
<1>2. LogInv /\ CloseInv /\ [Next]_vars => CloseInv'
  BY NextClose
<1>3. CloseInv => CloseReachesWhatWasHeard
  BY DEF CloseInv
<1> QED
  BY <1>1, <1>2, <1>3, LogInvariant, PTL DEF Spec
=============================================================================
