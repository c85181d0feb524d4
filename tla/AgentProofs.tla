----------------------------- MODULE AgentProofs -----------------------------
(***************************************************************************)
(* Proofs about Agent, for every number of requests, sources, connections  *)
(* and events.                                                             *)
(***************************************************************************)
EXTENDS AgentWatch, TLAPS, FiniteSetTheorems, SequenceTheorems

\* What SendResponse is given is an item, and a reply is no event.
LEMMA ItemTypes ==
    /\ \A r \in Requests : Reply(r) \in Items
    /\ \A s \in Sources : \A n \in 0..MaxEvents : Event(s, n) \in Items
    /\ \A r \in Requests, s \in Sources : \A n : Reply(r) # Event(s, n)
    /\ \A r, q \in Requests : Reply(r) = Reply(q) => r = q
BY AgentAssumption DEF Reply, Event, Items, Callers

\* The state of Agent keeps its shape: no handler, reader or writer ever
\* leaves the program counters and reply codes of the code it models.
THEOREM TypeCorrect == Spec => []TypeOK
<1>1. Init => TypeOK
  BY AgentAssumption DEF Init, TypeOK, Idle, Items, Conns, LinkStates, ReaderStates,
     ReqStates, Codes, Causes
<1>2. TypeOK /\ [Next]_vars => TypeOK'
  <2> SUFFICES ASSUME TypeOK, [Next]_vars PROVE TypeOK'
    OBVIOUS
  <2> USE AgentAssumption DEF TypeOK, Conns, LinkStates, ReaderStates, ReqStates,
      Codes, Causes
  <2>1. CASE ReaderNext
    <3>1. CASE ConnectSucceeds
      BY <3>1 DEF ConnectSucceeds, agentVars
    <3>2. CASE ConnectFails
      BY <3>2 DEF ConnectFails, agentVars
    <3>3. CASE ReadFails
      BY <3>3 DEF ReadFails, agentVars
    <3>4. CASE CloseConn
      BY <3>4 DEF CloseConn, agentVars
    <3>5. ASSUME NEW r \in Requests, ReadMalformed(r) PROVE TypeOK'
      BY <3>5 DEF ReadMalformed
    <3>6. ASSUME NEW r \in Requests, ReadMessage(r) PROVE TypeOK'
      BY <3>6 DEF ReadMessage
    <3>7. ASSUME NEW r \in Requests, HandOver(r) PROVE TypeOK'
      BY <3>7 DEF HandOver
    <3> QED
      BY <2>1, <3>1, <3>2, <3>3, <3>4, <3>5, <3>6, <3>7 DEF ReaderNext
  <2>2. CASE WriterNext
    <3>1. CASE SerializerFails
      BY <3>1 DEF SerializerFails, Idle
    <3>2. CASE LoadConn
      <4>1. writer \in [pc : {"encode", "write"}, item : Items, conn : 0..MaxConn]
        BY <3>2 DEF LoadConn, Idle
      <4>2. writer' \in [pc : {"encode", "write"}, item : Items, conn : 0..MaxConn]
        BY <3>2, <4>1 DEF LoadConn
      <4> QED
        BY <3>2, <4>2 DEF LoadConn
    <3>3. CASE WriteSucceeds
      BY <3>3 DEF WriteSucceeds, Idle
    <3>4. CASE WriteFails
      BY <3>4 DEF WriteFails, Idle
    <3>5. ASSUME NEW r \in Requests, TakeReply(r) PROVE TypeOK'
      BY <3>5 DEF TakeReply, Take, Reply, Items, Callers
    <3>6. ASSUME NEW s \in Sources, TakeEvent(s) PROVE TypeOK'
      BY <3>6 DEF TakeEvent, Take, Event, Items, Callers
    <3> QED
      BY <2>2, <3>1, <3>2, <3>3, <3>4, <3>5, <3>6 DEF WriterNext
  <2>3. ASSUME NEW r \in Requests, DoRequest(r) PROVE TypeOK'
    BY <2>3 DEF DoRequest, ReplyCodes
  <2>4. ASSUME NEW r \in Requests, SendReply(r) PROVE TypeOK'
    <3>1. CASE DroppedAtSend(Reply(r))
      BY <2>4, <3>1, ItemTypes DEF SendReply
    <3>2. CASE ~DroppedAtSend(Reply(r))
      BY <2>4, <3>2 DEF SendReply
    <3> QED
      BY <3>1, <3>2
  <2>5. ASSUME NEW s \in Sources, Push(s) PROVE TypeOK'
    <3>1. event' \in [Sources -> 0..MaxEvents] /\ Event(s, event'[s]) \in Items
      <4>1. event[s] + 1 \in 0..MaxEvents
        BY <2>5 DEF Push
      <4> QED
        BY <2>5, <4>1, ItemTypes DEF Push
    <3>2. CASE DroppedAtSend(Event(s, event'[s]))
      BY <2>5, <3>1, <3>2 DEF Push
    <3>3. CASE ~DroppedAtSend(Event(s, event'[s]))
      BY <2>5, <3>1, <3>3 DEF Push
    <3> QED
      BY <3>2, <3>3
  <2>6. CASE LinkBreaks
    BY <2>6 DEF LinkBreaks, agentVars
  <2>7. CASE UNCHANGED vars
    BY <2>7 DEF vars
  <2> QED
    BY <2>1, <2>2, <2>3, <2>4, <2>5, <2>6, <2>7 DEF Next
<1> QED
  BY <1>1, <1>2, PTL DEF Spec

(***************************************************************************)
(* The transport invariant.  Every step is taken by one goroutine, and     *)
(* what it may rely on about the others is a conjunct of TransportInv.     *)
(***************************************************************************)
LEMMA InitTransport == Init => TransportInv
BY AgentAssumption
   DEF Init, Idle, Conns, TransportInv, NilCheckSuffices, StaleConnsClosed, ReaderHoldsConn,
       OneHandOver, SendersHaveConn, WriterHasConn, LossIsOld

LEMMA NextTransport ==
    ASSUME TypeOK, TransportInv, [Next]_vars
    PROVE  TransportInv'
<1> USE AgentAssumption, ItemTypes
    DEF TypeOK, Conns, TransportInv, NilCheckSuffices, StaleConnsClosed, ReaderHoldsConn,
        OneHandOver, SendersHaveConn, WriterHasConn, LossIsOld
<1>1. CASE ConnectSucceeds
  BY <1>1 DEF ConnectSucceeds, agentVars
<1>2. CASE ConnectFails
  BY <1>2 DEF ConnectFails, agentVars
<1>3. CASE ReadFails
  BY <1>3 DEF ReadFails, agentVars
<1>4. CASE CloseConn
  BY <1>4 DEF CloseConn, agentVars
<1>5. ASSUME NEW r \in Requests, ReadMalformed(r) PROVE TransportInv'
  BY <1>5 DEF ReadMalformed, CanRead
<1>6. ASSUME NEW r \in Requests, ReadMessage(r) PROVE TransportInv'
  BY <1>6 DEF ReadMessage, CanRead
<1>7. ASSUME NEW r \in Requests, HandOver(r) PROVE TransportInv'
  BY <1>7 DEF HandOver
<1>8. ASSUME NEW r \in Requests, DoRequest(r) PROVE TransportInv'
  BY <1>8 DEF DoRequest
<1>9. ASSUME NEW r \in Requests, SendReply(r) PROVE TransportInv'
  <2>1. ~DroppedAtSend(Reply(r))
    BY <1>9 DEF SendReply, DroppedAtSend
  <2>2. req' = [req EXCEPT ![r] = "blocked"] /\ UNCHANGED <<conn, link, reader, on, source, writer, dropped>>
    BY <1>9, <2>1 DEF SendReply
  <2> QED
    BY <1>9, <2>2 DEF SendReply
<1>10. ASSUME NEW s \in Sources, Push(s) PROVE TransportInv'
  BY <1>10 DEF Push, DroppedAtSend
<1>11. ASSUME NEW r \in Requests, TakeReply(r) PROVE TransportInv'
  BY <1>11 DEF TakeReply, Take, Idle
<1>12. ASSUME NEW s \in Sources, TakeEvent(s) PROVE TransportInv'
  BY <1>12 DEF TakeEvent, Take, Idle
<1>13. CASE SerializerFails
  BY <1>13 DEF SerializerFails, Idle
<1>14. CASE LoadConn
  BY <1>14 DEF LoadConn, Idle
<1>15. CASE WriteSucceeds
  BY <1>15 DEF WriteSucceeds, Idle
<1>16. CASE WriteFails
  <2>1. writer # Idle /\ writer.pc = "write" /\ link[writer.conn] \in {"broken", "closed"}
    BY <1>16 DEF WriteFails, Idle
  <2>2. LossIsOld'
    <3> SUFFICES ASSUME NEW r \in Requests, <<Reply(r), "write">> \in dropped'
                 PROVE  req[r] = "returned" /\ link[on[r]] # "open"
      BY <1>16 DEF WriteFails
    <3>1. CASE <<Reply(r), "write">> \in dropped
      BY <3>1
    <3>2. CASE writer.item = Reply(r)
      <4>a. req[r] = "returned" /\ on[r] <= writer.conn /\ writer.conn \in 1..conn
        BY <2>1, <3>2
      <4>b. on[r] \in 0..MaxConn /\ on[r] > 0 /\ on[r] <= conn /\ conn \in 0..MaxConn
        BY <4>a
      <4>1. req[r] = "returned" /\ on[r] \in 1..conn /\ on[r] <= writer.conn /\ writer.conn \in 1..conn
        BY <4>a, <4>b
      <4>2. CASE on[r] = writer.conn
        BY <2>1, <4>1, <4>2
      <4>3. CASE on[r] < writer.conn
        BY <4>1, <4>3
      <4> QED
        BY <4>1, <4>2, <4>3
    <3> QED
      BY <1>16, <3>1, <3>2 DEF WriteFails
  <2> QED
    BY <1>16, <2>2 DEF WriteFails, Idle
<1>17. CASE LinkBreaks
  BY <1>17 DEF LinkBreaks, agentVars
<1>18. CASE UNCHANGED vars
  BY <1>18 DEF vars
<1> QED
  BY <1>1, <1>2, <1>3, <1>4, <1>5, <1>6, <1>7, <1>8, <1>9, <1>10, <1>11, <1>12, <1>13, <1>14, <1>15, <1>16, <1>17, <1>18 DEF Next, ReaderNext, WriterNext
\* The goroutines agree on the live connection, in every reachable state.
THEOREM TransportInvariant == Spec => [](TypeOK /\ TransportInv)
<1>1. Spec => []TypeOK
  BY TypeCorrect
<1>2. Init => TransportInv
  BY InitTransport
<1>3. TypeOK /\ TransportInv /\ [Next]_vars => TransportInv'
  BY NextTransport
<1> QED
  BY <1>1, <1>2, <1>3, PTL DEF Spec

\* WriteResponse never dereferences a nil connection, and SendResponse's nil
\* check never costs a request its reply.
THEOREM NilCheck == Spec => []NilCheckSuffices
<1>1. TransportInv => NilCheckSuffices
  BY DEF TransportInv
<1> QED
  BY <1>1, TransportInvariant, PTL

\* Reconnecting closes every connection but the one in use.
THEOREM NoConnectionLeak == Spec => []StaleConnsClosed
<1>1. TransportInv => StaleConnsClosed
  BY DEF TransportInv
<1> QED
  BY <1>1, TransportInvariant, PTL

\* A reply is only lost to a write error after its request's connection went.
THEOREM RepliesSurvive == Spec => []LossNeedsBrokenLink
<1>1. TransportInv => LossNeedsBrokenLink
  BY DEF TransportInv, LossIsOld, LossNeedsBrokenLink
<1> QED
  BY <1>1, TransportInvariant, PTL

\* The writer, working with the pointer it loaded, writes to no connection
\* that has been replaced.
THEOREM NoStaleWrite == Spec => WritesGoToCurrentConn
<1>1. TypeOK /\ TransportInv /\ [Next]_vars => [\A w \in written' \ written : w[2] = conn]_vars
  <2> SUFFICES ASSUME TypeOK, TransportInv, Next, NEW w \in written' \ written
               PROVE  w[2] = conn
    OBVIOUS
  <2>1. WriteSucceeds
    BY DEF Next, ReaderNext, WriterNext, ConnectSucceeds, ConnectFails, ReadFails, CloseConn,
       ReadMalformed, ReadMessage, HandOver, DoRequest, SendReply, Push, Take, TakeReply,
       TakeEvent, SerializerFails, LoadConn, WriteFails, LinkBreaks, agentVars
  <2>2. w[2] = writer.conn /\ writer.conn \in 1..conn
    BY <2>1 DEF WriteSucceeds, TransportInv, WriterHasConn
  <2>3. link[writer.conn] # "closed"
    BY <2>1 DEF WriteSucceeds
  <2> QED
    BY <2>2, <2>3, AgentAssumption DEF TypeOK, Conns, TransportInv, StaleConnsClosed
<1> QED
  BY <1>1, TransportInvariant, PTL DEF Spec, WritesGoToCurrentConn
(***************************************************************************)
(* Every item is in one place.  The places of an item are told apart       *)
(* without counting; each step moves one item or none.                     *)
(***************************************************************************)
Nowhere(i) == Written(i) = {} /\ Dropped(i) = {} /\ ~AtCaller(i) /\ ~AtWriter(i)

InOnePlace(i) ==
    \/ Written(i) = {} /\ Dropped(i) = {} /\ AtCaller(i) /\ ~AtWriter(i)
    \/ Written(i) = {} /\ Dropped(i) = {} /\ ~AtCaller(i) /\ AtWriter(i)
    \/ ~AtCaller(i) /\ ~AtWriter(i) /\ Dropped(i) = {} /\ \E w \in Written(i) : Written(i) = {w}
    \/ ~AtCaller(i) /\ ~AtWriter(i) /\ Written(i) = {} /\ \E d \in Dropped(i) : Dropped(i) = {d}

Placed(i) == IF Sent(i) THEN InOnePlace(i) ELSE Nowhere(i)

\* An item for which nothing changes stays where it is.
LEMMA StaysPlaced ==
    ASSUME NEW i, Placed(i), AtCaller(i)' <=> AtCaller(i), AtWriter(i)' <=> AtWriter(i),
           Sent(i)' <=> Sent(i), Written(i)' = Written(i), Dropped(i)' = Dropped(i)
    PROVE  Placed(i)'
BY DEF Placed, InOnePlace, Nowhere

\* A step of the reader or of a handler that hands in nothing.
LEMMA NothingMoves ==
    ASSUME NEW i, Placed(i), UNCHANGED <<source, event, writer, written, dropped>>,
           \A r \in Requests : /\ req'[r] = "blocked" <=> req[r] = "blocked"
                               /\ req'[r] = "returned" <=> req[r] = "returned"
    PROVE  Placed(i)'
<1>1. (AtCaller(i)' <=> AtCaller(i)) /\ (Sent(i)' <=> Sent(i))
  BY DEF AtCaller, Sent
<1>2. (AtWriter(i)' <=> AtWriter(i)) /\ Written(i)' = Written(i) /\ Dropped(i)' = Dropped(i)
  BY DEF AtWriter, Written, Dropped
<1> QED
  BY <1>1, <1>2, StaysPlaced

LEMMA ReplyPlaced ==
    ASSUME TypeOK, TransportInv, NEW i, Placed(i), NEW r \in Requests, SendReply(r)
    PROVE  Placed(i)'
<1> USE AgentAssumption DEF TypeOK
<1>1. /\ req[r] = "replying" /\ req' = [req EXCEPT ![r] = "blocked"]
      /\ UNCHANGED <<source, event, writer, written, dropped>>
  BY DEF SendReply, DroppedAtSend, TransportInv, SendersHaveConn
<1>2. (AtWriter(i)' <=> AtWriter(i)) /\ Written(i)' = Written(i) /\ Dropped(i)' = Dropped(i)
  BY <1>1 DEF AtWriter, Written, Dropped
<1>3. CASE i = Reply(r)
  <2>1. ~Sent(i) /\ Sent(i)' /\ AtCaller(i)'
    BY <1>1, <1>3 DEF Sent, AtCaller, Reply, Event
  <2> QED
    BY <1>2, <2>1 DEF Placed, InOnePlace, Nowhere
<1>4. CASE i # Reply(r)
  <2>1. (AtCaller(i)' <=> AtCaller(i)) /\ (Sent(i)' <=> Sent(i))
    BY <1>1, <1>4 DEF Sent, AtCaller
  <2> QED
    BY <1>2, <2>1, StaysPlaced
<1> QED
  BY <1>3, <1>4

LEMMA PushPlaced ==
    ASSUME TypeOK, NEW i \in Items, Placed(i), NEW s \in Sources, Push(s)
    PROVE  Placed(i)'
<1> USE AgentAssumption DEF TypeOK
<1>1. /\ source[s] = "idle" /\ event[s] \in Nat /\ event'[s] = event[s] + 1
      /\ event' = [event EXCEPT ![s] = event'[s]]
      /\ UNCHANGED <<req, writer, written>>
      /\ \A q \in Sources \ {s} : source'[q] = source[q]
  BY DEF Push
<1>2. (AtWriter(i)' <=> AtWriter(i)) /\ Written(i)' = Written(i)
  BY <1>1 DEF AtWriter, Written
<1>3. CASE i = Event(s, event'[s])
  <2>1. ~Sent(i) /\ Sent(i)'
    BY <1>1, <1>3 DEF Sent, Reply, Event
  <2>2. CASE DroppedAtSend(Event(s, event'[s]))
    <3>1. source' = source /\ dropped' = dropped \cup {<<i, "nil">>}
      BY <1>3, <2>2 DEF Push
    <3>2. ~AtCaller(i)'
      BY <1>1, <1>3, <3>1 DEF AtCaller, Reply, Event
    <3>3. Dropped(i)' = Dropped(i) \cup {<<i, "nil">>}
      BY <3>1 DEF Dropped
    <3>4. Nowhere(i)
      BY <2>1 DEF Placed
    <3>5. Dropped(i)' = {<<i, "nil">>} /\ Written(i)' = {} /\ ~AtWriter(i)'
      BY <1>2, <3>3, <3>4 DEF Nowhere
    <3> QED
      BY <2>1, <3>2, <3>5 DEF Placed, InOnePlace
  <2>3. CASE ~DroppedAtSend(Event(s, event'[s]))
    <3>1. source'[s] = "blocked" /\ dropped' = dropped
      BY <2>3 DEF Push
    <3>2. AtCaller(i)' /\ Dropped(i)' = Dropped(i)
      BY <1>3, <3>1 DEF AtCaller, Dropped
    <3> QED
      BY <1>2, <2>1, <3>2 DEF Placed, InOnePlace, Nowhere
  <2> QED
    BY <2>2, <2>3
<1>4. CASE i # Event(s, event'[s])
  <2>1. Sent(i)' <=> Sent(i)
    <3>1. ASSUME NEW n \in Nat PROVE n \in 1..event'[s] <=> n \in 1..event[s] \/ n = event'[s]
      BY <1>1
    <3>2. ASSUME NEW q \in Sources \ {s} PROVE event'[q] = event[q]
      BY <1>1
    <3> QED
      BY <1>1, <1>4, <3>1, <3>2 DEF Sent
  <2>2. AtCaller(i)' <=> AtCaller(i)
    <3>1. ASSUME NEW q \in Sources
          PROVE  source'[q] = "blocked" /\ i = Event(q, event'[q]) <=>
                 source[q] = "blocked" /\ i = Event(q, event[q])
      BY <1>1, <1>4
    <3> QED
      BY <1>1, <3>1 DEF AtCaller
  <2>3. Dropped(i)' = Dropped(i)
    BY <1>4 DEF Push, Dropped
  <2> QED
    BY <1>2, <2>1, <2>2, <2>3, StaysPlaced
<1> QED
  BY <1>3, <1>4

LEMMA TakePlaced ==
    ASSUME TypeOK, NEW i, Placed(i),
           \/ \E r \in Requests : TakeReply(r)
           \/ \E s \in Sources : TakeEvent(s)
    PROVE  Placed(i)'
<1> USE AgentAssumption DEF TypeOK
<1>1. PICK item : AtCaller(item) /\ Take(item)
  BY DEF TakeReply, TakeEvent, AtCaller
<1>2. /\ ~AtWriter(i) /\ (AtWriter(i)' <=> i = item)
      /\ Written(i)' = Written(i) /\ Dropped(i)' = Dropped(i)
  BY <1>1 DEF Take, Idle, AtWriter, Written, Dropped
<1>3. AtCaller(i)' <=> AtCaller(i) /\ i # item
  <2>1. CASE \E r \in Requests : TakeReply(r)
    <3>1. PICK r \in Requests : TakeReply(r)
      BY <2>1
    <3>2. item = Reply(r) /\ req[r] = "blocked" /\ req' = [req EXCEPT ![r] = "returned"]
          /\ UNCHANGED <<source, event>>
      BY <1>1, <3>1 DEF TakeReply, Take
    <3> QED
      BY <3>2 DEF AtCaller, Reply, Event
  <2>2. CASE \E s \in Sources : TakeEvent(s)
    <3>1. PICK s \in Sources : TakeEvent(s)
      BY <2>2
    <3>2. item = Event(s, event[s]) /\ source' = [source EXCEPT ![s] = "idle"]
          /\ UNCHANGED <<req, event>>
      BY <1>1, <3>1 DEF TakeEvent, Take
    <3> QED
      BY <3>2 DEF AtCaller, Reply, Event
  <2> QED
    BY <2>1, <2>2
<1>4. Sent(i)' <=> Sent(i)
  BY DEF TakeReply, TakeEvent, Take, Sent
<1>5. AtCaller(i) => Sent(i)
  BY DEF Placed, Nowhere
<1> QED
  BY <1>1, <1>2, <1>3, <1>4, <1>5 DEF Placed, InOnePlace, Nowhere

LEMMA WriterPlaced ==
    ASSUME NEW i, Placed(i), SerializerFails \/ LoadConn \/ WriteSucceeds \/ WriteFails
    PROVE  Placed(i)'
<1>1. (AtCaller(i)' <=> AtCaller(i)) /\ (Sent(i)' <=> Sent(i))
  BY DEF SerializerFails, LoadConn, WriteSucceeds, WriteFails, AtCaller, Sent
<1>2. CASE LoadConn
  <2>1. (AtWriter(i)' <=> AtWriter(i)) /\ Written(i)' = Written(i) /\ Dropped(i)' = Dropped(i)
    BY <1>2 DEF LoadConn, AtWriter, Written, Dropped
  <2> QED
    BY <1>1, <2>1, StaysPlaced
<1>3. CASE WriteSucceeds
  <2>1. ~AtWriter(i)' /\ Dropped(i)' = Dropped(i)
    BY <1>3 DEF WriteSucceeds, Idle, AtWriter, Dropped
  <2>2. AtWriter(i) <=> writer.item = i
    BY <1>3 DEF WriteSucceeds, AtWriter
  <2>3. Written(i)' = IF AtWriter(i) THEN Written(i) \cup {<<i, writer.conn>>} ELSE Written(i)
    BY <1>3, <2>2 DEF WriteSucceeds, Written
  <2> QED
    BY <1>1, <2>1, <2>3 DEF Placed, InOnePlace, Nowhere
<1>4. CASE SerializerFails \/ WriteFails
  <2>1. ~AtWriter(i)' /\ Written(i)' = Written(i)
    BY <1>4 DEF SerializerFails, WriteFails, Idle, AtWriter, Written
  <2>2. AtWriter(i) <=> writer.item = i
    BY <1>4 DEF SerializerFails, WriteFails, AtWriter
  <2>3. PICK cause : dropped' = dropped \cup {<<writer.item, cause>>}
    BY <1>4 DEF SerializerFails, WriteFails
  <2>4. Dropped(i)' = IF AtWriter(i) THEN Dropped(i) \cup {<<i, cause>>} ELSE Dropped(i)
    BY <2>2, <2>3 DEF Dropped
  <2> QED
    BY <1>1, <2>1, <2>4 DEF Placed, InOnePlace, Nowhere
<1> QED
  BY <1>2, <1>3, <1>4
LEMMA NextPlaced ==
    ASSUME TypeOK, TransportInv, [Next]_vars, NEW i \in Items, Placed(i)
    PROVE  Placed(i)'
<1> USE DEF TypeOK
<1>1. CASE ConnectSucceeds \/ ConnectFails \/ ReadFails \/ CloseConn \/ LinkBreaks
  BY <1>1, NothingMoves
     DEF ConnectSucceeds, ConnectFails, ReadFails, CloseConn, LinkBreaks, agentVars
<1>2. ASSUME NEW r \in Requests,
             ReadMalformed(r) \/ ReadMessage(r) \/ HandOver(r) \/ DoRequest(r)
      PROVE  Placed(i)'
  <2>1. UNCHANGED <<source, event, writer, written, dropped>>
    BY <1>2 DEF ReadMalformed, ReadMessage, HandOver, DoRequest
  <2>2. PICK to \in {"skipped", "handing", "running", "replying"} : req' = [req EXCEPT ![r] = to]
    BY <1>2 DEF ReadMalformed, ReadMessage, HandOver, DoRequest
  <2>3. req[r] \in {"unread", "handing", "running"}
    BY <1>2 DEF ReadMalformed, ReadMessage, HandOver, DoRequest
  <2> QED
    BY <2>1, <2>2, <2>3, NothingMoves
<1>3. ASSUME NEW r \in Requests, SendReply(r) PROVE Placed(i)'
  BY <1>3, ReplyPlaced
<1>4. ASSUME NEW s \in Sources, Push(s) PROVE Placed(i)'
  BY <1>4, PushPlaced
<1>5. ASSUME NEW r \in Requests, TakeReply(r) PROVE Placed(i)'
  BY <1>5, TakePlaced
<1>6. ASSUME NEW s \in Sources, TakeEvent(s) PROVE Placed(i)'
  BY <1>6, TakePlaced
<1>7. CASE SerializerFails \/ LoadConn \/ WriteSucceeds \/ WriteFails
  BY <1>7, WriterPlaced
<1>8. CASE UNCHANGED vars
  BY <1>8, NothingMoves DEF vars
<1> QED
  BY <1>1, <1>2, <1>3, <1>4, <1>5, <1>6, <1>7, <1>8 DEF Next, ReaderNext, WriterNext

\* The four places, counted.
LEMMA PlacesAddUp ==
    ASSUME \A i \in Items : Placed(i)
    PROVE  ExactlyOnePlace
<1> SUFFICES ASSUME NEW i \in Items
             PROVE  IF Sent(i)
                      THEN Cardinality(Written(i)) + Cardinality(Dropped(i))
                             + (IF AtCaller(i) THEN 1 ELSE 0) + (IF AtWriter(i) THEN 1 ELSE 0) = 1
                      ELSE Written(i) = {} /\ Dropped(i) = {} /\ ~AtWriter(i)
  BY DEF ExactlyOnePlace
<1>1. Cardinality({}) = 0 /\ \A x : Cardinality({x}) = 1
  BY FS_EmptySet, FS_Singleton
<1>2. CASE ~Sent(i)
  BY <1>2 DEF Placed, Nowhere
<1>3. CASE Sent(i)
  <2>1. InOnePlace(i)
    BY <1>3 DEF Placed
  <2>2. CASE Written(i) = {} /\ Dropped(i) = {} /\ AtCaller(i) /\ ~AtWriter(i)
    BY <1>1, <1>3, <2>2
  <2>3. CASE Written(i) = {} /\ Dropped(i) = {} /\ ~AtCaller(i) /\ AtWriter(i)
    BY <1>1, <1>3, <2>3
  <2>4. CASE ~AtCaller(i) /\ ~AtWriter(i) /\ Dropped(i) = {} /\ \E w \in Written(i) : Written(i) = {w}
    <3>1. Cardinality(Written(i)) = 1 /\ Cardinality(Dropped(i)) = 0
      BY <1>1, <2>4
    <3> QED
      BY <1>3, <2>4, <3>1
  <2>5. CASE ~AtCaller(i) /\ ~AtWriter(i) /\ Written(i) = {} /\ \E d \in Dropped(i) : Dropped(i) = {d}
    <3>1. Cardinality(Written(i)) = 0 /\ Cardinality(Dropped(i)) = 1
      BY <1>1, <2>5
    <3> QED
      BY <1>3, <2>5, <3>1
  <2> QED
    BY <2>1, <2>2, <2>3, <2>4, <2>5 DEF InOnePlace
<1> QED
  BY <1>2, <1>3

LEMMA AllPlaced == Spec => [](\A i \in Items : Placed(i))
<1>1. Init => \A i \in Items : Placed(i)
  BY AgentAssumption DEF Init, Idle, Placed, Nowhere, Written, Dropped, AtCaller, AtWriter, Sent
<1>2. /\ TypeOK /\ TransportInv /\ [Next]_vars /\ (\A i \in Items : Placed(i))
      => (\A i \in Items : Placed(i))'
  BY NextPlaced
<1> QED
  BY <1>1, <1>2, TransportInvariant, PTL DEF Spec

\* No item handed to SendResponse is sent twice or lost without a cause, and
\* the writer sends nothing that nobody handed in (websocket.go:87-122).
THEOREM OnePlace == Spec => []ExactlyOnePlace
<1>1. (\A i \in Items : Placed(i)) => ExactlyOnePlace
  BY PlacesAddUp
<1> QED
  BY <1>1, AllPlaced, PTL

-----------------------------------------------------------------------------
(* Agent implements the safety of RequestReply.                            *)

\* A reply that is made has a code of its route, nothing that cannot be
\* encoded gets past the serializer, and what is not read has no session.
RepliesAreMade ==
    /\ \A r \in Requests : req[r] \in {"unread", "skipped"} => on[r] = 0
    /\ \A r \in Requests : req[r] \in {"replying", "blocked", "returned"} => code[r] \in ReplyCodes(r)
    /\ writer.pc = "write" => writer.item \notin Unencodable

LEMMA MadeReplies == Spec => []RepliesAreMade
<1> USE DEF TypeOK, RepliesAreMade
<1>1. Init => RepliesAreMade
  BY DEF Init, Idle
<1>2. TypeOK /\ RepliesAreMade /\ [Next]_vars => RepliesAreMade'
  <2> SUFFICES ASSUME TypeOK, RepliesAreMade, [Next]_vars PROVE RepliesAreMade'
    OBVIOUS
  <2>1. ASSUME UNCHANGED <<req, on, code, writer>> PROVE RepliesAreMade'
    BY <2>1 DEF ReplyCodes
  <2>2. ASSUME ConnectSucceeds \/ ConnectFails \/ ReadFails \/ CloseConn \/ LinkBreaks PROVE RepliesAreMade'
    BY <2>1, <2>2 DEF ConnectSucceeds, ConnectFails, ReadFails, CloseConn, LinkBreaks, agentVars
  <2>3. ASSUME NEW s \in Sources, Push(s) PROVE RepliesAreMade'
    BY <2>1, <2>3 DEF Push
  <2>4. ASSUME NEW r \in Requests, DoRequest(r) PROVE RepliesAreMade'
    BY <2>4 DEF DoRequest, ReplyCodes
  <2>5. ASSUME NEW r \in Requests, ReadMalformed(r) \/ ReadMessage(r) \/ HandOver(r) PROVE RepliesAreMade'
    BY <2>5 DEF ReadMalformed, ReadMessage, HandOver, ReplyCodes
  <2>6. ASSUME NEW r \in Requests, SendReply(r) PROVE RepliesAreMade'
    BY <2>6 DEF SendReply, ReplyCodes
  <2>7. ASSUME NEW r \in Requests, TakeReply(r) PROVE RepliesAreMade'
    BY <2>7 DEF TakeReply, Take, ReplyCodes
  <2>8. ASSUME NEW s \in Sources, TakeEvent(s) PROVE RepliesAreMade'
    BY <2>8 DEF TakeEvent, Take, ReplyCodes
  <2>9. ASSUME SerializerFails \/ LoadConn \/ WriteSucceeds \/ WriteFails PROVE RepliesAreMade'
    <3>1. UNCHANGED <<req, on, code>>
      BY <2>9 DEF SerializerFails, LoadConn, WriteSucceeds, WriteFails
    <3>2. writer'.pc = "write" => writer'.item \notin Unencodable
      <4>1. CASE LoadConn
        BY <4>1 DEF LoadConn, Idle
      <4>2. CASE ~LoadConn
        BY <2>9, <4>2 DEF SerializerFails, WriteSucceeds, WriteFails, Idle
      <4> QED
        BY <4>1, <4>2
    <3> QED
      BY <3>1, <3>2 DEF ReplyCodes
  <2>10. CASE UNCHANGED vars
    BY <2>1, <2>10 DEF vars
  <2> QED
    BY <2>2, <2>3, <2>4, <2>5, <2>6, <2>7, <2>8, <2>9, <2>10 DEF Next, ReaderNext, WriterNext
<1> QED
  BY <1>1, <1>2, TypeCorrect, PTL DEF Spec

\* A request that stands where it stood, for the server.
StandsStill(r) ==
    /\ req'[r] \in {"unread", "skipped"} <=> req[r] \in {"unread", "skipped"}
    /\ Written(Reply(r))' = Written(Reply(r)) /\ Dropped(Reply(r))' = Dropped(Reply(r))
    /\ Written(Reply(r)) # {} => code'[r] = code[r]

LEMMA StandingStill ==
    ASSUME NEW r \in Requests, StandsStill(r)
    PROVE  Phase'[r] = Phase[r] /\ AnswerOf'[r] = AnswerOf[r]
BY DEF StandsStill, Phase, AnswerOf

LEMMA PhasesAreFunctions ==
    /\ Phase = [r \in Requests |-> Phase[r]] /\ Phase' = [r \in Requests |-> Phase'[r]]
    /\ AnswerOf = [r \in Requests |-> AnswerOf[r]] /\ AnswerOf' = [r \in Requests |-> AnswerOf'[r]]
BY DEF Phase, AnswerOf

\* Only the link of a session changes.
LEMMA CutImplements ==
    ASSUME TypeOK, TransportInv, RepliesAreMade, ConnectSucceeds \/ CloseConn \/ LinkBreaks
    PROVE  [RR!Next]_RR!vars
<1> USE AgentAssumption DEF TypeOK, Conns
<1>1. UNCHANGED <<req, on, code, written, dropped>>
  BY DEF ConnectSucceeds, CloseConn, LinkBreaks, agentVars
<1>2. \A r \in Requests : StandsStill(r)
  BY <1>1 DEF StandsStill, Written, Dropped
<1>3. Phase' = Phase /\ AnswerOf' = AnswerOf
  BY <1>2, StandingStill, PhasesAreFunctions
<1>4. ASSUME NEW r \in CutOff PROVE r \in CutOff'
  <2>1. r \in Requests /\ on[r] \in 1..conn /\ conn \in 0..MaxConn /\ link[on[r]] # "open"
    <3>1. r \in Requests /\ on[r] # 0 /\ link[on[r]] # "open" /\ on[r] \in 0..MaxConn /\ on[r] <= conn
      BY DEF CutOff, TransportInv, SendersHaveConn
    <3> QED
      BY <3>1
  <2>2. link'[on[r]] # "open"
    BY <2>1 DEF ConnectSucceeds, CloseConn, LinkBreaks
  <2> QED
    BY <1>1, <2>1, <2>2 DEF CutOff
<1>5. \A r \in CutOff' : r \in Requests /\ Phase[r] # "pending"
  <2> SUFFICES ASSUME NEW r \in CutOff' PROVE r \in Requests /\ Phase[r] # "pending"
    OBVIOUS
  <2>1. r \in Requests /\ req[r] \notin {"unread", "skipped"}
    BY <1>1 DEF CutOff, RepliesAreMade
  <2> QED
    BY <2>1 DEF Phase
<1>6. RR!Cut
  BY <1>3, <1>4, <1>5 DEF RR!Cut
<1> QED
  BY <1>6 DEF RR!Next

\* What the server does not see of a step.
LEMMA ServerSeesNothing ==
    ASSUME UNCHANGED <<link, on>>, \A r \in Requests : StandsStill(r)
    PROVE  UNCHANGED RR!vars
<1>1. Phase' = Phase /\ AnswerOf' = AnswerOf
  BY StandingStill, PhasesAreFunctions
<1>2. CutOff' = CutOff
  BY DEF CutOff
<1> QED
  BY <1>1, <1>2 DEF RR!vars

\* A request comes in.
LEMMA AcceptImplements ==
    ASSUME TypeOK, \A i \in Items : Placed(i), RepliesAreMade, NEW q \in Requests, ReadMessage(q)
    PROVE  [RR!Next]_RR!vars
<1> USE DEF TypeOK
<1>1. /\ req[q] = "unread" /\ req' = [req EXCEPT ![q] = "handing"] /\ on' = [on EXCEPT ![q] = conn]
      /\ UNCHANGED <<link, code, written, dropped>>
  BY DEF ReadMessage
<1>2. Written(Reply(q)) = {} /\ Dropped(Reply(q)) = {}
  <2>1. ~Sent(Reply(q))
    BY <1>1, ItemTypes, AgentAssumption DEF Sent, Reply, Event
  <2> QED
    BY <2>1, ItemTypes DEF Placed, Nowhere
<1>3. UNCHANGED <<Written(Reply(q)), Dropped(Reply(q))>>
  BY <1>1 DEF Written, Dropped
<1>4. Phase[q] = "pending" /\ Phase'[q] = "accepted" /\ AnswerOf'[q] = AnswerOf[q]
  BY <1>1, <1>2, <1>3 DEF Phase, AnswerOf
<1>5. \A r \in Requests \ {q} : StandsStill(r)
  BY <1>1 DEF StandsStill, Written, Dropped
<1>6. \A r \in Requests \ {q} : Phase'[r] = Phase[r] /\ AnswerOf'[r] = AnswerOf[r]
  BY <1>5, StandingStill
<1>7. Phase' = [Phase EXCEPT ![q] = "accepted"] /\ AnswerOf' = AnswerOf
  BY <1>4, <1>6, PhasesAreFunctions
<1>8. CutOff' \in {CutOff, CutOff \cup {q}}
  <2>1. q \notin CutOff
    BY <1>1 DEF CutOff, RepliesAreMade
  <2>2. \A r \in Requests \ {q} : r \in CutOff' <=> r \in CutOff
    BY <1>1 DEF CutOff
  <2>3. CutOff \subseteq Requests /\ CutOff' \subseteq Requests
    BY DEF CutOff
  <2>4. CASE q \in CutOff'
    <3>1. CutOff' = CutOff \cup {q}
      BY <2>1, <2>2, <2>3, <2>4
    <3> QED
      BY <3>1
  <2>5. CASE q \notin CutOff'
    <3>1. CutOff' = CutOff
      <4>1. ASSUME NEW r PROVE r \in CutOff' <=> r \in CutOff
        BY <2>1, <2>2, <2>3, <2>5
      <4> QED
        BY <4>1
    <3> QED
      BY <3>1
  <2> QED
    BY <2>4, <2>5
<1>9. RR!Accept(q)
  BY <1>4, <1>7, <1>8 DEF RR!Accept
<1> QED
  BY <1>9 DEF RR!Next

\* A step of the reader, a handler or a source that settles nothing.
LEMMA HandlersImplement ==
    ASSUME TypeOK, TransportInv, \A i \in Items : Placed(i),
           \/ ConnectFails \/ ReadFails
           \/ \E q \in Requests :
                 ReadMalformed(q) \/ HandOver(q) \/ DoRequest(q) \/ SendReply(q) \/ TakeReply(q)
           \/ \E k \in Sources : Push(k) \/ TakeEvent(k)
    PROVE  UNCHANGED RR!vars
<1> USE DEF TypeOK
<1>1. UNCHANGED <<link, on, written>>
  BY DEF ConnectFails, ReadFails, agentVars, ReadMalformed, HandOver, DoRequest, SendReply, TakeReply,
     TakeEvent, Take, Push
<1>2. \A r \in Requests : Written(Reply(r))' = Written(Reply(r))
  BY <1>1 DEF Written
<1>3. \A r \in Requests : Dropped(Reply(r))' = Dropped(Reply(r))
  <2>1. ASSUME NEW q \in Requests, SendReply(q) PROVE dropped' = dropped
    <3> SUFFICES ASSUME conn = 0 PROVE FALSE
      BY <2>1 DEF SendReply, DroppedAtSend
    <3>1. on[q] > 0 /\ on[q] <= conn /\ on[q] \in 0..MaxConn
      BY <2>1 DEF SendReply, TransportInv, SendersHaveConn
    <3> QED
      BY <3>1, AgentAssumption
  <2>2. ASSUME NEW k \in Sources, Push(k)
        PROVE  \A r \in Requests : Dropped(Reply(r))' = Dropped(Reply(r))
    <3>1. \A r \in Requests : Reply(r) # Event(k, event'[k])
      BY ItemTypes
    <3> QED
      BY <2>2, <3>1 DEF Push, Dropped
  <2>3. CASE dropped' = dropped
    BY <2>3 DEF Dropped
  <2> QED
    BY <2>1, <2>2, <2>3
       DEF ConnectFails, ReadFails, agentVars, ReadMalformed, HandOver, DoRequest, TakeReply, TakeEvent, Take
<1>4. \A r \in Requests : req'[r] \in {"unread", "skipped"} <=> req[r] \in {"unread", "skipped"}
  <2>1. ASSUME NEW q \in Requests,
               ReadMalformed(q) \/ HandOver(q) \/ DoRequest(q) \/ SendReply(q) \/ TakeReply(q)
        PROVE  \A r \in Requests : req'[r] \in {"unread", "skipped"} <=> req[r] \in {"unread", "skipped"}
    BY <2>1 DEF ReadMalformed, HandOver, DoRequest, SendReply, TakeReply
  <2>2. CASE req' = req
    BY <2>2
  <2> QED
    BY <2>1, <2>2 DEF ConnectFails, ReadFails, agentVars, TakeEvent, Push
<1>5. \A r \in Requests : Written(Reply(r)) # {} => code'[r] = code[r]
  <2>1. ASSUME NEW q \in Requests, DoRequest(q)
        PROVE  \A r \in Requests : Written(Reply(r)) # {} => code'[r] = code[r]
    <3>1. ~Sent(Reply(q))
      BY <2>1, ItemTypes, AgentAssumption DEF DoRequest, Sent, Reply, Event
    <3>2. Written(Reply(q)) = {}
      BY <3>1, ItemTypes DEF Placed, Nowhere
    <3> QED
      BY <2>1, <3>2 DEF DoRequest
  <2>2. CASE code' = code
    BY <2>2
  <2> QED
    BY <2>1, <2>2
       DEF ConnectFails, ReadFails, agentVars, ReadMalformed, HandOver, SendReply, TakeReply, Take,
           TakeEvent, Push
<1> QED
  BY <1>1, <1>2, <1>3, <1>4, <1>5, ServerSeesNothing DEF StandsStill

\* The writer settles the item it holds, or loads a connection for it.
LEMMA WriterImplements ==
    ASSUME TypeOK, TransportInv, TransportInv', \A i \in Items : Placed(i), RepliesAreMade,
           SerializerFails \/ LoadConn \/ WriteSucceeds \/ WriteFails
    PROVE  [RR!Next]_RR!vars
<1> USE DEF TypeOK
<1>1. UNCHANGED <<link, on, req, code>>
  BY DEF SerializerFails, LoadConn, WriteSucceeds, WriteFails
<1>2. \A r \in Requests : writer.item # Reply(r) => StandsStill(r)
  <2> SUFFICES ASSUME NEW r \in Requests, writer.item # Reply(r) PROVE StandsStill(r)
    OBVIOUS
  <2> USE DEF StandsStill, Written, Dropped
  <2>1. CASE SerializerFails
    BY <1>1, <2>1 DEF SerializerFails
  <2>2. CASE LoadConn
    BY <1>1, <2>2 DEF LoadConn
  <2>3. CASE WriteSucceeds
    BY <1>1, <2>3 DEF WriteSucceeds
  <2>4. CASE WriteFails
    BY <1>1, <2>4 DEF WriteFails
  <2> QED
    BY <2>1, <2>2, <2>3, <2>4
<1>3. CASE \A r \in Requests : writer.item # Reply(r)
  BY <1>1, <1>2, <1>3, ServerSeesNothing
<1>4. CASE LoadConn
  <2>1. \A r \in Requests : StandsStill(r)
    BY <1>1, <1>4 DEF LoadConn, StandsStill, Written, Dropped
  <2> QED
    BY <1>1, <2>1, ServerSeesNothing
<1>5. ASSUME NEW q \in Requests, writer.item = Reply(q), ~LoadConn PROVE [RR!Next]_RR!vars
  <2>1. AtWriter(Reply(q)) /\ writer # Idle
    BY <1>5, ItemTypes DEF SerializerFails, WriteSucceeds, WriteFails, AtWriter, Idle
  <2>2. req[q] = "returned" /\ Written(Reply(q)) = {} /\ Dropped(Reply(q)) = {}
    <3>1. req[q] = "returned"
      BY <1>5, <2>1 DEF TransportInv, WriterHasConn
    <3> QED
      BY <2>1, <3>1, ItemTypes DEF Placed, InOnePlace, Nowhere
  <2>3. Phase[q] = "accepted" /\ AnswerOf[q] = "none"
    BY <2>2 DEF Phase, AnswerOf
  <2>4. \A r \in Requests \ {q} : Phase'[r] = Phase[r] /\ AnswerOf'[r] = AnswerOf[r]
    <3>1. \A r \in Requests \ {q} : writer.item # Reply(r)
      BY <1>5, ItemTypes
    <3> QED
      BY <1>2, <3>1, StandingStill
  <2>5. CutOff' = CutOff
    BY <1>1 DEF CutOff
  <2>6. CASE WriteSucceeds
    <3>1. Written(Reply(q))' # {}
      <4>1. <<Reply(q), writer.conn>> \in written'
        BY <1>5, <2>6 DEF WriteSucceeds
      <4>2. <<Reply(q), writer.conn>> \in Written(Reply(q))'
        BY <4>1 DEF Written
      <4> QED
        BY <4>2
    <3>2. Phase'[q] = "answered" /\ AnswerOf'[q] = code[q]
      <4>1. req'[q] = "returned" /\ code'[q] = code[q]
        BY <1>1, <2>2
      <4>2. Phase'[q] = "answered"
        <5>1. Dropped(Reply(q))' = {}
          BY <2>2, <2>6 DEF WriteSucceeds, Dropped
        <5> QED
          BY <3>1, <4>1, <5>1 DEF Phase
      <4>3. AnswerOf'[q] = code[q]
        BY <3>1, <4>1 DEF AnswerOf
      <4> QED
        BY <4>2, <4>3
    <3>3. Phase' = [Phase EXCEPT ![q] = "answered"] /\ AnswerOf' = [AnswerOf EXCEPT ![q] = code[q]]
      BY <2>4, <3>2, PhasesAreFunctions
    <3>4. code[q] \in Promised(q) /\ Reply(q) \notin Unencodable
      BY <1>5, <2>2, <2>6 DEF WriteSucceeds, RepliesAreMade, ReplyCodes, Promised
    <3>5. RR!Answer(q)
      BY <2>3, <2>5, <3>3, <3>4 DEF RR!Answer
    <3> QED
      BY <3>5 DEF RR!Next
  <2>7. CASE SerializerFails \/ WriteFails
    <3>1. Written(Reply(q))' = {} /\ Dropped(Reply(q))' # {}
      <4>1. written' = written /\ \E cause : <<Reply(q), cause>> \in dropped'
        BY <1>5, <2>7 DEF SerializerFails, WriteFails
      <4>2. PICK cause : <<Reply(q), cause>> \in dropped'
        BY <4>1
      <4>3. <<Reply(q), cause>> \in Dropped(Reply(q))'
        BY <4>2 DEF Dropped
      <4>4. Written(Reply(q))' = {}
        BY <2>2, <4>1 DEF Written
      <4> QED
        BY <4>3, <4>4
    <3>2. Phase'[q] = "lost" /\ AnswerOf'[q] = "none"
      BY <1>1, <2>2, <3>1 DEF Phase, AnswerOf
    <3>3. Phase' = [Phase EXCEPT ![q] = "lost"] /\ AnswerOf' = AnswerOf
      BY <2>3, <2>4, <3>2, PhasesAreFunctions
    <3>4. q \in CutOff \cup {r \in Requests : Reply(r) \in Unencodable}
      <4>1. CASE SerializerFails
        BY <1>5, <4>1 DEF SerializerFails
      <4>2. CASE WriteFails
        <5>1. <<Reply(q), "write">> \in dropped'
          BY <1>5, <4>2 DEF WriteFails
        <5>2. link[on[q]] # "open"
          BY <1>1, <5>1 DEF TransportInv, LossIsOld
        <5>3. on[q] # 0
          BY <2>2 DEF TransportInv, SendersHaveConn
        <5> QED
          BY <5>2, <5>3 DEF CutOff
      <4> QED
        BY <2>7, <4>1, <4>2
    <3>5. RR!Lose(q)
      BY <2>3, <2>5, <3>3, <3>4 DEF RR!Lose
    <3> QED
      BY <3>5 DEF RR!Next
  <2> QED
    BY <1>5, <2>6, <2>7
<1> QED
  BY <1>3, <1>4, <1>5

\* Whatever the reader, the writer and the handlers do, a server sees no more
\* than RequestReply allows: an accepted request is answered once at most, with
\* a code of its route (container.go, doRequest), and it is lost only if its
\* session was cut or its reply cannot be encoded.
THEOREM AgentImplements == Spec => RR!Safety
<1>1. Init => RR!Init
  <2> SUFFICES ASSUME Init PROVE RR!Init
    OBVIOUS
  <2>1. Phase = [r \in Requests |-> "pending"] /\ AnswerOf = [r \in Requests |-> "none"] /\ CutOff = {}
    <3>1. \A r \in Requests : /\ Written(Reply(r)) = {} /\ Dropped(Reply(r)) = {}
                               /\ req[r] = "unread" /\ on[r] = 0
      BY DEF Init, Written, Dropped
    <3>2. Phase = [r \in Requests |-> "pending"]
      BY <3>1 DEF Phase
    <3>3. AnswerOf = [r \in Requests |-> "none"]
      BY <3>1 DEF AnswerOf
    <3>4. CutOff = {}
      BY <3>1 DEF CutOff
    <3> QED
      BY <3>2, <3>3, <3>4
  <2> QED
    BY <2>1 DEF RR!Init
<1>2. /\ TypeOK /\ TransportInv /\ TransportInv' /\ (\A i \in Items : Placed(i)) /\ RepliesAreMade
      /\ [Next]_vars
      => [RR!Next]_RR!vars
  <2> SUFFICES ASSUME TypeOK, TransportInv, TransportInv', \A i \in Items : Placed(i), RepliesAreMade,
                      [Next]_vars
               PROVE  [RR!Next]_RR!vars
    OBVIOUS
  <2>1. CASE ConnectSucceeds \/ CloseConn \/ LinkBreaks
    BY <2>1, CutImplements
  <2>2. ASSUME NEW q \in Requests, ReadMessage(q) PROVE [RR!Next]_RR!vars
    BY <2>2, AcceptImplements
  <2>3. CASE \/ ConnectFails \/ ReadFails
             \/ \E q \in Requests :
                   ReadMalformed(q) \/ HandOver(q) \/ DoRequest(q) \/ SendReply(q) \/ TakeReply(q)
             \/ \E k \in Sources : Push(k) \/ TakeEvent(k)
    BY <2>3, HandlersImplement
  <2>4. CASE SerializerFails \/ LoadConn \/ WriteSucceeds \/ WriteFails
    BY <2>4, WriterImplements
  <2>5. CASE UNCHANGED vars
    <3>1. UNCHANGED <<link, on>> /\ \A r \in Requests : StandsStill(r)
      BY <2>5 DEF vars, StandsStill, Written, Dropped
    <3> QED
      BY <3>1, ServerSeesNothing
  <2> QED
    BY <2>1, <2>2, <2>3, <2>4, <2>5 DEF Next, ReaderNext, WriterNext
<1> QED
  BY <1>1, <1>2, TransportInvariant, AllPlaced, MadeReplies, PTL DEF Spec, RR!Safety

-----------------------------------------------------------------------------
(* The watch over the transport.                                           *)

\* Every step of the composition is one of the transport, or none of its.
LEMMA StepIsAgents == [WatchNext]_allVars => [Next]_vars
<1> SUFFICES ASSUME [WatchNext]_allVars PROVE [Next]_vars
  OBVIOUS
<1> USE DEF Next, ReaderNext, WriterNext
<1>1. CASE Connect
  BY <1>1 DEF Connect
<1>2. CASE Transport
  BY <1>2 DEF Transport
<1>3. ASSUME NEW r \in Requests, ReadList(r) \/ ReadSwitch(r) \/ WatchAction(r) \/ ListCache(r)
      PROVE  [Next]_vars
  BY <1>3 DEF ReadList, ReadSwitch, WatchAction, ListCache
<1>4. ASSUME NEW k \in Sources, HandleDelta(k) \/ OnDelta(k) \/ SendEvent(k)
      PROVE  [Next]_vars
  BY <1>4 DEF HandleDelta, OnDelta, SendEvent
<1>5. CASE UNCHANGED allVars
  BY <1>5 DEF allVars
<1> QED
  BY <1>1, <1>2, <1>3, <1>4, <1>5 DEF WatchNext

\* So the composition keeps what the transport keeps.
LEMMA WatchKeepsTransport == WatchSpec => [](TypeOK /\ TransportInv)
<1>1. WatchInit => Init
  BY DEF WatchInit
<1>2. WatchSpec => Spec
  BY <1>1, StepIsAgents, PTL DEF WatchSpec, Spec
<1> QED
  BY <1>2, TransportInvariant, PTL

\* An orderly server has one request pending at most, which decides the flag
\* until it has run; a list counts for as long as the flag stays set.
SwitchesFollow ==
    /\ orderly => \A a, b \in Pending : a = b
    /\ orderly => \A a \in Switches : req[a] \in {"handing", "running"} => last = Want[a]
    /\ orderly /\ (\A a \in Switches : req[a] \notin {"handing", "running"}) => (watch <=> last = "open")
    /\ watch => conn > 0

ListedIsWatched ==
    \A l \in Lists : listed[l] # NoBase =>
        /\ orderly /\ last = "open" /\ watch
        /\ req[l] \in {"replying", "blocked", "returned"}

\* A listener has an event for each delta it took while the flag was set.
Queued ==
    \A k \in Sources :
        /\ seen[k] <= cache[k] /\ Len(delta[k]) = event[k]
        /\ source[k] = "blocked" => Len(delta[k]) > 0 /\ delta[k][Len(delta[k])] = seen[k]

\* An event is on its way to the session of a list, or has come there.
Reaches(l, i) ==
    \/ AtCaller(i)
    \/ AtWriter(i) /\ (writer.pc = "write" => writer.conn = on[l])
    \/ <<i, on[l]>> \in written
    \/ <<i, "serializer">> \in dropped

Counts(l) == listed[l] # NoBase /\ link[on[l]] = "open"

Fed ==
    \A l \in Lists : Counts(l) =>
        \A n \in Since(l) : \E i \in EventAbout(Topic[l], n) : Reaches(l, i)

WatchInv == SwitchesFollow /\ ListedIsWatched /\ Queued /\ Fed

LEMMA InitWatch == WatchInit => WatchTypeOK /\ WatchInv
<1> SUFFICES ASSUME WatchInit PROVE WatchTypeOK /\ WatchInv
  OBVIOUS
<1>1. TypeOK
  BY AgentAssumption
     DEF WatchInit, Init, TypeOK, Idle, Items, Conns, LinkStates, ReaderStates, ReqStates, Codes, Causes
<1>2. /\ Preloaded \in 0..MaxEvents /\ 0 \in 0..MaxEvents /\ Preloaded \in Nat
      /\ <<>> \in Seq(1..MaxEvents) /\ Len(<<>>) = 0
  BY AgentAssumption, AgentWatchAssumption
<1>3. delta \in [Sources -> Seq(1..MaxEvents)] /\ late \in [Sources -> Nat]
  BY <1>2 DEF WatchInit
<1>4. cache \in [Sources -> 0..MaxEvents] /\ seen \in [Sources -> 0..MaxEvents]
  BY <1>2 DEF WatchInit
<1>5. listed \in [Lists -> (0..MaxEvents) \cup {NoBase}]
  BY DEF WatchInit, NoneListed
<1>6. WatchTypeOK
  BY <1>1, <1>3, <1>4, <1>5 DEF WatchInit, WatchTypeOK
<1>7. SwitchesFollow
  BY DEF WatchInit, Init, SwitchesFollow, Pending, Switches
<1>8. ListedIsWatched /\ Fed
  BY DEF WatchInit, NoneListed, ListedIsWatched, Fed, Counts
<1>9. Queued
  BY <1>2 DEF WatchInit, Init, Queued
<1> QED
  BY <1>6, <1>7, <1>8, <1>9 DEF WatchInv

LEMMA NextWatchType ==
    ASSUME WatchTypeOK, TypeOK', [WatchNext]_allVars
    PROVE  WatchTypeOK'
<1> USE DEF WatchTypeOK, watchVars
<1>1. ASSUME UNCHANGED watchVars PROVE WatchTypeOK'
  BY <1>1
<1>2. ASSUME NEW r \in Requests, ReadSwitch(r) PROVE WatchTypeOK'
  <2>1. orderly' \in BOOLEAN /\ listed' \in [Lists -> (0..MaxEvents) \cup {NoBase}]
    BY <1>2 DEF ReadSwitch, NoneListed
  <2>2. last' \in {"open", "close"}
    BY <1>2, AgentWatchAssumption DEF ReadSwitch, Switches
  <2> QED
    BY <1>2, <2>1, <2>2 DEF ReadSwitch
<1>3. ASSUME NEW r \in Requests, WatchAction(r) PROVE WatchTypeOK'
  BY <1>3 DEF WatchAction
<1>4. ASSUME NEW r \in Requests, ListCache(r) PROVE WatchTypeOK'
  <2>1. Topic[r] \in Sources
    BY AgentWatchAssumption
  <2>2. listed' \in [Lists -> (0..MaxEvents) \cup {NoBase}]
    BY <1>4, <2>1 DEF ListCache
  <2> QED
    BY <1>4, <2>2 DEF ListCache
<1>5. ASSUME NEW k \in Sources, HandleDelta(k) PROVE WatchTypeOK'
  <2>1. cache[k] + 1 \in 0..MaxEvents
    BY <1>5, AgentAssumption DEF HandleDelta
  <2> QED
    BY <1>5, <2>1 DEF HandleDelta
<1>6. ASSUME NEW k \in Sources, OnDelta(k) PROVE WatchTypeOK'
  <2>1. seen[k] + 1 \in 0..MaxEvents /\ seen[k] + 1 \in 1..MaxEvents
    <3>1. seen[k] \in 0..MaxEvents /\ cache[k] \in 0..MaxEvents /\ seen[k] < cache[k]
      BY <1>6 DEF OnDelta
    <3> QED
      BY <3>1, AgentAssumption
  <2>2. seen' = [seen EXCEPT ![k] = seen[k] + 1] /\ seen'[k] = seen[k] + 1
    BY <1>6 DEF OnDelta
  <2>3. delta' \in [Sources -> Seq(1..MaxEvents)]
    <3>1. Append(delta[k], seen'[k]) \in Seq(1..MaxEvents)
      BY <2>1, <2>2
    <3> QED
      BY <1>6, <3>1 DEF OnDelta
  <2> QED
    BY <1>6, <2>1, <2>2, <2>3 DEF OnDelta
<1>7. ASSUME NEW k \in Sources, SendEvent(k) PROVE WatchTypeOK'
  BY <1>7 DEF SendEvent
<1>8. ASSUME Connect \/ Transport PROVE WatchTypeOK'
  BY <1>1, <1>8 DEF Connect, Transport
<1>9. ASSUME NEW r \in Requests, ReadList(r) PROVE WatchTypeOK'
  BY <1>1, <1>9 DEF ReadList
<1>10. CASE UNCHANGED allVars
  BY <1>1, <1>10 DEF allVars
<1> QED
  BY <1>2, <1>3, <1>4, <1>5, <1>6, <1>7, <1>8, <1>9, <1>10 DEF WatchNext

LEMMA NextQueued ==
    ASSUME WatchTypeOK, Queued, [WatchNext]_allVars
    PROVE  Queued'
<1> USE DEF WatchTypeOK, TypeOK
<1>1. ASSUME UNCHANGED <<source, event, cache, seen, delta>> PROVE Queued'
  BY <1>1 DEF Queued
<1>2. ASSUME Connect \/ Transport PROVE Queued'
  BY <1>1, <1>2
     DEF Connect, Transport, watchVars, agentVars, ConnectSucceeds, ConnectFails, ReadFails, CloseConn,
         LinkBreaks, SerializerFails, LoadConn, WriteSucceeds, WriteFails, ReadMalformed, HandOver,
         SendReply, TakeReply, Take
<1>3. ASSUME NEW r \in Requests, ReadList(r) \/ ReadSwitch(r) \/ WatchAction(r) \/ ListCache(r)
      PROVE  Queued'
  BY <1>1, <1>3 DEF ReadList, ReadSwitch, WatchAction, ListCache, ReadMessage, DoRequest, watchVars
<1>4. ASSUME NEW k \in Sources, HandleDelta(k) PROVE Queued'
  BY <1>4 DEF HandleDelta, vars, Queued
<1>5. ASSUME NEW k \in Sources, OnDelta(k) PROVE Queued'
  <2>1. /\ source[k] = "idle" /\ seen[k] \in Nat /\ cache[k] \in Nat /\ seen[k] + 1 <= cache[k]
        /\ seen' = [seen EXCEPT ![k] = seen[k] + 1] /\ seen'[k] = seen[k] + 1 /\ cache' = cache
    BY <1>5 DEF OnDelta
  <2>2. CASE ~watch
    BY <1>5, <2>1, <2>2 DEF OnDelta, vars, Queued
  <2>3. CASE watch
    <3>1. /\ event' = [event EXCEPT ![k] = event[k] + 1] /\ event[k] \in Nat
          /\ delta' = [delta EXCEPT ![k] = Append(delta[k], seen[k] + 1)]
          /\ \A q \in Sources \ {k} : source'[q] = source[q]
      BY <1>5, <2>1, <2>3 DEF OnDelta, Push
    <3>2. /\ Len(delta'[k]) = Len(delta[k]) + 1 /\ Len(delta[k]) \in Nat
          /\ delta'[k][Len(delta[k]) + 1] = seen[k] + 1
      BY <2>1, <3>1
    <3> SUFFICES ASSUME NEW q \in Sources
                 PROVE  /\ seen'[q] <= cache'[q] /\ Len(delta'[q]) = event'[q]
                        /\ source'[q] = "blocked" =>
                              Len(delta'[q]) > 0 /\ delta'[q][Len(delta'[q])] = seen'[q]
      BY DEF Queued
    <3>3. CASE q = k
      BY <2>1, <3>1, <3>2, <3>3 DEF Queued
    <3>4. CASE q # k
      BY <2>1, <3>1, <3>4 DEF Queued
    <3> QED
      BY <3>3, <3>4
  <2> QED
    BY <2>2, <2>3
<1>6. ASSUME NEW k \in Sources, SendEvent(k) PROVE Queued'
  BY <1>6 DEF SendEvent, TakeEvent, Take, Queued
<1>7. CASE UNCHANGED allVars
  BY <1>1, <1>7 DEF allVars, vars, watchVars
<1> QED
  BY <1>2, <1>3, <1>4, <1>5, <1>6, <1>7 DEF WatchNext

\* A request that moves on without a word to the switch.
MovesOn(r) ==
    /\ UNCHANGED <<conn, watch, orderly, last, listed>>
    /\ \E to \in ReqStates :
          /\ req' = [req EXCEPT ![r] = to]
          /\ r \in Switches => \/ req[r] = "unread" /\ to = "skipped"
                               \/ req[r] = "handing" /\ to = "running"
                               \/ req[r] \in {"replying", "blocked"} /\ to \in {"blocked", "returned"}
          /\ req[r] \in {"replying", "blocked", "returned"} => to \in {"replying", "blocked", "returned"}

LEMMA MovedSwitches ==
    ASSUME TypeOK, SwitchesFollow, ListedIsWatched, NEW r \in Requests, MovesOn(r)
    PROVE  (SwitchesFollow /\ ListedIsWatched)'
<1>1. PICK to \in ReqStates :
        /\ req' = [req EXCEPT ![r] = to]
        /\ r \in Switches => \/ req[r] = "unread" /\ to = "skipped"
                             \/ req[r] = "handing" /\ to = "running"
                             \/ req[r] \in {"replying", "blocked"} /\ to \in {"blocked", "returned"}
        /\ req[r] \in {"replying", "blocked", "returned"} => to \in {"replying", "blocked", "returned"}
  BY DEF MovesOn
<1>2. UNCHANGED <<conn, watch, orderly, last, listed>>
  BY DEF MovesOn
<1>3. ASSUME NEW a \in Switches
      PROVE  /\ a \in Pending' => a \in Pending
             /\ req'[a] \in {"handing", "running"} <=> req[a] \in {"handing", "running"}
  <2>1. CASE a = r
    BY <1>1, <2>1 DEF TypeOK, Pending, Switches
  <2>2. CASE a # r
    BY <1>1, <2>2 DEF TypeOK, Pending
  <2> QED
    BY <2>1, <2>2
<1>4. Pending' \subseteq Pending
  BY <1>3 DEF Pending
<1>5. SwitchesFollow'
  BY <1>2, <1>3, <1>4 DEF SwitchesFollow
<1>6. ListedIsWatched'
  <2> SUFFICES ASSUME NEW l \in Lists, listed[l] # NoBase
               PROVE  /\ orderly /\ last = "open" /\ watch
                      /\ req'[l] \in {"replying", "blocked", "returned"}
    BY <1>2 DEF ListedIsWatched
  <2> QED
    BY <1>1 DEF TypeOK, ListedIsWatched, Lists
<1> QED
  BY <1>5, <1>6

LEMMA NextSwitches ==
    ASSUME WatchTypeOK, TransportInv, SwitchesFollow, ListedIsWatched, [WatchNext]_allVars
    PROVE  (SwitchesFollow /\ ListedIsWatched)'
<1> USE DEF WatchTypeOK
<1>0. conn \in Nat
  BY AgentAssumption DEF TypeOK
<1>1. ASSUME UNCHANGED <<req, watch, orderly, last, listed>>, conn' \in Nat, conn <= conn'
      PROVE  (SwitchesFollow /\ ListedIsWatched)'
  <2>1. Pending' = Pending
    BY <1>1 DEF Pending
  <2>2. watch => conn' > 0
    <3>1. watch => conn > 0
      BY DEF SwitchesFollow
    <3> QED
      BY <1>0, <1>1, <3>1
  <2> QED
    BY <1>1, <2>1, <2>2 DEF SwitchesFollow, ListedIsWatched
<1>2. ASSUME Connect PROVE (SwitchesFollow /\ ListedIsWatched)'
  BY <1>0, <1>1, <1>2 DEF Connect, ConnectSucceeds, agentVars, watchVars
<1>3. ASSUME Transport PROVE (SwitchesFollow /\ ListedIsWatched)'
  <2>1. CASE \/ ConnectFails \/ ReadFails \/ CloseConn \/ LinkBreaks
             \/ SerializerFails \/ LoadConn \/ WriteSucceeds \/ WriteFails
    BY <1>0, <1>1, <1>3, <2>1
       DEF Transport, watchVars, agentVars, ConnectFails, ReadFails, CloseConn, LinkBreaks,
           SerializerFails, LoadConn, WriteSucceeds, WriteFails
  <2>2. ASSUME NEW r \in Requests, ReadMalformed(r) \/ HandOver(r) \/ SendReply(r) \/ TakeReply(r)
        PROVE  (SwitchesFollow /\ ListedIsWatched)'
    <3>1. UNCHANGED <<conn, watchVars>>
      BY <1>3, <2>2 DEF Transport, ReadMalformed, HandOver, SendReply, TakeReply, Take
    <3>2. MovesOn(r)
      BY <2>2, <3>1
         DEF MovesOn, ReqStates, watchVars, ReadMalformed, HandOver, SendReply, TakeReply
    <3> QED
      BY <3>2, MovedSwitches
  <2> QED
    BY <1>3, <2>1, <2>2 DEF Transport
<1>4. ASSUME NEW r \in Requests, ReadList(r) PROVE (SwitchesFollow /\ ListedIsWatched)'
  <2>1. MovesOn(r)
    BY <1>4 DEF ReadList, ReadMessage, MovesOn, ReqStates, watchVars, Lists
  <2> QED
    BY <2>1, MovedSwitches
<1>5. ASSUME NEW r \in Requests, ReadSwitch(r) PROVE (SwitchesFollow /\ ListedIsWatched)'
  <2>1. /\ r \in Switches /\ req' = [req EXCEPT ![r] = "handing"] /\ req \in [Requests -> ReqStates]
        /\ orderly' = (orderly /\ Pending = {}) /\ last' = Want[r]
        /\ listed' = IF orderly' /\ last' = "open" THEN listed ELSE NoneListed
        /\ UNCHANGED <<watch, conn>> /\ req[r] = "unread"
    BY <1>5 DEF TypeOK, ReadSwitch, ReadMessage
  <2>2. ASSUME NEW a \in Switches, a # r PROVE a \notin Pending => req'[a] = req[a] /\ a \notin Pending'
    BY <2>1, <2>2 DEF Pending
  <2>3. orderly' => Pending' \subseteq {r} /\ \A a \in Switches : req'[a] \in {"handing", "running"} => a = r
    BY <2>1, <2>2 DEF Pending
  <2>4. req'[r] = "handing"
    BY <2>1 DEF Switches
  <2>5. SwitchesFollow'
    BY <2>1, <2>3, <2>4 DEF SwitchesFollow
  <2>6. ListedIsWatched'
    <3> SUFFICES ASSUME NEW l \in Lists, listed'[l] # NoBase
                 PROVE  /\ orderly' /\ last' = "open" /\ watch
                        /\ req'[l] \in {"replying", "blocked", "returned"}
      BY <2>1 DEF ListedIsWatched
    <3>1. orderly' /\ last' = "open" /\ listed'[l] = listed[l]
      BY <2>1 DEF NoneListed
    <3>2. l # r /\ l \in Requests
      BY <2>1 DEF Lists
    <3> QED
      BY <2>1, <3>1, <3>2 DEF ListedIsWatched
  <2> QED
    BY <2>5, <2>6
<1>6. ASSUME NEW r \in Requests, WatchAction(r) PROVE (SwitchesFollow /\ ListedIsWatched)'
  <2>1. /\ r \in Switches /\ req' = [req EXCEPT ![r] = "replying"] /\ req \in [Requests -> ReqStates]
        /\ req[r] = "running" /\ watch' = (Want[r] = "open")
        /\ UNCHANGED <<conn, orderly, last, listed>>
    BY <1>6 DEF TypeOK, WatchAction, DoRequest
  <2>2. r \in Pending /\ r \in Requests /\ conn > 0
    <3>1. r \in Pending /\ r \in Requests
      BY <2>1 DEF Pending, Switches
    <3>2. on[r] > 0 /\ on[r] <= conn /\ on[r] \in 0..MaxConn
      BY <2>1, <3>1 DEF TypeOK, TransportInv, SendersHaveConn
    <3> QED
      BY <1>0, <3>1, <3>2
  <2>3. Pending' = Pending
    BY <2>1, <2>2 DEF Pending
  <2>4. orderly => last = Want[r] /\ \A a \in Switches : req'[a] \notin {"handing", "running"}
    <3> SUFFICES ASSUME orderly PROVE last = Want[r] /\ \A a \in Switches : req'[a] \notin {"handing", "running"}
      OBVIOUS
    <3>1. last = Want[r]
      BY <2>1 DEF SwitchesFollow
    <3>2. ASSUME NEW a \in Switches PROVE req'[a] \notin {"handing", "running"}
      <4>1. CASE a = r
        BY <2>1, <2>2, <4>1
      <4>2. CASE a # r
        <5>1. a \notin Pending
          BY <2>2, <4>2 DEF SwitchesFollow
        <5> QED
          BY <2>1, <4>2, <5>1 DEF Pending
      <4> QED
        BY <4>1, <4>2
    <3> QED
      BY <3>1, <3>2
  <2>5. SwitchesFollow'
    BY <2>1, <2>2, <2>3, <2>4 DEF SwitchesFollow
  <2>6. ListedIsWatched'
    <3> SUFFICES ASSUME NEW l \in Lists, listed[l] # NoBase
                 PROVE  /\ orderly /\ last = "open" /\ watch'
                        /\ req'[l] \in {"replying", "blocked", "returned"}
      BY <2>1 DEF ListedIsWatched
    <3> QED
      BY <2>1, <2>4 DEF ListedIsWatched, Lists
  <2> QED
    BY <2>5, <2>6
<1>7. ASSUME NEW r \in Requests, ListCache(r) PROVE (SwitchesFollow /\ ListedIsWatched)'
  <2>1. /\ r \in Lists /\ req' = [req EXCEPT ![r] = "replying"] /\ req \in [Requests -> ReqStates]
        /\ UNCHANGED <<conn, watch, orderly, last>>
        /\ \/ listed' = listed
           \/ orderly /\ Pending = {} /\ last = "open" /\ listed' = [listed EXCEPT ![r] = cache[Topic[r]]]
    BY <1>7 DEF TypeOK, ListCache, DoRequest
  <2>2. \A a \in Switches : req'[a] = req[a]
    BY <2>1 DEF Lists
  <2>3. Pending' = Pending
    BY <2>2 DEF Pending
  <2>4. SwitchesFollow'
    BY <2>1, <2>2, <2>3 DEF SwitchesFollow
  <2>5. Pending = {} /\ orderly /\ last = "open" => watch
    BY DEF SwitchesFollow, Pending
  <2>6. ListedIsWatched'
    <3> SUFFICES ASSUME NEW l \in Lists, listed'[l] # NoBase
                 PROVE  /\ orderly /\ last = "open" /\ watch
                        /\ req'[l] \in {"replying", "blocked", "returned"}
      BY <2>1 DEF ListedIsWatched
    <3>1. CASE l = r
      BY <2>1, <2>5, <3>1 DEF ListedIsWatched, Lists
    <3>2. CASE l # r
      BY <2>1, <3>2 DEF ListedIsWatched, Lists
    <3> QED
      BY <3>1, <3>2
  <2> QED
    BY <2>4, <2>6
<1>8. ASSUME NEW k \in Sources, HandleDelta(k) \/ OnDelta(k) \/ SendEvent(k)
      PROVE  (SwitchesFollow /\ ListedIsWatched)'
  BY <1>0, <1>1, <1>8 DEF HandleDelta, OnDelta, SendEvent, Push, TakeEvent, Take, vars
<1>9. CASE UNCHANGED allVars
  BY <1>0, <1>1, <1>9 DEF allVars, vars, watchVars
<1> QED
  BY <1>2, <1>3, <1>4, <1>5, <1>6, <1>7, <1>8, <1>9 DEF WatchNext

\* A session that is up was up before, and is the one in ws.Conn.
LEMMA UpBefore ==
    ASSUME TypeOK, TransportInv, [Next]_vars, NEW l \in Requests,
           req[l] \notin {"unread", "skipped"}, link'[on'[l]] = "open"
    PROVE  on'[l] = on[l] /\ on[l] = conn /\ conn > 0 /\ link[on[l]] = "open"
<1> USE AgentAssumption DEF TypeOK, Conns
<1>1. on'[l] = on[l]
  BY DEF Next, ReaderNext, WriterNext, ConnectSucceeds, ConnectFails, ReadFails, CloseConn,
         ReadMalformed, ReadMessage, HandOver, DoRequest, SendReply, Push, Take, TakeReply,
         TakeEvent, SerializerFails, LoadConn, WriteSucceeds, WriteFails, LinkBreaks, agentVars, vars
<1>2. on[l] \in 1..conn /\ conn \in Nat /\ conn <= MaxConn
  <2>1. on[l] > 0 /\ on[l] <= conn /\ on[l] \in 0..MaxConn
    BY DEF TransportInv, SendersHaveConn
  <2> QED
    BY <2>1
<1>3. link[on[l]] = "open"
  <2>1. CASE ConnectSucceeds
    BY <1>1, <1>2, <2>1 DEF ConnectSucceeds
  <2>2. CASE CloseConn \/ LinkBreaks
    BY <1>1, <1>2, <2>2 DEF CloseConn, LinkBreaks
  <2>3. CASE link' = link
    BY <1>1, <2>3
  <2> QED
    BY <2>1, <2>2, <2>3
       DEF Next, ReaderNext, WriterNext, ConnectFails, ReadFails,
           ReadMalformed, ReadMessage, HandOver, DoRequest, SendReply, Push, Take, TakeReply,
           TakeEvent, SerializerFails, LoadConn, WriteSucceeds, WriteFails, agentVars, vars
<1>4. on[l] = conn
  <2>1. on[l] < conn => link[on[l]] = "closed"
    BY <1>2 DEF TransportInv, StaleConnsClosed
  <2> QED
    BY <1>2, <1>3, <2>1
<1> QED
  BY <1>1, <1>2, <1>3, <1>4

\* An event that is on its way to the session in ws.Conn stays on it.
LEMMA ReachStays ==
    ASSUME TypeOK, TransportInv, [Next]_vars, NEW l \in Requests, on'[l] = on[l], on[l] = conn,
           link[conn] = "open", NEW k \in Sources, NEW j \in 1..MaxEvents, Reaches(l, Event(k, j))
    PROVE  Reaches(l, Event(k, j))'
<1> DEFINE i == Event(k, j)
<1>0. \A r \in Requests : i # Reply(r)
  BY AgentAssumption DEF Event, Reply
<1>1. ASSUME UNCHANGED <<source, event, writer>>, written \subseteq written', dropped \subseteq dropped'
      PROVE  Reaches(l, i)'
  <2>1. AtCaller(i)' <=> AtCaller(i)
    BY <1>0, <1>1 DEF AtCaller
  <2> QED
    BY <1>1, <2>1 DEF Reaches, AtWriter
<1>2. ASSUME ConnectSucceeds \/ ConnectFails \/ ReadFails \/ CloseConn \/ LinkBreaks PROVE Reaches(l, i)'
  BY <1>1, <1>2 DEF ConnectSucceeds, ConnectFails, ReadFails, CloseConn, LinkBreaks, agentVars
<1>3. ASSUME NEW r \in Requests,
             ReadMalformed(r) \/ ReadMessage(r) \/ HandOver(r) \/ DoRequest(r) \/ SendReply(r)
      PROVE  Reaches(l, i)'
  BY <1>1, <1>3 DEF ReadMalformed, ReadMessage, HandOver, DoRequest, SendReply
<1>4. ASSUME NEW s \in Sources, Push(s) PROVE Reaches(l, i)'
  <2>1. /\ source[s] = "idle" /\ UNCHANGED <<req, writer, written>> /\ dropped \subseteq dropped'
        /\ \A q \in Sources \ {s} : source'[q] = source[q] /\ event'[q] = event[q]
    BY <1>4 DEF TypeOK, Push
  <2>2. AtCaller(i) => AtCaller(i)'
    BY <1>0, <2>1 DEF AtCaller
  <2> QED
    BY <2>1, <2>2 DEF Reaches, AtWriter
<1>5. ASSUME NEW r \in Requests, TakeReply(r) PROVE Reaches(l, i)'
  <2>1. ~AtWriter(i) /\ UNCHANGED <<source, event, written, dropped, on>>
    BY <1>5 DEF TakeReply, Take, Idle, AtWriter
  <2>2. AtCaller(i) => AtCaller(i)'
    BY <1>0, <2>1 DEF AtCaller
  <2> QED
    BY <2>1, <2>2 DEF Reaches
<1>6. ASSUME NEW s \in Sources, TakeEvent(s) PROVE Reaches(l, i)'
  <2>1. /\ ~AtWriter(i) /\ UNCHANGED <<event, written, dropped, on>>
        /\ writer' = [pc |-> "encode", item |-> Event(s, event[s]), conn |-> 0]
        /\ \A q \in Sources \ {s} : source'[q] = source[q]
    BY <1>6 DEF TypeOK, TakeEvent, Take, Idle, AtWriter
  <2>2. AtCaller(i) => AtCaller(i)' \/ (AtWriter(i)' /\ writer'.pc # "write")
    BY <1>0, <2>1 DEF AtCaller, AtWriter
  <2> QED
    BY <2>1, <2>2 DEF Reaches
<1>7. ASSUME SerializerFails \/ LoadConn \/ WriteSucceeds \/ WriteFails PROVE Reaches(l, i)'
  <2>1. AtCaller(i) => AtCaller(i)'
    BY <1>7 DEF SerializerFails, LoadConn, WriteSucceeds, WriteFails, AtCaller
  <2>2. written \subseteq written' /\ dropped \subseteq dropped'
    BY <1>7 DEF SerializerFails, LoadConn, WriteSucceeds, WriteFails
  <2>3. CASE ~AtWriter(i)
    BY <2>1, <2>2, <2>3 DEF Reaches
  <2>4. CASE AtWriter(i) /\ SerializerFails
    BY <2>4 DEF SerializerFails, AtWriter, Reaches
  <2>5. CASE AtWriter(i) /\ LoadConn
    <3>1. writer'.item = i /\ writer'.pc = "write" /\ writer'.conn = on'[l]
      BY <2>5 DEF TypeOK, Idle, LoadConn, AtWriter
    <3> QED
      BY <3>1 DEF Reaches, AtWriter
  <2>6. CASE AtWriter(i) /\ (WriteSucceeds \/ WriteFails)
    <3>1. CASE AtCaller(i) \/ <<i, on[l]>> \in written \/ <<i, "serializer">> \in dropped
      BY <2>1, <2>2, <3>1 DEF Reaches
    <3>2. CASE writer.conn = on[l]
      <4>1. WriteSucceeds /\ writer.item = i
        BY <2>6, <3>2 DEF WriteSucceeds, WriteFails, AtWriter
      <4> QED
        BY <3>2, <4>1 DEF WriteSucceeds, Reaches
    <3> QED
      BY <2>6, <3>1, <3>2 DEF Reaches, WriteSucceeds, WriteFails
  <2> QED
    BY <1>7, <2>3, <2>4, <2>5, <2>6
<1>8. CASE UNCHANGED vars
  BY <1>1, <1>8 DEF vars
<1> HIDE DEF i
<1> QED
  BY <1>2, <1>3, <1>4, <1>5, <1>6, <1>7, <1>8 DEF Next, ReaderNext, WriterNext, i

\* The listeners are the only ones that add to the history of the events.
LEMMA EventsAreKept ==
    ASSUME WatchTypeOK, [WatchNext]_allVars, NEW k \in Sources
    PROVE  /\ \A j \in DOMAIN delta[k] : j \in DOMAIN delta'[k] /\ delta'[k][j] = delta[k][j]
           /\ seen'[k] = seen[k] \/ (OnDelta(k) /\ seen'[k] = seen[k] + 1)
<1> USE DEF WatchTypeOK
<1>1. ASSUME NEW q \in Sources, OnDelta(q)
      PROVE  /\ \A j \in DOMAIN delta[k] : j \in DOMAIN delta'[k] /\ delta'[k][j] = delta[k][j]
             /\ seen'[k] = seen[k] \/ (OnDelta(k) /\ seen'[k] = seen[k] + 1)
  <2>1. seen'[k] = seen[k] \/ (OnDelta(k) /\ seen'[k] = seen[k] + 1)
    BY <1>1 DEF OnDelta
  <2>2. delta'[k] = delta[k] \/ \E x \in 1..MaxEvents : delta'[k] = Append(delta[k], x)
    <3>1. CASE delta' = delta
      BY <3>1
    <3>2. CASE delta' = [delta EXCEPT ![q] = Append(@, seen'[q])]
      <4>1. seen'[q] \in 1..MaxEvents
        <5>1. seen'[q] = seen[q] + 1 /\ seen[q] \in 0..MaxEvents /\ cache[q] \in 0..MaxEvents /\ seen[q] < cache[q]
          BY <1>1 DEF OnDelta
        <5> QED
          BY <5>1, AgentAssumption
      <4> QED
        BY <3>2, <4>1
    <3> QED
      BY <1>1, <3>1, <3>2 DEF OnDelta, vars
  <2>3. delta[k] \in Seq(1..MaxEvents)
    OBVIOUS
  <2>4. \A j \in DOMAIN delta[k] : j \in DOMAIN delta'[k] /\ delta'[k][j] = delta[k][j]
    BY ONLY <2>2, <2>3
  <2> QED
    BY <2>1, <2>4
<1>2. CASE UNCHANGED <<seen, delta>>
  BY <1>2
<1> QED
  BY <1>1, <1>2
     DEF WatchNext, Connect, Transport, ReadList, ReadSwitch, WatchAction, ListCache, HandleDelta,
         SendEvent, watchVars, allVars

LEMMA NextFed ==
    ASSUME WatchTypeOK, TransportInv, WatchInv, WatchTypeOK', [WatchNext]_allVars
    PROVE  Fed'
<1> USE DEF WatchTypeOK, WatchInv
<1> SUFFICES ASSUME NEW l \in Lists, Counts(l)', NEW n \in Since(l)'
             PROVE  \E i \in EventAbout(Topic[l], n)' : Reaches(l, i)'
  BY DEF Fed
<1> DEFINE k == Topic[l]
<1>0. k \in Sources /\ l \in Requests
  BY AgentWatchAssumption DEF Lists
<1>1. \/ listed'[l] = listed[l]
      \/ ListCache(l) /\ listed'[l] = cache[k] /\ seen' = seen
  <2>1. ASSUME NEW r \in Requests, ReadSwitch(r) PROVE listed'[l] = listed[l]
    BY <2>1 DEF Counts, ReadSwitch, NoneListed
  <2>2. ASSUME NEW r \in Requests, ListCache(r)
        PROVE  listed'[l] = listed[l] \/ (ListCache(l) /\ listed'[l] = cache[k] /\ seen' = seen)
    BY <2>2 DEF ListCache
  <2> QED
    BY <2>1, <2>2
       DEF WatchNext, Connect, Transport, ReadList, WatchAction, HandleDelta, OnDelta,
           SendEvent, watchVars, allVars
<1>2. req[l] \notin {"unread", "skipped"}
  <2>1. CASE listed'[l] = listed[l]
    BY <2>1 DEF Counts, ListedIsWatched
  <2>2. CASE ListCache(l)
    BY <2>2 DEF ListCache, DoRequest
  <2> QED
    BY <1>1, <2>1, <2>2
<1>3. [Next]_vars
  BY StepIsAgents
<1>4. on'[l] = on[l] /\ on[l] = conn /\ conn > 0 /\ link[conn] = "open"
  BY <1>0, <1>2, <1>3, UpBefore DEF Counts
<1>5. /\ \A j \in DOMAIN delta[k] : j \in DOMAIN delta'[k] /\ delta'[k][j] = delta[k][j]
      /\ seen'[k] = seen[k] \/ (OnDelta(k) /\ seen'[k] = seen[k] + 1)
  BY <1>0, EventsAreKept
<1>6. /\ seen[k] \in Nat /\ cache[k] \in Nat /\ seen[k] <= cache[k]
      /\ listed'[l] \in Nat /\ seen'[k] \in Nat
      /\ n \in Nat /\ listed'[l] + 1 <= n /\ n <= seen'[k]
  BY <1>0 DEF Queued, Counts, Since
<1>7. listed'[l] = listed[l]
  BY <1>1, <1>6
<1>8. CASE n <= seen[k]
  <2>1. n \in Since(l) /\ Counts(l)
    BY <1>4, <1>6, <1>7, <1>8 DEF Since, Counts
  <2>2. PICK j \in DOMAIN delta[k] : delta[k][j] = n /\ Reaches(l, Event(k, j))
    BY <2>1 DEF Fed, EventAbout
  <2>3. j \in 1..MaxEvents
    <3>1. Len(delta[k]) = event[k] /\ event[k] \in 0..MaxEvents /\ DOMAIN delta[k] = 1..Len(delta[k])
      BY <1>0 DEF TypeOK, Queued
    <3> QED
      BY <3>1, AgentAssumption
  <2>4. Reaches(l, Event(k, j))'
    BY <1>0, <1>3, <1>4, <2>2, <2>3, ReachStays
  <2>5. Event(k, j) \in EventAbout(k, n)'
    BY <1>5, <2>2 DEF EventAbout, Event
  <2> QED
    BY <2>4, <2>5 DEF Event
<1>9. CASE n > seen[k]
  <2>1. OnDelta(k) /\ n = seen[k] + 1
    BY <1>5, <1>6, <1>9
  <2>2. watch /\ conn # 0
    BY <1>4, <1>7 DEF Counts, ListedIsWatched
  <2>3. /\ event' = [event EXCEPT ![k] = event[k] + 1]
        /\ source' = [source EXCEPT ![k] = "blocked"]
        /\ delta' = [delta EXCEPT ![k] = Append(delta[k], n)]
    BY <2>1, <2>2 DEF OnDelta, Push, DroppedAtSend
  <2>4. /\ Len(delta[k]) = event[k] /\ Len(delta[k]) \in Nat
        /\ delta'[k] = Append(delta[k], n)
    BY <1>0, <2>3 DEF Queued
  <2>5. event'[k] \in DOMAIN delta'[k] /\ delta'[k][event'[k]] = n
    <3>1. event'[k] = Len(delta[k]) + 1 /\ delta[k] \in Seq(1..MaxEvents)
      BY <1>0, <2>3, <2>4 DEF TypeOK
    <3> QED
      BY ONLY <2>4, <3>1
  <2>6. Event(k, event'[k]) \in EventAbout(k, n)'
    BY <2>5 DEF EventAbout, Event
  <2>7. AtCaller(Event(k, event[k]))'
    BY <1>0, <2>3 DEF AtCaller, TypeOK, Event
  <2> QED
    BY <2>6, <2>7 DEF Reaches, Event
<1> QED
  BY <1>6, <1>8, <1>9

\* The watch and the transport under it keep to their invariant.
THEOREM WatchInvariant == WatchSpec => [](WatchTypeOK /\ WatchInv)
<1>1. WatchInit => WatchTypeOK /\ WatchInv
  BY InitWatch
<1>2. /\ TypeOK /\ TransportInv /\ TypeOK' /\ WatchTypeOK /\ WatchInv /\ [WatchNext]_allVars
      => WatchTypeOK' /\ WatchInv'
  <2> SUFFICES ASSUME TypeOK, TransportInv, TypeOK', WatchTypeOK, WatchInv, [WatchNext]_allVars
               PROVE  WatchTypeOK' /\ WatchInv'
    OBVIOUS
  <2>1. WatchTypeOK'
    BY NextWatchType
  <2>2. Queued'
    BY NextQueued DEF WatchInv
  <2>3. SwitchesFollow' /\ ListedIsWatched'
    BY NextSwitches DEF WatchInv
  <2>4. Fed'
    BY <2>1, NextFed
  <2> QED
    BY <2>1, <2>2, <2>3, <2>4 DEF WatchInv
<1> QED
  BY <1>1, <1>2, WatchKeepsTransport, PTL DEF WatchSpec

\* What is added to the state of Agent keeps its shape, under every
\* interleaving of the listeners with the goroutines of the transport.
THEOREM WatchTypeCorrect == WatchSpec => []WatchTypeOK
BY WatchInvariant, PTL

\* A server that opened the watch and listed on a session that is still up is
\* sent every later event on that session, although the flag (watch.go) and
\* ws.Conn (websocket.go) know nothing of each other.
THEOREM SessionFed == WatchSpec => []ListedSessionIsFed
<1>1. WatchInv => ListedSessionIsFed
  BY DEF WatchInv, Fed, Counts, Reaches, ListedSessionIsFed
<1> QED
  BY <1>1, WatchInvariant, PTL

-----------------------------------------------------------------------------
(* AgentWatch implements WatchResource.                                    *)

\* The least of a set of numbers, as BaseOf takes it.
Least(B) == CHOOSE b \in B : \A d \in B : b <= d

LEMMA LeastExists ==
    ASSUME NEW B, B \subseteq Nat, B # {}
    PROVE  Least(B) \in B /\ \A d \in B : Least(B) <= d
<1> DEFINE Less == OpToRel(<, Nat)
<1>1. IsWellFoundedOn(Less, Nat)
  BY NatLessThanWellFounded, Zenon
<1>2. \A d, b \in Nat : d < b => <<d, b>> \in Less
  BY SMT DEF OpToRel
<1> HIDE DEF Less
<1>3. PICK b \in B : \A d \in B : ~(<<d, b>> \in Less)
  BY <1>1, WFMin
<1>4. \A d \in B : b <= d
  <2> SUFFICES ASSUME NEW d \in B PROVE b <= d
    OBVIOUS
  <2>1. b \in Nat /\ d \in Nat /\ ~(d < b)
    BY <1>2, <1>3, Zenon
  <2> QED
    BY <2>1
<1> QED
  BY <1>4 DEF Least

\* A number that none of them exceeds does not change it.
LEMMA LeastStays ==
    ASSUME NEW B, B \subseteq Nat, B # {}, NEW c \in Nat, \A b \in B : b <= c
    PROVE  Least(B \cup {c}) = Least(B)
<1> DEFINE C == B \cup {c}
<1>1. Least(B) \in B /\ \A d \in B : Least(B) <= d
  BY LeastExists
<1>2. C \subseteq Nat /\ C # {}
  OBVIOUS
<1>3. Least(C) \in C /\ \A d \in C : Least(C) <= d
  BY <1>2, LeastExists
<1> HIDE DEF C
<1>4. Least(C) \in B \/ Least(C) = c
  BY <1>3 DEF C
<1>5. Least(B) <= Least(C) /\ Least(C) <= Least(B) /\ Least(B) \in Nat /\ Least(C) \in Nat
  <2>1. Least(B) \in C /\ Least(B) \in Nat /\ Least(C) \in Nat
    BY <1>1, <1>2, <1>3 DEF C
  <2>2. Least(C) <= Least(B)
    BY <1>3, <2>1
  <2>3. Least(B) <= Least(C)
    BY <1>1, <1>4
  <2> QED
    BY <2>1, <2>2, <2>3
<1>6. Least(C) = Least(B)
  BY <1>5
<1> QED
  BY <1>6 DEF C

LEMMA LeastOfOne == ASSUME NEW c \in Nat PROVE Least({c}) = c
BY DEF Least

\* A list is never ahead of the cache it read.
ListsFollow == \A l \in Lists : listed[l] <= cache[Topic[l]]

LEMMA ListsFollowCaches == WatchSpec => []ListsFollow
<1> USE DEF WatchTypeOK
<1>1. WatchInit => ListsFollow
  BY AgentWatchAssumption, AgentAssumption DEF WatchInit, ListsFollow, NoneListed, NoBase, Lists
<1>2. ASSUME WatchTypeOK, ListsFollow, [WatchNext]_allVars PROVE ListsFollow'
  <2> SUFFICES ASSUME NEW l \in Lists PROVE listed'[l] <= cache'[Topic[l]]
    BY DEF ListsFollow
  <2>1. /\ Topic[l] \in Sources /\ cache[Topic[l]] \in Nat /\ listed[l] \in Int
        /\ listed[l] <= cache[Topic[l]]
    BY <1>2, AgentWatchAssumption DEF Lists, NoBase, ListsFollow
  <2>2. cache'[Topic[l]] = cache[Topic[l]] \/ cache'[Topic[l]] = cache[Topic[l]] + 1
    <3>1. CASE UNCHANGED cache
      BY <3>1
    <3>2. ASSUME NEW k \in Sources, HandleDelta(k)
          PROVE  cache'[Topic[l]] = cache[Topic[l]] \/ cache'[Topic[l]] = cache[Topic[l]] + 1
      BY <1>2, <2>1, <3>2 DEF HandleDelta
    <3> QED
      BY <1>2, <3>1, <3>2
         DEF WatchNext, Connect, Transport, ReadList, ReadSwitch, WatchAction, ListCache, OnDelta,
             SendEvent, watchVars, allVars
  <2>3. listed'[l] = listed[l] \/ listed'[l] = NoBase \/ listed'[l] = cache[Topic[l]]
    <3>1. CASE UNCHANGED listed
      BY <3>1
    <3>2. ASSUME NEW r \in Requests, ReadSwitch(r) \/ ListCache(r)
          PROVE  listed'[l] = listed[l] \/ listed'[l] = NoBase \/ listed'[l] = cache[Topic[l]]
      BY <1>2, <3>2 DEF ReadSwitch, ListCache, NoneListed
    <3> QED
      BY <1>2, <3>1, <3>2
         DEF WatchNext, Connect, Transport, ReadList, WatchAction, HandleDelta, OnDelta,
             SendEvent, watchVars, allVars
  <2> QED
    BY <2>1, <2>2, <2>3 DEF NoBase
<1> QED
  BY <1>1, <1>2, WatchInvariant, PTL DEF WatchSpec

\* The lists of a source that count; BaseOf is the least of them.
Bases(k) == {listed[l] : l \in {m \in Lists : Topic[m] = k}} \ {NoBase}

LEMMA BaseIsLeast ==
    ASSUME NEW k \in Sources
    PROVE  /\ BaseOf[k] = IF Bases(k) = {} THEN NoBase ELSE Least(Bases(k))
           /\ BaseOf'[k] = IF Bases(k)' = {} THEN NoBase ELSE Least(Bases(k)')
           /\ BaseOf = [q \in Sources |-> BaseOf[q]] /\ BaseOf' = [q \in Sources |-> BaseOf'[q]]
<1>1. /\ BaseOf[k] = IF Bases(k) = {} THEN NoBase ELSE Least(Bases(k))
      /\ BaseOf'[k] = IF Bases(k)' = {} THEN NoBase ELSE Least(Bases(k)')
  BY DEF BaseOf, Bases, Least
<1>2. BaseOf = [q \in Sources |-> BaseOf[q]] /\ BaseOf' = [q \in Sources |-> BaseOf'[q]]
  BY DEF BaseOf
<1> QED
  BY <1>1, <1>2

\* What the switch does not see of a step.
LEMMA Unseen ==
    ASSUME UNCHANGED <<watch, cache, seen, source, delta, late, orderly, last, listed>>,
           \A r \in Switches : RequestOf'[r] = RequestOf[r]
    PROVE  UNCHANGED W!vars
<1>1. RequestOf' = RequestOf
  BY DEF RequestOf
<1>2. WireOf' = WireOf
  BY DEF WireOf
<1>3. BaseOf' = BaseOf
  BY DEF BaseOf
<1> QED
  BY <1>1, <1>2, <1>3 DEF W!vars

LEMMA InitImplements == WatchInit => W!Init
<1> SUFFICES ASSUME WatchInit PROVE W!Init
  OBVIOUS
<1>1. RequestOf = [r \in Switches |-> "unsent"]
  BY DEF WatchInit, Init, RequestOf, Switches
<1>2. WireOf = [k \in Sources |-> <<>>]
  BY DEF WatchInit, Init, WireOf
<1>3. BaseOf = [k \in Sources |-> NoBase]
  <2>1. \A k \in Sources : Bases(k) = {}
    BY DEF WatchInit, NoneListed, Bases
  <2> QED
    BY <2>1 DEF BaseOf, Bases
<1> QED
  BY <1>1, <1>2, <1>3 DEF WatchInit, Init, W!Init, W!NoBase, NoBase

\* A request moves in the transport.
LEMMA TransportImplements ==
    ASSUME WatchTypeOK, TransportInv, Connect \/ Transport
    PROVE  [W!Next]_W!vars
<1> USE DEF WatchTypeOK, TypeOK
<1>0. UNCHANGED watchVars
  BY DEF Connect, Transport
<1>1. CASE \/ Connect \/ ConnectFails \/ ReadFails \/ CloseConn \/ LinkBreaks
           \/ SerializerFails \/ LoadConn \/ WriteSucceeds \/ WriteFails
  <2>1. UNCHANGED <<source, req>>
    BY <1>1 DEF Connect, ConnectSucceeds, ConnectFails, ReadFails, CloseConn, LinkBreaks,
       SerializerFails, LoadConn, WriteSucceeds, WriteFails, agentVars
  <2>2. \A r \in Switches : RequestOf'[r] = RequestOf[r]
    BY <2>1 DEF RequestOf
  <2> QED
    BY <1>0, <2>1, <2>2, Unseen DEF watchVars
<1>2. ASSUME NEW r \in Requests, ReadMalformed(r) \/ HandOver(r) \/ SendReply(r)
      PROVE  [W!Next]_W!vars
  <2>1. ~(SendReply(r) /\ conn = 0)
    <3> SUFFICES ASSUME SendReply(r), conn = 0 PROVE FALSE
      OBVIOUS
    <3>1. on[r] > 0 /\ on[r] <= conn /\ on[r] \in 0..MaxConn
      BY DEF SendReply, TransportInv, SendersHaveConn
    <3> QED
      BY <3>1, AgentAssumption
  <2>2. /\ UNCHANGED source /\ req \in [Requests -> ReqStates]
        /\ \/ req[r] = "unread" /\ req' = [req EXCEPT ![r] = "skipped"]
           \/ req[r] = "handing" /\ req' = [req EXCEPT ![r] = "running"]
           \/ req[r] = "replying" /\ req' = [req EXCEPT ![r] = "blocked"]
    BY <1>2, <2>1 DEF ReadMalformed, HandOver, SendReply, DroppedAtSend
  <2>3. \A q \in Switches : RequestOf'[q] = RequestOf[q]
    BY <2>2 DEF RequestOf, Switches
  <2> QED
    BY <1>0, <2>2, <2>3, Unseen DEF watchVars
<1>3. ASSUME NEW r \in Requests, TakeReply(r) PROVE [W!Next]_W!vars
  <2>1. /\ UNCHANGED source /\ req \in [Requests -> ReqStates]
        /\ req[r] = "blocked" /\ req' = [req EXCEPT ![r] = "returned"]
    BY <1>3 DEF TakeReply
  <2>2. CASE r \in Lists
    <3>1. \A q \in Switches : RequestOf'[q] = RequestOf[q]
      BY <2>1, <2>2 DEF RequestOf, Lists
    <3> QED
      BY <1>0, <2>1, <3>1, Unseen DEF watchVars
  <2>3. CASE r \in Switches
    <3>1. RequestOf[r] = "replying" /\ RequestOf' = [RequestOf EXCEPT ![r] = "answered"]
      BY <2>1, <2>3 DEF RequestOf, Switches
    <3>2. WireOf' = WireOf /\ BaseOf' = BaseOf
      BY <1>0, <2>1 DEF WireOf, BaseOf, watchVars
    <3>3. W!Reply(r)
      BY <1>0, <2>1, <3>1, <3>2 DEF W!Reply, watchVars
    <3> QED
      BY <2>3, <3>3 DEF W!Next
  <2> QED
    BY <2>2, <2>3 DEF Lists
<1> QED
  BY <1>1, <1>2, <1>3 DEF Transport

\* A watch request is read, and it runs.
LEMMA SwitchImplements ==
    ASSUME WatchTypeOK, NEW r \in Requests, ReadSwitch(r) \/ WatchAction(r)
    PROVE  [W!Next]_W!vars
<1> USE DEF WatchTypeOK, TypeOK
<1>0. W!Pending = Pending
  BY DEF W!Pending, Pending, RequestOf, Switches
<1>w. r \in Switches /\ r \in Requests /\ Want[r] \in {"open", "close"}
  BY AgentWatchAssumption DEF ReadSwitch, WatchAction, Switches
<1>1. CASE ReadSwitch(r)
  <2>1. /\ UNCHANGED <<source, watch, cache, seen, delta, late>>
        /\ req[r] = "unread" /\ req' = [req EXCEPT ![r] = "handing"]
        /\ req \in [Requests -> ReqStates]
        /\ orderly' = (orderly /\ Pending = {}) /\ last' = Want[r]
        /\ listed' = IF orderly' /\ last' = "open" THEN listed ELSE NoneListed
    BY <1>1 DEF ReadSwitch, ReadMessage
  <2>2. RequestOf[r] = "unsent" /\ RequestOf' = [RequestOf EXCEPT ![r] = "running"]
    BY <1>w, <2>1 DEF RequestOf, Switches
  <2>3. WireOf' = WireOf
    BY <2>1 DEF WireOf
  <2>4. BaseOf' = IF orderly' /\ last' = "open" THEN BaseOf ELSE [k \in Sources |-> NoBase]
    <3>1. CASE orderly' /\ last' = "open"
      <4>1. listed' = listed
        BY <2>1, <3>1
      <4>2. BaseOf' = BaseOf
        BY <4>1 DEF BaseOf
      <4> QED
        BY <3>1, <4>2
    <3>2. CASE ~(orderly' /\ last' = "open")
      <4>1. listed' = NoneListed
        BY <2>1, <3>2
      <4>2. \A k \in Sources : Bases(k)' = {}
        BY <4>1 DEF NoneListed, Bases
      <4> QED
        BY <3>2, <4>2 DEF BaseOf, Bases
    <3> QED
      BY <3>1, <3>2
  <2>5. W!Issue(r)
    BY <1>0, <1>w, <2>1, <2>2, <2>3, <2>4 DEF W!Issue, W!NoBase, NoBase
  <2> QED
    BY <1>w, <2>5 DEF W!Next
<1>2. CASE WatchAction(r)
  <2>1. /\ UNCHANGED <<source, cache, seen, delta, orderly, last, listed>>
        /\ req[r] = "running" /\ req' = [req EXCEPT ![r] = "replying"]
        /\ req \in [Requests -> ReqStates]
        /\ watch' = (Want[r] = "open")
        /\ late' = IF watch' = watch THEN late ELSE [k \in Sources |-> 0]
    BY <1>2 DEF WatchAction, DoRequest
  <2>2. RequestOf[r] = "running" /\ RequestOf' = [RequestOf EXCEPT ![r] = "replying"]
    BY <1>w, <2>1 DEF RequestOf, Switches
  <2>3. WireOf' = WireOf /\ BaseOf' = BaseOf
    BY <2>1 DEF WireOf, BaseOf
  <2>4. W!Switched(r) = (Want[r] = "open")
    BY <1>w DEF W!Switched
  <2>5. W!WatchAction(r)
    BY <2>1, <2>2, <2>3, <2>4 DEF W!WatchAction
  <2> QED
    BY <1>w, <2>5 DEF W!Next
<1> QED
  BY <1>1, <1>2

\* A list gives a resource its base if it is the first that counts.
LEMMA ListImplements ==
    ASSUME WatchTypeOK, ListsFollow, ListedIsWatched, NEW r \in Requests, ListCache(r) \/ ReadList(r)
    PROVE  [W!Next]_W!vars
<1> USE DEF WatchTypeOK, TypeOK
<1>0. r \in Lists /\ Topic[r] \in Sources /\ r \notin Switches
  BY AgentWatchAssumption DEF ListCache, ReadList, Lists
<1>1. /\ \A q \in Switches : RequestOf'[q] = RequestOf[q]
      /\ UNCHANGED <<source, watch, cache, seen, delta, late, orderly, last>>
  <2>1. /\ \A q \in Switches : req'[q] = req[q]
        /\ UNCHANGED <<source, watch, cache, seen, delta, late, orderly, last>>
    <3>1. \A q \in Switches : q # r /\ q \in Requests
      BY <1>0 DEF Switches
    <3> QED
      BY <3>1 DEF ReadList, ReadMessage, ListCache, DoRequest, watchVars
  <2> QED
    BY <2>1 DEF RequestOf
<1>2. CASE listed' = listed
  BY <1>1, <1>2, Unseen
<1>3. CASE listed' # listed
  <2> DEFINE k == Topic[r]
  <2>1. /\ orderly /\ Pending = {} /\ last = "open" /\ req[r] = "running"
        /\ listed' = [listed EXCEPT ![r] = cache[k]]
    BY <1>3 DEF ReadList, ListCache, DoRequest, watchVars
  <2>2. listed[r] = NoBase
    BY <1>0, <2>1 DEF ListedIsWatched
  <2>3. cache[k] \in Nat /\ cache[k] # NoBase
    BY <1>0 DEF NoBase
  <2>4. Bases(k)' = Bases(k) \cup {cache[k]}
    <3>1. listed'[r] = cache[k] /\ \A l \in Lists \ {r} : listed'[l] = listed[l]
      BY <1>0, <2>1
    <3> QED
      BY <1>0, <2>2, <2>3, <3>1 DEF Bases
  <2>5. \A q \in Sources \ {k} : Bases(q)' = Bases(q)
    <3>1. ASSUME NEW q \in Sources \ {k}, NEW l \in Lists, Topic[l] = q PROVE listed'[l] = listed[l]
      BY <1>0, <2>1, <3>1
    <3> SUFFICES ASSUME NEW q \in Sources \ {k} PROVE Bases(q)' = Bases(q)
      OBVIOUS
    <3> DEFINE M == {m \in Lists : Topic[m] = q}
    <3>2. \A l \in M : listed'[l] = listed[l]
      BY <3>1
    <3> HIDE DEF M
    <3>3. {listed'[l] : l \in M} = {listed[l] : l \in M}
      BY <3>2
    <3> QED
      BY <3>3 DEF Bases, M
  <2>6. \A b \in Bases(k) : b \in Nat /\ b <= cache[k]
    <3> SUFFICES ASSUME NEW l \in Lists, Topic[l] = k, listed[l] # NoBase
                 PROVE  listed[l] \in Nat /\ listed[l] <= cache[k]
      BY DEF Bases
    <3> QED
      BY DEF ListsFollow
  <2>7. \A q \in Sources \ {k} : BaseOf'[q] = BaseOf[q]
    BY <2>5, BaseIsLeast
  <2>8. BaseOf'[k] = IF Bases(k) = {} THEN cache[k] ELSE BaseOf[k]
    <3>1. BaseOf'[k] = Least(Bases(k) \cup {cache[k]})
      BY <1>0, <2>4, BaseIsLeast
    <3>2. CASE Bases(k) = {}
      BY <2>3, <3>1, <3>2, LeastOfOne
    <3>3. CASE Bases(k) # {}
      <4>1. Least(Bases(k) \cup {cache[k]}) = Least(Bases(k))
        BY <2>3, <2>6, <3>3, LeastStays
      <4> QED
        BY <1>0, <3>1, <3>3, <4>1, BaseIsLeast
    <3> QED
      BY <3>2, <3>3
  <2>9. WireOf' = WireOf /\ RequestOf' = RequestOf
    <3>1. RequestOf' = RequestOf
      BY <1>1 DEF RequestOf
    <3> QED
      BY <1>1, <3>1 DEF WireOf
  <2>10. CASE Bases(k) = {}
    <3>1. BaseOf[k] = NoBase /\ BaseOf' = [BaseOf EXCEPT ![k] = cache[k]]
      BY <1>0, <2>7, <2>8, <2>10, BaseIsLeast
    <3>2. W!Pending = {}
      BY <2>1 DEF W!Pending, Pending, RequestOf, Switches
    <3>3. W!List(k)
      BY <1>0, <1>1, <2>1, <2>9, <3>1, <3>2 DEF W!List, W!NoBase, NoBase
    <3> QED
      BY <1>0, <3>3 DEF W!Next
  <2>11. CASE Bases(k) # {}
    <3>1. BaseOf' = BaseOf
      BY <2>7, <2>8, <2>11 DEF BaseOf
    <3> QED
      BY <1>1, <2>9, <3>1 DEF W!vars
  <2> QED
    BY <2>10, <2>11
<1> QED
  BY <1>2, <1>3

\* A sequence is its beginning and its last element.
LEMMA WithoutLast ==
    ASSUME NEW S, NEW s \in Seq(S), Len(s) > 0
    PROVE  s = Append(SubSeq(s, 1, Len(s) - 1), s[Len(s)])
<1> DEFINE t == SubSeq(s, 1, Len(s) - 1)
<1>1. Len(s) \in Nat /\ \A i \in 1..Len(s) : s[i] \in S
  OBVIOUS
<1>2. t \in Seq(S) /\ Len(t) = Len(s) - 1 /\ \A i \in 1..(Len(s) - 1) : t[i] = s[i]
  <2>1. \A i \in 1..(Len(s) - 1) : s[i] \in S
    BY <1>1
  <2>2. /\ t \in Seq(S) /\ Len(t) = IF 1 <= Len(s) - 1 THEN (Len(s) - 1) - 1 + 1 ELSE 0
        /\ \A i \in 1..((Len(s) - 1) - 1 + 1) : t[i] = s[1 + i - 1]
    <3>1. 1 \in Int /\ Len(s) - 1 \in Int
      BY <1>1
    <3> HIDE DEF t
    <3> QED
      BY <2>1, <3>1, SubSeqProperties DEF t
  <2> HIDE DEF t
  <2>3. Len(t) = Len(s) - 1
    <3>1. Len(t) = IF 1 <= Len(s) - 1 THEN (Len(s) - 1) - 1 + 1 ELSE 0
      BY <2>2
    <3>2. Len(s) \in Nat /\ Len(s) > 0
      BY <1>1
    <3>3. CASE Len(s) = 1
      BY <3>1, <3>2, <3>3
    <3>4. CASE Len(s) > 1
      <4>1. 1 <= Len(s) - 1 /\ (Len(s) - 1) - 1 + 1 = Len(s) - 1
        BY <3>2, <3>4
      <4> QED
        BY <3>1, <4>1
    <3>5. Len(s) = 1 \/ Len(s) > 1
      <4>1. \A n \in Nat : n > 0 => n = 1 \/ n > 1
        OBVIOUS
      <4> QED
        BY <3>2, <4>1, Zenon
    <3> QED
      BY <3>3, <3>4, <3>5, Zenon
  <2>4. ASSUME NEW i \in 1..(Len(s) - 1) PROVE t[i] = s[i]
    <3>1. i \in 1..((Len(s) - 1) - 1 + 1) /\ 1 + i - 1 = i
      BY <1>1
    <3>2. t[i] = s[1 + i - 1]
      BY <2>2, <3>1
    <3> QED
      BY <3>1, <3>2
  <2> QED
    BY <2>2, <2>3, <2>4
<1> HIDE DEF t
<1>3. /\ Append(t, s[Len(s)]) \in Seq(S) /\ Len(Append(t, s[Len(s)])) = Len(s)
      /\ \A i \in 1..Len(s) : Append(t, s[Len(s)])[i] = s[i]
  BY <1>1, <1>2
<1> QED
  BY <1>3, SeqEqual DEF t

LEMMA BeforeAppend ==
    ASSUME NEW S, NEW s \in Seq(S), NEW x \in S
    PROVE  SubSeq(Append(s, x), 1, Len(Append(s, x)) - 1) = s
<1>1. /\ Len(s) \in Nat /\ Append(s, x) \in Seq(S) /\ Len(Append(s, x)) = Len(s) + 1
      /\ \A i \in 1..Len(s) : Append(s, x)[i] = s[i] /\ s[i] \in S
  OBVIOUS
<1>2. Len(Append(s, x)) - 1 = Len(s)
  BY <1>1
<1> DEFINE a == Append(s, x)
<1> DEFINE t == SubSeq(a, 1, Len(s))
<1> HIDE DEF a
<1>3. t \in Seq(S) /\ Len(t) = Len(s) /\ \A i \in 1..Len(s) : t[i] = s[i]
  <2>1. \A i \in 1..Len(s) : a[i] \in S
    BY <1>1 DEF a
  <2>2. t \in Seq(S) /\ Len(t) = Len(s) /\ \A i \in 1..Len(s) : t[i] = a[i]
    BY <1>1, <2>1, SubSeqProperties
  <2> QED
    BY <1>1, <2>2 DEF a
<1> HIDE DEF t
<1>4. t = s
  BY <1>3, SeqEqual
<1> QED
  BY <1>2, <1>4 DEF t, a

\* A delta is applied, taken by the listener, and sent.
LEMMA DeltaImplements ==
    ASSUME WatchTypeOK, SwitchesFollow, Queued, NEW k \in Sources,
           HandleDelta(k) \/ OnDelta(k) \/ SendEvent(k)
    PROVE  [W!Next]_W!vars
<1> USE DEF WatchTypeOK, TypeOK
<1>0. UNCHANGED <<req, watch, orderly, last, listed>> /\ RequestOf' = RequestOf /\ BaseOf' = BaseOf
  <2>1. UNCHANGED <<req, watch, orderly, last, listed>>
    BY DEF HandleDelta, OnDelta, Push, SendEvent, TakeEvent, vars
  <2> QED
    BY <2>1 DEF RequestOf, BaseOf
<1>s. ASSUME source' = source, delta' = delta PROVE WireOf' = WireOf
  BY <1>s DEF WireOf
<1> DEFINE Callbacks == [q \in Sources |-> IF source[q] = "blocked" THEN "sending" ELSE "idle"]
<1>1. CASE HandleDelta(k)
  <2>1. UNCHANGED <<source, seen, delta, late>> /\ cache[k] < MaxEvents /\ cache' = [cache EXCEPT ![k] = @ + 1]
    BY <1>1 DEF HandleDelta, vars
  <2>2. W!HandleDelta(k)
    BY <1>0, <1>s, <2>1 DEF W!HandleDelta
  <2> QED
    BY <2>2 DEF W!Next
<1>2. CASE OnDelta(k)
  <2>1. /\ source[k] = "idle" /\ seen[k] < cache[k] /\ UNCHANGED <<cache, late>>
        /\ seen' = [seen EXCEPT ![k] = @ + 1]
    BY <1>2 DEF OnDelta
  <2>2. Callbacks' = [Callbacks EXCEPT ![k] = IF watch THEN "sending" ELSE "idle"] /\ WireOf' = WireOf
    <3>1. CASE ~watch
      <4>1. source' = source /\ delta' = delta
        BY <1>2, <3>1 DEF OnDelta, vars
      <4> QED
        BY <1>s, <2>1, <3>1, <4>1
    <3>2. CASE watch
      <4>1. /\ source' = [source EXCEPT ![k] = "blocked"]
            /\ delta' = [delta EXCEPT ![k] = Append(@, seen'[k])]
        BY <1>2, <3>2, AgentAssumption DEF OnDelta, Push, DroppedAtSend, SwitchesFollow
      <4>2. seen'[k] \in 1..MaxEvents
        <5>1. seen'[k] = seen[k] + 1 /\ seen[k] \in 0..MaxEvents /\ cache[k] \in 0..MaxEvents
          BY <2>1
        <5> QED
          BY <2>1, <5>1, AgentAssumption
      <4>3. delta[k] \in Seq(1..MaxEvents) /\ delta'[k] = Append(delta[k], seen'[k])
        BY <4>1
      <4>4. SubSeq(delta'[k], 1, Len(delta'[k]) - 1) = delta[k]
        BY <4>2, <4>3, BeforeAppend
      <4>5. WireOf'[k] = WireOf[k]
        BY <2>1, <4>1, <4>4 DEF WireOf
      <4>6. \A q \in Sources \ {k} : source'[q] = source[q] /\ delta'[q] = delta[q]
        BY <4>1
      <4>7. \A q \in Sources : WireOf'[q] = WireOf[q]
        BY <4>5, <4>6 DEF WireOf
      <4>8. WireOf' = WireOf
        BY <4>7 DEF WireOf
      <4>9. Callbacks' = [Callbacks EXCEPT ![k] = IF watch THEN "sending" ELSE "idle"]
        BY <3>2, <4>1
      <4> QED
        BY <4>8, <4>9
    <3> QED
      BY <3>1, <3>2
  <2>3. W!OnDelta(k)
    BY <1>0, <2>1, <2>2 DEF W!OnDelta
  <2> QED
    BY <2>3 DEF W!Next
<1>3. CASE SendEvent(k)
  <2>1. /\ source[k] = "blocked" /\ source' = [source EXCEPT ![k] = "idle"]
        /\ UNCHANGED <<cache, seen, delta>>
        /\ late' = IF watch THEN late ELSE [late EXCEPT ![k] = @ + 1]
    BY <1>3 DEF SendEvent, TakeEvent
  <2>2. Callbacks[k] = "sending" /\ Callbacks' = [Callbacks EXCEPT ![k] = "idle"]
    BY <2>1
  <2>3. WireOf' = [WireOf EXCEPT ![k] = Append(@, seen[k])]
    <3>1. Len(delta[k]) > 0 /\ delta[k][Len(delta[k])] = seen[k]
      BY <2>1 DEF Queued
    <3>2. delta[k] = Append(SubSeq(delta[k], 1, Len(delta[k]) - 1), seen[k])
      <4>1. delta[k] \in Seq(1..MaxEvents)
        OBVIOUS
      <4> QED
        BY <3>1, <4>1, WithoutLast
    <3>3. WireOf'[k] = Append(WireOf[k], seen[k])
      BY <2>1, <3>2 DEF WireOf
    <3>4. \A q \in Sources \ {k} : WireOf'[q] = WireOf[q]
      BY <2>1 DEF WireOf
    <3>5. WireOf' = [q \in Sources |-> WireOf'[q]] /\ WireOf = [q \in Sources |-> WireOf[q]]
      BY DEF WireOf
    <3> QED
      BY <3>3, <3>4, <3>5
  <2>4. W!Send(k)
    BY <1>0, <2>1, <2>2, <2>3 DEF W!Send
  <2> QED
    BY <2>4 DEF W!Next
<1> QED
  BY <1>1, <1>2, <1>3

\* Over the transport the switch does what WatchResource says it does: a
\* reconnection, a stale request or a dropped item changes nothing for it
\* (watch.go over websocket.go).
THEOREM WatchImplements == WatchSpec => ImplementsWatchResource
<1>1. WatchInit => W!Init
  BY InitImplements
<1>2. /\ TypeOK /\ TransportInv /\ WatchTypeOK /\ WatchInv /\ ListsFollow /\ [WatchNext]_allVars
      => [W!Next]_W!vars
  <2> SUFFICES ASSUME TransportInv, WatchTypeOK, WatchInv, ListsFollow, [WatchNext]_allVars
               PROVE  [W!Next]_W!vars
    OBVIOUS
  <2> USE DEF WatchInv
  <2>1. CASE Connect \/ Transport
    BY <2>1, TransportImplements
  <2>2. ASSUME NEW r \in Requests, ReadSwitch(r) \/ WatchAction(r) PROVE [W!Next]_W!vars
    BY <2>2, SwitchImplements
  <2>3. ASSUME NEW r \in Requests, ReadList(r) \/ ListCache(r) PROVE [W!Next]_W!vars
    BY <2>3, ListImplements
  <2>4. ASSUME NEW k \in Sources, HandleDelta(k) \/ OnDelta(k) \/ SendEvent(k) PROVE [W!Next]_W!vars
    BY <2>4, DeltaImplements
  <2>5. CASE UNCHANGED allVars
    <3>1. /\ UNCHANGED <<watch, cache, seen, source, delta, late, orderly, last, listed>>
          /\ \A r \in Switches : RequestOf'[r] = RequestOf[r]
      BY <2>5 DEF allVars, vars, watchVars, RequestOf
    <3> QED
      BY <3>1, Unseen
  <2> QED
    BY <2>1, <2>2, <2>3, <2>4, <2>5 DEF WatchNext
<1> QED
  BY <1>1, <1>2, WatchKeepsTransport, WatchInvariant, ListsFollowCaches, PTL
     DEF WatchSpec, W!Spec, ImplementsWatchResource
=============================================================================
