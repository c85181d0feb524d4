------------------------------- MODULE Agent -------------------------------
(***************************************************************************)
(* The transport of the agent and its request dispatcher:                  *)
(* pkg/websocket/websocket.go, pkg/container/container.go and              *)
(* pkg/core/agent.go.                                                      *)
(*                                                                         *)
(* Goroutines: the reader (ReadRequest), the writer (WriteResponse), the   *)
(* main goroutine (Container.Run), one handler per request, and the        *)
(* sources: the informer listeners and the exec and log streams that call  *)
(* SendResponse on their own account.  They share the pointer ws.Conn,     *)
(* which no lock protects, and the unbuffered channels RequestChan and     *)
(* ResponseChan, on which sender and receiver meet in one step.            *)
(***************************************************************************)
EXTENDS Naturals, FiniteSets

CONSTANTS Requests,    \* the messages the server may send, each at most once
          Sources,     \* the goroutines that push events and stream output
          Kind,        \* what each request is, see Kinds
          Unencodable, \* the items json.Marshal refuses (utils/response.go)
          NoItem,      \* the writer holds nothing
          MaxConn,     \* bound: connections the agent establishes
          MaxEvents    \* bound: events each source pushes

(***************************************************************************)
(* "malformed" is not JSON; "unknown" names no route; the handler of a     *)
(* "blocking" request may never return (an STDIN whose stream is gone);    *)
(* every other request is "ordinary".                                      *)
(***************************************************************************)
Kinds == {"malformed", "unknown", "blocking", "ordinary"}

\* What travels over ResponseChan: the reply of a request, or an event.
Reply(r)    == <<r, 0>>
Event(s, n) == <<s, n>>
Callers     == Requests \cup Sources
Items       == Callers \X (0..MaxEvents)
Conns       == 1..MaxConn

ASSUME AgentAssumption ==
    /\ Requests \cap Sources = {}
    /\ Kind \in [Requests -> Kinds]
    /\ NoItem \notin Items
    /\ MaxConn \in Nat \ {0}
    /\ MaxEvents \in Nat

VARIABLES conn,     \* ws.Conn: 0 is nil, g is the g-th connection dialled
          link,     \* what each connection is worth
          reader,   \* where ReadRequest stands
          req,      \* where each request, later its handler, stands
          on,       \* history: the connection each request was read from
          code,     \* the code of the reply each handler made
          source,   \* a source is idle or blocked in SendResponse
          event,    \* how many events each source has pushed
          writer,   \* WriteResponse: its item and the ws.Conn it loaded
          written,  \* history: the items a connection accepted
          dropped   \* history: the items given up, and where

vars == <<conn, link, reader, req, on, code, source, event, writer, written, dropped>>
agentVars == <<req, on, code, source, event, writer, written, dropped>>

LinkStates   == {"none", "open", "broken", "closed"}
ReaderStates == {"dial", "tick", "read", "handing", "failed"}
ReqStates    == {"unread", "skipped", "handing", "running", "replying",
                 "blocked", "returned"}
Codes        == {"none", "Handled", "ActionError", "UnknownError"}
Causes       == {"nil", "serializer", "write"}
Idle         == [pc |-> "idle", item |-> NoItem, conn |-> 0]

Init ==
    /\ conn = 0
    /\ link = [g \in Conns |-> "none"]
    /\ reader = "dial"
    /\ req = [r \in Requests |-> "unread"]
    /\ on = [r \in Requests |-> 0]
    /\ code = [r \in Requests |-> "none"]
    /\ source = [s \in Sources |-> "idle"]
    /\ event = [s \in Sources |-> 0]
    /\ writer = Idle
    /\ written = {}
    /\ dropped = {}

-----------------------------------------------------------------------------
(* The reader goroutine.                                                   *)

\* connectServer dialled: ws.Conn now points to the new connection.
ConnectSucceeds ==
    /\ reader \in {"dial", "tick"}
    /\ conn < MaxConn
    /\ conn' = conn + 1
    /\ link' = [link EXCEPT ![conn + 1] = "open"]
    /\ reader' = "read"
    /\ UNCHANGED agentVars

\* connectServer failed: reconnectServer tries again at the next tick.
ConnectFails ==
    /\ reader \in {"dial", "tick"}
    /\ reader' = "tick"
    /\ UNCHANGED <<conn, link, agentVars>>

\* ReadMessage may still return what arrived before the link broke.
CanRead == reader = "read" /\ link[conn] \in {"open", "broken"}

ReadMalformed(r) ==
    /\ CanRead
    /\ req[r] = "unread" /\ Kind[r] = "malformed"
    /\ req' = [req EXCEPT ![r] = "skipped"]
    /\ UNCHANGED <<conn, link, reader, on, code, source, event, writer, written, dropped>>

ReadMessage(r) ==
    /\ CanRead
    /\ req[r] = "unread" /\ Kind[r] # "malformed"
    /\ req' = [req EXCEPT ![r] = "handing"]
    /\ on' = [on EXCEPT ![r] = conn]
    /\ reader' = "handing"
    /\ UNCHANGED <<conn, link, code, source, event, writer, written, dropped>>

ReadFails ==
    /\ reader = "read" /\ link[conn] = "broken"
    /\ reader' = "failed"
    /\ UNCHANGED <<conn, link, agentVars>>

\* Mutation: the failed connection is left open.
CloseConn_Leaks ==
    /\ reader = "failed"
    /\ reader' = "dial"
    /\ UNCHANGED <<conn, link, agentVars>>

\* Mutation: the reader goes on reading the connection that failed.
CloseConn_NoRedial ==
    /\ reader = "failed"
    /\ reader' = "read"
    /\ UNCHANGED <<conn, link, agentVars>>

CloseConn ==
    /\ reader = "failed"
    /\ link' = [link EXCEPT ![conn] = "closed"]
    /\ reader' = "dial"
    /\ UNCHANGED <<conn, agentVars>>

\* RequestChan: the reader meets Container.Run, which spawns the handler.
HandOver(r) ==
    /\ req[r] = "handing"
    /\ req' = [req EXCEPT ![r] = "running"]
    /\ reader' = "read"
    /\ UNCHANGED <<conn, link, on, code, source, event, writer, written, dropped>>

-----------------------------------------------------------------------------
(* The handler goroutines and the sources.                                 *)

\* Mutation: a handler's panic is not recovered.
ReplyCodes_NoRecover(r) ==
    IF Kind[r] = "unknown" THEN {"ActionError"} ELSE {"Handled", "Crash"}

\* doRequest: no route, or what the handler answers, or a panic recovered.
ReplyCodes(r) ==
    IF Kind[r] = "unknown" THEN {"ActionError"} ELSE {"Handled", "UnknownError"}

DoRequest(r) ==
    /\ req[r] = "running"
    /\ \E c \in ReplyCodes(r) : code' = [code EXCEPT ![r] = c]
    /\ req' = [req EXCEPT ![r] = "replying"]
    /\ UNCHANGED <<conn, link, reader, on, source, event, writer, written, dropped>>

\* SendResponse drops the item when ws.Conn is nil, else blocks to send it.
DroppedAtSend(i) == conn = 0

SendReply(r) ==
    /\ req[r] = "replying"
    /\ IF DroppedAtSend(Reply(r))
         THEN /\ req' = [req EXCEPT ![r] = "returned"]
              /\ dropped' = dropped \cup {<<Reply(r), "nil">>}
         ELSE /\ req' = [req EXCEPT ![r] = "blocked"]
              /\ UNCHANGED dropped
    /\ UNCHANGED <<conn, link, reader, on, code, source, event, writer, written>>

Push(s) ==
    /\ source[s] = "idle" /\ event[s] < MaxEvents
    /\ event' = [event EXCEPT ![s] = @ + 1]
    /\ IF DroppedAtSend(Event(s, event'[s]))
         THEN /\ dropped' = dropped \cup {<<Event(s, event'[s]), "nil">>}
              /\ UNCHANGED source
         ELSE /\ source' = [source EXCEPT ![s] = "blocked"]
              /\ UNCHANGED dropped
    /\ UNCHANGED <<conn, link, reader, req, on, code, writer, written>>

-----------------------------------------------------------------------------
(* The writer goroutine.                                                   *)

Take(i) ==
    /\ writer = Idle
    /\ writer' = [pc |-> "encode", item |-> i, conn |-> 0]
    /\ UNCHANGED <<conn, link, reader, on, code, event, written, dropped>>

TakeReply(r) ==
    /\ req[r] = "blocked"
    /\ req' = [req EXCEPT ![r] = "returned"]
    /\ UNCHANGED source
    /\ Take(Reply(r))

TakeEvent(s) ==
    /\ source[s] = "blocked"
    /\ source' = [source EXCEPT ![s] = "idle"]
    /\ UNCHANGED req
    /\ Take(Event(s, event[s]))

SerializerFails ==
    /\ writer.pc = "encode" /\ writer.item \in Unencodable
    /\ dropped' = dropped \cup {<<writer.item, "serializer">>}
    /\ writer' = Idle
    /\ UNCHANGED <<conn, link, reader, req, on, code, source, event, written>>

\* Mutation: the writer keeps the first connection it ever saw.
LoadConn_FirstConn ==
    /\ writer.pc = "encode" /\ writer.item \notin Unencodable
    /\ writer' = [writer EXCEPT !.pc = "write", !.conn = 1]
    /\ UNCHANGED <<conn, link, reader, req, on, code, source, event, written, dropped>>

\* The writer loads ws.Conn; the reader may close and replace it before
\* WriteMessage is done with it.
LoadConn ==
    /\ writer.pc = "encode" /\ writer.item \notin Unencodable
    /\ writer' = [writer EXCEPT !.pc = "write", !.conn = conn]
    /\ UNCHANGED <<conn, link, reader, req, on, code, source, event, written, dropped>>

\* WriteMessage returned no error: the bytes are in the socket's buffer.
WriteSucceeds ==
    /\ writer.pc = "write" /\ link[writer.conn] \in {"open", "broken"}
    /\ written' = written \cup {<<writer.item, writer.conn>>}
    /\ writer' = Idle
    /\ UNCHANGED <<conn, link, reader, req, on, code, source, event, dropped>>

\* Mutation: the writer keeps an item it could not write, to retry it, and
\* records it as given up all the same.
WriteFails_Retries ==
    /\ writer.pc = "write" /\ link[writer.conn] \in {"broken", "closed"}
    /\ dropped' = dropped \cup {<<writer.item, "write">>}
    /\ writer' = [writer EXCEPT !.pc = "encode"]
    /\ UNCHANGED <<conn, link, reader, req, on, code, source, event, written>>

\* Mutation: the writer tries again and again on the connection it loaded.
WriteFails_Spins ==
    /\ writer.pc = "write" /\ link[writer.conn] \in {"broken", "closed"}
    /\ UNCHANGED vars

WriteFails ==
    /\ writer.pc = "write" /\ link[writer.conn] \in {"broken", "closed"}
    /\ dropped' = dropped \cup {<<writer.item, "write">>}
    /\ writer' = Idle
    /\ UNCHANGED <<conn, link, reader, req, on, code, source, event, written>>

-----------------------------------------------------------------------------
(* The server or the network ends the connection.  Bound: the last of the  *)
(* MaxConn connections stays up.                                           *)
LinkBreaks ==
    /\ conn \in 1..(MaxConn - 1) /\ link[conn] = "open"
    /\ link' = [link EXCEPT ![conn] = "broken"]
    /\ UNCHANGED <<conn, reader, agentVars>>

ReaderNext == \/ ConnectSucceeds \/ ConnectFails \/ ReadFails \/ CloseConn
              \/ \E r \in Requests : ReadMalformed(r) \/ ReadMessage(r) \/ HandOver(r)
WriterNext == \/ SerializerFails \/ LoadConn \/ WriteSucceeds \/ WriteFails
              \/ \E r \in Requests : TakeReply(r)
              \/ \E s \in Sources : TakeEvent(s)

Next == \/ ReaderNext
        \/ WriterNext
        \/ \E r \in Requests : DoRequest(r) \/ SendReply(r)
        \/ \E s \in Sources : Push(s)
        \/ LinkBreaks

Spec == Init /\ [][Next]_vars

(***************************************************************************)
(* Fairness.  Go keeps running a goroutine that can run; a select that     *)
(* finds ResponseChan's queue of blocked senders serves it first come,     *)
(* first served, so each blocked sender is taken in the end (SF); a dial   *)
(* is repeated until one succeeds; WriteMessage returns.  Nothing is       *)
(* assumed of the handlers of blocking requests, of the server's messages, *)
(* or of the sources.                                                      *)
(***************************************************************************)
Fairness ==
    /\ WF_vars(ConnectSucceeds)
    /\ WF_vars(ReadFails \/ CloseConn)
    /\ WF_vars(SerializerFails \/ LoadConn \/ WriteSucceeds \/ WriteFails)
    /\ WF_vars(\E r \in Requests : HandOver(r))
    /\ \A r \in {q \in Requests : Kind[q] # "malformed"} :
          /\ WF_vars(SendReply(r) \/ (Kind[r] # "blocking" /\ DoRequest(r)))
          /\ SF_vars(TakeReply(r))
    /\ \A s \in Sources : SF_vars(TakeEvent(s))

FairSpec == Spec /\ Fairness

-----------------------------------------------------------------------------
(* Properties.                                                             *)

\* The shape of the state.
TypeOK ==
    /\ conn \in 0..MaxConn
    /\ link \in [Conns -> LinkStates]
    /\ reader \in ReaderStates
    /\ req \in [Requests -> ReqStates]
    /\ on \in [Requests -> 0..MaxConn]
    /\ code \in [Requests -> Codes]
    /\ source \in [Sources -> {"idle", "blocked"}]
    /\ event \in [Sources -> 0..MaxEvents]
    /\ writer \in {Idle} \cup [pc : {"encode", "write"}, item : Items, conn : 0..MaxConn]
    /\ written \subseteq Items \X (0..MaxConn)
    /\ dropped \subseteq Items \X Causes

\* WriteResponse never calls WriteMessage on a nil ws.Conn (websocket.go:105
\* has no check of its own: it relies on SendResponse's), and, the other way
\* round, no reply to a request is lost to that check.
NilCheckSuffices ==
    /\ writer.pc = "write" => writer.conn # 0
    /\ \A r \in Requests : <<Reply(r), "nil">> \notin dropped

\* However often the link breaks, every connection but the one in ws.Conn
\* has been closed: reconnecting leaks no connection.
StaleConnsClosed == \A g \in Conns : g < conn => link[g] = "closed"

\* What the agent does with an item, as sets of places it can be in.
Written(i) == {w \in written : w[1] = i}
Dropped(i) == {d \in dropped : d[1] = i}
Settled(i) == Written(i) \cup Dropped(i) # {}
AtCaller(i) == \/ \E r \in Requests : i = Reply(r) /\ req[r] = "blocked"
               \/ \E s \in Sources : source[s] = "blocked" /\ i = Event(s, event[s])
AtWriter(i) == writer.pc # "idle" /\ writer.item = i
Sent(i) == \/ \E r \in Requests : i = Reply(r) /\ req[r] \in {"blocked", "returned"}
           \/ \E s \in Sources : \E n \in 1..event[s] : i = Event(s, n)

\* Every item handed to SendResponse is in exactly one place: with its
\* blocked caller, with the writer, accepted by one connection or dropped for
\* one cause.  So no reply and no event is sent twice, none is lost without a
\* cause, and nothing is sent that nobody handed in.
ExactlyOnePlace ==
    \A i \in Items :
        IF Sent(i)
          THEN Cardinality(Written(i)) + Cardinality(Dropped(i))
                 + (IF AtCaller(i) THEN 1 ELSE 0) + (IF AtWriter(i) THEN 1 ELSE 0) = 1
          ELSE Written(i) = {} /\ Dropped(i) = {} /\ ~AtWriter(i)

\* A reply is lost to a write error only when the connection its request came
\* from is no longer up: whatever the interleaving of reader, writer and
\* handlers, a server that keeps its connection gets its answers.
LossNeedsBrokenLink ==
    \A r \in Requests : <<Reply(r), "write">> \in dropped => link[on[r]] # "open"

(***************************************************************************)
(* The inductive invariant behind these three: the reader holds the only   *)
(* live connection, hands over one request at a time, and whoever waits on *)
(* ResponseChan, or was taken from it, knows that a connection exists.     *)
(***************************************************************************)
ReaderHoldsConn ==
    /\ reader \in {"read", "handing"} => conn > 0 /\ link[conn] \in {"open", "broken"}
    /\ reader = "failed" => conn > 0 /\ link[conn] = "broken"
    /\ reader \in {"dial", "tick"} => conn = 0 \/ link[conn] = "closed"

OneHandOver ==
    /\ \A r \in Requests : req[r] = "handing" => reader = "handing"
    /\ \A r, q \in Requests : req[r] = "handing" /\ req[q] = "handing" => r = q

SendersHaveConn ==
    /\ \A r \in Requests : /\ on[r] <= conn
                           /\ req[r] \notin {"unread", "skipped"} => on[r] > 0
    /\ \A s \in Sources : source[s] = "blocked" => conn > 0

WriterHasConn ==
    /\ writer # Idle => conn > 0
    /\ writer.pc = "write" => writer.conn \in 1..conn
    /\ \A r \in Requests : writer # Idle /\ writer.item = Reply(r) =>
          /\ req[r] = "returned"
          /\ writer.pc = "write" => on[r] <= writer.conn

LossIsOld ==
    \A r \in Requests : <<Reply(r), "write">> \in dropped =>
        req[r] = "returned" /\ link[on[r]] # "open"

\* The reader, the senders and the writer agree on which connection is live:
\* the conjunction is preserved by every step of every goroutine.
TransportInv ==
    /\ NilCheckSuffices /\ StaleConnsClosed
    /\ ReaderHoldsConn /\ OneHandOver /\ SendersHaveConn /\ WriterHasConn /\ LossIsOld

\* No step writes to a connection the reader has already replaced, although
\* the writer works with the pointer it loaded earlier.
WritesGoToCurrentConn ==
    [][\A w \in written' \ written : w[2] = conn]_vars

\* A broken link is replaced by a new one in the end.
Reconnects == (conn > 0 /\ link[conn] = "broken") ~> (conn > 0 /\ link[conn] = "open")

(***************************************************************************)
(* The agent seen from the server: RequestReply, with the goroutines and   *)
(* the channels left out.  A request is answered when a connection has     *)
(* accepted its reply, and cut off when its connection is no longer up.    *)
(***************************************************************************)
Phase == [r \in Requests |->
            CASE req[r] \in {"unread", "skipped"} -> "pending"
              [] Written(Reply(r)) # {} -> "answered"
              [] Dropped(Reply(r)) # {} -> "lost"
              [] OTHER -> "accepted"]
AnswerOf == [r \in Requests |-> IF Written(Reply(r)) = {} THEN "none" ELSE code[r]]
CutOff == {r \in Requests : on[r] # 0 /\ link[on[r]] # "open"}

\* The codes a server is promised: of a message without a route that it has
\* none, else the handler's own answer or that it panicked.
Promised(r) == IF Kind[r] = "unknown" THEN {"ActionError"} ELSE {"Handled", "UnknownError"}

RR == INSTANCE RequestReply WITH
        phase <- Phase, answer <- AnswerOf, cut <- CutOff,
        Allowed <- Promised,
        Unsendable <- {r \in Requests : Reply(r) \in Unencodable},
        MayHang <- {r \in Requests : Kind[r] = "blocking"}

\* The agent keeps the promise of RequestReply: an accepted request gets one
\* answer, with a code of its route, unless its session was cut.
ImplementsRequestReply == RR!Spec
=============================================================================
