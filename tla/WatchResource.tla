--------------------------- MODULE WatchResource ---------------------------
(***************************************************************************)
(* The watch switch, pkg/container/resource/watch.go, between the requests *)
(* that open and close it and the informers' listeners that read it.       *)
(*                                                                         *)
(* One flag serves every kind of resource.  WatchAction sets it under a    *)
(* mutex, on the goroutine of its request; the callbacks WatchAdd,         *)
(* WatchUpdate and WatchDelete read it without the mutex, each on the one  *)
(* listener goroutine of its informer, and then block in SendResponse.     *)
(* An informer (vendored client-go) applies a delta to its cache and       *)
(* queues it for its listener, which hands the deltas over in their order. *)
(* Deltas are numbered: "cache" counts those an informer has applied,      *)
(* "seen" those its listener has taken, the queue is what lies between.    *)
(***************************************************************************)
EXTENDS Integers, Sequences, FiniteSets

CONSTANTS Resources,   \* the informers whose deltas are watched
          Actions,     \* the watch requests the server may send
          Want,        \* what each asks for: "open", "close" or "invalid"
          Preloaded,   \* objects in each cache when the handlers are added
          MaxDeltas    \* bound: deltas an informer applies, Preloaded included

ASSUME WatchAssumption ==
    /\ Want \in [Actions -> {"open", "close", "invalid"}]
    /\ Preloaded \in Nat /\ MaxDeltas \in Nat /\ Preloaded <= MaxDeltas

VARIABLES watch,     \* WatchResource.watch
          cache,     \* deltas applied to each informer's cache
          seen,      \* deltas each listener has taken from its queue
          callback,  \* each listener is idle or in SendResponse
          request,   \* where each watch request stands
          wire,      \* history: the events the writer took, per resource
          late,      \* history: those it took since the flag was cleared
          orderly,   \* history: the server never had two requests pending
          last,      \* history: the last valid action the server sent
          base       \* history: the cache the server listed, see List

vars == <<watch, cache, seen, callback, request, wire, late, orderly, last, base>>

NoBase == -1

\* AddEventHandler replays what the cache holds: Preloaded deltas are queued.
Init ==
    /\ watch = FALSE
    /\ cache = [k \in Resources |-> Preloaded]
    /\ seen = [k \in Resources |-> 0]
    /\ callback = [k \in Resources |-> "idle"]
    /\ request = [a \in Actions |-> "unsent"]
    /\ wire = [k \in Resources |-> <<>>]
    /\ late = [k \in Resources |-> 0]
    /\ orderly = TRUE
    /\ last = "close"
    /\ base = [k \in Resources |-> NoBase]

Pending == {a \in Actions : request[a] \in {"running", "replying"}}

-----------------------------------------------------------------------------
(* The server.                                                             *)

\* The server sends a watch request; a goroutine of its own will run it.
Issue(a) ==
    /\ request[a] = "unsent"
    /\ request' = [request EXCEPT ![a] = "running"]
    /\ orderly' = (orderly /\ Pending = {})
    /\ last' = IF Want[a] = "invalid" THEN last ELSE Want[a]
    /\ base' = IF orderly' /\ last' = "open" THEN base ELSE [k \in Resources |-> NoBase]
    /\ UNCHANGED <<watch, cache, seen, callback, wire, late>>

\* The server lists a resource, which reads the informer's cache, after its
\* open was answered.
List(k) ==
    /\ base[k] = NoBase
    /\ orderly /\ Pending = {} /\ last = "open"
    /\ base' = [base EXCEPT ![k] = cache[k]]
    /\ UNCHANGED <<watch, cache, seen, callback, request, wire, late, orderly, last>>

-----------------------------------------------------------------------------
(* The goroutine of a watch request.                                       *)

\* Mutation: "open" is honoured only when the watch is open already.
Switched_WrongTest(a) == IF Want[a] = "close" THEN FALSE ELSE watch

\* What WatchAction leaves in the flag; other actions are a ParamsError.
Switched(a) ==
    CASE Want[a] = "open" -> TRUE [] Want[a] = "close" -> FALSE [] OTHER -> watch

WatchAction(a) ==
    /\ request[a] = "running"
    /\ request' = [request EXCEPT ![a] = "replying"]
    /\ watch' = Switched(a)
    /\ late' = IF watch' = watch THEN late ELSE [k \in Resources |-> 0]
    /\ UNCHANGED <<cache, seen, callback, wire, orderly, last, base>>

\* The writer takes the reply.
Reply(a) ==
    /\ request[a] = "replying"
    /\ request' = [request EXCEPT ![a] = "answered"]
    /\ UNCHANGED <<watch, cache, seen, callback, wire, late, orderly, last, base>>

-----------------------------------------------------------------------------
(* An informer and its listener.                                           *)

\* HandleDeltas: the cache is updated and the delta queued for the listener.
HandleDelta(k) ==
    /\ cache[k] < MaxDeltas
    /\ cache' = [cache EXCEPT ![k] = @ + 1]
    /\ UNCHANGED <<watch, seen, callback, request, wire, late, orderly, last, base>>

\* Mutation: the listener does not wait for its queue.
OnDelta_NoQueue(k) ==
    /\ callback[k] = "idle"
    /\ seen' = [seen EXCEPT ![k] = @ + 1]
    /\ callback' = [callback EXCEPT ![k] = IF watch THEN "sending" ELSE "idle"]
    /\ UNCHANGED <<watch, cache, request, wire, late, orderly, last, base>>

\* Mutation: the callback does not look at the flag.
OnDelta_Unchecked(k) ==
    /\ callback[k] = "idle" /\ seen[k] < cache[k]
    /\ seen' = [seen EXCEPT ![k] = @ + 1]
    /\ callback' = [callback EXCEPT ![k] = "sending"]
    /\ UNCHANGED <<watch, cache, request, wire, late, orderly, last, base>>

\* WatchAdd, WatchUpdate or WatchDelete: reads the flag, and either drops the
\* delta or goes on to send it, whatever becomes of the flag meanwhile.
OnDelta(k) ==
    /\ callback[k] = "idle" /\ seen[k] < cache[k]
    /\ seen' = [seen EXCEPT ![k] = @ + 1]
    /\ callback' = [callback EXCEPT ![k] = IF watch THEN "sending" ELSE "idle"]
    /\ UNCHANGED <<watch, cache, request, wire, late, orderly, last, base>>

\* Mutation: the callback sends its event again.
Send_Repeats(k) ==
    /\ callback[k] = "sending"
    /\ wire' = [wire EXCEPT ![k] = Append(@, seen[k])]
    /\ late' = IF watch THEN late ELSE [late EXCEPT ![k] = @ + 1]
    /\ UNCHANGED <<watch, cache, seen, callback, request, orderly, last, base>>

\* The writer takes the event and SendResponse returns.
Send(k) ==
    /\ callback[k] = "sending"
    /\ callback' = [callback EXCEPT ![k] = "idle"]
    /\ wire' = [wire EXCEPT ![k] = Append(@, seen[k])]
    /\ late' = IF watch THEN late ELSE [late EXCEPT ![k] = @ + 1]
    /\ UNCHANGED <<watch, cache, seen, request, orderly, last, base>>

Next ==
    \/ \E a \in Actions : Issue(a) \/ WatchAction(a) \/ Reply(a)
    \/ \E k \in Resources : List(k) \/ HandleDelta(k) \/ OnDelta(k) \/ Send(k)

Spec == Init /\ [][Next]_vars

-----------------------------------------------------------------------------
(* Properties.                                                             *)

\* The shape of the state.
TypeOK ==
    /\ watch \in BOOLEAN /\ orderly \in BOOLEAN
    /\ cache \in [Resources -> 0..MaxDeltas]
    /\ seen \in [Resources -> 0..MaxDeltas]
    /\ callback \in [Resources -> {"idle", "sending"}]
    /\ request \in [Actions -> {"unsent", "running", "replying", "answered"}]
    /\ wire \in [Resources -> Seq(0..MaxDeltas)]
    /\ late \in [Resources -> Nat]
    /\ last \in {"open", "close"}
    /\ base \in [Resources -> (0..MaxDeltas) \cup {NoBase}]

\* The events of a resource reach the writer in the order of the deltas, none
\* twice, none that the informer has not applied.
EventsInOrder ==
    \A k \in Resources :
        /\ \A i, j \in DOMAIN wire[k] : i < j => wire[k][i] < wire[k][j]
        /\ \A i \in DOMAIN wire[k] :
              wire[k][i] <= seen[k] - (IF callback[k] = "sending" THEN 1 ELSE 0)

\* Once the flag is cleared a listener sends at most one more event, the one
\* it had decided to send before: the answer to a close may be overtaken by
\* one event per resource and no more.
AtMostOneLateEvent ==
    \A k \in Resources : ~watch => late[k] + (IF callback[k] = "sending" THEN 1 ELSE 0) <= 1

\* A server that opens the watch, waits for the answer and then lists misses
\* no delta: those the list does not contain have been or are being sent.
ListThenEventsIsComplete ==
    \A k \in Resources : base[k] # NoBase =>
        \A n \in (base[k] + 1)..seen[k] :
            \/ \E i \in DOMAIN wire[k] : wire[k][i] = n
            \/ callback[k] = "sending" /\ n = seen[k]

\* A server that waits for each answer before its next watch request finds
\* the switch where its last valid request put it, although every request
\* runs on a goroutine of its own.
OrderlyServerDecides ==
    orderly /\ Pending = {} => (watch <=> last = "open")

(***************************************************************************)
(* The inductive invariant behind the last two: an orderly server has one  *)
(* request pending at most, which decides the flag until it has run, and a *)
(* listed resource is watched for as long as its list is to be completed.  *)
(***************************************************************************)
OnePending == orderly => \A a, c \in Pending : a = c

FlagFollowsServer ==
    orderly =>
        /\ \A a \in Actions : request[a] = "running" =>
              IF Want[a] = "invalid" THEN watch <=> last = "open" ELSE last = Want[a]
        /\ (\A a \in Actions : request[a] # "running") => (watch <=> last = "open")

ListedIsWatched ==
    \A k \in Resources : /\ seen[k] <= cache[k]
                         /\ base[k] # NoBase => orderly /\ last = "open" /\ watch

\* Which request the flag obeys, whatever runs at the same time.
SwitchInv == /\ OnePending /\ FlagFollowsServer
             /\ ListedIsWatched /\ ListThenEventsIsComplete
=============================================================================
