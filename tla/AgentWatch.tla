----------------------------- MODULE AgentWatch -----------------------------
(***************************************************************************)
(* The watch over the transport: Agent (pkg/websocket, pkg/core) composed  *)
(* with the watch switch and the informer listeners that feed it           *)
(* (pkg/container/resource/watch.go).                                      *)
(*                                                                         *)
(* The requests of Agent are now watch requests and lists, its sources are *)
(* the informers' listeners, and an event is pushed because a listener     *)
(* took a delta while the flag was set.  The flag belongs to the agent and *)
(* not to a connection: it outlives every session, and so does a watch     *)
(* request that was read on a session that has gone since.                 *)
(***************************************************************************)
EXTENDS Agent, Integers, Sequences

CONSTANTS Want,      \* what each request is: "open", "close" or "list"
          Topic,     \* the informer whose cache a list reads
          Preloaded  \* objects in each cache when the handlers are added

\* A malformed message has no handler, so what it wants does not matter.
ASSUME AgentWatchAssumption ==
    /\ Kind \in [Requests -> {"ordinary", "malformed"}]
    /\ Want \in [Requests -> {"open", "close", "list"}]
    /\ Topic \in [Requests -> Sources]
    /\ Preloaded \in 0..MaxEvents

VARIABLES watch,     \* WatchResource.watch
          cache,     \* deltas applied to each informer's cache
          seen,      \* deltas each listener has taken from its queue
          delta,     \* history: the delta each event of a source is about
          late,      \* history: events taken since the flag was cleared
          orderly,   \* history: no watch request was read while one ran
          last,      \* history: the last watch request the agent has read
          listed     \* history: the cache a list has read, see NoBase

watchVars == <<watch, cache, seen, delta, late, orderly, last, listed>>
allVars   == <<vars, watchVars>>

NoBase   == -1
Switches == {r \in Requests : Want[r] # "list"}
Lists    == Requests \ Switches
NoneListed == [l \in Lists |-> NoBase]

WatchInit ==
    /\ Init
    /\ watch = FALSE
    /\ cache = [k \in Sources |-> Preloaded]
    /\ seen = [k \in Sources |-> 0]
    /\ delta = [k \in Sources |-> <<>>]
    /\ late = [k \in Sources |-> 0]
    /\ orderly = TRUE
    /\ last = "close"
    /\ listed = NoneListed

\* The watch requests read and not yet answered, of whatever session.
Pending == {r \in Switches : req[r] \in {"handing", "running", "replying", "blocked"}}

-----------------------------------------------------------------------------
(* Requests.                                                               *)

ReadList(r) ==
    /\ r \in Lists /\ ReadMessage(r)
    /\ UNCHANGED watchVars

ReadSwitch(r) ==
    /\ r \in Switches /\ ReadMessage(r)
    /\ orderly' = (orderly /\ Pending = {})
    /\ last' = Want[r]
    /\ listed' = IF orderly' /\ last' = "open" THEN listed ELSE NoneListed
    /\ UNCHANGED <<watch, cache, seen, delta, late>>

\* WatchAction has no panic to recover: it is always handled.
WatchAction(r) ==
    /\ r \in Switches /\ DoRequest(r) /\ code'[r] = "Handled"
    /\ watch' = (Want[r] = "open")
    /\ late' = IF watch' = watch THEN late ELSE [k \in Sources |-> 0]
    /\ UNCHANGED <<cache, seen, delta, orderly, last, listed>>

\* A list reads the informer's cache; it counts for a server that waited for
\* the answer to its open.
ListCache(r) ==
    /\ r \in Lists /\ DoRequest(r)
    /\ listed' = IF code'[r] = "Handled" /\ orderly /\ Pending = {} /\ last = "open"
                   THEN [listed EXCEPT ![r] = cache[Topic[r]]] ELSE listed
    /\ UNCHANGED <<watch, cache, seen, delta, late, orderly, last>>

-----------------------------------------------------------------------------
(* Informers and their listeners.                                          *)

HandleDelta(k) ==
    /\ cache[k] < MaxEvents
    /\ cache' = [cache EXCEPT ![k] = @ + 1]
    /\ UNCHANGED <<vars, watch, seen, delta, late, orderly, last, listed>>

\* Mutation: the listener does not wait for its queue.
OnDelta_NoQueue(k) ==
    /\ source[k] = "idle"
    /\ seen' = [seen EXCEPT ![k] = @ + 1]
    /\ IF watch THEN Push(k) /\ delta' = [delta EXCEPT ![k] = Append(@, seen'[k])]
                ELSE UNCHANGED <<vars, delta>>
    /\ UNCHANGED <<watch, cache, late, orderly, last, listed>>

\* WatchAdd, WatchUpdate, WatchDelete: SendResponse if the flag is set.
OnDelta(k) ==
    /\ source[k] = "idle" /\ seen[k] < cache[k]
    /\ seen' = [seen EXCEPT ![k] = @ + 1]
    /\ IF watch THEN Push(k) /\ delta' = [delta EXCEPT ![k] = Append(@, seen'[k])]
                ELSE UNCHANGED <<vars, delta>>
    /\ UNCHANGED <<watch, cache, late, orderly, last, listed>>

SendEvent(k) ==
    /\ TakeEvent(k)
    /\ late' = IF watch THEN late ELSE [late EXCEPT ![k] = @ + 1]
    /\ UNCHANGED <<watch, cache, seen, delta, orderly, last, listed>>

-----------------------------------------------------------------------------
(* The transport, for which the watch does not exist.                      *)

\* Mutation: a new connection starts with the watch closed.
Connect_ClosesWatch ==
    /\ ConnectSucceeds
    /\ watch' = FALSE
    /\ UNCHANGED <<cache, seen, delta, late, orderly, last, listed>>

\* connectServer leaves the flag as it is: no session owns it.
Connect == ConnectSucceeds /\ UNCHANGED watchVars

Transport ==
    /\ \/ ConnectFails \/ ReadFails \/ CloseConn \/ LinkBreaks
       \/ SerializerFails \/ LoadConn \/ WriteSucceeds \/ WriteFails
       \/ \E r \in Requests : ReadMalformed(r) \/ HandOver(r) \/ SendReply(r) \/ TakeReply(r)
    /\ UNCHANGED watchVars

WatchNext ==
    \/ Connect \/ Transport
    \/ \E r \in Requests : ReadList(r) \/ ReadSwitch(r) \/ WatchAction(r) \/ ListCache(r)
    \/ \E k \in Sources : HandleDelta(k) \/ OnDelta(k) \/ SendEvent(k)

WatchSpec == WatchInit /\ [][WatchNext]_allVars

\* The goroutines of Agent run on, and so do the listeners (processorListener
\* hands over whatever its buffer holds).  Nothing is assumed of the informers.
WatchFairSpec == WatchSpec /\ Fairness /\ \A k \in Sources : WF_allVars(OnDelta(k))

-----------------------------------------------------------------------------
(* Properties.                                                             *)

\* The shape of what is added to the state of Agent.
WatchTypeOK ==
    /\ TypeOK
    /\ watch \in BOOLEAN /\ orderly \in BOOLEAN
    /\ cache \in [Sources -> 0..MaxEvents]
    /\ seen \in [Sources -> 0..MaxEvents]
    /\ delta \in [Sources -> Seq(1..MaxEvents)]
    /\ late \in [Sources -> Nat]
    /\ last \in {"open", "close"}
    /\ listed \in [Lists -> (0..MaxEvents) \cup {NoBase}]

\* The event about delta n of source k.
EventAbout(k, n) == {Event(k, j) : j \in {i \in DOMAIN delta[k] : delta[k][i] = n}}

\* The deltas a list did not contain, among those the listener has taken.
Since(l) == (listed[l] + 1)..seen[Topic[l]]

\* A server that opened the watch, on this session or an earlier one, waited
\* for the answer and lists on a session that is still up gets every later
\* delta ON THAT SESSION: its event is on the way or has been written to it,
\* unless it cannot be encoded.  Neither the flag that outlives the sessions
\* nor the pointer the writer loaded sends it elsewhere.
ListedSessionIsFed ==
    \A l \in Lists : listed[l] # NoBase /\ link[on[l]] = "open" =>
        \A n \in Since(l) : \E i \in EventAbout(Topic[l], n) :
            \/ AtCaller(i) \/ AtWriter(i)
            \/ <<i, on[l]>> \in written
            \/ <<i, "serializer">> \in dropped

\* And such a server catches up: whenever its session is behind the cache, it
\* is up to date later, unless the session breaks, or the server itself closes
\* the watch or stops waiting its turn.
Behind(l) ==
    /\ listed[l] # NoBase /\ link[on[l]] = "open"
    /\ \E n \in (listed[l] + 1)..cache[Topic[l]] :
          \A i \in EventAbout(Topic[l], n) :
              <<i, on[l]>> \notin written /\ <<i, "serializer">> \notin dropped

WatcherCatchesUp == \A l \in Lists : Behind(l) ~> ~Behind(l)

(***************************************************************************)
(* The watch seen from the switch: WatchResource with the transport left   *)
(* out.  A request stands where its message or its handler stands, an      *)
(* event is on the wire once the writer has taken it, and the base of a    *)
(* resource is the oldest list of it that counts.                          *)
(***************************************************************************)
RequestOf == [r \in Switches |->
    CASE req[r] \in {"unread", "skipped"}  -> "unsent"
      [] req[r] \in {"handing", "running"} -> "running"
      [] req[r] \in {"replying", "blocked"} -> "replying"
      [] OTHER -> "answered"]

WireOf == [k \in Sources |->
    IF source[k] = "blocked" THEN SubSeq(delta[k], 1, Len(delta[k]) - 1) ELSE delta[k]]

BaseOf == [k \in Sources |->
    LET bases == {listed[l] : l \in {m \in Lists : Topic[m] = k}} \ {NoBase}
    IN  IF bases = {} THEN NoBase ELSE CHOOSE b \in bases : \A d \in bases : b <= d]

W == INSTANCE WatchResource WITH
        Resources <- Sources, Actions <- Switches, Want <- [r \in Switches |-> Want[r]],
        MaxDeltas <- MaxEvents,
        callback <- [k \in Sources |-> IF source[k] = "blocked" THEN "sending" ELSE "idle"],
        request <- RequestOf, wire <- WireOf, base <- BaseOf

\* Over the transport, with its reconnections, dropped items and stale
\* requests, the switch still behaves as WatchResource says: SendResponse's
\* nil check never swallows an event, a listener is released once per event,
\* and a request that outlived its session counts as the server's own.
ImplementsWatchResource == W!Spec
=============================================================================
