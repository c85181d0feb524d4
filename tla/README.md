# A verification project for ospagent

ospagent runs inside a Kubernetes cluster.  It dials a server over one
WebSocket connection, executes the requests the server sends (list, get,
delete, scale, apply, watch, terminal, log) and pushes back answers, watch
events and the output of terminals and logs.  This directory holds TLA+ models
of that program, the TLC configurations that check them on small instances,
and proofs that TLAPS checks for every value of the constants.

All paths below are relative to `src/`; `resource/` stands for
`pkg/container/resource/`.

## 1. Inventory

### Components, their state and their operations

| Component | Source | State | Operations |
|---|---|---|---|
| Transport | `pkg/websocket/websocket.go` | `ws.Conn` (one pointer, no lock), the unbuffered channels `RequestChan` and `ResponseChan` | `ReadRequest` (read loop, reconnect), `WriteResponse` (write loop), `SendResponse` (called by everybody) |
| Dispatcher | `pkg/container/container.go`, `pkg/core/agent.go` | none | `Run` (one goroutine per request), `handleRequest`, `doRequest` (recovers panics) |
| Route table | `pkg/container/resource_actions.go` | a map, constant after start | `GetRequestHandler` |
| Watch switch | `resource/watch.go` | `watch bool`, a mutex the readers do not take | `WatchAction` (open, close), the callbacks `WatchAdd`, `WatchUpdate`, `WatchDelete` |
| Replica updates | `UpdateObj` in `resource/deployment.go`, `statefulset.go`, `daemonset.go`, `job.go`, `cronjob.go` | the object in the informer's cache, which it modifies in place | validate, read the cache, assign (commented out in the last three), update, retry on conflict |
| YAML answers | `Get` with `output=yaml` of every kind, over the vendored `runtime.Encode` | the same object, whose `apiVersion` and `kind` the codec writes and takes back | save, stamp, encode, restore |
| Terminals | `resource/pod.go` (`Exec`, `ExecStdIn`, `streamHandler`) | `execSessions` (map without lock), two channels per session | EXEC, STDIN, three goroutines per stream in the vendored client |
| Logs | `resource/pod.go` (`OpenLog`, `CloseLog`, `logHandler`) | `logSessions` (map without lock), one stream per session | OPENLOG, CLOSELOG, one goroutine per log |
| Dynamic operations | `resource/dynamic.go` | none of its own; the API server's objects | `Delete` (a list of objects), `UpdateYaml`, `ApplyYaml` (several documents) |
| Readers | the 22 kinds under `resource/` | the informers' caches, read only | `List` with filters, `Get`, conversions |
| Cluster summary | `resource/cluster.go` | the informers' caches, read only | `Get` |
| Start-up | `pkg/kubernetes/informers.go`, `kubeclients.go`, `main.go` | 24 informers | start and synchronise each in turn |
| Message types, options | `pkg/utils`, `pkg/config` | none | encoding |
| Tests | `test/` | none | print lists of a live cluster; they assert nothing |

### How they interact

    server --ws--> ReadRequest --RequestChan--> Run --go--> handleRequest --> handler
    server <--ws-- WriteResponse <--ResponseChan-- SendResponse <-- handleRequest
                                                        ^---- informer listeners (watch events)
                                                        ^---- terminal and log goroutines

Everything the server hears goes through one unbuffered channel and one
writer.  The reader alone changes `ws.Conn`; the writer and every caller of
`SendResponse` read it.  Watch requests change a flag that the informers'
listener goroutines test.  A terminal is started by one request, fed by
others, and lives in a map that its own goroutine writes.

### What is hard, and what makes each part correct

* **Transport and dispatcher.**  The writer uses a pointer that the reader may
  have replaced; senders block while the link is down or the writer is stuck;
  handlers hang or panic.  Correct means: nothing is sent twice, nothing is lost
  without a cause, a request gets one answer unless its session was cut, a
  broken link is replaced without leaking a socket, nobody is blocked for ever.
* **Watch switch.**  The flag is tested and then acted on without the mutex;
  every watch request runs on its own goroutine; the flag and the requests outlive
  the session they came from.  Correct means: events in the order of the informer,
  a close that is prompt up to one event, a list-after-open that misses nothing, a
  flag that obeys an orderly server, events that reach the session that listed.
* **Replica updates.**  Read from a lagging cache, in-place modification of a
  shared object, optimistic concurrency, a bounded number of attempts.  Correct
  means: other clients' changes survive, success means stored, it ends.
* **YAML answers.**  The vendored codec writes into the object that the informer's
  cache shares with every other handler and with the writer.  Correct means: an
  answer shows `apiVersion` and `kind`, the cache is left as it was, and nobody
  reads half a string.
* **Terminals and logs.**  Goroutines of a stream outlive it; session ids may be
  used again while an earlier stream still owns them; requests arrive before a
  session is registered or after it has ended; connections break under a stream.
  Correct means: the closing message is last, inputs to a live terminal are
  answered, sessions are freed, a log that is closed or breaks ends with one
  error message.
* **Dynamic operations.**  Requests of several steps, each of which may fail or
  have its answer lost, and a discovery cache that is never read anew.  Correct
  means: an answer tells what was done and what was not.
* **Start-up and readers.**  24 informers one after the other, without a limit;
  caches that lag behind, show objects out of order among each other, and go back
  in time when they are listed again; answers made of several caches.  Correct
  means: nothing is read before it was filled, an answer is of its time, and what
  a list has shown can be got.

`PROJECT.json` lists each hazard with its line and the properties that cover it.

## 2. The modules

| Module | Models | Built on |
|---|---|---|
| `RequestReply` | what the agent promises a server, without goroutines or channels | |
| `Agent`, `MCAgent` | transport and dispatcher; the refinement mapping to `RequestReply` | `RequestReply` |
| `WatchResource`, `MCWatchResource`, `WatchResourceProofs` | the watch switch | |
| `AgentWatch`, `MCAgentWatch` | the watch over the transport; the refinement mapping to `WatchResource` | `Agent`, `WatchResource` |
| `AgentProofs` | theorems about `Agent` and `AgentWatch` | `AgentWatch` |
| `UpdateObj`, `MCUpdateObj`, `UpdateObjProofs` | replica updates | |
| `YamlGet`, `MCYamlGet`, `YamlGetProofs` | YAML answers | |
| `PodExec`, `MCPodExec`, `PodExecProofs` | terminals | |
| `PodLog`, `MCPodLog`, `PodLogProofs` | logs | |
| `DynamicResource`, `MCDynamicResource`, `DynamicResourceProofs` | delete, update and apply of any kind | |
| `ResourceReads`, `MCResourceReads`, `ResourceReadsProofs` | start-up, the informers' caches, LIST and GET of all resources, the cluster summary | |

A module `MCX` holds the instances of `X` for TLC, a module `XProofs` its theorems.
Definitions called `X_Something` under the comment "Mutation:" are variants of
the definition `X` with a plausible bug.  They are not part of the model; for
every property one of them is known to break it.

### Agent

* `conn` is `ws.Conn`: 0 for nil, otherwise the number of the connection.
  `link` says what each connection is worth (open, broken by the other side,
  closed by the reader).  `reader`, `writer`, `req[r]` and `source[s]` are the
  program counters of the read loop, the write loop, each request's goroutine,
  and whoever else calls `SendResponse`.
* `ConnectSucceeds`, `ConnectFails`: `reconnectServer` and `connectServer`; the
  first attempt and those of the 5 s ticker.  `ReadMessage`, `ReadMalformed`,
  `ReadFails`, `CloseConn`: the loop of `ReadRequest`.  `HandOver`: the
  rendezvous on `RequestChan` and the `go` statement.
* `DoRequest` is the handler and `doRequest`: it answers with the code of the
  route, or a panic is recovered into `UnknownError`.
* `SendReply` and `Push` are `SendResponse` up to the channel, with its nil
  check (`DroppedAtSend`); `TakeReply` and `TakeEvent` are the rendezvous on
  `ResponseChan`.
* `SerializerFails`, `LoadConn`, `WriteSucceeds`, `WriteFails`: the body of
  `WriteResponse`.  Loading `ws.Conn` and writing to it are two steps.  The
  load is one atomic step: a pointer is loaded and stored whole on the
  platforms the agent is built for, so the data race on `ws.Conn` can yield an
  old or the new pointer, and the split into two steps covers both.
* An item is *written* when the connection accepted it (`WriteMessage` returned
  no error).  Whether the other side got it is beyond the agent.
* `defer ws.Conn.Close()` at the start of `ReadRequest` is not modelled: it is
  evaluated on a nil pointer and the loop never returns.

### RequestReply

Four phases per request (pending, accepted, answered, lost).  An accepted
request is answered once with a code its route allows; it may be lost only if
its session was cut or its answer cannot be encoded.  Requests whose handler
always returns are answered or lost in the end.  `Agent` is mapped to it by
`Phase`, `AnswerOf` and `CutOff`: a request is answered once a connection has
accepted its reply, and cut off once its connection is no longer up.  `Promised`
says which codes a route allows, independently of what `DoRequest` makes
(`ReplyCodes`), so a panic that is not recovered breaks the implication.  TLC checks the
implication, liveness included; `AgentProofs!AgentImplements` proves the safety.

### WatchResource

Deltas of an informer are numbered; `cache[k]` counts those applied,
`seen[k]` those its listener has taken, and the difference is the listener's
unbounded buffer.  `AddEventHandler` replays what the cache holds, hence
`Preloaded`.  `OnDelta` is the callback's test of the flag, `Send` the return
of `SendResponse`.  `WatchAction` is one step because the mutex makes it one.
`Issue` and `List` are the server; `orderly`, `last`, `base`, `wire` and `late`
are history variables that the properties speak about.

### AgentWatch

The composition.  The requests of `Agent` are watch requests and lists, its sources
are the informers' listeners, and `Push` happens because a listener took a delta
while the flag was set (`OnDelta`).  `DoRequest` of a watch request is
`WatchAction`, that of a list reads the informer's cache.  The transport's other
actions leave the watch alone (`Transport`), and `Connect` is written apart
because that is the point: no session owns the flag.

The mapping to `WatchResource` (`RequestOf`, `WireOf`, `BaseOf`): a request stands
where its message or its handler stands, an event is on the wire once the writer has
taken it, a base is the oldest list that counts.  A malformed message is read and
skipped, which the switch sees as never sent.  That the mapping holds says that a
break of the link changes nothing for the switch: requests of a dead session take
effect after the reconnect, the nil check never swallows an event, and a listener is
released once per event.  `ListedSessionIsFed` says what the abstract module cannot:
the events go to the very session the list was answered on.  An open of an earlier
session counts, because the flag is still set.

### UpdateObj

`stored` holds the API server's versions of one object, `heap` the object in
memory that the informer delivered for each version: two handlers that get the
same version get the same object, and `Assign` changes it for both.  `Get`,
`Assign`, `Marshal` and the request are separate steps of a handler.  The API
server accepts an update only of the version it holds; `PutFails` includes the
request that was served but whose answer got lost.  Other clients write and
delete; nothing is assumed about when the informer delivers.  `scales` tells the
kinds apart: where it is FALSE the assignment is commented out, the request sends
back what the cache holds, and Success stands for nothing (`SuccessStoresTheValue`
says so).  Eight other kinds have an `UpdateObj` of much the same text, but no route
leads to it.

### YamlGet

`name[v]` is the pair of strings `apiVersion` and `kind` of the object the cache
held at version `v`, blank as the decoder left it.  A Go string is two words that are
written one after the other and not together, so the model keeps the words:
`{"pointer", "length"}` is a name, `{}` a blank, `{"length"}` half of one, which
faults when it is read.  `{"pointer"}` reads as blank.  `Save`, `StampWord`,
`EncodeYaml` and `RestoreWord` are the vendored codec for a GET
(`versioning.go:203-206`, `helper.go:222-243` for the request of `UpdateObj`, which
differs in that a fault skips its restore).  Plain answers and watch events are
encoded by the writer goroutine later (`EncodePlain`): a fault there is recovered by
nobody, and the agent stops (`crashed`).  `rivals` collects the objects that two
encoders were inside of at once; the properties say that all the harm is there.
The two strings of a name are kept as one: they are written and restored together.

### PodExec and PodLog

`proc[p]` and `log[l]` are the goroutines of `startProcess` and `logProcess`;
EXEC chooses the session id, so one run has both reuse and independence.
`table` is the session map, `stdout`, `stdin` and the resize loop are the
goroutines that the vendored client starts. The client never stops the
goroutines that read `InChan` and `resizeEvent`. `link` is the connection of the
stream: it can break while it is used (`LinkBreaks`; the client notices it and the
stream ends), and after Stream has returned a goroutine of the library shuts it
down some time later (`Shutdown`). The stdin copier looks at nothing else: an
input with text (`TakeText`) is written while `link` is up, whether or not the shell
or Stream is still there, and ends the copier when it is down (`CopierAfter`);
one without, because it is empty (a resize alone) or not base64, is read and dropped
(`TakeBlank`: `Read` returns 0 and no error, and `io.Copy` reads on). All of them are
answered Success, so any number of inputs without text can be answered for a
terminal that is gone, and `AtMostOneInputLost` is about those with text whose write
failed. `OnlyReuseHidesSession` says exactly how a second EXEC of a session id can
hide a terminal that is up: it holds the entry, or has ended and deleted it.

The stream of a log, `body`, is open until it ends, is closed or its connection
breaks; the last two make Read fail, and the copy ends with an error message
(`CopyEnds`), with or without a CLOSELOG. `Displaced` is for logs what
`OnlyReuseHidesSession` is for terminals.

The maps have no lock, and Go
stops the program when it notices a write that meets another access: `Crash` is
enabled whenever two goroutines stand before such accesses, and the properties
say what holds up to it.

### DynamicResource

A request walks through its `Plan`: the objects of a `Delete`, the one document of
an `UpdateYaml`, the documents of an `ApplyYaml`.  `next` is the loop variable,
`report` is `res`.  Every call of the API server may be served, refused, or served
with its answer lost (`Fail`, `Patch`); `accepted` records what was served, for the
properties.  `built` and `known` are the delegate of the vendored
`DeferredDiscoveryRESTMapper`: a group that cannot be read while it is built is
left out, and `MapKind` does not look again after a miss because the in-memory
cache says it is fresh (`memcache.go`, `Fresh`).  The error of reading the next
document is not modelled: the reader is over a byte slice and only ever ends.

`MappingIsFrozen` records what follows: a kind that could not be mapped once
cannot be applied until the agent restarts, which is not what a server that
retries an apply after creating a custom resource definition would expect.

### ResourceReads

The handlers of each kind differ in the caches they read, the fields LIST
filters by, what a row of the list shows of what GET asks for (`shows`: the
namespace, the kind), and whether GET wants a namespace; those are the rows of
the table (`Deployment`, `Role`, ...), and `ResourceActions` is the route
table. A behaviour is about one resource, chosen at the start, and two objects:
in the same cache, or in the first and the last of those the resource reads.

`history[o]` says of each version of an object whether it existed, `cache[o]` is the
version in the cache.  `NewInformer` is one constructor of `informers.go`: it
returns when the first list is in the cache.  That list asks for resource version 0
(`reflector.go:163`) and may be of any time before, even before the agent started;
the model's `Init` is the oldest state it may show, and `LongLivedIsFound` is about
objects that were there in it.  `Deliver` and `Relist` move an object
in its cache forward by one change, or to where a new list of its kind says;
`ReadCache` is one `Lister().List`.  A GET asks by what the row shows
(`GivenNamespace`, `GivenKind`), not by what the object is.  Objects move independently, which is what
`DeltaFIFO` allows when changes come in quick succession, and a little more when
they do not.

Three things a reader of the code may not expect are in the table: eleven kinds drop
the names that contain the name asked for (`excludes`), where pods and namespaces
keep them; `Role.Get` wants a namespace even of cluster roles, which have none, so
they can be listed but not got (`ListedCanBeGot` says so); configuration maps,
secrets, nodes, volumes, claims, storage classes and autoscalers ignore the query.

## 3. The runs

| Run | Instance | Shows |
|---|---|---|
| `agent` | 4 requests (one malformed, one that may hang and whose answer cannot be encoded, one that answers or panics, one without a route), a source with an event, 3 connections; they are sent in that order, the event between the second and the last | the safety properties of the transport, reconnection; `Agent` implements `RequestReply` |
| `agent_watch` | an open, a close, a list, an informer with a replayed delta and one more, 2 connections | the session that lists is fed; `AgentWatch` implements `WatchResource` |
| `agent_watch_live` | an open, a list, a malformed message, an informer with 2 deltas (one not encodable), 3 connections | writes go to the current connection; a watching session catches up |
| `watch` | 2 informers with a replayed delta and one more, 2 opens, a close, an invalid request | order, promptness, completeness of events |
| `update_obj` | a kind that is scaled or one that is not, 2 handlers and one refused, 2 attempts, one other client | what an update keeps, stores and answers |
| `update_latest`, `update_modified` | as above, 3 versions | two places where code and documentation disagree |
| `yaml_get` | two YAML GETs, an `UpdateObj`, a plain answer, 2 versions | which answers lack the name, what stays in the cache |
| `exec` | 2 terminals over one session id or two, 2 inputs (one a resize, each with text or without), connections that break, a chunk of output; of interchangeable terminals p1 is the one in session a and the one that prints | last message, sessions, lost inputs, answers and conclusions |
| `log` | 3 logs over 2 session ids, a close, 2 chunks each for the two that share an id, 1 for the other, a connection that breaks | what a close stops, and that a log which fails says so |
| `dynamic` | a delete of two objects, two updates (one unreadable), an apply of a custom object, garbage and one of the two, an apply of the custom object | what answers tell, which kinds can be applied |
| `reads` | all 23 resources, the 24 informers, 2 objects with one change each, 6 queries, a list and a get | reads against caches that lag and go back |

The bounds are enough for the cases the properties are about: two connections
let the writer hold a pointer that was replaced and a request outlive its
session, three let the pointer be two reconnects old; an event can be blocked
across a break; two terminals on one id or on two give reuse and independence;
a third encoder can meet what two rivals left, and a second version is an
object they have not touched; several versions let each of two handlers
conflict with the other and with another client; two objects and two requests
about a custom kind give a failure in the middle of a request and a kind that
appears between two lookups; one change per object lets an object be deleted or
created between a list and a get, and a re-list go back over it. `MaxTries` is
2 where the code has 5 (`retry.DefaultRetry`): a conflict that is retried and a
last conflict both occur.

`Exhausted` in the MC modules is a stuttering step in states where the bounds
are used up, so that TLC's deadlock check stays on for every other state.  The
program waits for more work there.

### Fairness, and why the code justifies it

* Goroutines that can run do run (weak fairness of their steps).
* A sender blocked on `ResponseChan`, `InChan` or `resizeEvent` is served in the
  end although others keep sending (strong fairness): Go's channels queue blocked
  senders and serve them first come, first served.
* A dial succeeds in the end (`WF(ConnectSucceeds)`): it is repeated every 5 s.
  The last of the `MaxConn` connections stays up; without an upper bound on the
  breaks no liveness could hold.
* `WriteMessage` returns.  The code sets no deadline, so this is the kernel's
  promise, not the agent's.
* A terminal whose connection is down ends (`WF(link[p] = "down" /\ Exit(p))`): the
  client's reader gets the error and closes the streams.  Nothing is assumed of when
  a connection breaks or is shut down.
* A listener hands over what its queue holds (`WF(OnDelta)` in `AgentWatch`): it is
  a goroutine of the vendored informer.
* Nothing is assumed of the server, of other clients, of when informers deliver,
  of shells and containers, or of handlers marked *blocking*.

### Findings

* `update_latest`: the retry loop of `UpdateObj` says it retrieves the latest
  version of the object; it reads the informer's cache (`deployment.go:181-183`).
* `update_modified`: it modifies the object in the cache (`deployment.go:188`),
  which the cache's documentation forbids (`thread_safe_store.go:27`).

## 4. The proofs

Every safety invariant and every action property of a passing run is a theorem of
its specification, for all constants that satisfy the module's assumption: any
number of requests, sources, connections, versions, sessions, and any routes.  So
are the safety parts of the two refinements.  `PROJECT.json` lists the theorems; by
module:

| Module | Inductive invariant | What follows |
|---|---|---|
| `AgentProofs` (transport) | `TransportInv`, `Placed`, `RepliesAreMade` | `NilCheck`, `NoConnectionLeak`, `RepliesSurvive`, `NoStaleWrite`, `OnePlace`, `AgentImplements` |
| `AgentProofs` (watch over it) | `WatchInv`, `ListsFollow` | `SessionFed`, `WatchImplements` |
| `WatchResourceProofs` | `SwitchInv` | `CloseIsPrompt`, `InOrder`, `ServerDecides`, `ListThenWatch` |
| `UpdateObjProofs` | `UpdateInv` | `OthersKept`, `SuccessStores` |
| `YamlGetProofs` | `YamlInv` | `LoneYaml`, `Traces` |
| `PodExecProofs` | `ExecInv`, `SessionInv` | `LastMessage`, `OwnSession`, `OneInputLost`, `SessionsAreKept` |
| `PodLogProofs` | `LogInv`, `CloseInv` | `OneLateChunk`, `SessionsAreFreed`, `CloseIsNotMissed` |
| `DynamicResourceProofs` | `DynamicInv` | `DeleteStops`, `ApplyReports`, `FrozenMapping` |
| `ResourceReadsProofs` | `ReadsInv` | `OfTheirTime`, `CanBeGot`, `LongLivedFound` |

Each module also proves type correctness (`TypeCorrect`, `WatchTypeCorrect`).

**Assumptions.**  Constants have the types one expects; a "no such item" is no item.
`ResourceReads` assumes that an object of a namespaced kind has a namespace, as the
API server ensures, and that a request is not both a list and a get.  The route
table (`ResourceActions`) and the registry are definitions, not assumptions: what
the proofs need of them (`Sound`, `ShowsKind`) is proved row by row.

**Transport.**  None of the safety properties is inductive.  That the writer never
meets a nil connection needs that whoever blocks on `ResponseChan` has seen a
connection (`SendersHaveConn`) and that what the writer took came from such a sender
(`WriterHasConn`).  That only the current connection is live needs that the reader
redials only after closing (`ReaderHoldsConn`).  That a reply is lost only with its
session needs that the writer's connection is never older than the request's
(`WriterHasConn`), hence that an older one is closed.  `TransportInv` is the
conjunction; TLC checks it too (run `agent`).

**Every item in one place.**  `ExactlyOnePlace` counts places; `Placed` says the same
without counting: an item that was handed to `SendResponse` is with its caller, with
the writer, in one record of what was written or in one of what was dropped, and
nothing else is anywhere.  Each step moves one item or none.

**`Agent` implements `RequestReply`** (`AgentImplements`).  Besides the mapping it needs
that a reply has a code of its route, that nothing that cannot be encoded gets past
the serializer, and that what was never read has no session (`RepliesAreMade`).  Only
three kinds of step are visible to the server: a request is handed over, the link
breaks or is closed, and the writer writes or drops a reply.  The rest stutters
(`StandsStill`).

**The watch switch.**  An orderly server has one request pending (`OnePending`), so
the flag is what the last one that ran left (`FlagFollowsServer`), so a resource
listed after an open is watched until the server sends the next request
(`ListedIsWatched`), so every delta after the list is sent.

**The watch over the transport** (`SessionFed`).  `WatchKeepsTransport` shows that
the composition is a behaviour of `Agent`, so all of the above holds in it.
`WatchInv` then has four parts.  `SwitchesFollow`: the flag follows an orderly
server across reconnects, and it is not set before there is a connection.
`ListedIsWatched`: a list that counts has the flag set.  `Queued`: a listener makes
one event per delta it takes, in order, and the one it is blocked on is its latest.
`Fed`: each delta after a list that counts has an event that is with its listener,
with the writer but on no other connection than the list's, written there, or
dropped for its encoding.  The third is where the transport matters: while the
list's connection is up it is the current one, so a writer about to write is on it.

**`AgentWatch` implements `WatchResource`** (`WatchImplements`).  The base of a resource
is the least of its lists that count (`BaseIsLeast`), and no list is ahead of the
cache (`ListsFollow`), so a delta leaves the base alone and an answered list sets it
at most once.  Then each action maps: the steps of the switch to its own actions, a
list to `List`, a delta to `OnDelta`, the take of an event to `Send`, everything else
to a stutter.

**Replica updates.**  What a handler sends (`Sends`) differs from the version its
pointer is of in the replicas at most, because that is all that the cached object
differs in (`CacheFollows`); and the API server takes it only over that very
version.  So what others wrote stays, whatever the cache is behind.

**YAML answers.**  As long as no two encoders have met in an object, the one inside it
is alone (`LoneEncoder`), so it found the name blank and the words that are there are
those it wrote and has not taken back (`LoneWrites`), so the name is blank again when
it leaves (`QuietIsBlank`), and half a name is only ever seen by somebody else
(`CrashIsTorn`).

**Terminals.**  The closing message is last because the stdout copier stops before
it (`CopierStopsFirst`).  Of the inputs with text one at most is lost, because the
one whose write fails also ends the copier, and the connection, once down, stays
down (`LosesAndStops`); it says nothing of inputs without text, which are never
written.  A terminal that is up is found under its id or displaced by another
(`OnlyReuseHidesSession`, which is inductive beside `SessionIsChosenOnce`).  A session
entry has a deferred delete still to come (`EntriesAreAlive`), and an input goes to
a terminal of the session it names (`InputsKeepToSession`).

**Logs.**  A copy fails only on a stream that was closed or whose connection broke
(`StreamsAreKept`).  A closed stream has at most the chunk that was being sent
(`ChunksAndErrors`).  `CloseIsNotMissed` is the safety under `CloseAfterChunkWorks`: a
log is registered before its first chunk is read (`RegisteredBeforeRead`), so a
server that has heard of a chunk (`HeardOfChunks`) finds its entry, unless another
log has displaced it, which lasts until the log is over (`DisplacedStays`).

**Dynamic operations.**  `DynamicInv` says of each request under way what its answer
will say when it ends: which steps were accepted (`DeletedSoFar`, `AppliedSoFar`), and
that a report tells what the mapper knew, which never changes (`ReportsTellKinds`).

**Reads.**  `Filled`: no request is served before every cache is.  `OfList`: what a
list shows was in the cache meanwhile and has not left it, unless its kind was
listed anew; what it does not show was missing at some time while it read.
`OfGet`: a get about it finds it, or was given a version that came after.

**Only model-checked.**  Liveness, which is out of the prover's reach: `Reconnects`,
the liveness half of `ImplementsRequestReply`, `WatcherCatchesUp`, `StdInIsAnswered`,
`ExecConcludes`, `CloseEndsTheLog` and `CloseAfterChunkWorks`.  The two findings are
counterexamples of TLC.

## 5. What is not modelled

* The dial's token and TLS options, logging, the content of messages: no
  property depends on them.
* A half-open link and a write that stalls for ever: the code sets no deadline
  and sends no ping, so what happens is up to the kernel.
* The bytes of terminals and logs.
* What answers say of an object beyond its identity, namespace, kind and version:
  the other fields of the `ToBuild` conversions, the sums of the cluster summary, the
  payload and the name of a watch event.
* That start-up ends: `ResourceReads` has the unbounded wait for each cache, and
  no property says how long it takes.
* Panics on goroutines other than a request's (they end the agent), except the
  writer's in `YamlGet`.
* The tests, which assert nothing; vendored code, except where it decides the
  order of steps (informers, `RetryOnConflict`, `remotecommand`, gorilla).

## 6. Plan

1. Compositions: `Agent` with `PodExec` and `PodLog` (a terminal and a log over a
   break of the link).
2. Proofs: every safety invariant and action property of the runs is proved.  What a
   further theorem could add: the safety of the composition of 1; that `Relist` is the
   only step that takes a cache back, as a refinement of a simpler cache.
