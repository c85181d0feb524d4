----------------------------- MODULE UpdateObj -----------------------------
(***************************************************************************)
(* UpdateObj of Deployment and StatefulSet, and of DaemonSet, Job and       *)
(* CronJob: goroutines that set the replicas of one object, between the    *)
(* API server and the informer cache.                                      *)
(*                                                                         *)
(* The API server keeps one object under optimistic concurrency: a write   *)
(* that names an older version is refused with a conflict.  The informer   *)
(* delivers each version to the cache later, as an object in memory of its *)
(* own.  UpdateObj takes the pointer the cache holds, assigns the replicas *)
(* IN that object and sends it; on a conflict it does so again, four more  *)
(* times (retry.DefaultRetry).  Other clients write the same object.       *)
(* For the last three kinds the assignment is commented out: the object    *)
(* goes back as it came, and the answer is the same.                       *)
(***************************************************************************)
EXTENDS Naturals, Sequences

CONSTANTS Handlers,    \* the goroutines that run UpdateObj for the object
          Ask,         \* the replicas each was asked for
          Images,      \* what other clients write besides the replicas
          Others,      \* the replicas other clients may write
          First,       \* the object when the agent starts
          MaxTries,    \* retry.DefaultRetry.Steps
          MaxVersion   \* bound: versions of the object

Objects == [replicas : Nat, image : Images]

ASSUME UpdateAssumption ==
    /\ Ask \in [Handlers -> Nat]
    /\ Others \subseteq Nat
    /\ First \in Objects
    /\ MaxTries \in Nat \ {0}
    /\ MaxVersion \in Nat \ {0}
    /\ "other" \notin Handlers

VARIABLES scales,    \* the object is of a kind whose replicas are assigned
          stored,    \* the API server: the versions of the object
          author,    \* history: who wrote each version
          gone,      \* the API server has deleted the object
          heap,      \* the object in memory of each delivered version
          cacheGone, \* the informer has removed the object from the cache
          pc,        \* where each handler stands
          tries,     \* attempts each handler has spent
          cell,      \* the version whose object each handler points to
          body,      \* what each handler sends
          result,    \* the code each handler answers with
          landed,    \* history: the version a handler's success refers to
          touched    \* history: the handlers that assigned in each object

vars == <<scales, stored, author, gone, heap, cacheGone, pc, tries, cell, body, result, landed,
          touched>>
serverVars == <<scales, stored, author, gone>>
cacheVars == <<heap, cacheGone, touched>>
handlerVars == <<pc, tries, cell, body, result, landed>>

Init ==
    /\ scales \in BOOLEAN
    /\ stored = <<First>>
    /\ author = <<"other">>
    /\ gone = FALSE
    /\ heap = <<First>>
    /\ cacheGone = FALSE
    /\ pc = [h \in Handlers |-> "start"]
    /\ tries = [h \in Handlers |-> 0]
    /\ cell = [h \in Handlers |-> 1]
    /\ body = [h \in Handlers |-> First]
    /\ result = [h \in Handlers |-> "none"]
    /\ landed = [h \in Handlers |-> 0]
    /\ touched = <<{}>>

Latest == Len(stored)     \* the version the API server holds
Cached == Len(heap)       \* the version the cache holds

Finish(h, code) ==
    /\ pc' = [pc EXCEPT ![h] = "done"]
    /\ result' = [result EXCEPT ![h] = code]

-----------------------------------------------------------------------------
(* A handler.                                                              *)

Validate(h) ==
    /\ pc[h] = "start"
    /\ IF Ask[h] < 1 THEN Finish(h, "ParamsError")
                     ELSE pc' = [pc EXCEPT ![h] = "get"] /\ UNCHANGED result
    /\ UNCHANGED <<tries, cell, body, landed, serverVars, cacheVars>>

\* The Lister's Get: the pointer in the cache.  Without one the handler
\* panics, which doRequest turns into an UnknownError.
Get(h) ==
    /\ pc[h] = "get"
    /\ IF cacheGone THEN Finish(h, "UnknownError") /\ UNCHANGED cell
                    ELSE /\ pc' = [pc EXCEPT ![h] = "assign"]
                         /\ cell' = [cell EXCEPT ![h] = Cached]
                         /\ UNCHANGED result
    /\ UNCHANGED <<tries, body, landed, serverVars, cacheVars>>

\* Mutation: the assignment is commented out, as in daemonset.go.
Assign_CommentedOut(h) ==
    /\ pc[h] = "assign"
    /\ pc' = [pc EXCEPT ![h] = "marshal"]
    /\ UNCHANGED <<heap, touched, tries, cell, body, result, landed, cacheGone, serverVars>>

\* result.Spec.Replicas = &params.Replicas, in the object the cache holds.
Assign(h) ==
    /\ pc[h] = "assign"
    /\ IF scales THEN /\ heap' = [heap EXCEPT ![cell[h]].replicas = Ask[h]]
                      /\ touched' = [touched EXCEPT ![cell[h]] = @ \cup {h}]
                 ELSE UNCHANGED <<heap, touched>>
    /\ pc' = [pc EXCEPT ![h] = "marshal"]
    /\ UNCHANGED <<tries, cell, body, result, landed, cacheGone, serverVars>>

\* Update encodes the object as it is by now.
Marshal(h) ==
    /\ pc[h] = "marshal"
    /\ body' = [body EXCEPT ![h] = heap[cell[h]]]
    /\ pc' = [pc EXCEPT ![h] = "put"]
    /\ UNCHANGED <<tries, cell, result, landed, serverVars, cacheVars>>

\* The API server stores the body; storing what is there makes no version.
Store(h) ==
    IF body[h] = stored[Latest]
      THEN UNCHANGED <<stored, author>>
      ELSE /\ Latest < MaxVersion
           /\ stored' = Append(stored, body[h])
           /\ author' = Append(author, h)

\* The API server accepts a write of the version it holds.
Accepts(h) == ~gone /\ cell[h] = Latest

\* Mutation: the resource version is cleared before the object is sent, so the
\* API server has nothing to compare.
PutAccepted_Unversioned(h) ==
    /\ pc[h] = "put" /\ ~gone
    /\ Store(h)
    /\ landed' = [landed EXCEPT ![h] = Len(stored')]
    /\ Finish(h, "Success")
    /\ UNCHANGED <<scales, gone, tries, cell, body, cacheVars>>

PutAccepted(h) ==
    /\ pc[h] = "put" /\ Accepts(h)
    /\ Store(h)
    /\ landed' = [landed EXCEPT ![h] = Len(stored')]
    /\ Finish(h, "Success")
    /\ UNCHANGED <<scales, gone, tries, cell, body, cacheVars>>

\* Mutation: one attempt too many.
PutConflicts_OneMore(h) ==
    /\ pc[h] = "put" /\ ~gone /\ ~Accepts(h)
    /\ tries' = [tries EXCEPT ![h] = @ + 1]
    /\ IF tries'[h] > MaxTries
         THEN Finish(h, "ParamsError")
         ELSE pc' = [pc EXCEPT ![h] = "get"] /\ UNCHANGED result
    /\ UNCHANGED <<cell, body, landed, serverVars, cacheVars>>

\* RetryOnConflict: once more, or the last conflict is the answer.
PutConflicts(h) ==
    /\ pc[h] = "put" /\ ~gone /\ ~Accepts(h)
    /\ tries' = [tries EXCEPT ![h] = @ + 1]
    /\ IF tries'[h] = MaxTries
         THEN Finish(h, "ParamsError")
         ELSE pc' = [pc EXCEPT ![h] = "get"] /\ UNCHANGED result
    /\ UNCHANGED <<cell, body, landed, serverVars, cacheVars>>

\* Any other error ends the attempts: the object is gone, the request was
\* refused, or the answer to a request that was served got lost.
PutFails(h) ==
    /\ pc[h] = "put"
    /\ \/ UNCHANGED <<stored, author>>
       \/ Accepts(h) /\ Store(h)
    /\ Finish(h, "ParamsError")
    /\ UNCHANGED <<scales, gone, tries, cell, body, landed, cacheVars>>

-----------------------------------------------------------------------------
(* Other clients and the informer (external).                              *)

OtherWrites ==
    /\ ~gone /\ Latest < MaxVersion
    /\ \E o \in [replicas : Others, image : Images] :
          o # stored[Latest] /\ stored' = Append(stored, o)
    /\ author' = Append(author, "other")
    /\ UNCHANGED <<scales, gone, cacheVars, handlerVars>>

OtherDeletes ==
    /\ ~gone /\ gone' = TRUE
    /\ UNCHANGED <<scales, stored, author, cacheVars, handlerVars>>

\* The informer puts the next version into the cache, in a new object.
Deliver ==
    /\ Cached < Latest
    /\ heap' = Append(heap, stored[Cached + 1])
    /\ touched' = Append(touched, {})
    /\ UNCHANGED <<cacheGone, serverVars, handlerVars>>

DeliverDelete ==
    /\ gone /\ Cached = Latest /\ ~cacheGone
    /\ cacheGone' = TRUE
    /\ UNCHANGED <<heap, touched, serverVars, handlerVars>>

HandlerStep(h) ==
    \/ Validate(h) \/ Get(h) \/ Assign(h) \/ Marshal(h)
    \/ PutAccepted(h) \/ PutConflicts(h) \/ PutFails(h)

Next == \/ \E h \in Handlers : HandlerStep(h)
        \/ OtherWrites \/ OtherDeletes \/ Deliver \/ DeliverDelete

Spec == Init /\ [][Next]_vars

-----------------------------------------------------------------------------
(* Properties.                                                             *)

Codes == {"none", "Success", "ParamsError", "UnknownError"}

\* The shape of the state.
TypeOK ==
    /\ scales \in BOOLEAN
    /\ stored \in Seq(Objects) /\ Latest \in 1..MaxVersion
    /\ author \in Seq(Handlers \cup {"other"}) /\ Len(author) = Latest
    /\ gone \in BOOLEAN
    /\ heap \in Seq(Objects) /\ Cached \in 1..Latest
    /\ cacheGone \in BOOLEAN
    /\ touched \in Seq(SUBSET Handlers) /\ Len(touched) = Cached
    /\ pc \in [Handlers -> {"start", "get", "assign", "marshal", "put", "done"}]
    /\ tries \in [Handlers -> 0..MaxTries]
    /\ cell \in [Handlers -> Nat] /\ \A h \in Handlers : cell[h] \in 1..Cached
    /\ body \in [Handlers -> Objects]
    /\ result \in [Handlers -> Codes]
    /\ landed \in [Handlers -> 0..MaxVersion]

\* UpdateObj writes back a whole object it read from a cache that lags, yet it
\* never undoes what another client wrote besides the replicas; and where the
\* replicas are not assigned it leaves no trace, however old its object is.
OthersAreKept ==
    \A v \in 2..Latest : author[v] # "other" =>
        scales /\ stored[v].image = stored[v - 1].image

\* A handler that answers Success stored what it was asked for, unless another
\* handler assigned its own value in the very object the first one was
\* sending (the cache hands both the same pointer), or the kind has none to
\* assign: then Success stands for nothing.
SuccessStoresTheValue ==
    \A h \in Handlers : result[h] = "Success" =>
        \/ stored[landed[h]].replicas = Ask[h]
        \/ \E g \in touched[cell[h]] \ {h} : stored[landed[h]].replicas = Ask[g]
        \/ ~scales /\ author[landed[h]] = "other"

\* deployment.go:181: "Retrieve the latest version of Deployment before
\* attempting update".
RetrievesLatest ==
    [][\A h \in Handlers : pc[h] = "get" /\ pc'[h] = "assign" => cell'[h] = Latest]_vars

\* thread_safe_store.go:27 (vendored): "you must not modify anything returned
\* by Get or List": the cache holds what the API server sent.
CacheIsUnmodified == \A v \in 1..Cached : heap[v] = stored[v]
=============================================================================
