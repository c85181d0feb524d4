--------------------------- MODULE ResourceReads ---------------------------
(***************************************************************************)
(* What the server reads of a cluster: the LIST and GET handlers of all    *)
(* resources and the cluster summary, over the informers' caches that      *)
(* pkg/kubernetes/informers.go fills one after the other at start-up.      *)
(*                                                                         *)
(* A behaviour is about one resource of the route table, and about objects *)
(* in the first or the last of the caches that resource reads.  A cache    *)
(* lags behind the API server object by object: the vendored DeltaFIFO     *)
(* hands over all changes of one object at once, and keeps no order        *)
(* between objects.  A cache whose watch ended is listed again, and the    *)
(* list may be older than what the cache held, because the vendored        *)
(* Reflector asks for any version (ResourceVersion "0").                   *)
(***************************************************************************)
EXTENDS Naturals, Sequences, SequencesExt

CONSTANTS Resources,    \* the resources of the route table to consider
          Objects,      \* objects of the cluster
          InLast,       \* those in the last of a resource's caches, not the first
          Home,         \* the namespace of each object, if its kind has one
          Substrings,   \* the strings each object's name contains, its name included
          NameOf,       \* the name of each object
          Extra,        \* what else each object can be asked for by
          Queries,      \* the queries of LIST requests
          Blank,        \* a field a query leaves out
          Invalid,      \* a label selector that is not one
          None,         \* no kind
          Lists, Gets,  \* requests
          MaxWrites     \* bound: the writes to each object

VARIABLES resource,  \* the resource this behaviour is about
          started,   \* the informers that NewInformerRegistry has waited for
          denied,    \* the kind the agent may not list at present, or None
          history,   \* whether each object existed, version after version
          cache,     \* the version of each object in its cache, 0 before the first list
          rewound,   \* history: the objects whose version in the cache went back
          pc,        \* "new", "reading" or "done", for each request
          query,     \* what each list asks for
          reads,     \* the caches each list has read
          seen,      \* the version of each object in the answer, 0 if it is not there
          window,    \* history: the versions in the cache since each list began
          from,      \* history: the list and the object each get is about
          code       \* the code of each answer

vars == <<resource, started, denied, history, cache, rewound,
          pc, query, reads, seen, window, from, code>>
answers == <<pc, query, reads, seen, window, from, code>>

-----------------------------------------------------------------------------
(* The handlers of each resource: the caches they read, the fields LIST    *)
(* filters by, what the rows of LIST show of what GET asks for besides the *)
(* name, and the caches from which GET serves nothing by a blank namespace. *)
(* "excludes" is a filter that drops the names that contain what the query *)
(* names; "extra" stands for the labels and names of pods, the owner of    *)
(* jobs and the kind of what an event is about.                            *)

Standard == {"uid", "namespace", "excludes"}

Reader(caches, filters, shows, needs) ==
    [caches |-> caches, filters |-> filters, shows |-> shows, needs |-> needs]

Pod == Reader(<<"Pod">>, {"namespace", "includes", "extra", "selector"}, {"namespace"}, {"Pod"})
Namespace == Reader(<<"Namespace">>, {"includes"}, {}, {})
Node == Reader(<<"Node">>, {}, {}, {})
Event == Reader(<<"Event">>, {"uid", "namespace", "equals", "extra"}, {"namespace"}, {"Event"})
Deployment == Reader(<<"Deployment">>, Standard, {"namespace"}, {"Deployment"})
StatefulSet == Reader(<<"StatefulSet">>, Standard, {"namespace"}, {"StatefulSet"})
DaemonSet == Reader(<<"DaemonSet">>, Standard, {"namespace"}, {"DaemonSet"})
Job == Reader(<<"Job">>, Standard \cup {"extra"}, {"namespace"}, {"Job"})
CronJob == Reader(<<"CronJob">>, Standard, {"namespace"}, {"CronJob"})
ConfigMap == Reader(<<"ConfigMap">>, {}, {"namespace"}, {"ConfigMap"})
PersistentVolume == Reader(<<"PersistentVolume">>, {}, {}, {})
PersistentVolumeClaim ==
    Reader(<<"PersistentVolumeClaim">>, {}, {"namespace"}, {"PersistentVolumeClaim"})
StorageClass == Reader(<<"StorageClass">>, {}, {}, {})
HorizontalPodAutoscaler ==
    Reader(<<"HorizontalPodAutoscaler">>, {}, {"namespace"}, {"HorizontalPodAutoscaler"})
Service == Reader(<<"Service">>, Standard, {"namespace"}, {"Service"})
Ingress == Reader(<<"Ingress">>, Standard, {"namespace"}, {"Ingress"})
Endpoints ==
    Reader(<<"Endpoints">>, {"uid", "namespace", "equals"}, {"namespace"}, {"Endpoints"})
NetworkPolicy == Reader(<<"NetworkPolicy">>, Standard, {"namespace"}, {"NetworkPolicy"})
ServiceAccount == Reader(<<"ServiceAccount">>, Standard, {"namespace"}, {"ServiceAccount"})
Secret == Reader(<<"Secret">>, {}, {"namespace"}, {"Secret"})

\* Mutation: a namespace is needed of both kinds, as in Role.
RoleBinding_NeedsNamespace ==
    Reader(<<"RoleBinding", "ClusterRoleBinding">>, Standard, {"namespace", "kind"},
           {"RoleBinding", "ClusterRoleBinding"})

RoleBinding ==
    Reader(<<"RoleBinding", "ClusterRoleBinding">>, Standard, {"namespace", "kind"},
           {"RoleBinding"})

Role ==
    Reader(<<"Role", "ClusterRole">>, Standard, {"namespace", "kind"}, {"Role", "ClusterRole"})

\* The summary reads eleven caches and answers with counts, not with objects.
Cluster == Reader(<<"Node", "Namespace", "Pod", "Deployment", "StatefulSet", "DaemonSet",
                    "Service", "Ingress", "StorageClass", "PersistentVolume",
                    "PersistentVolumeClaim">>, {}, {}, {})

ResourceActions ==
    [cluster |-> Cluster, pod |-> Pod, namespace |-> Namespace, node |-> Node,
     event |-> Event, deployment |-> Deployment, statefulset |-> StatefulSet,
     daemonset |-> DaemonSet, job |-> Job, cronjob |-> CronJob, configMap |-> ConfigMap,
     persistentVolume |-> PersistentVolume, persistentVolumeClaim |-> PersistentVolumeClaim,
     storageClass |-> StorageClass, horizontalPodAutoscaler |-> HorizontalPodAutoscaler,
     service |-> Service, ingress |-> Ingress, endpoints |-> Endpoints,
     networkpolicy |-> NetworkPolicy, serviceaccount |-> ServiceAccount,
     rolebinding |-> RoleBinding, role |-> Role, secret |-> Secret]

\* The resources whose objects the server can ask for one by one.
Gettable == DOMAIN ResourceActions \ {"cluster", "event"}

ClusterScoped == {"Namespace", "Node", "PersistentVolume", "StorageClass",
                  "ClusterRole", "ClusterRoleBinding"}

Handlers == ResourceActions[resource]
CacheOf(o) == IF o \in InLast THEN Handlers.caches[Len(Handlers.caches)] ELSE Handlers.caches[1]
NamespaceOf(o) == IF CacheOf(o) \in ClusterScoped THEN Blank ELSE Home[o]

Passes(filter, q, o) ==
    CASE filter = "uid"       -> q.uid \in {Blank, o}
      [] filter = "namespace" -> q.namespace \in {Blank, NamespaceOf(o)}
      [] filter = "includes"  -> q.name \in Substrings[o] \cup {Blank}
      [] filter = "excludes"  -> q.name \notin Substrings[o]
      [] filter = "equals"    -> q.name \in {Blank, NameOf[o]}
      [] filter = "extra"     -> q.extra \in Extra[o] \cup {Blank}
      [] filter = "selector"  -> TRUE

Selected(q, o) == \A filter \in Handlers.filters : Passes(filter, q, o)

ASSUME ReadsAssumption ==
    /\ Resources \subseteq DOMAIN ResourceActions
    /\ InLast \subseteq Objects
    /\ Home \in [Objects -> STRING] /\ NameOf \in [Objects -> STRING]
    /\ \A o \in Objects : Home[o] # Blank     \* a namespaced object has a namespace
    /\ Lists \cap Gets = {}
    /\ \A o \in Objects : NameOf[o] \in Substrings[o] /\ Blank \notin Substrings[o]
    /\ Queries # {} /\ MaxWrites \in Nat

-----------------------------------------------------------------------------
\* The informers, in the order NewInformerRegistry starts them.
InformerRegistry ==
    <<"Pod", "Namespace", "Node", "PersistentVolume", "PersistentVolumeClaim", "ConfigMap",
      "Event", "Deployment", "StatefulSet", "DaemonSet", "Job", "CronJob", "StorageClass",
      "HorizontalPodAutoscaler", "Service", "Ingress", "NetworkPolicy", "Endpoints",
      "ServiceAccount", "ClusterRoleBinding", "ClusterRole", "RoleBinding", "Role", "Secret">>

Ready == started = Len(InformerRegistry)

Init ==
    /\ resource \in Resources
    /\ started = 0
    /\ denied = None
    /\ history \in [Objects -> {<<TRUE>>, <<FALSE>>}]
    /\ cache = [o \in Objects |-> 0]
    /\ rewound = {}
    /\ pc = [r \in Lists \cup Gets |-> "new"]
    /\ query = [l \in Lists |-> None]
    /\ reads = [l \in Lists |-> 0]
    /\ seen = [r \in Lists \cup Gets |-> [o \in Objects |-> 0]]
    /\ window = [l \in Lists |-> [o \in Objects |-> {}]]
    /\ from = [g \in Gets |-> None]
    /\ code = [r \in Lists \cup Gets |-> "none"]

Exists(o, v) == v > 0 /\ history[o][v]

\* Mutation: the constructor does not wait for the cache.
NewInformer_NoWait ==
    /\ ~Ready
    /\ started' = started + 1
    /\ UNCHANGED <<resource, denied, history, cache, rewound, answers>>

\* WaitForCacheSync: the first list of a kind, at any version, is in its cache.
FirstList(kind) ==
    \E first \in [Objects -> 1..(MaxWrites + 1)] :
        /\ \A o \in Objects : first[o] <= Len(history[o])
        /\ cache' = [o \in Objects |-> IF CacheOf(o) = kind THEN first[o] ELSE cache[o]]

\* An informer is started and waited for.  Its stop channel is nil, so it is
\* waited for without a limit, for as long as the agent may not list the kind.
NewInformer ==
    /\ ~Ready /\ denied # InformerRegistry[started + 1]
    /\ FirstList(InformerRegistry[started + 1])
    /\ started' = started + 1
    /\ UNCHANGED <<resource, denied, history, rewound, answers>>

\* A change of a version in the cache, as lists that are under way see it.
Cached(o, v) ==
    /\ cache' = [cache EXCEPT ![o] = v]
    /\ window' = [l \in Lists |-> IF pc[l] = "reading"
                                    THEN [window[l] EXCEPT ![o] = @ \cup {v}] ELSE window[l]]

\* Mutation: the informer goes beyond the last version.
Deliver_OffByOne(o) ==
    /\ cache[o] \in 1..Len(history[o])
    /\ Cached(o, cache[o] + 1)
    /\ UNCHANGED <<resource, started, denied, history, rewound, pc, query, reads, seen, from, code>>

\* The next change of an object reaches the cache.
Deliver(o) ==
    /\ cache[o] \in 1..(Len(history[o]) - 1)
    /\ Cached(o, cache[o] + 1)
    /\ UNCHANGED <<resource, started, denied, history, rewound, pc, query, reads, seen, from, code>>

\* The object's kind is listed again, and the object replaced in the cache.
Relist(o) ==
    /\ cache[o] # 0 /\ denied # CacheOf(o)
    /\ \E v \in 1..Len(history[o]) \ {cache[o]} :
          /\ Cached(o, v)
          /\ rewound' = IF v < cache[o] THEN rewound \cup {o} ELSE rewound
    /\ UNCHANGED <<resource, started, denied, history, pc, query, reads, seen, from, code>>

-----------------------------------------------------------------------------
(* LIST, and the cluster summary.                                          *)

BeginList(l) ==
    /\ Ready /\ pc[l] = "new"
    /\ \E q \in Queries :
          /\ "selector" \in Handlers.filters => q.extra # Invalid
          /\ query' = [query EXCEPT ![l] = q]
    /\ pc' = [pc EXCEPT ![l] = "reading"]
    /\ window' = [window EXCEPT ![l] = [o \in Objects |-> {cache[o]}]]
    /\ UNCHANGED <<resource, started, denied, history, cache, rewound, reads, seen, from, code>>

\* An invalid label selector is refused.
RefuseList(l) ==
    /\ Ready /\ pc[l] = "new"
    /\ "selector" \in Handlers.filters
    /\ \E q \in Queries : q.extra = Invalid /\ query' = [query EXCEPT ![l] = q]
    /\ pc' = [pc EXCEPT ![l] = "done"]
    /\ code' = [code EXCEPT ![l] = "ParamsError"]
    /\ UNCHANGED <<resource, started, denied, history, cache, rewound, reads, seen, window, from>>

\* The summary asks the API server for its version first.
SummaryFails(l) ==
    /\ Ready /\ pc[l] = "new" /\ resource = "cluster"
    /\ pc' = [pc EXCEPT ![l] = "done"]
    /\ code' = [code EXCEPT ![l] = "ListError"]
    /\ UNCHANGED <<resource, started, denied, history, cache, rewound, query, reads, seen, window, from>>

\* Mutation: an empty cache ends the list.
ReadCache_StopsWhenEmpty(l) ==
    /\ pc[l] = "reading"
    /\ LET this == Handlers.caches[reads[l] + 1]
           found == {o \in Objects : CacheOf(o) = this /\ Exists(o, cache[o])}
       IN /\ seen' = [seen EXCEPT ![l] = [o \in Objects |->
                          IF o \in found /\ Selected(query[l], o) THEN cache[o] ELSE @[o]]]
          /\ IF found = {} \/ reads[l] + 1 = Len(Handlers.caches)
               THEN pc' = [pc EXCEPT ![l] = "done"] /\ code' = [code EXCEPT ![l] = "Success"]
               ELSE UNCHANGED <<pc, code>>
    /\ reads' = [reads EXCEPT ![l] = @ + 1]
    /\ UNCHANGED <<resource, started, denied, history, cache, rewound, query, window, from>>

\* A lister's List reads a whole cache under its lock; caches are read in turn.
ReadCache(l) ==
    /\ pc[l] = "reading"
    /\ LET this == Handlers.caches[reads[l] + 1]
           found == {o \in Objects : CacheOf(o) = this /\ Exists(o, cache[o])}
       IN seen' = [seen EXCEPT ![l] = [o \in Objects |->
                      IF o \in found /\ Selected(query[l], o) THEN cache[o] ELSE @[o]]]
    /\ reads' = [reads EXCEPT ![l] = @ + 1]
    /\ IF reads[l] + 1 = Len(Handlers.caches)
         THEN pc' = [pc EXCEPT ![l] = "done"] /\ code' = [code EXCEPT ![l] = "Success"]
         ELSE UNCHANGED <<pc, code>>
    /\ UNCHANGED <<resource, started, denied, history, cache, rewound, query, window, from>>

-----------------------------------------------------------------------------
(* GET, by the name, namespace and kind that a list has shown.             *)

\* What the server takes from the row it has seen.
GivenNamespace(o) == IF "namespace" \in Handlers.shows THEN NamespaceOf(o) ELSE Blank
GivenKind(o) == IF "kind" \in Handlers.shows THEN CacheOf(o) ELSE Blank

\* A resource with two caches asks for the kind, which selects the cache.
GetCode(o) ==
    IF \/ Len(Handlers.caches) > 1 /\ GivenKind(o) \notin ToSet(Handlers.caches)
       \/ CacheOf(o) \in Handlers.needs /\ GivenNamespace(o) = Blank
      THEN "ParamsError"
    ELSE IF Exists(o, cache[o]) THEN "Success" ELSE "GetError"

Get(g) ==
    /\ Ready /\ pc[g] = "new" /\ resource \in Gettable
    /\ \E l \in Lists, o \in Objects :
          /\ pc[l] = "done" /\ seen[l][o] > 0
          /\ from' = [from EXCEPT ![g] = [list |-> l, object |-> o]]
          /\ code' = [code EXCEPT ![g] = GetCode(o)]
          /\ seen' = IF GetCode(o) = "Success" THEN [seen EXCEPT ![g][o] = cache[o]] ELSE seen
    /\ pc' = [pc EXCEPT ![g] = "done"]
    /\ UNCHANGED <<resource, started, denied, history, cache, rewound, query, reads, window>>

-----------------------------------------------------------------------------
(* The cluster (external).                                                 *)

\* An object is created, changed or deleted.
Write(o, exists) ==
    /\ Len(history[o]) <= MaxWrites
    /\ exists \/ history[o][Len(history[o])]
    /\ history' = [history EXCEPT ![o] = Append(@, exists)]
    /\ UNCHANGED <<resource, started, denied, cache, rewound, answers>>

\* The agent is refused, or given back, the right to list a kind.
Deny(kind) ==
    /\ denied = None
    /\ denied' = kind
    /\ UNCHANGED <<resource, started, history, cache, rewound, answers>>

Allow ==
    /\ denied # None
    /\ denied' = None
    /\ UNCHANGED <<resource, started, history, cache, rewound, answers>>

ClusterNext ==
    \/ \E o \in Objects : Deliver(o) \/ Relist(o)
    \/ \E o \in Objects, exists \in BOOLEAN : Write(o, exists)
    \/ \E i \in DOMAIN Handlers.caches : Deny(Handlers.caches[i])
    \/ Allow

Next ==
    \/ NewInformer
    \/ \E l \in Lists : BeginList(l) \/ RefuseList(l) \/ SummaryFails(l) \/ ReadCache(l)
    \/ \E g \in Gets : Get(g)
    \/ ClusterNext

Spec == Init /\ [][Next]_vars

-----------------------------------------------------------------------------
(* Properties.                                                             *)

\* The shape of the state.
TypeOK ==
    /\ resource \in Resources
    /\ started \in 0..Len(InformerRegistry)
    /\ denied = None \/ denied \in ToSet(Handlers.caches)
    /\ \A o \in Objects : history[o] \in Seq(BOOLEAN) /\ cache[o] \in 0..Len(history[o])
    /\ rewound \subseteq Objects
    /\ \A l \in Lists : /\ pc[l] \in {"new", "reading", "done"}
                        /\ query[l] \in Queries \cup {None}
                        /\ reads[l] \in 0..Len(Handlers.caches)
                        /\ \A o \in Objects : window[l][o] \subseteq 0..Len(history[o])
    /\ \A g \in Gets : pc[g] \in {"new", "done"}
    /\ \A r \in Lists \cup Gets : \A o \in Objects : seen[r][o] \in 0..Len(history[o])

\* A list is read from several places while they change, but it is of its time:
\* each object it shows was in a cache, in that version, while the handler ran,
\* and each that it ought to show and does not was missing there meanwhile.
ListIsOfItsTime ==
    \A l \in Lists : code[l] = "Success" => \A o \in Objects :
        IF seen[l][o] > 0
          THEN seen[l][o] \in window[l][o] /\ Selected(query[l], o)
          ELSE Selected(query[l], o) => \E v \in window[l][o] : ~Exists(o, v)

\* What a list has shown can be got, in that version or a later one, until it
\* is deleted or its kind listed anew from an API server that is behind.  Only
\* cluster roles cannot be got: Role.Get insists on a namespace they have not.
ListedCanBeGot ==
    \A g \in Gets : code[g] # "none" =>
        LET o == from[g].object
            listed == seen[from[g].list][o]
        IN CASE code[g] = "ParamsError" -> CacheOf(o) = "ClusterRole"
             [] code[g] = "GetError" -> o \in rewound \/ \E v \in listed..Len(history[o]) : ~Exists(o, v)
             [] code[g] = "Success"  -> o \in rewound \/ seen[g][o] >= listed

\* An object that has always been there is in every answer that ought to show
\* it: nothing is read before start-up filled the caches, not even when an API
\* server that is behind fills them again.  "Always" is since before any state
\* that a first list may show: it asks for resource version 0 and may be older
\* than the agent (reflector.go:163).
LongLivedIsFound ==
    \A o \in Objects : (\A v \in DOMAIN history[o] : history[o][v]) =>
        /\ \A l \in Lists : code[l] = "Success" /\ Selected(query[l], o) => seen[l][o] > 0
        /\ \A g \in Gets : code[g] = "GetError" => from[g].object # o
=============================================================================
