------------------------ MODULE ResourceReadsProofs ------------------------
(***************************************************************************)
(* Proofs about ResourceReads, for all resources and queries, however many *)
(* objects, requests and writes.                                           *)
(***************************************************************************)
EXTENDS ResourceReads, TLAPS

Requests == Lists \cup Gets
Caches == Len(Handlers.caches)

\* The shape of the state, as functions.
ShapeOfCluster ==
    /\ resource \in Resources
    /\ started \in 0..Len(InformerRegistry)
    /\ denied = None \/ denied \in ToSet(Handlers.caches)
    /\ history \in [Objects -> Seq(BOOLEAN)] /\ cache \in [Objects -> Nat]
    /\ \A o \in Objects : cache[o] \in 0..Len(history[o])
    /\ rewound \subseteq Objects

ShapeOfAnswers ==
    /\ pc \in [Requests -> {"new", "reading", "done"}] /\ \A g \in Gets : pc[g] # "reading"
    /\ query \in [Lists -> Queries \cup {None}]
    /\ reads \in [Lists -> Nat] /\ \A l \in Lists : reads[l] \in 0..Caches
    /\ seen \in [Requests -> [Objects -> Nat]]
    /\ window \in [Lists -> [Objects -> SUBSET Nat]]
    /\ from \in [Gets -> [list : Lists, object : Objects] \cup {None}]
    /\ code \in [Requests -> {"none", "Success", "ParamsError", "ListError", "GetError"}]

Shape == ShapeOfCluster /\ ShapeOfAnswers

\* The caches of the informers that have been waited for are filled, and
\* before the last of them is, no request is served.
Filled ==
    /\ \A o \in Objects, i \in 1..started : CacheOf(o) = InformerRegistry[i] => cache[o] > 0
    /\ ~Ready => \A r \in Requests : pc[r] = "new"

\* What a list shows was in the cache meanwhile, and has not left it since
\* unless its kind was listed anew; what it does not show, once it has read
\* the cache, was missing there.
Shows(l, o) ==
    /\ pc[l] = "reading" => cache[o] \in window[l][o]
    /\ window[l][o] \subseteq 1..Len(history[o])
    /\ seen[l][o] > 0 => /\ seen[l][o] \in window[l][o] /\ Selected(query[l], o)
                         /\ o \in rewound \/ seen[l][o] <= cache[o]
    /\ (\E i \in 1..reads[l] : Handlers.caches[i] = CacheOf(o)) /\ seen[l][o] = 0 /\ Selected(query[l], o)
          => \E v \in window[l][o] : ~Exists(o, v)

OfList(l) ==
    /\ pc[l] = "new" => reads[l] = 0 /\ \A o \in Objects : window[l][o] = {}
    /\ pc[l] # "done" => code[l] = "none"
    /\ pc[l] = "reading" => reads[l] < Caches
    /\ code[l] = "Success" => reads[l] = Caches
    /\ \A o \in Objects : Shows(l, o)

\* A get is about what a list has shown.
OfGet(g) ==
    /\ pc[g] = "new" => code[g] = "none"
    /\ \A x \in Objects : seen[g][x] \in 0..Len(history[x])
    /\ code[g] # "none" =>
          LET o == from[g].object
              listed == seen[from[g].list][o]
          IN /\ from[g] \in [list : Lists, object : Objects]
             /\ pc[from[g].list] = "done" /\ listed > 0
             /\ code[g] \in {"Success", "ParamsError", "GetError"}
             /\ code[g] = "ParamsError" => CacheOf(o) = "ClusterRole"
             /\ code[g] = "GetError" =>
                   \E v \in 1..Len(history[o]) : ~history[o][v] /\ (o \in rewound \/ v >= listed)
             /\ code[g] = "Success" => o \in rewound \/ seen[g][o] >= listed

ReadsInv ==
    /\ Filled
    /\ \A l \in Lists : OfList(l)
    /\ \A g \in Gets : OfGet(g)

-----------------------------------------------------------------------------
(* The route table.                                                        *)

\* The kinds that have an informer.
Kinds == {InformerRegistry[i] : i \in 1..Len(InformerRegistry)}

\* What the proofs need to know of the handlers of a resource.
Sound(handlers) ==
    /\ handlers.caches \in Seq(Kinds) /\ Len(handlers.caches) \in Nat \ {0}
    /\ handlers.needs # {} => "namespace" \in handlers.shows
    /\ handlers.needs \cap ClusterScoped \subseteq {"ClusterRole"}

\* Its rows show the kind where GET asks for it.
ShowsKind(handlers) == Len(handlers.caches) > 1 => "kind" \in handlers.shows

LEMMA Informers ==
    /\ Len(InformerRegistry) = 24
    /\ {"Pod", "Namespace", "Node", "PersistentVolume", "PersistentVolumeClaim", "ConfigMap"} \subseteq Kinds
    /\ {"Event", "Deployment", "StatefulSet", "DaemonSet", "Job", "CronJob"} \subseteq Kinds
    /\ {"StorageClass", "HorizontalPodAutoscaler", "Service", "Ingress", "NetworkPolicy"} \subseteq Kinds
    /\ {"Endpoints", "ServiceAccount", "ClusterRoleBinding", "ClusterRole"} \subseteq Kinds
    /\ {"RoleBinding", "Role", "Secret"} \subseteq Kinds
<1>1. Len(InformerRegistry) = 24
  BY DEF InformerRegistry
<1>2. ASSUME NEW i \in 1..24 PROVE InformerRegistry[i] \in Kinds
  BY <1>1 DEF Kinds
<1>3. /\ InformerRegistry[1] = "Pod" /\ InformerRegistry[2] = "Namespace"
      /\ InformerRegistry[3] = "Node"
  BY DEF InformerRegistry
<1> QED
  BY <1>1, <1>2, <1>3 DEF InformerRegistry

LEMMA OneCache ==
    ASSUME NEW kind \in Kinds, NEW filters, NEW shows, NEW needs \in SUBSET (Kinds \ ClusterScoped),
           needs # {} => "namespace" \in shows
    PROVE  Sound(Reader(<<kind>>, filters, shows, needs)) /\ ShowsKind(Reader(<<kind>>, filters, shows, needs))
BY DEF Sound, ShowsKind, Reader

LEMMA TwoCaches ==
    ASSUME NEW first \in Kinds, NEW last \in Kinds, NEW filters,
           NEW needs \in SUBSET Kinds, needs \cap ClusterScoped \subseteq {"ClusterRole"}
    PROVE  LET handlers == Reader(<<first, last>>, filters, {"namespace", "kind"}, needs)
           IN  Sound(handlers) /\ ShowsKind(handlers)
BY DEF Sound, ShowsKind, Reader

LEMMA Table ==
    \A r \in DOMAIN ResourceActions :
        Sound(ResourceActions[r]) /\ (r # "cluster" => ShowsKind(ResourceActions[r]))
<1> DEFINE Good(handlers) == Sound(handlers) /\ ShowsKind(handlers)
<1>1. Sound(Cluster)
  BY Informers DEF Cluster, Reader, Sound
<1>2. Good(Pod) /\ Good(Namespace) /\ Good(Node) /\ Good(Event)
  BY Informers, OneCache DEF Pod, Namespace, Node, Event, ClusterScoped
<1>3. Good(Deployment) /\ Good(StatefulSet) /\ Good(DaemonSet) /\ Good(Job) /\ Good(CronJob)
  BY Informers, OneCache DEF Deployment, StatefulSet, DaemonSet, Job, CronJob, ClusterScoped
<1>4. Good(ConfigMap) /\ Good(PersistentVolume) /\ Good(PersistentVolumeClaim)
  BY Informers, OneCache DEF ConfigMap, PersistentVolume, PersistentVolumeClaim, ClusterScoped
<1>5. Good(StorageClass) /\ Good(HorizontalPodAutoscaler) /\ Good(Service) /\ Good(Ingress)
  BY Informers, OneCache DEF StorageClass, HorizontalPodAutoscaler, Service, Ingress, ClusterScoped
<1>6. Good(Endpoints) /\ Good(NetworkPolicy) /\ Good(ServiceAccount) /\ Good(Secret)
  BY Informers, OneCache DEF Endpoints, NetworkPolicy, ServiceAccount, Secret, ClusterScoped
<1>7. Good(Role) /\ Good(RoleBinding)
  BY Informers, TwoCaches DEF Role, RoleBinding, ClusterScoped
<1> HIDE DEF Good
<1>8. ASSUME NEW r \in DOMAIN ResourceActions
      PROVE  \/ r = "cluster" /\ ResourceActions[r] = Cluster
             \/ Good(ResourceActions[r])
  BY <1>2, <1>3, <1>4, <1>5, <1>6, <1>7 DEF ResourceActions
<1> QED
  BY <1>1, <1>8 DEF Good
-----------------------------------------------------------------------------
(* Caches and versions.                                                    *)

\* A resource has a cache at least, and an object is in one that is filled at
\* start-up.
LEMMA CachesAreKnown ==
    ASSUME ShapeOfCluster
    PROVE  /\ Sound(Handlers) /\ (resource # "cluster" => ShowsKind(Handlers))
           /\ Caches \in Nat \ {0}
           /\ \A o \in Objects : /\ \E i \in 1..Caches : Handlers.caches[i] = CacheOf(o)
                                 /\ CacheOf(o) \in Kinds
<1>1. Sound(Handlers) /\ (resource # "cluster" => ShowsKind(Handlers))
  BY Table, ReadsAssumption DEF ShapeOfCluster, Handlers
<1>2. Caches \in Nat \ {0} /\ Handlers.caches \in Seq(Kinds)
  BY <1>1 DEF Sound, Caches
<1>3. ASSUME NEW o \in Objects
      PROVE  \E i \in 1..Caches : Handlers.caches[i] = CacheOf(o)
  BY <1>2 DEF CacheOf, Caches
<1> QED
  BY <1>1, <1>2, <1>3 DEF Caches

LEMMA ReadyIsFilled ==
    ASSUME ShapeOfCluster, Filled, Ready
    PROVE  \A o \in Objects : cache[o] > 0
BY CachesAreKnown DEF Filled, Ready, Kinds

\* What is written stays written.
Grows ==
    /\ resource' = resource /\ rewound \subseteq rewound'
    /\ \A o \in Objects : /\ Len(history[o]) <= Len(history'[o])
                          /\ \A v \in 1..Len(history[o]) : history'[o][v] = history[o][v]

LEMMA NextGrows ==
    ASSUME ShapeOfCluster, [Next]_vars
    PROVE  Grows
<1>1. ASSUME UNCHANGED <<resource, history>>, rewound \subseteq rewound' PROVE Grows
  BY <1>1 DEF ShapeOfCluster, Grows
<1>2. ASSUME NEW o \in Objects, NEW exists \in BOOLEAN, Write(o, exists) PROVE Grows
  BY <1>2 DEF ShapeOfCluster, Grows, Write
<1>3. ASSUME NEW o \in Objects, Relist(o) PROVE Grows
  BY <1>1, <1>3 DEF Relist
<1>4. CASE UNCHANGED vars
  BY <1>1, <1>4 DEF vars
<1> QED
  BY <1>1, <1>2, <1>3, <1>4
     DEF Next, NewInformer, BeginList, RefuseList, SummaryFails, ReadCache, Get, ClusterNext,
         Deliver, Deny, Allow

LEMMA SameHandlers ==
    ASSUME resource' = resource
    PROVE  /\ Handlers' = Handlers /\ Caches' = Caches
           /\ \A o \in Objects : CacheOf(o)' = CacheOf(o)
           /\ \A q, o : Selected(q, o)' = Selected(q, o)
BY DEF Handlers, Caches, CacheOf, Selected, Passes, NamespaceOf

-----------------------------------------------------------------------------
(* The shape of the state.                                                 *)

LEMMA InitReads == Init => Shape /\ ReadsInv
<1> SUFFICES ASSUME Init PROVE Shape /\ ReadsInv
  OBVIOUS
<1>1. ShapeOfCluster
  <2>1. history \in [Objects -> Seq(BOOLEAN)] /\ \A o \in Objects : Len(history[o]) = 1
    <3>1. <<TRUE>> \in Seq(BOOLEAN) /\ <<FALSE>> \in Seq(BOOLEAN) /\ Len(<<TRUE>>) = 1 /\ Len(<<FALSE>>) = 1
      OBVIOUS
    <3>2. history \in [Objects -> {<<TRUE>>, <<FALSE>>}]
      BY DEF Init
    <3> QED
      BY <3>1, <3>2
  <2>2. cache \in [Objects -> Nat] /\ \A o \in Objects : cache[o] = 0
    BY DEF Init
  <2> QED
    BY <2>1, <2>2, Informers DEF Init, ShapeOfCluster
<1>2. Caches \in Nat \ {0}
  BY <1>1, CachesAreKnown
<1>3. ShapeOfAnswers
  BY <1>2 DEF Init, ShapeOfAnswers, Requests
<1>4. Filled
  BY DEF Init, Filled, Requests
<1>5. ASSUME NEW l \in Lists PROVE OfList(l)
  BY <1>2 DEF Init, OfList, Shows
<1>6. ASSUME NEW g \in Gets PROVE OfGet(g)
  <2>1. \A x \in Objects : seen[g][x] = 0 /\ Len(history[x]) \in Nat
    BY <1>1 DEF Init, ShapeOfCluster
  <2> QED
    BY <2>1 DEF Init, OfGet
<1> QED
  BY <1>1, <1>3, <1>4, <1>5, <1>6 DEF Shape, ReadsInv

LEMMA NextCluster ==
    ASSUME ShapeOfCluster, [Next]_vars
    PROVE  ShapeOfCluster'
<1> USE DEF ShapeOfCluster
<1>0. Handlers' = Handlers /\ resource' = resource
  BY NextGrows, SameHandlers DEF Grows
<1>1. ASSUME UNCHANGED <<resource, started, denied, history, cache, rewound>> PROVE ShapeOfCluster'
  BY <1>0, <1>1
<1>2. ASSUME NewInformer PROVE ShapeOfCluster'
  <2>1. started' \in 0..Len(InformerRegistry)
    BY <1>2, Informers DEF NewInformer, Ready
  <2>2. PICK first \in [Objects -> 1..(MaxWrites + 1)] :
          /\ \A o \in Objects : first[o] <= Len(history[o])
          /\ cache' = [o \in Objects |->
                IF CacheOf(o) = InformerRegistry[started + 1] THEN first[o] ELSE cache[o]]
    BY <1>2 DEF NewInformer, FirstList
  <2>3. \A o \in Objects : first[o] \in Nat /\ first[o] \in 0..Len(history[o])
    BY <2>2, ReadsAssumption
  <2>4. cache' \in [Objects -> Nat] /\ \A o \in Objects : cache'[o] \in 0..Len(history[o])
    BY <2>2, <2>3
  <2> QED
    BY <1>0, <1>2, <2>1, <2>4 DEF NewInformer
<1>3. ASSUME NEW o \in Objects, NEW v \in 0..Len(history[o]), Cached(o, v),
             UNCHANGED <<started, denied, history>>, rewound' \subseteq Objects
      PROVE  ShapeOfCluster'
  <2>1. v \in Nat
    BY <1>3
  <2>2. cache' \in [Objects -> Nat] /\ \A x \in Objects : cache'[x] \in 0..Len(history[x])
    BY <1>3, <2>1 DEF Cached
  <2> QED
    BY <1>0, <1>3, <2>2
<1>4. ASSUME NEW o \in Objects, Deliver(o) PROVE ShapeOfCluster'
  <2>1. cache[o] + 1 \in 0..Len(history[o])
    BY <1>4 DEF Deliver
  <2> QED
    BY <1>3, <1>4, <2>1 DEF Deliver
<1>5. ASSUME NEW o \in Objects, Relist(o) PROVE ShapeOfCluster'
  <2>1. PICK v \in 1..Len(history[o]) : Cached(o, v) /\ rewound' \subseteq Objects
    BY <1>5 DEF Relist
  <2> QED
    BY <1>3, <1>5, <2>1 DEF Relist
<1>6. ASSUME NEW o \in Objects, NEW exists \in BOOLEAN, Write(o, exists) PROVE ShapeOfCluster'
  <2>1. /\ Append(history[o], exists) \in Seq(BOOLEAN)
        /\ Len(Append(history[o], exists)) = Len(history[o]) + 1 /\ Len(history[o]) \in Nat
    OBVIOUS
  <2>2. history' \in [Objects -> Seq(BOOLEAN)]
    BY <1>6, <2>1 DEF Write
  <2>3. \A x \in Objects : cache[x] \in 0..Len(history'[x])
    BY <1>6, <2>1 DEF Write
  <2> QED
    BY <1>0, <1>6, <2>2, <2>3 DEF Write
<1>7. ASSUME NEW i \in DOMAIN Handlers.caches, Deny(Handlers.caches[i]) PROVE ShapeOfCluster'
  BY <1>0, <1>7 DEF Deny, ToSet
<1>8. ASSUME Allow PROVE ShapeOfCluster'
  BY <1>0, <1>8 DEF Allow
<1>9. ASSUME NEW l \in Lists, BeginList(l) \/ RefuseList(l) \/ SummaryFails(l) \/ ReadCache(l)
      PROVE  ShapeOfCluster'
  BY <1>1, <1>9 DEF BeginList, RefuseList, SummaryFails, ReadCache
<1>10. ASSUME NEW g \in Gets, Get(g) PROVE ShapeOfCluster'
  BY <1>1, <1>10 DEF Get
<1>11. CASE UNCHANGED vars
  BY <1>1, <1>11 DEF vars
<1> QED
  BY <1>2, <1>4, <1>5, <1>6, <1>7, <1>8, <1>9, <1>10, <1>11 DEF Next, ClusterNext

LEMMA NextAnswers ==
    ASSUME Shape, ReadsInv, [Next]_vars
    PROVE  ShapeOfAnswers'
<1> USE DEF ShapeOfAnswers, Requests
<1>0. Caches' = Caches /\ Caches \in Nat /\ ShapeOfCluster /\ ShapeOfAnswers
  BY NextGrows, SameHandlers, CachesAreKnown DEF Grows, Shape
<1>1. ASSUME UNCHANGED <<pc, query, reads, seen, from, code>>, window' \in [Lists -> [Objects -> SUBSET Nat]]
      PROVE  ShapeOfAnswers'
  BY <1>0, <1>1
<1>2. ASSUME UNCHANGED answers PROVE ShapeOfAnswers'
  BY <1>0, <1>2 DEF answers
<1>3. ASSUME NEW o \in Objects, NEW v \in Nat, Cached(o, v)
      PROVE  window' \in [Lists -> [Objects -> SUBSET Nat]]
  <2>1. ASSUME NEW l \in Lists PROVE [window[l] EXCEPT ![o] = @ \cup {v}] \in [Objects -> SUBSET Nat]
    BY <1>0
  <2> QED
    BY <1>0, <1>3, <2>1 DEF Cached
<1>4. ASSUME NEW o \in Objects, Deliver(o) \/ Relist(o) PROVE ShapeOfAnswers'
  <2>1. PICK v \in Nat : Cached(o, v)
    BY <1>0, <1>4 DEF ShapeOfCluster, Deliver, Relist
  <2>2. window' \in [Lists -> [Objects -> SUBSET Nat]]
    BY <1>3, <2>1
  <2> QED
    BY <1>1, <1>4, <2>2 DEF Deliver, Relist
<1>5. ASSUME NEW l \in Lists, BeginList(l) PROVE ShapeOfAnswers'
  <2>1. [o \in Objects |-> {cache[o]}] \in [Objects -> SUBSET Nat]
    BY <1>0 DEF ShapeOfCluster
  <2>2. window' \in [Lists -> [Objects -> SUBSET Nat]]
    BY <1>0, <1>5, <2>1 DEF BeginList
  <2>3. query' \in [Lists -> Queries \cup {None}]
    BY <1>0, <1>5 DEF BeginList
  <2>4. pc' \in [Requests -> {"new", "reading", "done"}] /\ \A g \in Gets : pc'[g] # "reading"
    BY <1>0, <1>5, ReadsAssumption DEF BeginList
  <2> QED
    BY <1>0, <1>5, <2>2, <2>3, <2>4 DEF BeginList
<1>6. ASSUME NEW r \in Requests, pc' = [pc EXCEPT ![r] = "done"]
      PROVE  pc' \in [Requests -> {"new", "reading", "done"}] /\ \A g \in Gets : pc'[g] # "reading"
  BY <1>0, <1>6
<1>7. ASSUME NEW l \in Lists, RefuseList(l) PROVE ShapeOfAnswers'
  BY <1>0, <1>6, <1>7 DEF RefuseList
<1>8. ASSUME NEW l \in Lists, SummaryFails(l) PROVE ShapeOfAnswers'
  BY <1>0, <1>6, <1>8 DEF SummaryFails
<1>9. ASSUME NEW l \in Lists, ReadCache(l) PROVE ShapeOfAnswers'
  <2>1. reads[l] < Caches /\ reads[l] \in Nat
    BY <1>0, <1>9 DEF ReadsInv, OfList, ReadCache
  <2>2. reads[l] + 1 \in 0..Caches /\ reads[l] + 1 \in Nat
    BY <1>0, <2>1
  <2>3. reads' \in [Lists -> Nat] /\ \A x \in Lists : reads'[x] \in 0..Caches
    BY <1>0, <1>9, <2>2 DEF ReadCache
  <2>4. seen' \in [Requests -> [Objects -> Nat]]
    BY <1>0, <1>9 DEF ReadCache, ShapeOfCluster
  <2>5. /\ pc' \in [Requests -> {"new", "reading", "done"}] /\ \A g \in Gets : pc'[g] # "reading"
        /\ code' \in [Requests -> {"none", "Success", "ParamsError", "ListError", "GetError"}]
    BY <1>0, <1>6, <1>9 DEF ReadCache
  <2> QED
    BY <1>0, <1>9, <2>3, <2>4, <2>5 DEF ReadCache
<1>10. ASSUME NEW g \in Gets, Get(g) PROVE ShapeOfAnswers'
  <2>1. PICK l \in Lists, o \in Objects :
          /\ from' = [from EXCEPT ![g] = [list |-> l, object |-> o]]
          /\ code' = [code EXCEPT ![g] = GetCode(o)]
          /\ seen' = IF GetCode(o) = "Success" THEN [seen EXCEPT ![g][o] = cache[o]] ELSE seen
    BY <1>10 DEF Get
  <2>2. code' \in [Requests -> {"none", "Success", "ParamsError", "ListError", "GetError"}]
    BY <1>0, <2>1 DEF GetCode
  <2>3. from' \in [Gets -> [list : Lists, object : Objects] \cup {None}]
    BY <1>0, <2>1
  <2>4. seen' \in [Requests -> [Objects -> Nat]]
    <3>1. [seen[g] EXCEPT ![o] = cache[o]] \in [Objects -> Nat]
      BY <1>0 DEF ShapeOfCluster
    <3> QED
      BY <1>0, <2>1, <3>1
  <2> QED
    BY <1>0, <1>6, <1>10, <2>2, <2>3, <2>4 DEF Get
<1> QED
  BY <1>2, <1>4, <1>5, <1>7, <1>8, <1>9, <1>10
     DEF Next, ClusterNext, NewInformer, Write, Deny, Allow, vars, answers
-----------------------------------------------------------------------------
(* The inductive invariant.                                                *)

LEMMA NextFilled ==
    ASSUME Shape, Shape', ReadsInv, [Next]_vars
    PROVE  Filled'
<1> USE DEF Shape
<1>0. /\ resource' = resource /\ Filled /\ started \in Nat /\ Len(InformerRegistry) = 24
      /\ \A o \in Objects : CacheOf(o)' = CacheOf(o)
  BY NextGrows, SameHandlers, Informers DEF Grows, ShapeOfCluster, ReadsInv
<1>1. ASSUME started' = started, \A o \in Objects : cache[o] > 0 => cache'[o] > 0,
             Ready \/ pc' = pc
      PROVE  Filled'
  BY <1>0, <1>1 DEF Filled, Ready
<1>2. ASSUME NewInformer PROVE Filled'
  <2>1. PICK first \in [Objects -> 1..(MaxWrites + 1)] :
          cache' = [o \in Objects |->
                IF CacheOf(o) = InformerRegistry[started + 1] THEN first[o] ELSE cache[o]]
    BY <1>2 DEF NewInformer, FirstList
  <2>2. started' = started + 1 /\ pc' = pc /\ ~Ready
    BY <1>2 DEF NewInformer, answers
  <2>3. \A o \in Objects, i \in 1..started' : CacheOf(o) = InformerRegistry[i] => cache'[o] > 0
    <3> SUFFICES ASSUME NEW o \in Objects, NEW i \in 1..(started + 1), CacheOf(o) = InformerRegistry[i]
                 PROVE  cache'[o] > 0
      BY <2>2
    <3>1. first[o] > 0
      BY ReadsAssumption
    <3>2. CASE i = started + 1
      BY <2>1, <3>1, <3>2
    <3>3. CASE i # started + 1
      <4>1. i \in 1..started
        BY <1>0, <3>3
      <4>2. cache[o] > 0
        BY <1>0, <4>1 DEF Filled
      <4> QED
        BY <2>1, <3>1, <4>2
    <3> QED
      BY <3>2, <3>3
  <2> QED
    BY <1>0, <2>2, <2>3 DEF Filled
<1>3. ASSUME NEW o \in Objects, NEW v \in Nat, v > 0, Cached(o, v) PROVE \A x \in Objects : cache[x] > 0 => cache'[x] > 0
  BY <1>3 DEF Cached, ShapeOfCluster
<1>4. ASSUME NEW o \in Objects, Deliver(o) \/ Relist(o) PROVE Filled'
  <2>1. PICK v \in Nat : v > 0 /\ Cached(o, v)
    BY <1>4 DEF ShapeOfCluster, Deliver, Relist
  <2>2. started' = started /\ pc' = pc
    BY <1>4 DEF Deliver, Relist
  <2> QED
    BY <1>1, <1>3, <2>1, <2>2
<1>5. ASSUME NEW o \in Objects, NEW exists \in BOOLEAN, Write(o, exists) PROVE Filled'
  BY <1>1, <1>5 DEF Write, answers
<1>6. ASSUME NEW l \in Lists, BeginList(l) \/ RefuseList(l) \/ SummaryFails(l) \/ ReadCache(l)
      PROVE  Filled'
  <2>1. Ready
    BY <1>0, <1>6 DEF BeginList, RefuseList, SummaryFails, ReadCache, Filled, Requests
  <2> QED
    BY <1>1, <1>6, <2>1 DEF BeginList, RefuseList, SummaryFails, ReadCache
<1>7. ASSUME NEW g \in Gets, Get(g) PROVE Filled'
  BY <1>1, <1>7 DEF Get
<1>8. ASSUME NEW kind, Deny(kind) \/ Allow PROVE Filled'
  BY <1>1, <1>8 DEF Deny, Allow, answers
<1>9. ASSUME UNCHANGED vars PROVE Filled'
  BY <1>1, <1>9 DEF vars
<1> QED
  BY <1>2, <1>4, <1>5, <1>6, <1>7, <1>8, <1>9 DEF Next, ClusterNext

\* A request is not moved by a step of another.
Rests(r) == pc'[r] = pc[r] /\ code'[r] = code[r] /\ seen'[r] = seen[r]

\* The same of a list, with what it was asked and how far it has read.
ListRests(l) == Rests(l) /\ query'[l] = query[l] /\ reads'[l] = reads[l]

\* What the steps of others do to what a list has seen.
Moves(l, o) ==
    /\ window[l][o] \subseteq window'[l][o] /\ window'[l][o] \subseteq 1..Len(history'[o])
    /\ pc[l] = "new" => window'[l] = window[l]
    /\ pc[l] = "reading" => cache'[o] \in window'[l][o]
    /\ pc[l] # "new" => o \in rewound' \/ cache[o] <= cache'[o]

\* An object that was missing in a version was missing in it whatever is
\* written after.
LEMMA StaysMissing ==
    ASSUME ShapeOfCluster, Grows, NEW o \in Objects, NEW v \in 1..Len(history[o])
    PROVE  Exists(o, v)' <=> Exists(o, v)
BY DEF ShapeOfCluster, Grows, Exists

LEMMA ListStays ==
    ASSUME Shape, Shape', Grows, NEW l \in Lists, OfList(l), ListRests(l),
           \A o \in Objects : Moves(l, o)
    PROVE  OfList(l)'
<1>0. /\ Caches' = Caches /\ Handlers' = Handlers /\ resource' = resource
      /\ \A o \in Objects : CacheOf(o)' = CacheOf(o)
  BY SameHandlers DEF Grows
<1>1. ASSUME NEW o \in Objects PROVE Shows(l, o)'
  <2>1. Shows(l, o) /\ Moves(l, o) /\ (pc[l] = "new" => window[l][o] = {})
    BY DEF OfList
  <2>2. pc[l] = "reading" => cache'[o] \in window'[l][o]
    BY <2>1 DEF Moves
  <2>3. Selected(query[l], o)' <=> Selected(query[l], o)
    BY <1>0 DEF ListRests, Selected, Passes, NamespaceOf, CacheOf
  <2>4. ASSUME seen[l][o] > 0
        PROVE  seen[l][o] \in window'[l][o] /\ Selected(query[l], o) /\ (o \in rewound' \/ seen[l][o] <= cache'[o])
    <3>1. /\ seen[l][o] \in window[l][o] /\ Selected(query[l], o)
          /\ o \in rewound \/ seen[l][o] <= cache[o]
      BY <2>1, <2>4 DEF Shows
    <3>2. pc[l] # "new"
      BY <2>1, <3>1
    <3>3. o \in rewound' \/ cache[o] <= cache'[o]
      BY <2>1, <3>2 DEF Moves
    <3>4. seen[l][o] \in Nat /\ cache[o] \in Nat /\ cache'[o] \in Nat
      BY DEF Shape, ShapeOfCluster, ShapeOfAnswers, Requests
    <3> QED
      BY <2>1, <3>1, <3>3, <3>4 DEF Moves, Grows
  <2>5. ASSUME \E i \in 1..reads[l] : Handlers.caches[i] = CacheOf(o), seen[l][o] = 0, Selected(query[l], o)
        PROVE  \E v \in window'[l][o] : ~Exists(o, v)'
    <3>1. PICK v \in window[l][o] : ~Exists(o, v)
      BY <2>1, <2>5 DEF Shows
    <3>2. v \in 1..Len(history[o]) /\ v \in window'[l][o]
      BY <2>1 DEF Shows, Moves
    <3> QED
      BY <3>1, <3>2, StaysMissing DEF Shape
  <2>6. pc'[l] = pc[l] /\ seen'[l] = seen[l] /\ reads'[l] = reads[l]
    BY DEF ListRests, Rests
  <2>7. window'[l][o] \subseteq 1..Len(history'[o])
    BY <2>1 DEF Moves
  <2> QED
    BY <1>0, <2>2, <2>3, <2>4, <2>5, <2>6, <2>7 DEF Shows
<1>2. \A o \in Objects : pc[l] = "new" => window'[l][o] = window[l][o]
  BY DEF Moves
<1> QED
  BY <1>0, <1>1, <1>2 DEF OfList, ListRests, Rests

\* The informers and the cluster leave every list where it is.
LEMMA ClusterMoves ==
    ASSUME Shape, Shape', ReadsInv, Grows, NewInformer \/ ClusterNext \/ UNCHANGED vars,
           NEW l \in Lists
    PROVE  ListRests(l) /\ \A o \in Objects : Moves(l, o)
<1> USE DEF Shape
<1>1. UNCHANGED <<pc, code, seen, query, reads>>
  BY DEF NewInformer, ClusterNext, Deliver, Relist, Write, Deny, Allow, vars, answers
<1>2. ListRests(l)
  BY <1>1 DEF ListRests, Rests
<1> SUFFICES ASSUME NEW o \in Objects PROVE Moves(l, o)
  BY <1>2
<1>3. /\ OfList(l) /\ Shows(l, o) /\ l \in Requests /\ cache[o] \in Nat
      /\ window[l][o] \subseteq 1..Len(history[o])
      /\ 1..Len(history[o]) \subseteq 1..Len(history'[o])
  <2>1. OfList(l) /\ Shows(l, o) /\ window[l][o] \subseteq 1..Len(history[o])
    BY DEF ReadsInv, OfList, Shows
  <2>2. Len(history[o]) \in Nat /\ Len(history'[o]) \in Nat /\ Len(history[o]) <= Len(history'[o])
    BY DEF ShapeOfCluster, Grows
  <2> QED
    BY <2>1, <2>2 DEF Requests, ShapeOfCluster
<1>4. ASSUME window' = window, cache'[o] = cache[o] PROVE Moves(l, o)
  BY <1>3, <1>4 DEF Moves, Shows
<1>5. ASSUME NewInformer PROVE Moves(l, o)
  <2>1. pc[l] = "new" /\ window' = window
    BY <1>3, <1>5 DEF NewInformer, answers, ReadsInv, Filled
  <2> QED
    BY <1>3, <2>1 DEF Moves
<1>6. ASSUME NEW x \in Objects, NEW v \in 1..Len(history[x]), Cached(x, v),
             x \in rewound' \/ cache[x] <= v
      PROVE  Moves(l, o)
  <2>1. CASE x = o
    <3>1. /\ cache'[o] = v
          /\ window'[l] = IF pc[l] = "reading" THEN [window[l] EXCEPT ![o] = @ \cup {v}] ELSE window[l]
      BY <1>6, <2>1 DEF Cached, ShapeOfCluster
    <3>2. pc[l] = "reading" => window'[l][o] = window[l][o] \cup {v}
      BY <3>1 DEF ShapeOfAnswers
    <3> QED
      BY <1>3, <1>6, <2>1, <3>1, <3>2 DEF Moves
  <2>2. CASE x # o
    <3>1. cache'[o] = cache[o] /\ window'[l][o] = window[l][o]
      BY <1>6, <2>2 DEF Cached, ShapeOfCluster, ShapeOfAnswers
    <3>2. pc[l] = "new" => window'[l] = window[l]
      BY <1>6 DEF Cached
    <3> QED
      BY <1>3, <3>1, <3>2 DEF Moves, Shows
  <2> QED
    BY <2>1, <2>2
<1>7. ASSUME NEW x \in Objects, Deliver(x) PROVE Moves(l, o)
  <2>1. cache[x] + 1 \in 1..Len(history[x]) /\ cache[x] <= cache[x] + 1 /\ Cached(x, cache[x] + 1)
    BY <1>7 DEF Deliver, ShapeOfCluster
  <2> QED
    BY <1>6, <2>1
<1>8. ASSUME NEW x \in Objects, Relist(x) PROVE Moves(l, o)
  <2>1. PICK v \in 1..Len(history[x]) :
          Cached(x, v) /\ rewound' = IF v < cache[x] THEN rewound \cup {x} ELSE rewound
    BY <1>8 DEF Relist
  <2>2. x \in rewound' \/ cache[x] <= v
    BY <2>1 DEF ShapeOfCluster
  <2> QED
    BY <1>6, <2>1, <2>2
<1>9. ASSUME NEW x \in Objects, NEW exists \in BOOLEAN, Write(x, exists) PROVE Moves(l, o)
  BY <1>4, <1>9 DEF Write, answers
<1>10. ASSUME NEW kind, Deny(kind) \/ Allow PROVE Moves(l, o)
  BY <1>4, <1>10 DEF Deny, Allow, answers
<1>11. ASSUME UNCHANGED vars PROVE Moves(l, o)
  BY <1>4, <1>11 DEF vars
<1> QED
  BY <1>5, <1>7, <1>8, <1>9, <1>10, <1>11 DEF ClusterNext

\* A step of another request leaves a list where it is.
LEMMA RequestMoves ==
    ASSUME Shape, Shape', ReadsInv, Grows, NEW l \in Lists,
           \/ \E x \in Lists \ {l} : BeginList(x) \/ RefuseList(x) \/ SummaryFails(x) \/ ReadCache(x)
           \/ \E g \in Gets : Get(g)
    PROVE  ListRests(l) /\ \A o \in Objects : Moves(l, o)
<1> USE DEF Shape, ShapeOfAnswers, Requests
<1>1. window'[l] = window[l] /\ cache' = cache /\ history' = history
  BY DEF BeginList, RefuseList, SummaryFails, ReadCache, Get
<1>2. ListRests(l)
  <2>1. ASSUME NEW x \in Lists \ {l}, BeginList(x) \/ RefuseList(x) \/ SummaryFails(x) \/ ReadCache(x)
        PROVE  ListRests(l)
    BY <2>1 DEF ListRests, Rests, BeginList, RefuseList, SummaryFails, ReadCache
  <2>2. ASSUME NEW g \in Gets, Get(g) PROVE ListRests(l)
    <3>1. l # g
      BY ReadsAssumption
    <3> QED
      BY <2>2, <3>1 DEF ListRests, Rests, Get
  <2> QED
    BY <2>1, <2>2
<1>3. ASSUME NEW o \in Objects PROVE Moves(l, o)
  <2>1. Shows(l, o) /\ cache[o] \in Nat
    BY DEF ReadsInv, OfList, ShapeOfCluster
  <2> QED
    BY <1>1, <2>1 DEF Moves, Shows
<1> QED
  BY <1>2, <1>3

LEMMA BeginKeeps ==
    ASSUME Shape, Shape', ReadsInv, Grows, NEW l \in Lists,
           BeginList(l) \/ RefuseList(l) \/ SummaryFails(l)
    PROVE  OfList(l)'
<1> USE DEF Shape, ShapeOfAnswers, Requests
<1>0. /\ OfList(l) /\ Caches' = Caches /\ Caches \in Nat \ {0} /\ pc[l] = "new" /\ Ready
      /\ reads[l] = 0 /\ code[l] = "none" /\ \A o \in Objects : window[l][o] = {}
  BY CachesAreKnown, SameHandlers
     DEF Grows, ReadsInv, OfList, BeginList, RefuseList, SummaryFails
<1>1. ASSUME NEW o \in Objects PROVE seen[l][o] = 0
  <2>1. Shows(l, o) /\ window[l][o] = {} /\ seen[l][o] \in Nat
    BY <1>0 DEF OfList
  <2> QED
    BY <2>1 DEF Shows
<1>2. UNCHANGED <<seen, reads, cache, history>>
  BY DEF BeginList, RefuseList, SummaryFails
<1>3. CASE BeginList(l)
  <2>1. pc'[l] = "reading" /\ code'[l] = "none" /\ \A o \in Objects : window'[l][o] = {cache[o]}
    BY <1>0, <1>3 DEF BeginList
  <2>2. ASSUME NEW o \in Objects PROVE Shows(l, o)'
    <3>1. cache[o] \in 1..Len(history[o])
      BY <1>0, ReadyIsFilled DEF ReadsInv, ShapeOfCluster
    <3> QED
      BY <1>0, <1>1, <1>2, <2>1, <3>1 DEF Shows
  <2> QED
    BY <1>0, <1>2, <2>1, <2>2 DEF OfList
<1>4. CASE RefuseList(l) \/ SummaryFails(l)
  <2>1. pc'[l] = "done" /\ code'[l] \in {"ParamsError", "ListError"} /\ window' = window
    BY <1>4 DEF RefuseList, SummaryFails
  <2>2. ASSUME NEW o \in Objects PROVE Shows(l, o)'
    BY <1>0, <1>1, <1>2, <2>1 DEF Shows
  <2> QED
    BY <2>1, <2>2 DEF OfList
<1> QED
  BY <1>3, <1>4

\* A read adds what it finds in one cache, and finds what is missing there.
LEMMA ReadKeeps ==
    ASSUME Shape, Shape', ReadsInv, Grows, NEW l \in Lists, ReadCache(l)
    PROVE  OfList(l)'
<1> USE DEF Shape, ShapeOfAnswers, Requests
<1>0. /\ OfList(l) /\ Caches' = Caches /\ Handlers' = Handlers /\ resource' = resource
      /\ \A o \in Objects : CacheOf(o)' = CacheOf(o)
      /\ pc[l] = "reading" /\ reads[l] < Caches /\ code[l] = "none"
  BY SameHandlers DEF Grows, ReadsInv, OfList, ReadCache
<1>1. /\ UNCHANGED <<cache, history, rewound, query, window>>
      /\ reads'[l] = reads[l] + 1 /\ reads[l] \in Nat /\ Caches \in Nat
      /\ \/ reads[l] + 1 = Caches /\ pc'[l] = "done" /\ code'[l] = "Success"
         \/ reads[l] + 1 # Caches /\ pc'[l] = "reading" /\ code'[l] = "none"
  BY <1>0, CachesAreKnown DEF ReadCache, Caches
<1>2. ASSUME NEW o \in Objects PROVE Shows(l, o)'
  <2>1. Shows(l, o) /\ cache[o] \in window[l][o] /\ cache[o] \in Nat \ {0}
    <3>1. Shows(l, o) /\ cache[o] \in window[l][o] /\ window[l][o] \subseteq 1..Len(history[o])
      BY <1>0 DEF OfList, Shows
    <3>2. Len(history[o]) \in Nat
      BY DEF ShapeOfCluster
    <3> QED
      BY <3>1, <3>2
  <2>2. Selected(query[l], o)' <=> Selected(query[l], o)
    BY <1>0, <1>1 DEF Selected, Passes, NamespaceOf, CacheOf
  <2> DEFINE found == CacheOf(o) = Handlers.caches[reads[l] + 1] /\ Exists(o, cache[o])
  <2>3. seen'[l][o] = IF found /\ Selected(query[l], o) THEN cache[o] ELSE seen[l][o]
    BY DEF ReadCache
  <2>4. CASE found /\ Selected(query[l], o)
    BY <1>0, <1>1, <2>1, <2>2, <2>3, <2>4 DEF Shows
  <2>5. CASE ~(found /\ Selected(query[l], o))
    <3>1. seen'[l][o] = seen[l][o]
      BY <2>3, <2>5
    <3>2. ASSUME NEW i \in 1..(reads[l] + 1), Handlers.caches[i] = CacheOf(o), seen[l][o] = 0,
                 Selected(query[l], o)
          PROVE  \E v \in window[l][o] : ~Exists(o, v)
      <4>1. CASE i = reads[l] + 1
        BY <2>1, <2>5, <3>2, <4>1
      <4>2. CASE i # reads[l] + 1
        <5>1. i \in 1..reads[l]
          BY <1>1, <4>2
        <5> QED
          BY <2>1, <3>2, <5>1 DEF Shows
      <4> QED
        BY <4>1, <4>2
    <3>3. \A v : Exists(o, v)' <=> Exists(o, v)
      BY <1>1 DEF Exists
    <3> QED
      BY <1>0, <1>1, <2>1, <2>2, <3>1, <3>2, <3>3 DEF Shows
  <2> QED
    BY <2>4, <2>5
<1>3. /\ pc'[l] # "new" /\ (pc'[l] # "done" => code'[l] = "none")
      /\ pc'[l] = "reading" => reads'[l] < Caches'
      /\ code'[l] = "Success" => reads'[l] = Caches'
  <2>1. reads[l] + 1 # Caches => reads[l] + 1 < Caches
    BY <1>0, <1>1
  <2> QED
    BY <1>0, <1>1, <2>1
<1> QED
  BY <1>2, <1>3 DEF OfList

LEMMA NextLists ==
    ASSUME Shape, Shape', ReadsInv, [Next]_vars, NEW l \in Lists
    PROVE  OfList(l)'
<1>0. Grows /\ OfList(l)
  BY NextGrows DEF Shape, ReadsInv
<1>1. CASE NewInformer \/ ClusterNext \/ UNCHANGED vars
  BY <1>0, <1>1, ClusterMoves, ListStays
<1>2. ASSUME NEW x \in Lists, BeginList(x) \/ RefuseList(x) \/ SummaryFails(x) \/ ReadCache(x)
      PROVE  OfList(l)'
  <2>1. CASE x = l
    BY <1>0, <1>2, <2>1, BeginKeeps, ReadKeeps
  <2>2. CASE x # l
    <3>1. ListRests(l) /\ \A o \in Objects : Moves(l, o)
      BY <1>0, <1>2, <2>2, RequestMoves
    <3> QED
      BY <1>0, <3>1, ListStays
  <2> QED
    BY <2>1, <2>2
<1>3. ASSUME NEW g \in Gets, Get(g) PROVE OfList(l)'
  <2>1. ListRests(l) /\ \A o \in Objects : Moves(l, o)
    BY <1>0, <1>3, RequestMoves
  <2> QED
    BY <1>0, <2>1, ListStays
<1> QED
  BY <1>1, <1>2, <1>3 DEF Next

-----------------------------------------------------------------------------
(* The gets.                                                               *)

\* Of what its rows show, only a cluster role is refused.
LEMMA RefusedIsClusterRole ==
    ASSUME ShapeOfCluster, resource \in Gettable, NEW o \in Objects, GetCode(o) = "ParamsError"
    PROVE  CacheOf(o) = "ClusterRole"
<1>1. /\ Sound(Handlers) /\ ShowsKind(Handlers) /\ Caches \in Nat \ {0}
      /\ \E i \in 1..Caches : Handlers.caches[i] = CacheOf(o)
  BY CachesAreKnown DEF Gettable
<1>2. CacheOf(o) \in ToSet(Handlers.caches)
  <2>1. DOMAIN Handlers.caches = 1..Caches
    BY <1>1 DEF Sound, Caches
  <2> QED
    BY <1>1, <2>1 DEF ToSet
<1>3. CacheOf(o) \in Handlers.needs /\ GivenNamespace(o) = Blank
  BY <1>1, <1>2 DEF GetCode, ShowsKind, GivenKind
<1>4. CacheOf(o) \in ClusterScoped
  BY <1>1, <1>3, ReadsAssumption DEF Sound, GivenNamespace, NamespaceOf
<1> QED
  BY <1>1, <1>3, <1>4 DEF Sound

\* A list that has answered shows what it showed, and a get that has answered
\* keeps to it.
LEMMA GetStays ==
    ASSUME Shape, Shape', Grows, NEW g \in Gets, OfGet(g), Rests(g), from'[g] = from[g],
           \A l \in Lists : pc[l] = "done" => pc'[l] = "done" /\ seen'[l] = seen[l]
    PROVE  OfGet(g)'
<1>0. ASSUME NEW x \in Objects PROVE seen'[g][x] \in 0..Len(history'[x])
  <2>1. seen[g][x] \in 0..Len(history[x]) /\ seen'[g] = seen[g]
    BY DEF OfGet, Rests
  <2>2. Len(history[x]) \in Nat /\ Len(history[x]) <= Len(history'[x]) /\ Len(history'[x]) \in Nat
    BY DEF Grows, Shape, ShapeOfCluster
  <2> QED
    BY <2>1, <2>2
<1>1. ASSUME code[g] # "none" PROVE OfGet(g)'
  <2> DEFINE o == from[g].object
             l == from[g].list
  <2>1. /\ o \in Objects /\ l \in Lists /\ from[g] \in [list : Lists, object : Objects]
        /\ pc[l] = "done" /\ pc'[l] = "done" /\ seen'[l] = seen[l]
    BY <1>1 DEF OfGet
  <2>2. CacheOf(o)' = CacheOf(o) /\ (o \in rewound => o \in rewound')
    BY SameHandlers, <2>1 DEF Grows, CacheOf, Handlers
  <2>3. \A v \in 1..Len(history[o]) : v \in 1..Len(history'[o]) /\ history'[o][v] = history[o][v]
    BY <2>1 DEF Grows, Shape, ShapeOfCluster
  <2> QED
    BY <1>0, <1>1, <2>1, <2>2, <2>3 DEF OfGet, Rests
<1>2. ASSUME code[g] = "none" PROVE OfGet(g)'
  BY <1>0, <1>2 DEF OfGet, Rests
<1> QED
  BY <1>1, <1>2

LEMMA GetKeeps ==
    ASSUME Shape, Shape', ReadsInv, Grows, NEW g \in Gets, Get(g)
    PROVE  OfGet(g)'
<1> USE DEF Shape, ShapeOfAnswers, Requests
<1>1. PICK l \in Lists, o \in Objects :
        /\ pc[l] = "done" /\ seen[l][o] > 0
        /\ from' = [from EXCEPT ![g] = [list |-> l, object |-> o]]
        /\ code' = [code EXCEPT ![g] = GetCode(o)]
        /\ seen' = IF GetCode(o) = "Success" THEN [seen EXCEPT ![g][o] = cache[o]] ELSE seen
  BY DEF Get
<1>2. l # g
  BY ReadsAssumption
<1>3. /\ from'[g] = [list |-> l, object |-> o] /\ code'[g] = GetCode(o) /\ pc'[g] = "done"
      /\ pc'[l] = "done" /\ seen'[l] = seen[l]
      /\ UNCHANGED <<resource, rewound, cache, history>> /\ resource \in Gettable /\ Ready
  BY <1>1, <1>2 DEF Get
<1>4. GetCode(o) = "Success" => seen'[g][o] = cache[o]
  BY <1>1
<1>5. Shows(l, o) /\ cache[o] \in 1..Len(history[o]) /\ cache[o] \in Nat /\ seen[l][o] \in Nat
  BY <1>3, ReadyIsFilled DEF ReadsInv, OfList, ShapeOfCluster
<1>6. o \in rewound \/ cache[o] >= seen[l][o]
  BY <1>1, <1>5 DEF Shows
<1>7. GetCode(o) \in {"Success", "ParamsError", "GetError"}
  BY DEF GetCode
<1>8. GetCode(o) = "GetError" => ~history[o][cache[o]]
  BY <1>5 DEF GetCode, Exists
<1>9. GetCode(o) = "ParamsError" => CacheOf(o) = "ClusterRole"
  BY <1>3, RefusedIsClusterRole
<1>10. CacheOf(o)' = CacheOf(o)
  BY <1>3 DEF CacheOf, Handlers
<1>11. ASSUME NEW x \in Objects PROVE seen'[g][x] \in 0..Len(history'[x])
  <2>1. seen[g][x] \in 0..Len(history[x])
    BY DEF ReadsInv, OfGet
  <2> QED
    BY <1>1, <1>3, <1>5, <2>1
<1> HIDE DEF Shape, ShapeOfAnswers, Requests
<1> QED
  BY <1>11, <1>1, <1>3, <1>4, <1>5, <1>6, <1>7, <1>8, <1>9, <1>10 DEF OfGet

LEMMA NextGets ==
    ASSUME Shape, Shape', ReadsInv, [Next]_vars, NEW g \in Gets
    PROVE  OfGet(g)'
<1>0. Grows /\ OfGet(g)
  BY NextGrows DEF Shape, ReadsInv
<1>1. ASSUME NewInformer \/ ClusterNext \/ UNCHANGED vars PROVE OfGet(g)'
  <2>1. UNCHANGED <<pc, code, seen, from>>
    BY <1>1 DEF NewInformer, ClusterNext, Deliver, Relist, Write, Deny, Allow, vars, answers
  <2> QED
    BY <1>0, <2>1, GetStays DEF Rests
<1>2. ASSUME NEW x \in Lists, BeginList(x) \/ RefuseList(x) \/ SummaryFails(x) \/ ReadCache(x)
      PROVE  OfGet(g)'
  <2>1. g # x /\ pc[x] # "done"
    BY <1>2, ReadsAssumption DEF BeginList, RefuseList, SummaryFails, ReadCache
  <2>2. /\ Rests(g) /\ from' = from
        /\ \A l \in Lists : pc[l] = "done" => pc'[l] = "done" /\ seen'[l] = seen[l]
    BY <1>2, <2>1
       DEF Shape, ShapeOfAnswers, Requests, Rests, BeginList, RefuseList, SummaryFails, ReadCache
  <2> QED
    BY <1>0, <2>2, GetStays
<1>3. ASSUME NEW x \in Gets, Get(x) PROVE OfGet(g)'
  <2>1. CASE x = g
    BY <1>0, <1>3, <2>1, GetKeeps
  <2>2. CASE x # g
    <3>1. \A l \in Lists : l # x
      BY ReadsAssumption
    <3>2. /\ Rests(g) /\ from'[g] = from[g]
          /\ \A l \in Lists : pc[l] = "done" => pc'[l] = "done" /\ seen'[l] = seen[l]
      BY <1>3, <2>2, <3>1 DEF Shape, ShapeOfAnswers, Requests, Rests, Get
    <3> QED
      BY <1>0, <3>2, GetStays
  <2> QED
    BY <2>1, <2>2
<1> QED
  BY <1>1, <1>2, <1>3 DEF Next

LEMMA NextReads ==
    ASSUME Shape, ReadsInv, [Next]_vars
    PROVE  (Shape /\ ReadsInv)'
<1>1. Shape'
  BY NextCluster, NextAnswers DEF Shape
<1> QED
  BY <1>1, NextFilled, NextLists, NextGets DEF ReadsInv

-----------------------------------------------------------------------------
(* The properties.                                                         *)

\* Once requests are served every cache holds what its informer first listed
\* (informers.go), and whatever a list or a get has taken from the caches is of
\* a version they held while it read.
THEOREM ReadsInvariant == Spec => [](Shape /\ ReadsInv)
<1>1. Init => Shape /\ ReadsInv
  BY InitReads
<1>2. Shape /\ ReadsInv /\ [Next]_vars => (Shape /\ ReadsInv)'
  BY NextReads
<1> QED
  BY <1>1, <1>2, PTL DEF Spec

\* A list shows what was in the caches while it was read, in the versions it
\* had there, and leaves out only what was missing there meanwhile.
LEMMA OfItsTime == ASSUME Shape, ReadsInv PROVE ListIsOfItsTime
<1> SUFFICES ASSUME NEW l \in Lists, code[l] = "Success", NEW o \in Objects
             PROVE  IF seen[l][o] > 0
                      THEN seen[l][o] \in window[l][o] /\ Selected(query[l], o)
                      ELSE Selected(query[l], o) => \E v \in window[l][o] : ~Exists(o, v)
  BY DEF ListIsOfItsTime
<1>1. Shows(l, o) /\ reads[l] = Caches /\ seen[l][o] \in Nat
  BY DEF Shape, ShapeOfAnswers, Requests, ReadsInv, OfList
<1>2. \E i \in 1..Caches : Handlers.caches[i] = CacheOf(o)
  BY CachesAreKnown DEF Shape
<1> QED
  BY <1>1, <1>2 DEF Shows

\* No list of any resource, of one cache or of two (role.go, cluster.go), shows
\* what was not there while it read, or misses what was there throughout.
THEOREM OfTheirTime == Spec => []ListIsOfItsTime
BY ReadsInvariant, OfItsTime, PTL

\* What a list has shown can be got, in that version or a later one, but for
\* cluster roles, what is deleted and what is listed anew from behind.
THEOREM CanBeGot == Spec => []ListedCanBeGot
<1>1. ASSUME Shape, ReadsInv PROVE ListedCanBeGot
  <2> SUFFICES ASSUME NEW g \in Gets, code[g] # "none"
               PROVE  LET o == from[g].object
                          listed == seen[from[g].list][o]
                      IN CASE code[g] = "ParamsError" -> CacheOf(o) = "ClusterRole"
                           [] code[g] = "GetError" ->
                                 o \in rewound \/ \E v \in listed..Len(history[o]) : ~Exists(o, v)
                           [] code[g] = "Success"  -> o \in rewound \/ seen[g][o] >= listed
    BY DEF ListedCanBeGot
  <2> DEFINE o == from[g].object
             listed == seen[from[g].list][o]
  <2>1. /\ OfGet(g) /\ o \in Objects /\ listed \in Nat /\ Len(history[o]) \in Nat
        /\ code[g] \in {"Success", "ParamsError", "GetError"}
    BY <1>1 DEF ReadsInv, OfGet, Shape, ShapeOfAnswers, ShapeOfCluster, Requests
  <2>2. CASE code[g] = "GetError"
    <3>1. PICK v \in 1..Len(history[o]) : ~history[o][v] /\ (o \in rewound \/ v >= listed)
      BY <2>1, <2>2 DEF OfGet
    <3>2. o \in rewound \/ (v \in listed..Len(history[o]) /\ ~Exists(o, v))
      BY <2>1, <3>1 DEF Exists
    <3> QED
      BY <2>2, <3>2
  <2>3. CASE code[g] # "GetError"
    BY <2>1, <2>3 DEF OfGet
  <2> QED
    BY <2>2, <2>3
<1> QED
  BY <1>1, ReadsInvariant, PTL

\* Start-up fills the caches before anything is read, so what was always there
\* is never missed.
THEOREM LongLivedFound == Spec => []LongLivedIsFound
<1>1. ASSUME Shape, ReadsInv PROVE LongLivedIsFound
  <2> SUFFICES ASSUME NEW o \in Objects, \A v \in DOMAIN history[o] : history[o][v]
               PROVE  /\ \A l \in Lists : code[l] = "Success" /\ Selected(query[l], o) => seen[l][o] > 0
                      /\ \A g \in Gets : code[g] = "GetError" => from[g].object # o
    BY DEF LongLivedIsFound
  <2>1. DOMAIN history[o] = 1..Len(history[o]) /\ Len(history[o]) \in Nat
    BY <1>1 DEF Shape, ShapeOfCluster
  <2>2. ASSUME NEW l \in Lists, code[l] = "Success", Selected(query[l], o)
        PROVE  seen[l][o] > 0
    <3>1. ListIsOfItsTime /\ Shows(l, o)
      BY <1>1, OfItsTime DEF ReadsInv, OfList
    <3>2. ASSUME NEW v \in window[l][o] PROVE Exists(o, v)
      <4>1. v \in 1..Len(history[o])
        BY <3>1 DEF Shows
      <4> QED
        BY <2>1, <4>1 DEF Exists
    <3> QED
      BY <2>2, <3>1, <3>2 DEF ListIsOfItsTime
  <2>3. ASSUME NEW g \in Gets, code[g] = "GetError" PROVE from[g].object # o
    <3>1. \E v \in 1..Len(history[from[g].object]) : ~history[from[g].object][v]
      BY <1>1, <2>3 DEF ReadsInv, OfGet
    <3> QED
      BY <2>1, <3>1
  <2> QED
    BY <2>2, <2>3
<1> QED
  BY <1>1, ReadsInvariant, PTL

\* The state keeps its shape: nothing is shown in a version that the API server
\* has never stored, and no list reads more caches than there are.
THEOREM TypeCorrect == Spec => []TypeOK
<1>1. ASSUME Shape, ReadsInv PROVE TypeOK
  <2> USE DEF Shape, ShapeOfCluster, ShapeOfAnswers, Requests
  <2>1. ASSUME NEW l \in Lists
        PROVE  /\ pc[l] \in {"new", "reading", "done"} /\ query[l] \in Queries \cup {None}
               /\ reads[l] \in 0..Len(Handlers.caches)
               /\ \A o \in Objects : /\ window[l][o] \subseteq 0..Len(history[o])
                                     /\ seen[l][o] \in 0..Len(history[o])
    <3>1. pc[l] \in {"new", "reading", "done"} /\ query[l] \in Queries \cup {None}
      BY <1>1
    <3>2. reads[l] \in 0..Len(Handlers.caches)
      BY <1>1 DEF Caches
    <3>3. ASSUME NEW o \in Objects
          PROVE  /\ window[l][o] \subseteq 0..Len(history[o])
                 /\ seen[l][o] \in 0..Len(history[o])
      <4>1. Shows(l, o) /\ Len(history[o]) \in Nat /\ seen[l][o] \in Nat
        BY <1>1 DEF ReadsInv, OfList
      <4> QED
        BY <4>1 DEF Shows
    <3> QED
      BY <3>1, <3>2, <3>3
  <2>2. ASSUME NEW g \in Gets
        PROVE  pc[g] \in {"new", "done"} /\ \A o \in Objects : seen[g][o] \in 0..Len(history[o])
    BY <1>1 DEF ReadsInv, OfGet
  <2>3. \A o \in Objects : history[o] \in Seq(BOOLEAN)
    BY <1>1
  <2> QED
    BY <1>1, <2>1, <2>2, <2>3 DEF TypeOK
<1> QED
  BY <1>1, ReadsInvariant, PTL
=============================================================================
