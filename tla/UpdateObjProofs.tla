-------------------------- MODULE UpdateObjProofs --------------------------
(***************************************************************************)
(* Proofs about UpdateObj, for every number of handlers, versions and      *)
(* attempts, and whatever other clients write.                             *)
(***************************************************************************)
EXTENDS UpdateObj, TLAPS, SequenceTheorems

\* The cache differs from what was stored in the replicas at most: those are
\* what a handler that assigned in the object asked for.
CacheFollows ==
    \A v \in 1..Cached :
        /\ heap[v].image = stored[v].image
        /\ ~scales => heap[v] = stored[v]
        /\ touched[v] # {} => \E g \in touched[v] : heap[v].replicas = Ask[g]

\* What a handler sends is what it was asked for, or a rival was, over the
\* version its pointer is of.
Sends(h) ==
    /\ body[h].image = stored[cell[h]].image
    /\ IF scales THEN \E g \in touched[cell[h]] : body[h].replicas = Ask[g]
                 ELSE body[h] = stored[cell[h]]

\* A success stands for a version with a value asked for, or, where nothing is
\* assigned, with what another client wrote.
Landed(h) ==
    /\ landed[h] \in 1..Latest
    /\ IF scales THEN \E g \in touched[cell[h]] : stored[landed[h]].replicas = Ask[g]
                 ELSE author[landed[h]] = "other"

\* A handler that has assigned is among those who touched its object, and
\* keeps to MaxTries.
OfHandler(h) ==
    /\ pc[h] # "done" => tries[h] < MaxTries /\ result[h] = "none"
    /\ pc[h] \in {"marshal", "put"} /\ scales => h \in touched[cell[h]]
    /\ pc[h] = "put" => Sends(h)
    /\ result[h] = "Success" => Landed(h)

UpdateInv ==
    /\ author[1] = "other" /\ OthersAreKept
    /\ CacheFollows
    /\ \A h \in Handlers : OfHandler(h)

-----------------------------------------------------------------------------
(* The shape of the state.                                                 *)

LEMMA AppendFacts ==
    ASSUME NEW S, NEW s \in Seq(S), NEW x \in S
    PROVE  /\ Append(s, x) \in Seq(S)
           /\ Len(Append(s, x)) = Len(s) + 1 /\ Len(s) \in Nat
           /\ \A i \in 1..Len(s) : Append(s, x)[i] = s[i]
           /\ Append(s, x)[Len(s) + 1] = x
OBVIOUS

\* One element of a sequence replaced.
LEMMA ExceptFacts ==
    ASSUME NEW S, NEW s \in Seq(S), NEW i \in 1..Len(s), NEW x \in S
    PROVE  /\ [s EXCEPT ![i] = x] \in Seq(S)
           /\ Len([s EXCEPT ![i] = x]) = Len(s)
           /\ [s EXCEPT ![i] = x][i] = x
           /\ \A j \in 1..Len(s) : j # i => [s EXCEPT ![i] = x][j] = s[j]
<1>1. /\ [s EXCEPT ![i] = x] \in Seq(S)
      /\ Len([s EXCEPT ![i] = x]) = Len(s)
      /\ \A j \in 1..Len(s) : [s EXCEPT ![i] = x][j] = IF j = i THEN x ELSE s[j]
  BY ExceptSeq
<1> QED
  BY <1>1

LEMMA InitUpdate == Init => TypeOK /\ UpdateInv
<1> SUFFICES ASSUME Init PROVE TypeOK /\ UpdateInv
  OBVIOUS
<1>0. First \in Objects /\ MaxVersion \in Nat \ {0} /\ MaxTries \in Nat \ {0}
  BY UpdateAssumption
<1>1. /\ stored \in Seq(Objects) /\ Len(stored) = 1 /\ stored[1] = First
      /\ author \in Seq(Handlers \cup {"other"}) /\ Len(author) = 1 /\ author[1] = "other"
      /\ heap \in Seq(Objects) /\ Len(heap) = 1 /\ heap[1] = First
      /\ touched \in Seq(SUBSET Handlers) /\ Len(touched) = 1 /\ touched[1] = {}
  BY <1>0 DEF Init
<1>2. TypeOK
  <2>1. 1 \in 1..MaxVersion /\ 0 \in 0..MaxTries /\ 0 \in 0..MaxVersion /\ 1 \in 1..1 /\ 1 \in Nat
    BY <1>0
  <2>2. pc \in [Handlers -> {"start", "get", "assign", "marshal", "put", "done"}]
    BY DEF Init
  <2>3. tries \in [Handlers -> 0..MaxTries] /\ landed \in [Handlers -> 0..MaxVersion]
    BY <2>1 DEF Init
  <2>4. cell \in [Handlers -> Nat] /\ \A h \in Handlers : cell[h] \in 1..1
    BY <2>1 DEF Init
  <2>5. body \in [Handlers -> Objects] /\ result \in [Handlers -> Codes]
    BY <1>0 DEF Init, Codes
  <2>6. scales \in BOOLEAN /\ gone \in BOOLEAN /\ cacheGone \in BOOLEAN
    BY DEF Init
  <2> QED
    BY <1>1, <2>1, <2>2, <2>3, <2>4, <2>5, <2>6 DEF TypeOK, Latest, Cached
<1>3. author[1] = "other" /\ OthersAreKept
  BY <1>1 DEF OthersAreKept, Latest
<1>4. CacheFollows
  BY <1>1 DEF CacheFollows, Cached
<1>5. ASSUME NEW h \in Handlers PROVE OfHandler(h)
  <2>1. pc[h] = "start" /\ tries[h] = 0 /\ result[h] = "none"
    BY DEF Init
  <2>2. tries[h] < MaxTries
    BY <1>0, <2>1
  <2> QED
    BY <2>1, <2>2 DEF OfHandler
<1> QED
  BY <1>2, <1>3, <1>4, <1>5 DEF UpdateInv

\* What a write of an object does to the versions.
LEMMA StoreType ==
    ASSUME TypeOK, NEW o \in Objects, NEW who \in Handlers \cup {"other"}, Latest < MaxVersion,
           stored' = Append(stored, o), author' = Append(author, who)
    PROVE  /\ stored' \in Seq(Objects) /\ Latest' \in 1..MaxVersion /\ Latest' = Latest + 1
           /\ author' \in Seq(Handlers \cup {"other"}) /\ Len(author') = Latest'
           /\ Cached \in 1..Latest' /\ Latest \in 1..Latest'
           /\ \A v \in 1..Latest : stored'[v] = stored[v] /\ author'[v] = author[v]
           /\ stored'[Latest + 1] = o /\ author'[Latest + 1] = who
BY UpdateAssumption, AppendFacts DEF TypeOK, Latest, Cached

\* What an assignment does to the objects in memory.
LEMMA AssignFacts ==
    ASSUME TypeOK, NEW h \in Handlers, Assign(h)
    PROVE  /\ heap' \in Seq(Objects) /\ Cached' = Cached
           /\ touched' \in Seq(SUBSET Handlers) /\ Len(touched') = Cached
           /\ ~scales => heap' = heap /\ touched' = touched
           /\ scales => heap'[cell[h]].replicas = Ask[h] /\ touched'[cell[h]] = touched[cell[h]] \cup {h}
           /\ heap'[cell[h]].image = heap[cell[h]].image
           /\ \A v \in 1..Cached : v # cell[h] => heap'[v] = heap[v] /\ touched'[v] = touched[v]
<1>1. /\ heap \in Seq(Objects) /\ touched \in Seq(SUBSET Handlers)
      /\ cell[h] \in 1..Len(heap) /\ Len(touched) = Len(heap)
  BY DEF TypeOK, Cached
<1>2. CASE ~scales
  BY <1>1, <1>2 DEF Assign, Cached
<1>3. CASE scales
  <2> DEFINE o == [heap[cell[h]] EXCEPT !.replicas = Ask[h]]
             t == touched[cell[h]] \cup {h}
  <2>1. heap[cell[h]] \in Objects /\ touched[cell[h]] \in SUBSET Handlers
    BY <1>1
  <2>2. o \in Objects /\ o.replicas = Ask[h] /\ o.image = heap[cell[h]].image
    BY <2>1, UpdateAssumption DEF Objects
  <2>3. t \in SUBSET Handlers
    BY <2>1
  <2>4. heap' = [heap EXCEPT ![cell[h]] = o] /\ touched' = [touched EXCEPT ![cell[h]] = t]
    BY <1>3 DEF Assign
  <2> HIDE DEF o, t
  <2>5. /\ heap' \in Seq(Objects) /\ Len(heap') = Len(heap) /\ heap'[cell[h]] = o
        /\ \A v \in 1..Len(heap) : v # cell[h] => heap'[v] = heap[v]
    BY <1>1, <2>2, <2>4, ExceptFacts
  <2>6. /\ touched' \in Seq(SUBSET Handlers) /\ Len(touched') = Len(touched) /\ touched'[cell[h]] = t
        /\ \A v \in 1..Len(touched) : v # cell[h] => touched'[v] = touched[v]
    BY <1>1, <2>3, <2>4, ExceptFacts
  <2> QED
    BY <1>1, <1>3, <2>2, <2>5, <2>6 DEF Cached, t
<1> QED
  BY <1>2, <1>3

LEMMA NextType ==
    ASSUME TypeOK, UpdateInv, [Next]_vars
    PROVE  TypeOK'
<1> USE DEF TypeOK, serverVars, cacheVars, handlerVars
<1>1. ASSUME NEW h \in Handlers, Validate(h) PROVE TypeOK'
  BY <1>1 DEF Validate, Finish, Codes, Latest, Cached
<1>2. ASSUME NEW h \in Handlers, Get(h) PROVE TypeOK'
  <2>1. CASE cacheGone
    BY <1>2, <2>1 DEF Get, Finish, Codes, Latest, Cached
  <2>2. CASE ~cacheGone
    <3>1. Len(heap) \in 1..Len(heap) /\ Len(heap) \in Nat
      BY DEF Cached, Latest
    <3>2. cell' \in [Handlers -> Nat] /\ \A g \in Handlers : cell'[g] \in 1..Len(heap)
      BY <1>2, <2>2, <3>1 DEF Get, Cached
    <3> QED
      BY <1>2, <2>2, <3>2 DEF Get, Latest, Cached
  <2> QED
    BY <2>1, <2>2
<1>3. ASSUME NEW h \in Handlers, Assign(h) PROVE TypeOK'
  <2>1. pc' \in [Handlers -> {"start", "get", "assign", "marshal", "put", "done"}]
    BY <1>3 DEF Assign
  <2>2. UNCHANGED <<tries, cell, body, result, landed, cacheGone, scales, stored, author, gone>>
    BY <1>3 DEF Assign
  <2>3. /\ heap' \in Seq(Objects) /\ Len(heap') = Len(heap)
        /\ touched' \in Seq(SUBSET Handlers) /\ Len(touched') = Len(heap)
    BY <1>3, AssignFacts DEF Cached
  <2> QED
    BY <2>1, <2>2, <2>3 DEF Latest, Cached
<1>4. ASSUME NEW h \in Handlers, Marshal(h) PROVE TypeOK'
  <2>1. heap[cell[h]] \in Objects
    BY DEF Cached
  <2> QED
    BY <1>4, <2>1 DEF Marshal, Latest, Cached
<1>5. ASSUME NEW h \in Handlers, PutAccepted(h) PROVE TypeOK'
  <2>1. CASE body[h] = stored[Latest]
    BY <1>5, <2>1, UpdateAssumption DEF PutAccepted, Store, Finish, Codes, Latest, Cached
  <2>2. CASE body[h] # stored[Latest]
    <3>1. /\ Latest < MaxVersion
          /\ stored' = Append(stored, body[h]) /\ author' = Append(author, h)
      BY <1>5, <2>2 DEF PutAccepted, Store
    <3>2. /\ stored' \in Seq(Objects) /\ Len(stored') \in 1..MaxVersion
          /\ author' \in Seq(Handlers \cup {"other"}) /\ Len(author') = Len(stored')
          /\ Len(heap) \in 1..Len(stored')
      BY <3>1, StoreType DEF Latest, Cached
    <3>3. landed' \in [Handlers -> 0..MaxVersion]
      BY <1>5, <3>2 DEF PutAccepted
    <3> QED
      BY <1>5, <3>2, <3>3 DEF PutAccepted, Finish, Codes, Latest, Cached
  <2> QED
    BY <2>1, <2>2
<1>6. ASSUME NEW h \in Handlers, PutConflicts(h) PROVE TypeOK'
  <2>1. tries[h] < MaxTries /\ tries[h] \in 0..MaxTries
    BY <1>6 DEF PutConflicts, UpdateInv, OfHandler
  <2>2. tries[h] + 1 \in 0..MaxTries
    BY <2>1, UpdateAssumption
  <2>3. tries' \in [Handlers -> 0..MaxTries]
    BY <1>6, <2>2 DEF PutConflicts
  <2> QED
    BY <1>6, <2>3 DEF PutConflicts, Finish, Codes, Latest, Cached
<1>7. ASSUME NEW h \in Handlers, PutFails(h) PROVE TypeOK'
  <2>1. CASE UNCHANGED <<stored, author>>
    BY <1>7, <2>1 DEF PutFails, Finish, Codes, Latest, Cached
  <2>2. CASE /\ Latest < MaxVersion
             /\ stored' = Append(stored, body[h]) /\ author' = Append(author, h)
    <3>1. /\ stored' \in Seq(Objects) /\ Len(stored') \in 1..MaxVersion
          /\ author' \in Seq(Handlers \cup {"other"}) /\ Len(author') = Len(stored')
          /\ Len(heap) \in 1..Len(stored')
      BY <2>2, StoreType DEF Latest, Cached
    <3> QED
      BY <1>7, <3>1 DEF PutFails, Finish, Codes, Latest, Cached
  <2> QED
    BY <1>7, <2>1, <2>2 DEF PutFails, Store
<1>8. CASE OtherWrites
  <2>1. PICK o \in [replicas : Others, image : Images] : stored' = Append(stored, o)
    BY <1>8 DEF OtherWrites
  <2>2. o \in Objects
    BY UpdateAssumption DEF Objects
  <2>3. /\ stored' \in Seq(Objects) /\ Len(stored') \in 1..MaxVersion
        /\ author' \in Seq(Handlers \cup {"other"}) /\ Len(author') = Len(stored')
        /\ Len(heap) \in 1..Len(stored')
    BY <1>8, <2>1, <2>2, StoreType DEF OtherWrites, Latest, Cached
  <2> QED
    BY <1>8, <2>3 DEF OtherWrites, Latest, Cached
<1>9. CASE OtherDeletes
  BY <1>9 DEF OtherDeletes, Latest, Cached
<1>10. CASE Deliver
  <2>1. stored[Len(heap) + 1] \in Objects
    BY <1>10 DEF Deliver, Latest, Cached
  <2>2. /\ heap' \in Seq(Objects) /\ Len(heap') = Len(heap) + 1
        /\ touched' \in Seq(SUBSET Handlers) /\ Len(touched') = Len(heap) + 1
    BY <1>10, <2>1, AppendFacts DEF Deliver, Cached
  <2>3. Len(heap') \in 1..Len(stored) /\ \A h \in Handlers : cell[h] \in 1..Len(heap')
    BY <1>10, <2>2 DEF Deliver, Latest, Cached
  <2> QED
    BY <1>10, <2>2, <2>3 DEF Deliver, Latest, Cached
<1>11. CASE DeliverDelete
  BY <1>11 DEF DeliverDelete, Latest, Cached
<1>12. CASE UNCHANGED vars
  BY <1>12 DEF vars, Latest, Cached
<1> QED
  BY <1>1, <1>2, <1>3, <1>4, <1>5, <1>6, <1>7, <1>8, <1>9, <1>10, <1>11, <1>12 DEF Next, HandlerStep
-----------------------------------------------------------------------------
(* The inductive invariant.                                                *)

\* Versions are only ever added, objects are only ever assigned in.
Grows ==
    /\ scales' = scales /\ Latest <= Latest' /\ Cached <= Cached'
    /\ \A v \in 1..Latest : stored'[v] = stored[v] /\ author'[v] = author[v]
    /\ \A v \in 1..Cached : touched[v] \subseteq touched'[v]

\* A step of another.
Rests(h) ==
    /\ pc'[h] = pc[h] /\ tries'[h] = tries[h] /\ cell'[h] = cell[h] /\ body'[h] = body[h]
    /\ result'[h] = result[h] /\ landed'[h] = landed[h]

LEMMA NextGrows ==
    ASSUME TypeOK, [Next]_vars
    PROVE  Grows
<1>0. Latest \in Nat /\ Cached \in Nat
  BY DEF TypeOK, Latest, Cached
<1>1. ASSUME UNCHANGED <<serverVars, touched, heap>> PROVE Grows
  BY <1>0, <1>1 DEF Grows, serverVars, Latest, Cached
<1>2. ASSUME NEW who \in Handlers \cup {"other"}, NEW o \in Objects, Latest < MaxVersion,
             stored' = Append(stored, o), author' = Append(author, who),
             UNCHANGED <<scales, cacheVars>>
      PROVE  Grows
  <2>1. Latest' = Latest + 1 /\ \A v \in 1..Latest : stored'[v] = stored[v] /\ author'[v] = author[v]
    BY <1>2, StoreType
  <2>2. Cached' = Cached /\ touched' = touched
    BY <1>2 DEF cacheVars, Cached
  <2>3. scales' = scales
    BY <1>2
  <2> QED
    BY <1>0, <2>1, <2>2, <2>3 DEF Grows
<1>3. ASSUME NEW h \in Handlers, Store(h), UNCHANGED <<scales, cacheVars>> PROVE Grows
  <2>1. CASE body[h] = stored[Latest]
    BY <1>0, <1>3, <2>1 DEF Store, Grows, cacheVars, Latest, Cached
  <2>2. CASE body[h] # stored[Latest]
    <3>1. body[h] \in Objects
      BY DEF TypeOK
    <3> QED
      BY <1>2, <1>3, <2>2, <3>1 DEF Store
  <2> QED
    BY <2>1, <2>2
<1>4. ASSUME NEW h \in Handlers, HandlerStep(h) PROVE Grows
  <2>1. CASE Validate(h) \/ Get(h) \/ Marshal(h) \/ PutConflicts(h)
    BY <1>1, <2>1 DEF Validate, Get, Marshal, PutConflicts, serverVars, cacheVars
  <2>2. CASE Assign(h)
    <3>1. /\ Cached' = Cached
          /\ \A v \in 1..Cached : touched[v] \subseteq touched'[v]
      BY <2>2, AssignFacts
    <3> QED
      BY <1>0, <2>2, <3>1 DEF Assign, Grows, serverVars, Latest
  <2>3. CASE PutAccepted(h)
    BY <1>3, <2>3 DEF PutAccepted
  <2>4. CASE PutFails(h)
    BY <1>1, <1>3, <2>4 DEF PutFails, serverVars, cacheVars
  <2> QED
    BY <1>4, <2>1, <2>2, <2>3, <2>4 DEF HandlerStep
<1>5. CASE OtherWrites
  <2>1. PICK o \in [replicas : Others, image : Images] : stored' = Append(stored, o)
    BY <1>5 DEF OtherWrites
  <2>2. o \in Objects
    BY UpdateAssumption DEF Objects
  <2> QED
    BY <1>2, <1>5, <2>1, <2>2 DEF OtherWrites
<1>6. CASE OtherDeletes
  BY <1>0, <1>6 DEF OtherDeletes, cacheVars, Grows, Latest, Cached
<1>7. CASE Deliver
  <2>1. stored[Cached + 1] \in Objects
    BY <1>7 DEF TypeOK, Deliver, Latest, Cached
  <2>2. Cached' = Cached + 1 /\ \A v \in 1..Cached : touched'[v] = touched[v]
    BY <1>7, <2>1, AppendFacts DEF TypeOK, Deliver, Cached
  <2>3. UNCHANGED <<scales, stored, author>>
    BY <1>7 DEF Deliver, serverVars
  <2> QED
    BY <1>0, <2>2, <2>3 DEF Grows, Latest
<1>8. CASE DeliverDelete \/ UNCHANGED vars
  BY <1>1, <1>8 DEF DeliverDelete, vars, serverVars
<1> QED
  BY <1>4, <1>5, <1>6, <1>7, <1>8 DEF Next

LEMMA HandlerStays ==
    ASSUME TypeOK, Grows, NEW h \in Handlers, OfHandler(h), Rests(h)
    PROVE  OfHandler(h)'
<1>1. /\ Latest \in Nat /\ Latest' \in Nat => 1..Latest \subseteq 1..Latest'
      /\ cell[h] \in 1..Cached /\ cell[h] \in 1..Latest /\ cell'[h] = cell[h]
  BY DEF TypeOK, Grows, Rests, Latest, Cached
<1>2. touched[cell[h]] \subseteq touched'[cell[h]] /\ stored'[cell[h]] = stored[cell[h]]
  BY <1>1 DEF Grows
<1>3. Sends(h) => Sends(h)'
  BY <1>1, <1>2 DEF Sends, Grows, Rests
<1>4. Landed(h) => Landed(h)'
  <2> SUFFICES ASSUME Landed(h) PROVE Landed(h)'
    OBVIOUS
  <2>1. landed[h] \in 1..Latest /\ landed'[h] = landed[h] /\ landed[h] \in 1..Latest'
    BY DEF Landed, Rests, Grows, TypeOK, Latest
  <2>2. stored'[landed[h]] = stored[landed[h]] /\ author'[landed[h]] = author[landed[h]]
    BY <2>1 DEF Grows
  <2> QED
    BY <1>1, <1>2, <2>1, <2>2 DEF Landed, Grows
<1> QED
  BY <1>1, <1>2, <1>3, <1>4 DEF OfHandler, Grows, Rests

\* What a handler may store keeps what others wrote.
LEMMA NextAuthors ==
    ASSUME TypeOK, UpdateInv, [Next]_vars
    PROVE  author'[1] = "other" /\ OthersAreKept'
<1>0. Grows /\ Latest \in Nat \ {0} /\ author[1] = "other" /\ OthersAreKept
  BY NextGrows DEF TypeOK, UpdateInv, Latest
<1>1. author'[1] = "other"
  BY <1>0 DEF Grows
<1>2. ASSUME stored' = stored, author' = author PROVE OthersAreKept'
  BY <1>0, <1>2 DEF OthersAreKept, Grows, Latest
<1>3. ASSUME NEW who \in Handlers \cup {"other"}, NEW o \in Objects, Latest < MaxVersion,
             stored' = Append(stored, o), author' = Append(author, who),
             who # "other" => scales /\ o.image = stored[Latest].image
      PROVE  OthersAreKept'
  <2>1. /\ Latest' = Latest + 1 /\ stored'[Latest + 1] = o /\ author'[Latest + 1] = who
        /\ \A v \in 1..Latest : stored'[v] = stored[v] /\ author'[v] = author[v]
    BY <1>3, StoreType
  <2>2. ASSUME NEW v \in 2..Latest', author'[v] # "other"
        PROVE  scales' /\ stored'[v].image = stored'[v - 1].image
    <3>1. CASE v = Latest + 1
      <4>1. v - 1 = Latest /\ Latest \in 1..Latest
        BY <1>0, <3>1
      <4> QED
        BY <1>0, <1>3, <2>1, <2>2, <3>1, <4>1 DEF Grows
    <3>2. CASE v # Latest + 1
      <4>1. v \in 2..Latest /\ v \in 1..Latest /\ v - 1 \in 1..Latest
        BY <1>0, <2>1, <2>2, <3>2
      <4> QED
        BY <1>0, <2>1, <2>2, <4>1 DEF OthersAreKept, Grows
    <3> QED
      BY <3>1, <3>2
  <2> QED
    BY <2>2 DEF OthersAreKept
<1>4. ASSUME NEW h \in Handlers, pc[h] = "put", Accepts(h), Store(h) PROVE OthersAreKept'
  <2>1. CASE body[h] = stored[Latest]
    BY <1>2, <1>4, <2>1 DEF Store
  <2>2. CASE body[h] # stored[Latest]
    <3>1. body[h] \in Objects
      BY DEF TypeOK
    <3>2. Sends(h) /\ cell[h] = Latest
      BY <1>4 DEF UpdateInv, OfHandler, Accepts
    <3>3. scales /\ body[h].image = stored[Latest].image
      BY <2>2, <3>2 DEF Sends
    <3> QED
      BY <1>3, <1>4, <2>2, <3>1, <3>3 DEF Store
  <2> QED
    BY <2>1, <2>2
<1>5. ASSUME NEW h \in Handlers, HandlerStep(h) PROVE OthersAreKept'
  BY <1>2, <1>4, <1>5
     DEF HandlerStep, Validate, Get, Assign, Marshal, PutAccepted, PutConflicts, PutFails, serverVars
<1>6. ASSUME OtherWrites PROVE OthersAreKept'
  <2>1. PICK o \in [replicas : Others, image : Images] : stored' = Append(stored, o)
    BY <1>6 DEF OtherWrites
  <2>2. o \in Objects
    BY UpdateAssumption DEF Objects
  <2>3. Latest < MaxVersion /\ author' = Append(author, "other")
    BY <1>6 DEF OtherWrites
  <2>4. "other" \in Handlers \cup {"other"}
    OBVIOUS
  <2> QED
    BY <1>3, <2>1, <2>2, <2>3, <2>4
<1>7. ASSUME OtherDeletes \/ Deliver \/ DeliverDelete \/ UNCHANGED vars PROVE OthersAreKept'
  <2>1. UNCHANGED <<stored, author>>
    BY <1>7 DEF OtherDeletes, Deliver, DeliverDelete, vars, serverVars
  <2> QED
    BY <1>2, <2>1
<1> QED
  BY <1>1, <1>5, <1>6, <1>7 DEF Next

\* The cache follows the versions but for the replicas.
LEMMA NextCache ==
    ASSUME TypeOK, UpdateInv, [Next]_vars
    PROVE  CacheFollows'
<1>0. /\ Grows /\ Cached \in Nat \ {0} /\ Latest \in Nat /\ 1..Cached \subseteq 1..Latest
      /\ CacheFollows
  BY NextGrows DEF TypeOK, UpdateInv, Latest, Cached
<1>1. ASSUME heap' = heap, touched' = touched PROVE CacheFollows'
  BY <1>0, <1>1 DEF CacheFollows, Grows, Cached
<1>2. ASSUME NEW h \in Handlers, Assign(h) PROVE CacheFollows'
  <2>1. /\ stored' = stored /\ scales' = scales /\ Cached' = Cached
        /\ ~scales => heap' = heap /\ touched' = touched
        /\ scales => heap'[cell[h]].replicas = Ask[h] /\ touched'[cell[h]] = touched[cell[h]] \cup {h}
        /\ heap'[cell[h]].image = heap[cell[h]].image
        /\ \A v \in 1..Cached : v # cell[h] => heap'[v] = heap[v] /\ touched'[v] = touched[v]
    BY <1>2, AssignFacts DEF Assign, serverVars
  <2>2. CASE ~scales
    BY <1>1, <2>1, <2>2
  <2>3. CASE scales
    <3> SUFFICES ASSUME NEW v \in 1..Cached
                 PROVE  /\ heap'[v].image = stored[v].image
                        /\ touched'[v] # {} => \E g \in touched'[v] : heap'[v].replicas = Ask[g]
      BY <2>1, <2>3 DEF CacheFollows
    <3>1. CASE v = cell[h]
      BY <1>0, <2>1, <2>3, <3>1 DEF CacheFollows
    <3>2. CASE v # cell[h]
      BY <1>0, <2>1, <3>2 DEF CacheFollows
    <3> QED
      BY <3>1, <3>2
  <2> QED
    BY <2>2, <2>3
<1>3. CASE Deliver
  <2>1. /\ stored' = stored /\ scales' = scales /\ stored[Cached + 1] \in Objects
        /\ heap' = Append(heap, stored[Cached + 1]) /\ touched' = Append(touched, {})
    BY <1>3 DEF TypeOK, Deliver, serverVars, Latest, Cached
  <2>2. /\ Cached' = Cached + 1 /\ heap'[Cached + 1] = stored[Cached + 1] /\ touched'[Cached + 1] = {}
        /\ \A v \in 1..Cached : heap'[v] = heap[v] /\ touched'[v] = touched[v]
    BY <2>1, AppendFacts DEF TypeOK, Cached
  <2> SUFFICES ASSUME NEW v \in 1..(Cached + 1)
               PROVE  /\ heap'[v].image = stored[v].image
                      /\ ~scales => heap'[v] = stored[v]
                      /\ touched'[v] # {} => \E g \in touched'[v] : heap'[v].replicas = Ask[g]
    BY <2>1, <2>2 DEF CacheFollows
  <2>3. CASE v = Cached + 1
    BY <2>2, <2>3
  <2>4. CASE v # Cached + 1
    <3>1. v \in 1..Cached
      BY <1>0, <2>4
    <3> QED
      BY <1>0, <2>2, <3>1 DEF CacheFollows
  <2> QED
    BY <2>3, <2>4
<1>4. ASSUME NEW h \in Handlers, HandlerStep(h) PROVE CacheFollows'
  BY <1>1, <1>2, <1>4
     DEF HandlerStep, Validate, Get, Marshal, PutAccepted, PutConflicts, PutFails, cacheVars
<1>5. CASE OtherWrites \/ OtherDeletes \/ DeliverDelete \/ UNCHANGED vars
  <2>1. UNCHANGED <<heap, touched>>
    BY <1>5 DEF OtherWrites, OtherDeletes, DeliverDelete, vars, cacheVars
  <2> QED
    BY <1>1, <2>1
<1> QED
  BY <1>3, <1>4, <1>5 DEF Next

\* The step of a handler leaves the others where they are.
LEMMA OthersRest ==
    ASSUME TypeOK, NEW h \in Handlers, HandlerStep(h), NEW g \in Handlers \ {h}
    PROVE  Rests(g)
BY DEF TypeOK, HandlerStep, Validate, Get, Assign, Marshal, PutAccepted, PutConflicts, PutFails,
       Finish, Rests

LEMMA NextHandler ==
    ASSUME TypeOK, UpdateInv, NEW h \in Handlers, HandlerStep(h), TypeOK', Grows
    PROVE  OfHandler(h)'
<1>0. OfHandler(h) /\ CacheFollows /\ OthersAreKept /\ author[1] = "other"
  BY DEF UpdateInv
<1>1. /\ cell[h] \in 1..Cached /\ cell[h] \in 1..Latest /\ Cached \in Nat /\ Latest \in Nat \ {0}
      /\ tries[h] \in 0..MaxTries /\ MaxTries \in Nat
  BY UpdateAssumption DEF TypeOK, Latest, Cached
<1>2. CASE Validate(h) \/ Get(h)
  <2>1. tries'[h] = tries[h] /\ pc'[h] \in {"get", "assign", "done"}
    BY <1>2 DEF TypeOK, Validate, Get, Finish
  <2>2. result'[h] # "Success" /\ (pc'[h] # "done" => result'[h] = "none" /\ pc[h] # "done")
    BY <1>0, <1>2 DEF TypeOK, Validate, Get, Finish, OfHandler
  <2> QED
    BY <1>0, <2>1, <2>2 DEF OfHandler
<1>3. CASE Assign(h)
  <2>1. /\ pc[h] = "assign" /\ pc'[h] = "marshal" /\ scales' = scales /\ cell'[h] = cell[h]
        /\ tries'[h] = tries[h] /\ result'[h] = result[h]
    BY <1>3 DEF TypeOK, Assign, serverVars
  <2>2. scales => h \in touched'[cell[h]]
    BY <1>3, AssignFacts
  <2> QED
    BY <1>0, <2>1, <2>2 DEF OfHandler
<1>4. CASE Marshal(h)
  <2>1. /\ pc[h] = "marshal" /\ pc'[h] = "put" /\ body'[h] = heap[cell[h]]
        /\ UNCHANGED <<tries, cell, result, scales, stored, touched>>
    BY <1>4 DEF TypeOK, Marshal, serverVars, cacheVars
  <2>2. scales => h \in touched[cell[h]]
    BY <1>0, <2>1 DEF OfHandler
  <2>3. Sends(h)'
    BY <1>0, <1>1, <2>1, <2>2 DEF Sends, CacheFollows
  <2> QED
    BY <1>0, <2>1, <2>2, <2>3 DEF OfHandler
<1>5. CASE PutAccepted(h)
  <2>1. /\ pc[h] = "put" /\ pc'[h] = "done" /\ result'[h] = "Success" /\ Store(h)
        /\ cell[h] = Latest /\ landed'[h] = Len(stored')
        /\ UNCHANGED <<scales, cell, touched>>
    BY <1>5 DEF TypeOK, PutAccepted, Finish, Accepts, cacheVars
  <2>2. Sends(h) /\ body[h] \in Objects
    BY <1>0, <2>1 DEF OfHandler, TypeOK
  <2>3. landed'[h] = Latest' /\ Latest' \in 1..Latest'
    BY <2>1 DEF TypeOK, Latest
  <2>4. Landed(h)'
    <3>1. CASE body[h] = stored[Latest]
      <4>1. UNCHANGED <<stored, author>> /\ Latest' = Latest
        BY <2>1, <3>1 DEF Store, Latest
      <4>2. ~scales => author[Latest] = "other"
        BY <1>0, <1>1 DEF OthersAreKept
      <4> QED
        BY <2>1, <2>2, <2>3, <3>1, <4>1, <4>2 DEF Landed, Sends
    <3>2. CASE body[h] # stored[Latest]
      <4>1. scales
        BY <2>1, <2>2, <3>2 DEF Sends
      <4>2. Latest < MaxVersion /\ stored' = Append(stored, body[h]) /\ author' = Append(author, h)
        BY <2>1, <3>2 DEF Store
      <4>3. stored'[Latest'] = body[h]
        BY <2>2, <4>2, StoreType
      <4> QED
        BY <2>1, <2>2, <2>3, <4>1, <4>3 DEF Landed, Sends
    <3> QED
      BY <3>1, <3>2
  <2> QED
    BY <2>1, <2>4 DEF OfHandler
<1>6. CASE PutConflicts(h)
  <2>1. /\ tries'[h] = tries[h] + 1 /\ tries[h] < MaxTries /\ result[h] = "none"
        /\ \/ tries'[h] = MaxTries /\ pc'[h] = "done" /\ result'[h] = "ParamsError"
           \/ tries'[h] # MaxTries /\ pc'[h] = "get" /\ result'[h] = "none"
    BY <1>0, <1>6 DEF TypeOK, PutConflicts, Finish, OfHandler
  <2>2. tries'[h] # MaxTries => tries'[h] < MaxTries
    BY <1>1, <2>1
  <2> QED
    BY <2>1, <2>2 DEF OfHandler
<1>7. CASE PutFails(h)
  <2>1. pc'[h] = "done" /\ result'[h] = "ParamsError"
    BY <1>7 DEF TypeOK, PutFails, Finish
  <2> QED
    BY <2>1 DEF OfHandler
<1> QED
  BY <1>2, <1>3, <1>4, <1>5, <1>6, <1>7 DEF HandlerStep

LEMMA NextUpdate ==
    ASSUME TypeOK, UpdateInv, [Next]_vars
    PROVE  UpdateInv'
<1>0. TypeOK' /\ Grows
  BY NextType, NextGrows
<1>1. ASSUME NEW g \in Handlers PROVE OfHandler(g)'
  <2>0. OfHandler(g)
    BY DEF UpdateInv
  <2>1. ASSUME NEW h \in Handlers, HandlerStep(h) PROVE OfHandler(g)'
    <3>1. CASE g = h
      BY <1>0, <2>1, <3>1, NextHandler
    <3>2. CASE g # h
      <4>1. Rests(g)
        BY <2>1, <3>2, OthersRest
      <4> QED
        BY <1>0, <2>0, <4>1, HandlerStays
    <3> QED
      BY <3>1, <3>2
  <2>2. CASE OtherWrites \/ OtherDeletes \/ Deliver \/ DeliverDelete \/ UNCHANGED vars
    <3>1. Rests(g)
      BY <2>2 DEF OtherWrites, OtherDeletes, Deliver, DeliverDelete, vars, handlerVars, Rests
    <3> QED
      BY <1>0, <2>0, <3>1, HandlerStays
  <2> QED
    BY <2>1, <2>2 DEF Next
<1> QED
  BY <1>1, NextAuthors, NextCache DEF UpdateInv

\* However handlers, other clients and the informer take turns, an object of
\* the cache differs from its stored version in the replicas of a handler of
\* UpdateObj at most, and a handler's version is one its own request stored.
THEOREM UpdateInvariant == Spec => [](TypeOK /\ UpdateInv)
<1>1. Init => TypeOK /\ UpdateInv
  BY InitUpdate
<1>2. TypeOK /\ UpdateInv /\ [Next]_vars => (TypeOK /\ UpdateInv)'
  BY NextType, NextUpdate
<1> QED
  BY <1>1, <1>2, PTL DEF Spec

\* The state keeps its shape: no handler tries more often than UpdateObj does,
\* and none refers to a version that was never stored.
THEOREM TypeCorrect == Spec => []TypeOK
BY UpdateInvariant, PTL

\* The handlers of a stale cache never undo what another client wrote besides
\* the replicas, for the API server takes only what is of its version.
THEOREM OthersKept == Spec => []OthersAreKept
<1>1. UpdateInv => OthersAreKept
  BY DEF UpdateInv
<1> QED
  BY <1>1, UpdateInvariant, PTL

\* A Success of UpdateObj is of a version that holds what the handler, or one
\* that shares the object in the cache, was asked for; or of a kind without.
THEOREM SuccessStores == Spec => []SuccessStoresTheValue
<1>1. TypeOK /\ UpdateInv => SuccessStoresTheValue
  <2> SUFFICES ASSUME TypeOK, UpdateInv, NEW h \in Handlers, result[h] = "Success"
               PROVE  \/ stored[landed[h]].replicas = Ask[h]
                      \/ \E g \in touched[cell[h]] \ {h} : stored[landed[h]].replicas = Ask[g]
                      \/ ~scales /\ author[landed[h]] = "other"
    BY DEF SuccessStoresTheValue
  <2>1. Landed(h)
    BY DEF UpdateInv, OfHandler
  <2> QED
    BY <2>1 DEF Landed
<1> QED
  BY <1>1, UpdateInvariant, PTL
=============================================================================
