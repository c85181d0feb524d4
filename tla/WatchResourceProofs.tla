------------------------ MODULE WatchResourceProofs ------------------------
(***************************************************************************)
(* Proofs about WatchResource, for every set of resources and requests and *)
(* every number of deltas.                                                 *)
(***************************************************************************)
EXTENDS WatchResource, TLAPS

\* The state keeps its shape; the listeners never run ahead of the caches.
THEOREM TypeCorrect == Spec => []TypeOK
<1> USE WatchAssumption DEF TypeOK, NoBase
<1>1. Init => TypeOK
  <2>1. Preloaded \in 0..MaxDeltas /\ 0 \in 0..MaxDeltas
    OBVIOUS
  <2>2. [k \in Resources |-> <<>>] \in [Resources -> Seq(0..MaxDeltas)]
    OBVIOUS
  <2>3. SUFFICES ASSUME Init PROVE TypeOK
    OBVIOUS
  <2>4. wire \in [Resources -> Seq(0..MaxDeltas)]
    BY <2>2, <2>3 DEF Init
  <2>5. cache \in [Resources -> 0..MaxDeltas] /\ seen \in [Resources -> 0..MaxDeltas]
    BY <2>1, <2>3 DEF Init
  <2> QED
    BY <2>3, <2>4, <2>5 DEF Init
<1>2. TypeOK /\ [Next]_vars => TypeOK'
  <2> SUFFICES ASSUME TypeOK, [Next]_vars PROVE TypeOK'
    OBVIOUS
  <2>1. ASSUME NEW a \in Actions, Issue(a) PROVE TypeOK'
    BY <2>1 DEF Issue
  <2>2. ASSUME NEW a \in Actions, WatchAction(a) PROVE TypeOK'
    BY <2>2 DEF WatchAction, Switched
  <2>3. ASSUME NEW a \in Actions, Reply(a) PROVE TypeOK'
    BY <2>3 DEF Reply
  <2>4. ASSUME NEW k \in Resources, List(k) PROVE TypeOK'
    BY <2>4 DEF List
  <2>5. ASSUME NEW k \in Resources, HandleDelta(k) PROVE TypeOK'
    BY <2>5 DEF HandleDelta
  <2>6. ASSUME NEW k \in Resources, OnDelta(k) PROVE TypeOK'
    BY <2>6 DEF OnDelta
  <2>7. ASSUME NEW k \in Resources, Send(k) PROVE TypeOK'
    BY <2>7 DEF Send
  <2>8. CASE UNCHANGED vars
    BY <2>8 DEF vars
  <2> QED
    BY <2>1, <2>2, <2>3, <2>4, <2>5, <2>6, <2>7, <2>8 DEF Next
<1> QED
  BY <1>1, <1>2, PTL DEF Spec

\* A closed watch sends at most one event per resource that was under way.
THEOREM CloseIsPrompt == Spec => []AtMostOneLateEvent
<1> USE WatchAssumption DEF TypeOK, AtMostOneLateEvent
<1>1. Init => AtMostOneLateEvent
  BY DEF Init
<1>2. TypeOK /\ AtMostOneLateEvent /\ [Next]_vars => AtMostOneLateEvent'
  <2> SUFFICES ASSUME TypeOK, AtMostOneLateEvent, [Next]_vars PROVE AtMostOneLateEvent'
    OBVIOUS
  <2>1. ASSUME NEW a \in Actions, Issue(a) PROVE AtMostOneLateEvent'
    BY <2>1 DEF Issue
  <2>2. ASSUME NEW a \in Actions, WatchAction(a) PROVE AtMostOneLateEvent'
    BY <2>2 DEF WatchAction
  <2>3. ASSUME NEW a \in Actions, Reply(a) PROVE AtMostOneLateEvent'
    BY <2>3 DEF Reply
  <2>4. ASSUME NEW k \in Resources, List(k) PROVE AtMostOneLateEvent'
    BY <2>4 DEF List
  <2>5. ASSUME NEW k \in Resources, HandleDelta(k) PROVE AtMostOneLateEvent'
    BY <2>5 DEF HandleDelta
  <2>6. ASSUME NEW k \in Resources, OnDelta(k) PROVE AtMostOneLateEvent'
    BY <2>6 DEF OnDelta
  <2>7. ASSUME NEW k \in Resources, Send(k) PROVE AtMostOneLateEvent'
    BY <2>7 DEF Send
  <2>8. CASE UNCHANGED vars
    BY <2>8 DEF vars
  <2> QED
    BY <2>1, <2>2, <2>3, <2>4, <2>5, <2>6, <2>7, <2>8 DEF Next
<1> QED
  BY <1>1, <1>2, TypeCorrect, PTL DEF Spec

\* The listener's goroutine hands its events to the writer (watch.go over
\* SendResponse) in the order of the deltas, each once.
THEOREM InOrder == Spec => []EventsInOrder
<1> USE WatchAssumption DEF TypeOK, EventsInOrder
<1>1. Init => EventsInOrder
  BY DEF Init
<1>2. TypeOK /\ EventsInOrder /\ [Next]_vars => EventsInOrder'
  <2> SUFFICES ASSUME TypeOK, EventsInOrder, [Next]_vars PROVE EventsInOrder'
    OBVIOUS
  <2>1. ASSUME NEW a \in Actions, Issue(a) \/ WatchAction(a) \/ Reply(a) PROVE EventsInOrder'
    BY <2>1 DEF Issue, WatchAction, Reply
  <2>2. ASSUME NEW k \in Resources, List(k) \/ HandleDelta(k) PROVE EventsInOrder'
    BY <2>2 DEF List, HandleDelta
  <2>3. ASSUME NEW k \in Resources, OnDelta(k) PROVE EventsInOrder'
    BY <2>3 DEF OnDelta
  <2>4. ASSUME NEW k \in Resources, Send(k) PROVE EventsInOrder'
    <3> SUFFICES ASSUME NEW j \in Resources
                 PROVE  /\ \A m, n \in DOMAIN wire'[j] : m < n => wire'[j][m] < wire'[j][n]
                        /\ \A m \in DOMAIN wire'[j] :
                              wire'[j][m] <= seen'[j] - (IF callback'[j] = "sending" THEN 1 ELSE 0)
      OBVIOUS
    <3>1. CASE j = k
      <4>1. wire'[j] = Append(wire[j], seen[j]) /\ callback'[j] = "idle" /\ seen' = seen
        BY <2>4, <3>1 DEF Send
      <4>2. \A m \in DOMAIN wire[j] : wire[j][m] \in Nat /\ wire[j][m] < seen[j]
        BY <2>4, <3>1 DEF Send
      <4>3. wire[j] \in Seq(0..MaxDeltas) /\ seen[j] \in 0..MaxDeltas
        OBVIOUS
      <4>4. /\ DOMAIN wire'[j] = 1..(Len(wire[j]) + 1) /\ Len(wire[j]) \in Nat
            /\ DOMAIN wire[j] = 1..Len(wire[j])
            /\ \A m \in DOMAIN wire[j] : wire'[j][m] = wire[j][m]
            /\ wire'[j][Len(wire[j]) + 1] = seen[j]
        BY <4>1, <4>3
      <4>5. \A m \in DOMAIN wire'[j] : m \in DOMAIN wire[j] \/ m = Len(wire[j]) + 1
        BY <4>4
      <4>6. \A m \in DOMAIN wire'[j] : wire'[j][m] \in Nat /\ wire'[j][m] <= seen[j]
        <5> SUFFICES ASSUME NEW m \in DOMAIN wire'[j]
                     PROVE  wire'[j][m] \in Nat /\ wire'[j][m] <= seen[j]
          OBVIOUS
        <5>1. CASE m \in DOMAIN wire[j]
          BY <4>2, <4>3, <4>4, <5>1
        <5>2. CASE m = Len(wire[j]) + 1
          BY <4>3, <4>4, <5>2
        <5> QED
          BY <4>5, <5>1, <5>2
      <4>7. \A m, n \in DOMAIN wire'[j] : m < n => m \in DOMAIN wire[j]
        BY <4>4
      <4>8. \A m, n \in DOMAIN wire'[j] : m < n => wire'[j][m] < wire'[j][n]
        BY <4>2, <4>4, <4>5, <4>7
      <4>9. seen'[j] - (IF callback'[j] = "sending" THEN 1 ELSE 0) = seen[j]
        BY <4>1, <4>3
      <4> QED
        BY <4>6, <4>8, <4>9
    <3>2. CASE j # k
      BY <2>4, <3>2 DEF Send
    <3> QED
      BY <3>1, <3>2
  <2>5. CASE UNCHANGED vars
    BY <2>5 DEF vars
  <2> QED
    BY <2>1, <2>2, <2>3, <2>4, <2>5 DEF Next
<1> QED
  BY <1>1, <1>2, TypeCorrect, PTL DEF Spec

(***************************************************************************)
(* The flag obeys the one pending request of an orderly server, hence a    *)
(* listed resource stays watched and no delta after the list is skipped.   *)
(***************************************************************************)
LEMMA NextSwitch ==
    ASSUME TypeOK, SwitchInv, [Next]_vars
    PROVE  SwitchInv'
<1> USE WatchAssumption DEF TypeOK, NoBase, SwitchInv, OnePending, FlagFollowsServer,
        ListedIsWatched, ListThenEventsIsComplete, Pending
<1>1. ASSUME NEW a \in Actions, Issue(a) PROVE SwitchInv'
  <2>1. CASE orderly'
    <3>1. orderly /\ Pending = {} /\ (watch <=> last = "open")
      BY <1>1, <2>1 DEF Issue
    <3>2. OnePending' /\ FlagFollowsServer'
      BY <1>1, <3>1 DEF Issue
    <3>3. ListedIsWatched' /\ ListThenEventsIsComplete'
      BY <1>1, <3>1 DEF Issue
    <3> QED
      BY <3>2, <3>3
  <2>2. CASE ~orderly'
    <3>1. base' = [k \in Resources |-> NoBase]
      BY <1>1, <2>2 DEF Issue
    <3> QED
      BY <1>1, <2>2, <3>1 DEF Issue
  <2> QED
    BY <2>1, <2>2
<1>2. ASSUME NEW a \in Actions, WatchAction(a) PROVE SwitchInv'
  <2>1. CASE orderly
    <3>1. \A c \in Actions : request[c] = "running" => c = a
      BY <1>2, <2>1 DEF WatchAction
    <3>2. watch' <=> last = "open"
      BY <1>2, <2>1 DEF WatchAction, Switched
    <3>3. OnePending'
      BY <1>2, <2>1 DEF WatchAction
    <3>4. FlagFollowsServer'
      BY <1>2, <3>1, <3>2 DEF WatchAction
    <3>5. ListedIsWatched'
      BY <1>2, <3>2 DEF WatchAction
    <3>6. ListThenEventsIsComplete'
      BY <1>2 DEF WatchAction
    <3> QED
      BY <3>3, <3>4, <3>5, <3>6
  <2>2. CASE ~orderly
    BY <1>2, <2>2 DEF WatchAction
  <2> QED
    BY <2>1, <2>2
<1>3. ASSUME NEW a \in Actions, Reply(a) PROVE SwitchInv'
  BY <1>3 DEF Reply
<1>4. ASSUME NEW k \in Resources, List(k) PROVE SwitchInv'
  BY <1>4 DEF List
<1>5. ASSUME NEW k \in Resources, HandleDelta(k) PROVE SwitchInv'
  BY <1>5 DEF HandleDelta
<1>6. ASSUME NEW k \in Resources, OnDelta(k) PROVE SwitchInv'
  BY <1>6 DEF OnDelta
<1>7. ASSUME NEW k \in Resources, Send(k) PROVE SwitchInv'
  <2>1. \A j \in Resources : j # k => wire'[j] = wire[j] /\ callback'[j] = callback[j]
    BY <1>7 DEF Send
  <2>2. /\ DOMAIN wire'[k] = 1..(Len(wire[k]) + 1)
        /\ wire'[k][Len(wire[k]) + 1] = seen[k]
        /\ \A i \in DOMAIN wire[k] : i \in DOMAIN wire'[k] /\ wire'[k][i] = wire[k][i]
    <3>1. wire'[k] = Append(wire[k], seen[k]) /\ wire[k] \in Seq(0..MaxDeltas)
      BY <1>7 DEF Send
    <3> QED
      BY <3>1
  <2>3. ListThenEventsIsComplete'
    <3> SUFFICES ASSUME NEW j \in Resources, base[j] # NoBase,
                        NEW n \in (base[j] + 1)..seen[j]
                 PROVE  \/ \E i \in DOMAIN wire'[j] : wire'[j][i] = n
                        \/ callback'[j] = "sending" /\ n = seen[j]
      BY <1>7 DEF Send
    <3>0. \/ \E i \in DOMAIN wire[j] : wire[j][i] = n
          \/ callback[j] = "sending" /\ n = seen[j]
      OBVIOUS
    <3>1. CASE j # k
      BY <2>1, <3>0, <3>1
    <3>2. CASE j = k
      <4>1. \/ \E i \in DOMAIN wire[k] : wire[k][i] = n
            \/ n = seen[k]
        BY <3>2
      <4>2. Len(wire[k]) + 1 \in DOMAIN wire'[k]
        BY <2>2
      <4> QED
        BY <2>2, <3>2, <4>1, <4>2
    <3> QED
      BY <3>1, <3>2
  <2> QED
    <3>1. OnePending' /\ FlagFollowsServer' /\ ListedIsWatched'
      BY <1>7 DEF Send
    <3> QED
      BY <2>3, <3>1
<1>8. CASE UNCHANGED vars
  BY <1>8 DEF vars
<1> QED
  BY <1>1, <1>2, <1>3, <1>4, <1>5, <1>6, <1>7, <1>8 DEF Next

\* Which request the flag obeys, and what that means for a listed resource.
THEOREM SwitchInvariant == Spec => []SwitchInv
<1>1. Init => SwitchInv
  BY WatchAssumption DEF Init, SwitchInv, OnePending, FlagFollowsServer, ListedIsWatched,
     ListThenEventsIsComplete, Pending, NoBase
<1>2. TypeOK /\ SwitchInv /\ [Next]_vars => SwitchInv'
  BY NextSwitch
<1> QED
  BY <1>1, <1>2, TypeCorrect, PTL DEF Spec

\* A server that waits for its answers decides whether the agent watches.
THEOREM ServerDecides == Spec => []OrderlyServerDecides
<1>1. SwitchInv => OrderlyServerDecides
  BY DEF SwitchInv, FlagFollowsServer, OrderlyServerDecides, Pending
<1> QED
  BY <1>1, SwitchInvariant, PTL

\* Opening the watch and then listing leaves no delta out.
THEOREM ListThenWatch == Spec => []ListThenEventsIsComplete
<1>1. SwitchInv => ListThenEventsIsComplete
  BY DEF SwitchInv
<1> QED
  BY <1>1, SwitchInvariant, PTL
=============================================================================
