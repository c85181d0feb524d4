----------------------- MODULE DynamicResourceProofs -----------------------
(***************************************************************************)
(* Proofs about DynamicResource, for every set of requests and objects,    *)
(* whatever each request goes through and however long it is.              *)
(***************************************************************************)
EXTENDS DynamicResource, TLAPS

\* A mapped document is one of an apply, of a kind the mapper knows.
MappedIsKnown(r) ==
    pc[r] = "mapped" =>
        /\ Action[r] = "apply" /\ next[r] \in Steps(r) /\ This(r) # Garbage
        /\ built /\ KindOf[This(r)] \in known

CodeMeansDone(r) == code[r] = "none" <=> pc[r] # "done"

\* What the mapper knew when a document was reported, it knows for good.
ReportsTellKinds(r) ==
    \A i \in DOMAIN report[r] : report[r][i] \in {"unmapped", "applied"} =>
        /\ built /\ Plan[r][i] \in Objects
        /\ report[r][i] = "applied" <=> KindOf[Plan[r][i]] \in known

\* A delete has accepted the steps before the one it is at, and that one
\* perhaps, if it ended there.
DeletedSoFar(r) ==
    Action[r] = "delete" =>
        CASE code[r] = "Success"     -> accepted[r] = Steps(r)
          [] code[r] = "DeleteError" -> accepted[r] \in {1..(next[r] - 1), 1..next[r]}
          [] OTHER                   -> accepted[r] = 1..(next[r] - 1)

\* An apply has reported on the documents before the one it is at.
AppliedSoFar(r) ==
    Action[r] = "apply" =>
        /\ Len(report[r]) = next[r] - 1
        /\ accepted[r] \subseteq 1..(next[r] - 1)
        /\ code[r] # "none" => next[r] = Len(Plan[r]) + 1
        /\ \A i \in DOMAIN report[r] :
              /\ report[r][i] = "applied" => i \in accepted[r]
              /\ i \in accepted[r] => report[r][i] \in {"applied", "failed"}
        /\ code[r] = "Success" => \A i \in DOMAIN report[r] : report[r][i] = "applied"
        /\ code[r] = "ApplyError" => \E i \in DOMAIN report[r] : report[r][i] # "applied"

OfRequest(r) ==
    /\ MappedIsKnown(r) /\ CodeMeansDone(r) /\ ReportsTellKinds(r)
    /\ DeletedSoFar(r) /\ AppliedSoFar(r)

DynamicInv == \A r \in Requests : OfRequest(r)

-----------------------------------------------------------------------------
\* What is written in a plan, and what a step of a delete or update is about.
LEMMA PlanTypes ==
    ASSUME TypeOK, NEW r \in Requests
    PROVE  /\ Len(Plan[r]) \in Nat /\ Steps(r) = 1..Len(Plan[r])
           /\ \A i \in Steps(r) : /\ Plan[r][i] \in Objects \cup {Garbage}
                                  /\ Action[r] = "delete" => Plan[r][i] \in Objects
           /\ next[r] \in Nat /\ next[r] \in 1..(Len(Plan[r]) + 1)
           /\ next[r] \in Steps(r) => next[r] + 1 \in 1..(Len(Plan[r]) + 1)
           /\ next[r] \notin Steps(r) => next[r] = Len(Plan[r]) + 1
BY DynamicAssumption DEF TypeOK, Steps

LEMMA InitDynamic == Init => TypeOK /\ DynamicInv
<1> SUFFICES ASSUME Init PROVE TypeOK /\ DynamicInv
  OBVIOUS
<1> USE DynamicAssumption DEF Init
<1>1. TypeOK
  <2>1. ASSUME NEW r \in Requests PROVE next[r] \in 1..(Len(Plan[r]) + 1)
    <3>1. Plan[r] \in Seq(Objects \cup {Garbage})
      OBVIOUS
    <3>2. Len(Plan[r]) \in Nat /\ next[r] = 1
      BY <3>1
    <3> QED
      BY <3>2
  <2>2. report \in [Requests -> Seq(Reports)]
    OBVIOUS
  <2>3. object \in [Objects -> {"absent", "present", "dying"}]
    OBVIOUS
  <2> QED
    BY <2>1, <2>2, <2>3 DEF TypeOK
<1>2. ASSUME NEW r \in Requests PROVE OfRequest(r)
  BY DEF OfRequest, MappedIsKnown, CodeMeansDone, ReportsTellKinds, DeletedSoFar, AppliedSoFar, Steps
<1> QED
  BY <1>1, <1>2 DEF DynamicInv
-----------------------------------------------------------------------------
(* The shape of the state.                                                 *)

LEMMA AcceptType ==
    ASSUME TypeOK, NEW r \in Requests, next[r] \in Steps(r), This(r) \in Objects,
           NEW state \in {"absent", "present", "dying"},
           Accept(r, state) \/ UNCHANGED <<object, accepted>>
    PROVE  /\ object' \in [Objects -> {"absent", "present", "dying"}]
           /\ accepted' \in [Requests -> SUBSET Nat]
<1>1. next[r] \in Nat
  BY PlanTypes
<1>2. CASE Accept(r, state)
  BY <1>1, <1>2 DEF TypeOK, Accept
<1>3. CASE UNCHANGED <<object, accepted>>
  BY <1>3 DEF TypeOK
<1> QED
  BY <1>2, <1>3

LEMMA NextType ==
    ASSUME TypeOK, DynamicInv, [Next]_vars
    PROVE  TypeOK'
<1> USE DynamicAssumption DEF TypeOK, mapperVars
<1>1. ASSUME NEW r \in Requests, Begin(r) PROVE TypeOK'
  BY <1>1 DEF Begin
<1>2. ASSUME NEW r \in Requests, DeleteNext(r) PROVE TypeOK'
  BY <1>2, PlanTypes DEF DeleteNext, AtStep, Accept, This
<1>3. ASSUME NEW r \in Requests, DeleteFails(r) PROVE TypeOK'
  <2>1. next[r] \in Steps(r) /\ This(r) \in Objects
    BY <1>3, PlanTypes DEF DeleteFails, AtStep, This
  <2>2. Accept(r, "dying") \/ UNCHANGED <<object, accepted>>
    BY <1>3 DEF DeleteFails, Fail
  <2>3. /\ object' \in [Objects -> {"absent", "present", "dying"}]
        /\ accepted' \in [Requests -> SUBSET Nat]
    BY <2>1, <2>2, AcceptType
  <2> QED
    BY <1>3, <2>3 DEF DeleteFails, Finish
<1>4. ASSUME NEW r \in Requests, DeleteEnds(r) \/ RefuseUpdate(r) \/ ApplyEnds(r) PROVE TypeOK'
  BY <1>4 DEF DeleteEnds, RefuseUpdate, ApplyEnds, Finish
<1>5. ASSUME NEW r \in Requests, UpdateYaml(r) PROVE TypeOK'
  <2>1. next[r] \in Steps(r) /\ This(r) \in Objects
    BY <1>5, PlanTypes DEF UpdateYaml, AtStep, This
  <2>2. Accept(r, object[This(r)]) \/ UNCHANGED <<object, accepted>>
    BY <1>5 DEF UpdateYaml, Fail
  <2>3. object[This(r)] \in {"absent", "present", "dying"}
    BY <2>1
  <2>4. /\ object' \in [Objects -> {"absent", "present", "dying"}]
        /\ accepted' \in [Requests -> SUBSET Nat]
    BY <2>1, <2>2, <2>3, AcceptType
  <2>5. PICK c \in {"Success", "UpdateError"} : Finish(r, c)
    BY <1>5 DEF UpdateYaml
  <2> QED
    BY <1>5, <2>4, <2>5 DEF UpdateYaml, Finish
<1>6. ASSUME NEW r \in Requests, NEW what \in Reports, next[r] \in Steps(r), Report(r, what)
      PROVE  /\ report' \in [Requests -> Seq(Reports)] /\ next' \in [Requests -> Nat]
             /\ \A q \in Requests : next'[q] \in 1..(Len(Plan[q]) + 1)
  <2>1. Append(report[r], what) \in Seq(Reports)
    OBVIOUS
  <2> QED
    BY <1>6, <2>1, PlanTypes DEF Report
<1>7. ASSUME NEW r \in Requests, DecodeFails(r) \/ DiscoveryFails(r) PROVE TypeOK'
  <2>1. PICK what \in {"undecoded", "undiscovered"} : Report(r, what)
    BY <1>7 DEF DecodeFails, DiscoveryFails
  <2> QED
    BY <1>6, <1>7, <2>1 DEF DecodeFails, DiscoveryFails, AtStep, Reports
<1>8. ASSUME NEW r \in Requests, Discover(r) PROVE TypeOK'
  BY <1>8 DEF Discover
<1>9. ASSUME NEW r \in Requests, MapKind(r) PROVE TypeOK'
  <2>1. CASE KindOf[This(r)] \in known
    BY <1>9, <2>1 DEF MapKind
  <2>2. CASE KindOf[This(r)] \notin known
    BY <1>6, <1>9, <2>2 DEF MapKind, AtStep, Reports
  <2> QED
    BY <2>1, <2>2
<1>10. ASSUME NEW r \in Requests, Patch(r) PROVE TypeOK'
  <2>1. next[r] \in Steps(r) /\ This(r) \in Objects
    BY <1>10, PlanTypes DEF Patch, DynamicInv, OfRequest, MappedIsKnown, This
  <2>2. PICK what \in {"applied", "failed"} : Report(r, what)
    BY <1>10 DEF Patch
  <2>3. object' \in [Objects -> {"absent", "present", "dying"}] /\ accepted' \in [Requests -> SUBSET Nat]
    <3>1. Applied(This(r)) \in {"absent", "present", "dying"}
      BY <2>1 DEF Applied
    <3>2. Accept(r, Applied(This(r))) \/ UNCHANGED <<object, accepted>>
      BY <1>10 DEF Patch
    <3> QED
      BY <2>1, <3>1, <3>2, AcceptType
  <2> QED
    BY <1>6, <1>10, <2>1, <2>2, <2>3 DEF Patch, Reports
<1>11. ASSUME NEW k \in Kinds, KindAppears(k) PROVE TypeOK'
  BY <1>11 DEF KindAppears
<1>12. ASSUME NEW o \in Objects, Collect(o) PROVE TypeOK'
  BY <1>12 DEF Collect
<1>13. CASE UNCHANGED vars
  BY <1>13 DEF vars
<1> QED
  BY <1>1, <1>2, <1>3, <1>4, <1>5, <1>7, <1>8, <1>9, <1>10, <1>11, <1>12, <1>13
     DEF Next, RequestStep
-----------------------------------------------------------------------------
(* What each request has done so far.                                      *)

\* Nobody else's step disturbs a request: the mapper forgets nothing.
LEMMA Bystander ==
    ASSUME NEW q \in Requests, OfRequest(q),
           pc'[q] = pc[q], next'[q] = next[q], report'[q] = report[q],
           accepted'[q] = accepted[q], code'[q] = code[q],
           built => built' /\ known' = known
    PROVE  OfRequest(q)'
<1>1. MappedIsKnown(q)' /\ CodeMeansDone(q)'
  BY DEF OfRequest, MappedIsKnown, CodeMeansDone, This, Steps
<1>2. ReportsTellKinds(q)'
  BY DEF OfRequest, ReportsTellKinds
<1>3. DeletedSoFar(q)' /\ AppliedSoFar(q)'
  BY DEF OfRequest, DeletedSoFar, AppliedSoFar, Steps
<1> QED
  BY <1>1, <1>2, <1>3 DEF OfRequest

\* The steps of a delete.
LEMMA DeleteKeeps ==
    ASSUME TypeOK, NEW r \in Requests, OfRequest(r),
           DeleteNext(r) \/ DeleteFails(r) \/ DeleteEnds(r)
    PROVE  OfRequest(r)'
<1> USE DynamicAssumption DEF TypeOK
<1>1. /\ Action[r] = "delete" /\ pc[r] = "running" /\ code[r] = "none"
      /\ accepted[r] = 1..(next[r] - 1) /\ next[r] \in Nat \ {0}
      /\ UNCHANGED <<report, built, known>>
  BY DEF DeleteNext, DeleteFails, DeleteEnds, AtStep, AtEnd, mapperVars, OfRequest,
         DeletedSoFar, CodeMeansDone
<1>2. pc'[r] \in {"running", "done"} /\ (code'[r] = "none" <=> pc'[r] # "done")
  BY <1>1 DEF DeleteNext, DeleteFails, DeleteEnds, Finish
<1>3. MappedIsKnown(r)' /\ CodeMeansDone(r)' /\ ReportsTellKinds(r)' /\ AppliedSoFar(r)'
  BY <1>1, <1>2 DEF OfRequest, MappedIsKnown, CodeMeansDone, ReportsTellKinds, AppliedSoFar
<1>4. 1..(next[r] - 1) \cup {next[r]} = 1..next[r]
  BY <1>1
<1>5. DeletedSoFar(r)'
  <2>1. CASE DeleteNext(r)
    <3>1. accepted'[r] = 1..next[r] /\ next'[r] = next[r] + 1 /\ code'[r] = "none"
      BY <1>1, <1>4, <2>1 DEF DeleteNext, Accept
    <3>2. next'[r] - 1 = next[r]
      BY <1>1, <3>1
    <3> QED
      BY <3>1, <3>2 DEF DeletedSoFar
  <2>2. CASE DeleteFails(r)
    <3>1. next'[r] = next[r] /\ code'[r] = "DeleteError"
      BY <2>2 DEF DeleteFails, Finish
    <3>2. accepted'[r] \in {1..(next[r] - 1), 1..next[r]}
      BY <1>1, <1>4, <2>2 DEF DeleteFails, Fail, Accept
    <3> QED
      BY <3>1, <3>2 DEF DeletedSoFar
  <2>3. CASE DeleteEnds(r)
    <3>1. code'[r] = "Success" /\ accepted'[r] = accepted[r]
      BY <2>3 DEF DeleteEnds, Finish
    <3>2. next[r] - 1 = Len(Plan[r])
      BY <2>3, PlanTypes DEF DeleteEnds, AtEnd
    <3> QED
      BY <1>1, <3>1, <3>2 DEF DeletedSoFar, Steps
  <2> QED
    BY <2>1, <2>2, <2>3
<1> QED
  BY <1>3, <1>5 DEF OfRequest

\* The steps of an update, which end it.
LEMMA UpdateKeeps ==
    ASSUME TypeOK, NEW r \in Requests, OfRequest(r), RefuseUpdate(r) \/ UpdateYaml(r)
    PROVE  OfRequest(r)'
<1>1. Action[r] = "update" /\ UNCHANGED <<report, built, known>>
  BY DEF RefuseUpdate, UpdateYaml, AtStep, mapperVars
<1>2. pc'[r] = "done" /\ code'[r] # "none"
  BY DEF RefuseUpdate, UpdateYaml, Finish, TypeOK
<1> QED
  BY <1>1, <1>2 DEF OfRequest, MappedIsKnown, CodeMeansDone, ReportsTellKinds, DeletedSoFar, AppliedSoFar
\* A document is reported: the last report is "what", about the step the
\* request was at, and it agrees with what was accepted and known.
LEMMA Reported ==
    ASSUME TypeOK, NEW r \in Requests, OfRequest(r), NEW what,
           Action[r] = "apply", next[r] \in Steps(r), This(r) \in Objects \/ what = "undecoded",
           code[r] = "none", code' = code, pc'[r] = "running", UNCHANGED <<built, known>>,
           Report(r, what),
           \/ accepted'[r] = accepted[r] /\ what # "applied"
           \/ accepted'[r] = accepted[r] \cup {next[r]} /\ what \in {"applied", "failed"},
           what \in {"unmapped", "applied"} =>
              built /\ (what = "applied" <=> KindOf[This(r)] \in known)
    PROVE  OfRequest(r)'
<1> USE DynamicAssumption DEF TypeOK
<1>1. next'[r] = next[r] + 1 /\ next[r] \in Nat \ {0}
  BY DEF Report
<1>2. /\ report[r] \in Seq(Reports) /\ report'[r] = Append(report[r], what)
      /\ Len(report[r]) = next[r] - 1
  BY DEF Report, OfRequest, AppliedSoFar
<1>3. /\ DOMAIN report[r] = 1..(next[r] - 1) /\ DOMAIN report'[r] = 1..next[r]
      /\ Len(report'[r]) = next'[r] - 1
      /\ report'[r][next[r]] = what
      /\ \A i \in DOMAIN report[r] : report'[r][i] = report[r][i]
  BY <1>1, <1>2
<1>4. \A i \in DOMAIN report'[r] : i \in DOMAIN report[r] \/ i = next[r]
  BY <1>1, <1>3
<1>5. accepted[r] \subseteq 1..(next[r] - 1)
  BY DEF OfRequest, AppliedSoFar
<1>6. next[r] \notin DOMAIN report[r] /\ next[r] \notin accepted[r]
  BY <1>1, <1>3, <1>5
<1>7. MappedIsKnown(r)' /\ CodeMeansDone(r)' /\ DeletedSoFar(r)'
  BY DEF MappedIsKnown, CodeMeansDone, DeletedSoFar
<1>8. ReportsTellKinds(r)'
  <2> SUFFICES ASSUME NEW i \in DOMAIN report'[r], report'[r][i] \in {"unmapped", "applied"}
               PROVE  /\ built /\ Plan[r][i] \in Objects
                      /\ report'[r][i] = "applied" <=> KindOf[Plan[r][i]] \in known
    BY DEF ReportsTellKinds
  <2>1. CASE i \in DOMAIN report[r]
    BY <1>3, <2>1 DEF OfRequest, ReportsTellKinds
  <2>2. CASE i = next[r]
    BY <1>3, <2>2 DEF This
  <2> QED
    BY <1>4, <2>1, <2>2
<1>9. AppliedSoFar(r)'
  <2>1. accepted'[r] \subseteq 1..(next'[r] - 1)
    BY <1>1, <1>5
  <2>2. ASSUME NEW i \in DOMAIN report'[r]
        PROVE  /\ report'[r][i] = "applied" => i \in accepted'[r]
               /\ i \in accepted'[r] => report'[r][i] \in {"applied", "failed"}
    <3>1. CASE i \in DOMAIN report[r]
      BY <1>3, <1>6, <3>1 DEF OfRequest, AppliedSoFar
    <3>2. CASE i = next[r]
      BY <1>3, <1>6, <3>2
    <3> QED
      BY <1>4, <3>1, <3>2
  <2> QED
    BY <1>3, <2>1, <2>2 DEF AppliedSoFar
<1> QED
  BY <1>7, <1>8, <1>9 DEF OfRequest

\* The steps of an apply.
LEMMA ApplyKeeps ==
    ASSUME TypeOK, NEW r \in Requests, OfRequest(r),
           \/ DecodeFails(r) \/ Discover(r) \/ DiscoveryFails(r)
           \/ MapKind(r) \/ Patch(r) \/ ApplyEnds(r)
    PROVE  OfRequest(r)'
<1> USE DynamicAssumption DEF TypeOK
<1>1. Action[r] = "apply" /\ pc[r] \in {"running", "mapped"} /\ code[r] = "none"
  BY DEF DecodeFails, Discover, DiscoveryFails, MapKind, Patch, ApplyEnds, AtStep, AtEnd,
         OfRequest, MappedIsKnown, CodeMeansDone
<1>2. next[r] \in Steps(r) => This(r) \in Objects \cup {Garbage}
  BY PlanTypes DEF This
<1>3. CASE DecodeFails(r)
  BY <1>1, <1>3, Reported DEF DecodeFails, AtStep, mapperVars
<1>4. CASE DiscoveryFails(r)
  BY <1>1, <1>2, <1>4, Reported DEF DiscoveryFails, AtStep, mapperVars
<1>5. CASE Discover(r)
  <2>1. ~built /\ UNCHANGED <<pc, next, report, accepted, code>>
    BY <1>5 DEF Discover
  <2> QED
    BY <2>1, Bystander
<1>6. CASE MapKind(r)
  <2>1. CASE KindOf[This(r)] \in known
    <3>1. pc'[r] = "mapped" /\ UNCHANGED <<next, report, accepted, code, built, known>>
      BY <1>6, <2>1 DEF MapKind, mapperVars
    <3>2. next[r] \in Steps(r) /\ This(r) # Garbage /\ built
      BY <1>6 DEF MapKind, AtStep
    <3>3. MappedIsKnown(r)' /\ CodeMeansDone(r)'
      BY <1>1, <2>1, <3>1, <3>2 DEF MappedIsKnown, CodeMeansDone, This, Steps
    <3>4. ReportsTellKinds(r)' /\ DeletedSoFar(r)' /\ AppliedSoFar(r)'
      BY <1>1, <3>1 DEF OfRequest, ReportsTellKinds, DeletedSoFar, AppliedSoFar
    <3> QED
      BY <3>3, <3>4 DEF OfRequest
  <2>2. CASE KindOf[This(r)] \notin known
    BY <1>1, <1>2, <1>6, <2>2, Reported DEF MapKind, AtStep, mapperVars
  <2> QED
    BY <2>1, <2>2
<1>7. CASE Patch(r)
  <2>1. /\ next[r] \in Steps(r) /\ This(r) \in Objects /\ built
        /\ KindOf[This(r)] \in known
    BY <1>2, <1>7 DEF Patch, OfRequest, MappedIsKnown
  <2>2. pc'[r] = "running" /\ code' = code /\ UNCHANGED <<built, known>>
    BY <1>7 DEF Patch, mapperVars
  <2>3. PICK what \in {"applied", "failed"} :
           /\ Report(r, what)
           /\ \/ accepted'[r] = accepted[r] /\ what # "applied"
              \/ accepted'[r] = accepted[r] \cup {next[r]}
    BY <1>7 DEF Patch, Accept
  <2> QED
    BY <1>1, <2>1, <2>2, <2>3, Reported
<1>8. CASE ApplyEnds(r)
  <2>1. /\ pc'[r] = "done" /\ UNCHANGED <<next, report, accepted, built, known>>
        /\ code'[r] = IF \A i \in DOMAIN report[r] : report[r][i] = "applied"
                        THEN "Success" ELSE "ApplyError"
    BY <1>8 DEF ApplyEnds, Finish, mapperVars
  <2>2. next[r] = Len(Plan[r]) + 1
    BY <1>8, PlanTypes DEF ApplyEnds, AtEnd
  <2>3. MappedIsKnown(r)' /\ CodeMeansDone(r)' /\ ReportsTellKinds(r)' /\ DeletedSoFar(r)'
    BY <1>1, <2>1 DEF OfRequest, MappedIsKnown, CodeMeansDone, ReportsTellKinds, DeletedSoFar
  <2>4. AppliedSoFar(r)'
    BY <1>1, <2>1, <2>2 DEF OfRequest, AppliedSoFar
  <2> QED
    BY <2>3, <2>4 DEF OfRequest
<1> QED
  BY <1>3, <1>4, <1>5, <1>6, <1>7, <1>8

\* Each step keeps what is known of its own request and of the others.
LEMMA NextDynamic ==
    ASSUME TypeOK, DynamicInv, [Next]_vars
    PROVE  DynamicInv'
<1> USE DEF DynamicInv
<1>1. ASSUME NEW r \in Requests, RequestStep(r) PROVE DynamicInv'
  <2> SUFFICES ASSUME NEW q \in Requests PROVE OfRequest(q)'
    OBVIOUS
  <2>1. CASE q = r
    BY <1>1, <2>1, DeleteKeeps, UpdateKeeps, ApplyKeeps DEF RequestStep
  <2>2. CASE q # r
    <3>1. /\ pc'[q] = pc[q] /\ next'[q] = next[q] /\ report'[q] = report[q]
          /\ accepted'[q] = accepted[q] /\ code'[q] = code[q]
      BY <1>1, <2>2 DEF TypeOK, RequestStep, DeleteNext, DeleteFails, DeleteEnds, RefuseUpdate, UpdateYaml,
         DecodeFails, Discover, DiscoveryFails, MapKind, Patch, ApplyEnds, Accept, Fail, Finish, Report
    <3>2. built => built' /\ known' = known
      BY <1>1 DEF RequestStep, DeleteNext, DeleteFails, DeleteEnds, RefuseUpdate, UpdateYaml,
         DecodeFails, Discover, DiscoveryFails, MapKind, Patch, ApplyEnds, mapperVars
    <3> QED
      BY <3>1, <3>2, Bystander
  <2> QED
    BY <2>1, <2>2
<1>2. ASSUME NEW r \in Requests, Begin(r) PROVE DynamicInv'
  <2> SUFFICES ASSUME NEW q \in Requests PROVE OfRequest(q)'
    OBVIOUS
  <2>1. UNCHANGED <<next, report, accepted, code, built, known>>
    BY <1>2 DEF Begin, mapperVars
  <2>2. CASE q = r
    <3>1. pc[q] = "new" /\ pc'[q] = "running"
      BY <1>2, <2>2 DEF Begin, TypeOK
    <3> QED
      BY <2>1, <3>1 DEF OfRequest, MappedIsKnown, CodeMeansDone, ReportsTellKinds,
         DeletedSoFar, AppliedSoFar
  <2>3. CASE q # r
    BY <1>2, <2>1, <2>3, Bystander DEF Begin, TypeOK
  <2> QED
    BY <2>2, <2>3
<1>3. CASE \/ \E k \in Kinds : KindAppears(k)
           \/ \E o \in Objects : Collect(o)
           \/ UNCHANGED vars
  BY <1>3, Bystander DEF KindAppears, Collect, vars, mapperVars
<1> QED
  BY <1>1, <1>2, <1>3 DEF Next

\* Requests and mapper agree on what was done, reported and known.
THEOREM DynamicInvariant == Spec => [](TypeOK /\ DynamicInv)
<1>1. TypeOK /\ DynamicInv /\ [Next]_vars => (TypeOK /\ DynamicInv)'
  BY NextType, NextDynamic
<1> QED
  BY <1>1, InitDynamic, PTL DEF Spec
\* The state keeps its shape: no request goes beyond its plan, and the mapper
\* knows no kind that the API server has never served.
THEOREM TypeCorrect == Spec => []TypeOK
BY DynamicInvariant, PTL

\* Delete (dynamic.go) leaves what its answer says: everything before the
\* object it failed at is deleted, and nothing after it.
THEOREM DeleteStops == Spec => []DeleteStopsAtFailure
<1>1. DynamicInv => DeleteStopsAtFailure
  BY DEF DynamicInv, OfRequest, DeletedSoFar, DeleteStopsAtFailure
<1> QED
  BY <1>1, DynamicInvariant, PTL

\* ApplyYaml (dynamic.go) reports on each document, and truly.
THEOREM ApplyReports == Spec => []ApplyReportsEachDocument
<1>1. TypeOK /\ DynamicInv => ApplyReportsEachDocument
  <2> SUFFICES ASSUME TypeOK, DynamicInv, NEW r \in Requests, Action[r] = "apply"
               PROVE  /\ Len(report[r]) = next[r] - 1
                      /\ code[r] # "none" => Len(report[r]) = Len(Plan[r])
                      /\ \A i \in DOMAIN report[r] :
                            /\ report[r][i] = "applied" => i \in accepted[r]
                            /\ i \in accepted[r] => report[r][i] \in {"applied", "failed"}
                      /\ code[r] = "Success" => accepted[r] = Steps(r)
                      /\ code[r] = "ApplyError" => \E i \in Steps(r) : report[r][i] # "applied"
    BY DEF ApplyReportsEachDocument
  <2>1. AppliedSoFar(r)
    BY DEF DynamicInv, OfRequest
  <2>2. /\ DOMAIN report[r] = 1..Len(report[r]) /\ Len(report[r]) = next[r] - 1
        /\ next[r] \in Nat /\ Len(Plan[r]) \in Nat
    BY <2>1, PlanTypes DEF TypeOK, AppliedSoFar
  <2>3. code[r] # "none" => /\ Len(report[r]) = Len(Plan[r]) /\ DOMAIN report[r] = Steps(r)
                            /\ accepted[r] \subseteq Steps(r)
    BY <2>1, <2>2 DEF AppliedSoFar, Steps
  <2> QED
    BY <2>1, <2>2, <2>3 DEF AppliedSoFar
<1> QED
  BY <1>1, DynamicInvariant, PTL

\* The vendored mapper's cache calls itself fresh for ever, so a kind that was
\* missed once is missed by all, and one that was found is found by all.
THEOREM FrozenMapping == Spec => []MappingIsFrozen
<1>1. DynamicInv => MappingIsFrozen
  BY DEF DynamicInv, OfRequest, ReportsTellKinds, MappingIsFrozen
<1> QED
  BY <1>1, DynamicInvariant, PTL
=============================================================================
