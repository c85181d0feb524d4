-------------------------- MODULE DynamicResource --------------------------
(***************************************************************************)
(* Delete, UpdateYaml and ApplyYaml of pkg/container/resource/dynamic.go:  *)
(* requests made of several steps, each of which may fail, over the        *)
(* objects of the API server.                                              *)
(*                                                                         *)
(* Delete stops at the first object that fails; ApplyYaml goes through all *)
(* documents and collects what became of each.  To apply a document, its   *)
(* kind is looked up in the vendored DeferredDiscoveryRESTMapper, which    *)
(* reads the kinds the API server serves on first use.  Its cache calls    *)
(* itself fresh ever after, so the mapper never reads them again.          *)
(***************************************************************************)
EXTENDS Naturals, Sequences

CONSTANTS Requests,   \* the delete, update and apply requests
          Action,     \* what each is: "delete", "update" or "apply"
          Plan,       \* the objects or documents each goes through
          Objects,    \* the objects named by requests
          Garbage,    \* a document that cannot be decoded, or that no kind takes
          Kinds,      \* the kinds of objects
          KindOf,     \* the kind of each object
          Core        \* the kinds served from the start

ASSUME DynamicAssumption ==
    /\ Action \in [Requests -> {"delete", "update", "apply"}]
    /\ Plan \in [Requests -> Seq(Objects \cup {Garbage})]
    /\ \A r \in Requests :
          /\ Action[r] = "delete" => Plan[r] \in Seq(Objects)
          /\ Action[r] = "update" => Len(Plan[r]) = 1
    /\ Garbage \notin Objects
    /\ KindOf \in [Objects -> Kinds]
    /\ Core \subseteq Kinds

VARIABLES object,    \* each object at the API server
          served,    \* the kinds the API server serves
          built,     \* DeferredDiscoveryRESTMapper.delegate is not nil
          known,     \* the kinds the delegate knows
          pc,        \* where each request stands
          next,      \* the step each request is at
          report,    \* ApplyYaml's res: what became of each document
          accepted,  \* history: the steps the API server accepted
          code       \* the code of each answer

vars == <<object, served, built, known, pc, next, report, accepted, code>>
mapperVars == <<built, known>>

Init ==
    /\ object \in [Objects -> {"absent", "present"}]
    /\ \A o \in Objects : KindOf[o] \notin Core => object[o] = "absent"
    /\ served = Core
    /\ built = FALSE /\ known = {}
    /\ pc = [r \in Requests |-> "new"]
    /\ next = [r \in Requests |-> 1]
    /\ report = [r \in Requests |-> <<>>]
    /\ accepted = [r \in Requests |-> {}]
    /\ code = [r \in Requests |-> "none"]

Steps(r) == 1..Len(Plan[r])
AtStep(r, action) == Action[r] = action /\ pc[r] = "running" /\ next[r] \in Steps(r)
AtEnd(r, action) == Action[r] = action /\ pc[r] = "running" /\ next[r] \notin Steps(r)
This(r) == Plan[r][next[r]]

Finish(r, c) ==
    /\ pc' = [pc EXCEPT ![r] = "done"]
    /\ code' = [code EXCEPT ![r] = c]

Begin(r) ==
    /\ pc[r] = "new"
    /\ pc' = [pc EXCEPT ![r] = "running"]
    /\ UNCHANGED <<object, served, mapperVars, next, report, accepted, code>>

\* The API server performs the step a request is at.
Accept(r, state) ==
    /\ object' = [object EXCEPT ![This(r)] = state]
    /\ accepted' = [accepted EXCEPT ![r] = @ \cup {next[r]}]

\* It does not, or it does and the answer is lost.
Fail(r, state) ==
    \/ UNCHANGED <<object, accepted>>
    \/ object[This(r)] # "absent" /\ Accept(r, state)

-----------------------------------------------------------------------------
(* Delete.                                                                 *)

\* Foreground deletion: the object is there until its dependents are gone.
DeleteNext(r) ==
    /\ AtStep(r, "delete") /\ object[This(r)] # "absent"
    /\ Accept(r, "dying")
    /\ next' = [next EXCEPT ![r] = @ + 1]
    /\ UNCHANGED <<served, mapperVars, pc, report, code>>

\* Mutation: the loop goes on after an error.
DeleteFails_GoesOn(r) ==
    /\ AtStep(r, "delete")
    /\ Fail(r, "dying")
    /\ next' = [next EXCEPT ![r] = @ + 1]
    /\ UNCHANGED <<served, mapperVars, pc, report, code>>

DeleteFails(r) ==
    /\ AtStep(r, "delete")
    /\ Fail(r, "dying")
    /\ Finish(r, "DeleteError")
    /\ UNCHANGED <<served, mapperVars, next, report>>

DeleteEnds(r) ==
    /\ AtEnd(r, "delete")
    /\ Finish(r, "Success")
    /\ UNCHANGED <<object, served, mapperVars, next, report, accepted>>

-----------------------------------------------------------------------------
(* UpdateYaml.                                                             *)

\* The document is no YAML; or the route is that of role bindings, which share
\* it with their cluster-wide kind, and the kind is neither.
RefuseUpdate(r) ==
    /\ AtStep(r, "update") /\ This(r) = Garbage
    /\ Finish(r, "ParamsError")
    /\ UNCHANGED <<object, served, mapperVars, next, report, accepted>>

UpdateYaml(r) ==
    /\ AtStep(r, "update") /\ This(r) # Garbage
    /\ \/ /\ object[This(r)] # "absent"
          /\ Finish(r, "Success") /\ Accept(r, object[This(r)])
       \/ Finish(r, "UpdateError") /\ Fail(r, object[This(r)])
    /\ UNCHANGED <<served, mapperVars, next, report>>

-----------------------------------------------------------------------------
(* ApplyYaml.                                                              *)

Report(r, what) ==
    /\ report' = [report EXCEPT ![r] = Append(@, what)]
    /\ next' = [next EXCEPT ![r] = @ + 1]

DecodeFails(r) ==
    /\ AtStep(r, "apply") /\ This(r) = Garbage
    /\ Report(r, "undecoded")
    /\ UNCHANGED <<object, served, mapperVars, pc, accepted, code>>

\* getDelegate, on first use.  A group whose resources cannot be read is left
\* out; without the list of groups there is no delegate.
Discover(r) ==
    /\ AtStep(r, "apply") /\ This(r) # Garbage /\ ~built
    /\ built' = TRUE /\ known' \in SUBSET served
    /\ UNCHANGED <<object, served, pc, next, report, accepted, code>>

DiscoveryFails(r) ==
    /\ AtStep(r, "apply") /\ This(r) # Garbage /\ ~built
    /\ Report(r, "undiscovered")
    /\ UNCHANGED <<object, served, mapperVars, pc, accepted, code>>

\* Mutation: a miss resets the mapper (Fresh is FALSE).
MapKind_Resets(r) ==
    /\ AtStep(r, "apply") /\ This(r) # Garbage /\ built
    /\ IF KindOf[This(r)] \in known
         THEN pc' = [pc EXCEPT ![r] = "mapped"] /\ UNCHANGED <<report, next, mapperVars>>
         ELSE Report(r, "unmapped") /\ built' = FALSE /\ known' = {} /\ UNCHANGED pc
    /\ UNCHANGED <<object, served, accepted, code>>

\* Mutation: the mapper remembers a kind it was asked for, served or not.
MapKind_CachesMiss(r) ==
    /\ AtStep(r, "apply") /\ This(r) # Garbage /\ built
    /\ IF KindOf[This(r)] \in known
         THEN pc' = [pc EXCEPT ![r] = "mapped"] /\ UNCHANGED <<report, next, known>>
         ELSE Report(r, "unmapped") /\ known' = known \cup {KindOf[This(r)]} /\ UNCHANGED pc
    /\ UNCHANGED <<object, served, built, accepted, code>>

\* RESTMapping: a miss is not looked up again.
MapKind(r) ==
    /\ AtStep(r, "apply") /\ This(r) # Garbage /\ built
    /\ IF KindOf[This(r)] \in known
         THEN pc' = [pc EXCEPT ![r] = "mapped"] /\ UNCHANGED <<report, next>>
         ELSE Report(r, "unmapped") /\ UNCHANGED pc
    /\ UNCHANGED <<object, served, mapperVars, accepted, code>>

\* Server-side apply creates the object or changes it; it revives none.
Applied(o) == IF object[o] = "absent" THEN "present" ELSE object[o]

\* Mutation: the error of a refused patch is overwritten by the next one.
Patch_ErrLost(r) ==
    /\ pc[r] = "mapped"
    /\ pc' = [pc EXCEPT ![r] = "running"]
    /\ Accept(r, Applied(This(r))) \/ UNCHANGED <<object, accepted>>
    /\ Report(r, "applied")
    /\ UNCHANGED <<served, mapperVars, code>>

\* Patch: applied, or refused, or applied with its answer lost.
Patch(r) ==
    /\ pc[r] = "mapped"
    /\ pc' = [pc EXCEPT ![r] = "running"]
    /\ \/ Accept(r, Applied(This(r))) /\ (Report(r, "applied") \/ Report(r, "failed"))
       \/ UNCHANGED <<object, accepted>> /\ Report(r, "failed")
    /\ UNCHANGED <<served, mapperVars, code>>

ApplyEnds(r) ==
    /\ AtEnd(r, "apply")
    /\ Finish(r, IF \A i \in DOMAIN report[r] : report[r][i] = "applied"
                   THEN "Success" ELSE "ApplyError")
    /\ UNCHANGED <<object, served, mapperVars, next, report, accepted>>

-----------------------------------------------------------------------------
(* The cluster (external).                                                 *)

\* A custom resource definition is established.
KindAppears(k) ==
    /\ k \notin served
    /\ served' = served \cup {k}
    /\ UNCHANGED <<object, mapperVars, pc, next, report, accepted, code>>

\* The garbage collector is done with a deleted object.
Collect(o) ==
    /\ object[o] = "dying"
    /\ object' = [object EXCEPT ![o] = "absent"]
    /\ UNCHANGED <<served, mapperVars, pc, next, report, accepted, code>>

RequestStep(r) ==
    \/ DeleteNext(r) \/ DeleteFails(r) \/ DeleteEnds(r)
    \/ RefuseUpdate(r) \/ UpdateYaml(r)
    \/ DecodeFails(r) \/ Discover(r) \/ DiscoveryFails(r) \/ MapKind(r) \/ Patch(r) \/ ApplyEnds(r)

Next ==
    \/ \E r \in Requests : Begin(r) \/ RequestStep(r)
    \/ \E k \in Kinds : KindAppears(k)
    \/ \E o \in Objects : Collect(o)

Spec == Init /\ [][Next]_vars

-----------------------------------------------------------------------------
(* Properties.                                                             *)

Reports == {"undecoded", "undiscovered", "unmapped", "failed", "applied"}

\* The shape of the state.
TypeOK ==
    /\ object \in [Objects -> {"absent", "present", "dying"}]
    /\ served \in SUBSET Kinds /\ known \in SUBSET served /\ built \in BOOLEAN
    /\ pc \in [Requests -> {"new", "running", "mapped", "done"}]
    /\ next \in [Requests -> Nat] /\ \A r \in Requests : next[r] \in 1..(Len(Plan[r]) + 1)
    /\ report \in [Requests -> Seq(Reports)]
    /\ accepted \in [Requests -> SUBSET Nat]
    /\ code \in [Requests -> {"none", "Success", "ParamsError", "DeleteError",
                              "UpdateError", "ApplyError"}]

\* A Delete that fails leaves a state its answer describes: the objects before
\* the one it names are deleted, those after it untouched, the one it names
\* may be either.  Success means that all were deleted.
DeleteStopsAtFailure ==
    \A r \in Requests : Action[r] = "delete" =>
        CASE code[r] = "Success"     -> accepted[r] = Steps(r)
          [] code[r] = "DeleteError" -> accepted[r] \in {1..(next[r] - 1), 1..next[r]}
          [] OTHER                   -> accepted[r] = 1..(next[r] - 1)

\* ApplyYaml tries every document, whatever became of those before it, and
\* reports on each: what it reports as applied was, what it could not decode or
\* map was not sent.  Success means that all were applied.
ApplyReportsEachDocument ==
    \A r \in Requests : Action[r] = "apply" =>
        /\ Len(report[r]) = next[r] - 1
        /\ code[r] # "none" => Len(report[r]) = Len(Plan[r])
        /\ \A i \in DOMAIN report[r] :
              /\ report[r][i] = "applied" => i \in accepted[r]
              /\ i \in accepted[r] => report[r][i] \in {"applied", "failed"}
        /\ code[r] = "Success" => accepted[r] = Steps(r)
        /\ code[r] = "ApplyError" => \E i \in Steps(r) : report[r][i] # "applied"

\* Whether a kind can be applied is decided once, when the mapper first reads
\* what the API server serves: a kind that one request failed to map is not
\* applied by any request, before or after, however long the API server has
\* served it by then.
MappingIsFrozen ==
    \A r, q \in Requests : \A i \in DOMAIN report[r] : \A j \in DOMAIN report[q] :
        report[r][i] = "unmapped" /\ report[q][j] = "applied" =>
            KindOf[Plan[r][i]] # KindOf[Plan[q][j]]
=============================================================================
