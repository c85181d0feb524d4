------------------------------ MODULE YamlGet ------------------------------
(***************************************************************************)
(* GET with output=yaml of the resource readers (pkg/container/resource,   *)
(* deployment.go:146-164 and its likes) over the vendored runtime.Encode.  *)
(*                                                                         *)
(* The object a Lister returns is the one the informer's cache holds, with *)
(* a blank name (apiVersion and kind).  To encode it as YAML the vendored  *)
(* codec saves the name, writes the real one INTO THE CACHED OBJECT,       *)
(* encodes it and writes the saved name back; UpdateObj's request does the *)
(* same.  Meanwhile other handlers do so too, and the writer goroutine     *)
(* encodes the same object for plain GETs and watch events.                *)
(*                                                                         *)
(* A Go string is two words, written one after the other: whoever reads a  *)
(* length without its pointer faults.  In a handler the fault is a panic   *)
(* that doRequest recovers; in the writer nobody does and the agent stops. *)
(***************************************************************************)
EXTENDS Naturals

CONSTANTS Yamls,       \* the requests that encode a cached object with its name
          Updates,     \* those of them that are UpdateObj's, not a GET's
          Plains,      \* plain GETs and watch events about the object
          MaxVersion   \* bound: versions of the object the informer delivers

ASSUME YamlAssumption ==
    /\ Updates \subseteq Yamls
    /\ Yamls \cap Plains = {}
    /\ MaxVersion \in Nat \ {0}

VARIABLES cached,   \* the version the cache holds
          name,     \* the words of the name in the object of each version
          pc,       \* where each request stands
          cell,     \* the version whose object it points to
          old,      \* the words each YAML encoder saved
          todo,     \* the words it still has to write
          answer,   \* what each request has encoded
          rivals,   \* history: the objects two YAML encoders were inside of
          crashed   \* the version whose encoding stopped the agent, or 0

vars == <<cached, name, pc, cell, old, todo, answer, rivals, crashed>>

Requests == Yamls \cup Plains
Versions == 1..MaxVersion
Words    == {"pointer", "length"}
Blank    == {}
Torn(s)  == s = {"length"}
Shown(s) == IF s = Words THEN "named" ELSE "nameless"

Init ==
    /\ cached = 1
    /\ name = [v \in Versions |-> Blank]
    /\ pc = [r \in Requests |-> "start"]
    /\ cell = [r \in Requests |-> 1]
    /\ old = [y \in Yamls |-> Blank]
    /\ todo = [y \in Yamls |-> {}]
    /\ answer = [r \in Requests |-> "none"]
    /\ rivals = {}
    /\ crashed = 0

Move(r, from, to) == crashed = 0 /\ pc[r] = from /\ pc' = [pc EXCEPT ![r] = to]

\* The YAML encoders that are at the object of version v, and may write it.
Encoding  == {"stamping", "encoding", "restoring"}
Inside(v) == {y \in Yamls : cell[y] = v /\ pc[y] \in Encoding}

-----------------------------------------------------------------------------
\* The informer puts the next version into the cache, in a new object whose
\* name the decoder has blanked.
Deliver ==
    /\ crashed = 0 /\ cached < MaxVersion
    /\ cached' = cached + 1
    /\ UNCHANGED <<name, pc, cell, old, todo, answer, rivals, crashed>>

\* The Lister's Get, or the event of the listener: the pointer in the cache.
Lookup(r) ==
    /\ Move(r, "start", "found")
    /\ cell' = [cell EXCEPT ![r] = cached]
    /\ UNCHANGED <<cached, name, old, todo, answer, rivals, crashed>>

-----------------------------------------------------------------------------
(* A YAML encoder.                                                         *)

\* Encode begins: old := GroupVersionKind().  A torn apiVersion faults in
\* ParseGroupVersion, before there is anything to restore; a torn kind is
\* saved as it is.
Save(y) ==
    /\ \/ /\ Move(y, "found", "stamping")
          /\ old' = [old EXCEPT ![y] = IF "length" \in name[cell[y]] THEN name[cell[y]] ELSE Blank]
          /\ todo' = [todo EXCEPT ![y] = Words]
          /\ UNCHANGED answer
       \/ /\ Torn(name[cell[y]])
          /\ Move(y, "found", "done")
          /\ answer' = [answer EXCEPT ![y] = "UnknownError"]
          /\ UNCHANGED <<old, todo>>
    /\ rivals' = IF Inside(cell[y]) # {} THEN rivals \cup {cell[y]} ELSE rivals
    /\ UNCHANGED <<cached, name, cell, crashed>>

\* SetGroupVersionKind writes the two words, in whatever order they compile to.
StampWord(y) ==
    /\ \E w \in todo[y] :
          /\ name' = [name EXCEPT ![cell[y]] = @ \cup {w}]
          /\ todo' = [todo EXCEPT ![y] = @ \ {w}]
    /\ Move(y, "stamping", IF todo'[y] = {} THEN "encoding" ELSE "stamping")
    /\ UNCHANGED <<cached, cell, old, answer, rivals, crashed>>

\* Mutation: the codec encodes before it has stamped the object.
EncodeYaml_Early(y) ==
    /\ pc[y] \in {"stamping", "encoding"} /\ todo[y] # {"length"}
    /\ crashed = 0
    /\ answer' = [answer EXCEPT ![y] = Shown(name[cell[y]])]
    /\ todo' = [todo EXCEPT ![y] = Words]
    /\ pc' = [pc EXCEPT ![y] = "restoring"]
    /\ UNCHANGED <<cached, name, cell, old, rivals, crashed>>

\* The object is encoded with the name it has by now.  A torn name faults: the
\* deferred restore of a GET runs all the same, UpdateObj's encoder has none.
EncodeYaml(y) ==
    /\ answer' = [answer EXCEPT ![y] =
                     IF Torn(name[cell[y]]) THEN "UnknownError" ELSE Shown(name[cell[y]])]
    /\ IF answer'[y] = "UnknownError" /\ y \in Updates
         THEN Move(y, "encoding", "done") /\ UNCHANGED todo
         ELSE Move(y, "encoding", "restoring") /\ todo' = [todo EXCEPT ![y] = Words]
    /\ UNCHANGED <<cached, name, cell, old, rivals, crashed>>

\* Mutation: the name is not written back.
RestoreWord_None(y) ==
    /\ Move(y, "restoring", "done")
    /\ todo' = [todo EXCEPT ![y] = {}]
    /\ UNCHANGED <<cached, name, cell, old, answer, rivals, crashed>>

\* Mutation: the encoder returns while it still writes the name back.
RestoreWord_Returns(y) ==
    /\ \E w \in todo[y] :
          /\ name' = [name EXCEPT ![cell[y]] = IF w \in old[y] THEN @ \cup {w} ELSE @ \ {w}]
          /\ todo' = [todo EXCEPT ![y] = @ \ {w}]
    /\ Move(y, "restoring", "done")
    /\ UNCHANGED <<cached, cell, old, answer, rivals, crashed>>

\* SetGroupVersionKind(old), again word by word.
RestoreWord(y) ==
    /\ \E w \in todo[y] :
          /\ name' = [name EXCEPT ![cell[y]] = IF w \in old[y] THEN @ \cup {w} ELSE @ \ {w}]
          /\ todo' = [todo EXCEPT ![y] = @ \ {w}]
    /\ Move(y, "restoring", IF todo'[y] = {} THEN "done" ELSE "restoring")
    /\ UNCHANGED <<cached, cell, old, answer, rivals, crashed>>

-----------------------------------------------------------------------------
\* The writer goroutine encodes the object of a plain GET or an event, long
\* after the handler or the listener took it from the cache.
EncodePlain(r) ==
    /\ r \in Plains
    /\ Move(r, "found", "done")
    /\ IF Torn(name[cell[r]])
         THEN crashed' = cell[r] /\ UNCHANGED answer
         ELSE answer' = [answer EXCEPT ![r] = Shown(name[cell[r]])] /\ UNCHANGED crashed
    /\ UNCHANGED <<cached, name, cell, old, todo, rivals>>

Next == \/ Deliver
        \/ \E r \in Requests : Lookup(r)
        \/ \E y \in Yamls : Save(y) \/ StampWord(y) \/ EncodeYaml(y) \/ RestoreWord(y)
        \/ \E r \in Plains : EncodePlain(r)

Spec == Init /\ [][Next]_vars

-----------------------------------------------------------------------------
(* Properties.                                                             *)

\* The shape of the state; an encoder that has returned writes no more.
TypeOK ==
    /\ cached \in Versions
    /\ name \in [Versions -> SUBSET Words]
    /\ pc \in [Requests -> {"start", "found", "done"} \cup Encoding]
    /\ cell \in [Requests -> Versions]
    /\ old \in [Yamls -> {Blank, {"length"}, Words}]
    /\ todo \in [Yamls -> SUBSET Words]
    /\ answer \in [Requests -> {"none", "named", "nameless", "UnknownError"}]
    /\ rivals \subseteq Versions
    /\ crashed \in 0..MaxVersion
    /\ \A y \in Yamls : todo[y] # {} => pc[y] \in {"stamping", "restoring"}

\* A YAML GET that had the object to itself shows its apiVersion and kind and
\* does not fail: only where two encoders were inside the same cached object
\* can an answer lack them, the second one's restore having come in between.
LoneYamlIsRight ==
    \A y \in Yamls : answer[y] \in {"nameless", "UnknownError"} => cell[y] \in rivals

\* What an encoder writes into the cache is gone when it returns, and the
\* writer never meets half a name, which stops the agent, unless an encoder is
\* inside that very object or two of them were: then the name may stay, or
\* half of it, for as long as the cache holds that version.
OnlyRivalsLeaveTraces ==
    \A v \in Versions : name[v] # Blank \/ crashed = v => Inside(v) # {} \/ v \in rivals
=============================================================================
