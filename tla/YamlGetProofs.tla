--------------------------- MODULE YamlGetProofs ---------------------------
(***************************************************************************)
(* Theorems about YamlGet, for any requests and any number of versions.    *)
(***************************************************************************)
EXTENDS YamlGet, TLAPS

\* What a step does to the requests that do not take it.
LEMMA MoveType ==
    ASSUME TypeOK, NEW r \in Requests, NEW from, NEW to \in {"start", "found", "done"} \cup Encoding,
           Move(r, from, to)
    PROVE  /\ pc' \in [Requests -> {"start", "found", "done"} \cup Encoding]
           /\ pc[r] = from /\ pc'[r] = to
           /\ \A q \in Requests \ {r} : pc'[q] = pc[q]
BY DEF TypeOK, Move

\* The state of YAML GETs and their cached objects keeps its shape; in
\* particular an encoder that returned has nothing left to write.
THEOREM TypeCorrect == Spec => []TypeOK
<1> USE YamlAssumption DEF TypeOK, Requests
<1>1. Init => TypeOK
  BY DEF Init, Versions, Words, Blank
<1>2. TypeOK /\ [Next]_vars => TypeOK'
  <2> SUFFICES ASSUME TypeOK, [Next]_vars PROVE TypeOK'
    OBVIOUS
  <2>1. CASE Deliver
    <3>1. cached' \in 1..MaxVersion
      BY <2>1 DEF Deliver, Versions
    <3> QED
      BY <2>1, <3>1 DEF Deliver, Versions
  <2>2. ASSUME NEW r \in Requests, Lookup(r) PROVE TypeOK'
    <3>1. Move(r, "start", "found")
      BY <2>2 DEF Lookup
    <3> QED
      BY <2>2, <3>1, MoveType DEF Lookup, Encoding
  <2>3. ASSUME NEW y \in Yamls, Save(y) PROVE TypeOK'
    <3> USE DEF Words, Blank, Torn
    <3>1. cell[y] \in Versions /\ name[cell[y]] \in SUBSET Words
      OBVIOUS
    <3>2. rivals' \subseteq Versions
      BY <2>3, <3>1 DEF Save
    <3>3. UNCHANGED <<cached, name, cell, crashed>>
      BY <2>3 DEF Save
    <3>4. CASE Move(y, "found", "stamping") /\ UNCHANGED answer
               /\ old' = [old EXCEPT ![y] = IF "length" \in name[cell[y]] THEN name[cell[y]] ELSE Blank]
               /\ todo' = [todo EXCEPT ![y] = Words]
      <4>1. (IF "length" \in name[cell[y]] THEN name[cell[y]] ELSE Blank) \in {Blank, {"length"}, Words}
        BY <3>1
      <4>2. old' \in [Yamls -> {Blank, {"length"}, Words}]
        BY <3>4, <4>1
      <4>3. todo' \in [Yamls -> SUBSET Words]
        BY <3>4
      <4>4. \A z \in Yamls : todo'[z] # {} => pc'[z] \in {"stamping", "restoring"}
        BY <3>4, MoveType DEF Encoding
      <4> QED
        BY <3>2, <3>3, <3>4, <4>2, <4>3, <4>4, MoveType DEF Encoding
    <3>5. CASE Move(y, "found", "done") /\ UNCHANGED <<old, todo>>
               /\ answer' = [answer EXCEPT ![y] = "UnknownError"]
      BY <3>2, <3>3, <3>5, MoveType DEF Encoding
    <3> QED
      BY <2>3, <3>4, <3>5 DEF Save
  <2>4. ASSUME NEW y \in Yamls, StampWord(y) PROVE TypeOK'
    <3>1. PICK w \in todo[y] : /\ name' = [name EXCEPT ![cell[y]] = @ \cup {w}]
                               /\ todo' = [todo EXCEPT ![y] = @ \ {w}]
      BY <2>4 DEF StampWord
    <3>2. name' \in [Versions -> SUBSET Words] /\ todo' \in [Yamls -> SUBSET Words]
      BY <3>1
    <3>3. PICK to \in {"encoding", "stamping"} : /\ Move(y, "stamping", to)
                                                 /\ todo'[y] # {} => to = "stamping"
      BY <2>4 DEF StampWord
    <3>4. \A z \in Yamls : todo'[z] # {} => pc'[z] \in {"stamping", "restoring"}
      BY <3>1, <3>3, MoveType DEF Encoding
    <3> QED
      BY <2>4, <3>2, <3>3, <3>4, MoveType DEF StampWord, Encoding
  <2>5. ASSUME NEW y \in Yamls, EncodeYaml(y) PROVE TypeOK'
    <3>1. answer' \in [Requests -> {"none", "named", "nameless", "UnknownError"}]
      BY <2>5 DEF EncodeYaml, Shown
    <3>2. PICK to \in {"done", "restoring"} :
             /\ Move(y, "encoding", to)
             /\ to = "done" => UNCHANGED todo
             /\ to = "restoring" => todo' = [todo EXCEPT ![y] = Words]
      BY <2>5 DEF EncodeYaml
    <3>3. todo' \in [Yamls -> SUBSET Words]
      BY <3>2
    <3>4. \A z \in Yamls : todo'[z] # {} => pc'[z] \in {"stamping", "restoring"}
      BY <3>2, MoveType DEF Encoding
    <3> QED
      BY <2>5, <3>1, <3>2, <3>3, <3>4, MoveType DEF EncodeYaml, Encoding
  <2>6. ASSUME NEW y \in Yamls, RestoreWord(y) PROVE TypeOK'
    <3>1. PICK w \in todo[y] :
             /\ name' = [name EXCEPT ![cell[y]] = IF w \in old[y] THEN @ \cup {w} ELSE @ \ {w}]
             /\ todo' = [todo EXCEPT ![y] = @ \ {w}]
      BY <2>6 DEF RestoreWord
    <3>2. name' \in [Versions -> SUBSET Words] /\ todo' \in [Yamls -> SUBSET Words]
      BY <3>1
    <3>3. PICK to \in {"done", "restoring"} : /\ Move(y, "restoring", to)
                                              /\ todo'[y] # {} => to = "restoring"
      BY <2>6 DEF RestoreWord
    <3>4. \A z \in Yamls : todo'[z] # {} => pc'[z] \in {"stamping", "restoring"}
      BY <3>1, <3>3, MoveType DEF Encoding
    <3> QED
      BY <2>6, <3>2, <3>3, <3>4, MoveType DEF RestoreWord, Encoding
  <2>7. ASSUME NEW r \in Plains, EncodePlain(r) PROVE TypeOK'
    <3>1. Move(r, "found", "done")
      BY <2>7 DEF EncodePlain
    <3>2. answer' \in [Requests -> {"none", "named", "nameless", "UnknownError"}]
      BY <2>7 DEF EncodePlain, Shown
    <3>3. crashed' \in 0..MaxVersion
      BY <2>7 DEF EncodePlain, Versions
    <3> QED
      BY <2>7, <3>1, <3>2, <3>3, MoveType DEF EncodePlain, Encoding
  <2>8. CASE UNCHANGED vars
    BY <2>8 DEF vars
  <2> QED
    BY <2>1, <2>2, <2>3, <2>4, <2>5, <2>6, <2>7, <2>8 DEF Next
<1> QED
  BY <1>1, <1>2, PTL DEF Spec

-----------------------------------------------------------------------------
(***************************************************************************)
(* Neither property is inductive.  Where no two encoders have met, the one *)
(* inside an object is alone (LoneEncoder), found the name blank, and the  *)
(* words it has written are the words that are there (LoneWrites); so when *)
(* it leaves, the name is blank again (QuietIsBlank).  A torn name is then *)
(* in an object that somebody is inside of, and stays when the agent stops *)
(* on it (CrashIsTorn).                                                    *)
(***************************************************************************)
LoneEncoder ==
    \A y, z \in Yamls : pc[y] \in Encoding /\ z \in Inside(cell[y]) /\ cell[y] \notin rivals => y = z

LoneWrites ==
    \A y \in Yamls : pc[y] \in Encoding /\ cell[y] \notin rivals =>
        /\ old[y] = Blank
        /\ pc[y] = "stamping"  => name[cell[y]] = Words \ todo[y]
        /\ pc[y] = "encoding"  => name[cell[y]] = Words
        /\ pc[y] = "restoring" => name[cell[y]] = todo[y]

QuietIsBlank == \A v \in Versions : Inside(v) = {} /\ v \notin rivals => name[v] = Blank

CrashIsTorn == crashed # 0 => Torn(name[crashed])

StartsUnanswered == \A y \in Yamls : pc[y] = "start" => answer[y] = "none"

YamlInv == /\ LoneEncoder /\ LoneWrites /\ QuietIsBlank
           /\ CrashIsTorn /\ StartsUnanswered /\ LoneYamlIsRight

\* A step that writes no name and moves no encoder into or out of an object
\* keeps the invariant.
LEMMA Elsewhere ==
    ASSUME TypeOK, YamlInv, UNCHANGED <<name, old, todo, rivals>>, CrashIsTorn',
           \A y \in Yamls : /\ pc'[y] \in Encoding <=> pc[y] \in Encoding
                            /\ pc[y] \in Encoding => pc'[y] = pc[y]
                            /\ pc[y] # "start" => cell'[y] = cell[y]
                            /\ pc'[y] = "start" => pc[y] = "start"
                            /\ answer'[y] = answer[y]
    PROVE  YamlInv'
<1> USE DEF YamlInv
<1>1. \A v : Inside(v)' = Inside(v)
  BY DEF Inside, Encoding
<1>2. LoneEncoder'
  BY <1>1 DEF LoneEncoder, Encoding
<1>3. LoneWrites'
  BY DEF LoneWrites, Encoding
<1>4. QuietIsBlank'
  BY <1>1 DEF QuietIsBlank
<1>5. StartsUnanswered' /\ LoneYamlIsRight'
  BY DEF StartsUnanswered, LoneYamlIsRight
<1> QED
  BY <1>2, <1>3, <1>4, <1>5

\* An encoder that enters an object finds it blank, or meets another there.
LEMMA SaveKeeps ==
    ASSUME TypeOK, YamlInv, NEW y \in Yamls, Save(y)
    PROVE  YamlInv'
<1> USE YamlAssumption DEF TypeOK, Requests, Words
<1> DEFINE v == cell[y]
<1>1. v \in Versions /\ pc[y] = "found"
  BY DEF Save, Move
<1>2. /\ v \notin rivals' => Inside(v) = {} /\ v \notin rivals
      /\ \A u : u \notin rivals' => u \notin rivals
  BY DEF Save
<1>3. v \notin rivals' => name[v] = Blank
  BY <1>1, <1>2 DEF YamlInv, QuietIsBlank
<1>4. UNCHANGED <<cached, name, cell, crashed>>
  BY DEF Save
<1>5. CASE Move(y, "found", "stamping") /\ UNCHANGED answer
           /\ old' = [old EXCEPT ![y] = IF "length" \in name[v] THEN name[v] ELSE Blank]
           /\ todo' = [todo EXCEPT ![y] = Words]
  <2>1. pc' = [pc EXCEPT ![y] = "stamping"]
    BY <1>5 DEF Move
  <2>2. \A u : Inside(u)' \subseteq Inside(u) \cup {y} /\ (u # v => Inside(u)' = Inside(u))
    BY <1>4, <2>1 DEF Inside
  <2>3. LoneEncoder'
    <3> SUFFICES ASSUME NEW a \in Yamls, NEW b \in Yamls, pc'[a] \in Encoding,
                        b \in Inside(cell[a])', cell[a] \notin rivals'
                 PROVE  a = b
      BY <1>4 DEF LoneEncoder
    <3> PICK u \in Versions : u = cell[a] /\ u = cell'[a]
      BY <1>4
    <3>0. a \in Inside(u)' /\ b \in Inside(u)' /\ u \notin rivals'
      BY <1>4 DEF Inside
    <3>1. CASE u = v
      BY <3>0, <3>1, <1>2, <2>2
    <3>2. CASE u # v
      <4>1. a \in Inside(u) /\ b \in Inside(u) /\ u \notin rivals
        BY <3>0, <3>2, <1>2, <2>2
      <4> QED
        BY <4>1 DEF YamlInv, LoneEncoder, Inside
    <3> QED
      BY <3>1, <3>2
  <2>4. LoneWrites'
    <3> SUFFICES ASSUME NEW z \in Yamls, pc'[z] \in Encoding, cell[z] \notin rivals'
                 PROVE  /\ old'[z] = Blank
                        /\ pc'[z] = "stamping"  => name[cell[z]] = Words \ todo'[z]
                        /\ pc'[z] = "encoding"  => name[cell[z]] = Words
                        /\ pc'[z] = "restoring" => name[cell[z]] = todo'[z]
      BY <1>4 DEF LoneWrites
    <3>1. CASE z = y
      BY <3>1, <1>3, <1>5, <2>1 DEF Blank
    <3>2. CASE z # y
      BY <3>2, <1>2, <1>5, <2>1 DEF YamlInv, LoneWrites
    <3> QED
      BY <3>1, <3>2
  <2>5. QuietIsBlank'
    BY <1>1, <1>2, <1>3, <1>4, <2>2 DEF YamlInv, QuietIsBlank
  <2>6. CrashIsTorn' /\ StartsUnanswered' /\ LoneYamlIsRight'
    BY <1>2, <1>4, <1>5, <2>1 DEF YamlInv, CrashIsTorn, StartsUnanswered, LoneYamlIsRight
  <2> QED
    BY <2>3, <2>4, <2>5, <2>6 DEF YamlInv
<1>6. CASE Torn(name[v]) /\ Move(y, "found", "done") /\ UNCHANGED <<old, todo>>
           /\ answer' = [answer EXCEPT ![y] = "UnknownError"]
  <2>1. pc' = [pc EXCEPT ![y] = "done"] /\ v \in rivals'
    BY <1>3, <1>6 DEF Move, Torn, Blank
  <2>2. \A u : Inside(u)' = Inside(u)
    BY <1>1, <1>4, <2>1 DEF Inside, Encoding
  <2>3. LoneEncoder'
    BY <1>1, <1>2, <1>4, <2>1, <2>2 DEF YamlInv, LoneEncoder, Encoding
  <2>4. LoneWrites'
    BY <1>1, <1>2, <1>4, <1>6, <2>1 DEF YamlInv, LoneWrites, Encoding
  <2>5. QuietIsBlank'
    BY <1>2, <1>4, <2>2 DEF YamlInv, QuietIsBlank
  <2>6. CrashIsTorn' /\ StartsUnanswered' /\ LoneYamlIsRight'
    BY <1>2, <1>4, <1>6, <2>1 DEF YamlInv, CrashIsTorn, StartsUnanswered, LoneYamlIsRight
  <2> QED
    BY <2>3, <2>4, <2>5, <2>6 DEF YamlInv
<1> QED
  BY <1>5, <1>6 DEF Save

\* An encoder that is alone in its object writes what nobody else overwrites.
LEMMA StampKeeps ==
    ASSUME TypeOK, YamlInv, NEW y \in Yamls, StampWord(y)
    PROVE  YamlInv'
<1> USE YamlAssumption DEF TypeOK, Requests
<1> DEFINE v == cell[y]
<1>1. PICK w \in todo[y] : /\ name' = [name EXCEPT ![v] = @ \cup {w}]
                           /\ todo' = [todo EXCEPT ![y] = @ \ {w}]
  BY DEF StampWord
<1>2. PICK to \in {"encoding", "stamping"} :
         /\ pc[y] = "stamping" /\ pc' = [pc EXCEPT ![y] = to] /\ crashed = 0
         /\ to = "encoding" => todo'[y] = {}
  BY DEF StampWord, Move
<1>3. UNCHANGED <<cached, cell, old, answer, rivals, crashed>>
  BY DEF StampWord
<1>4. v \in Versions /\ y \in Inside(v) /\ w \in Words /\ todo[y] \subseteq Words
  BY <1>2 DEF Inside, Encoding
<1>5. \A u : Inside(u)' = Inside(u)
  BY <1>2, <1>3 DEF Inside, Encoding
<1>6. \A z \in Yamls : pc'[z] \in Encoding <=> pc[z] \in Encoding
  BY <1>2 DEF Encoding
<1>7. LoneEncoder'
  BY <1>3, <1>5, <1>6 DEF YamlInv, LoneEncoder
<1>8. LoneWrites'
  <2> SUFFICES ASSUME NEW z \in Yamls, pc[z] \in Encoding, cell[z] \notin rivals
               PROVE  /\ old[z] = Blank
                      /\ pc'[z] = "stamping"  => name'[cell[z]] = Words \ todo'[z]
                      /\ pc'[z] = "encoding"  => name'[cell[z]] = Words
                      /\ pc'[z] = "restoring" => name'[cell[z]] = todo'[z]
    BY <1>3, <1>6 DEF LoneWrites
  <2>1. CASE z = y
    <3>1. name[v] = Words \ todo[y] /\ old[y] = Blank
      BY <2>1, <1>2 DEF YamlInv, LoneWrites
    <3>2. name'[v] = Words \ todo'[y]
      BY <3>1, <1>1, <1>4
    <3> QED
      BY <2>1, <3>1, <3>2, <1>2
  <2>2. CASE z # y
    <3>1. cell[z] # v
      BY <2>2, <1>4 DEF YamlInv, LoneEncoder
    <3> QED
      BY <2>2, <3>1, <1>1, <1>2 DEF YamlInv, LoneWrites
  <2> QED
    BY <2>1, <2>2
<1>9. QuietIsBlank'
  BY <1>1, <1>3, <1>4, <1>5 DEF YamlInv, QuietIsBlank
<1>10. CrashIsTorn' /\ StartsUnanswered' /\ LoneYamlIsRight'
  BY <1>2, <1>3 DEF YamlInv, CrashIsTorn, StartsUnanswered, LoneYamlIsRight
<1> QED
  BY <1>7, <1>8, <1>9, <1>10 DEF YamlInv

\* An encoder that is alone encodes the whole name.
LEMMA EncodeKeeps ==
    ASSUME TypeOK, YamlInv, NEW y \in Yamls, EncodeYaml(y)
    PROVE  YamlInv'
<1> USE YamlAssumption DEF TypeOK, Requests
<1> DEFINE v == cell[y]
<1>1. PICK to \in {"done", "restoring"} :
         /\ pc[y] = "encoding" /\ pc' = [pc EXCEPT ![y] = to] /\ crashed = 0
         /\ to = "done" => answer'[y] = "UnknownError" /\ UNCHANGED todo
         /\ to = "restoring" => todo' = [todo EXCEPT ![y] = Words]
  BY DEF EncodeYaml, Move
<1>2. UNCHANGED <<cached, name, cell, old, rivals, crashed>>
  BY DEF EncodeYaml
<1>3. answer' = [answer EXCEPT ![y] = IF Torn(name[v]) THEN "UnknownError" ELSE Shown(name[v])]
  BY DEF EncodeYaml
<1>4. v \in Versions /\ y \in Inside(v)
  BY <1>1 DEF Inside, Encoding
<1>5. v \notin rivals => name[v] = Words /\ old[y] = Blank
  BY <1>1 DEF YamlInv, LoneWrites, Encoding
<1>6. v \notin rivals => answer'[y] = "named"
  <2>1. ~ Torn(Words)
    <3>1. "pointer" \in Words /\ "pointer" \notin {"length"}
      BY DEF Words
    <3> QED
      BY <3>1 DEF Torn
  <2> QED
    BY <2>1, <1>3, <1>5 DEF Shown
<1>7. v \notin rivals => to = "restoring"
  BY <1>1, <1>6
<1>8. \A u : Inside(u)' \subseteq Inside(u) /\ (u \notin rivals => Inside(u)' = Inside(u))
  BY <1>1, <1>2, <1>7 DEF Inside, Encoding
<1>9. \A z \in Yamls : pc'[z] \in Encoding => pc[z] \in Encoding
  BY <1>1 DEF Encoding
<1>10. LoneEncoder'
  BY <1>2, <1>8, <1>9 DEF YamlInv, LoneEncoder
<1>11. LoneWrites'
  <2> SUFFICES ASSUME NEW z \in Yamls, pc'[z] \in Encoding, cell[z] \notin rivals
               PROVE  /\ old[z] = Blank
                      /\ pc'[z] = "stamping"  => name[cell[z]] = Words \ todo'[z]
                      /\ pc'[z] = "encoding"  => name[cell[z]] = Words
                      /\ pc'[z] = "restoring" => name[cell[z]] = todo'[z]
    BY <1>2 DEF LoneWrites
  <2>1. CASE z = y
    BY <2>1, <1>1, <1>5, <1>7
  <2>2. CASE z # y
    BY <2>2, <1>1, <1>9 DEF YamlInv, LoneWrites
  <2> QED
    BY <2>1, <2>2
<1>12. QuietIsBlank'
  BY <1>2, <1>8 DEF YamlInv, QuietIsBlank
<1>13. CrashIsTorn' /\ StartsUnanswered'
  BY <1>1, <1>2, <1>3 DEF YamlInv, CrashIsTorn, StartsUnanswered
<1>14. LoneYamlIsRight'
  BY <1>2, <1>3, <1>6 DEF YamlInv, LoneYamlIsRight
<1> QED
  BY <1>10, <1>11, <1>12, <1>13, <1>14 DEF YamlInv

\* An encoder that is alone takes back the words it wrote, the last one as it leaves.
LEMMA RestoreKeeps ==
    ASSUME TypeOK, YamlInv, NEW y \in Yamls, RestoreWord(y)
    PROVE  YamlInv'
<1> USE YamlAssumption DEF TypeOK, Requests
<1> DEFINE v == cell[y]
<1>1. PICK w \in todo[y] :
         /\ name' = [name EXCEPT ![v] = IF w \in old[y] THEN @ \cup {w} ELSE @ \ {w}]
         /\ todo' = [todo EXCEPT ![y] = @ \ {w}]
  BY DEF RestoreWord
<1>2. PICK to \in {"done", "restoring"} :
         /\ pc[y] = "restoring" /\ pc' = [pc EXCEPT ![y] = to] /\ crashed = 0
         /\ to = "done" => todo'[y] = {}
  BY DEF RestoreWord, Move
<1>3. UNCHANGED <<cached, cell, old, answer, rivals, crashed>>
  BY DEF RestoreWord
<1>4. v \in Versions /\ y \in Inside(v)
  BY <1>2 DEF Inside, Encoding
<1>5. \A u : Inside(u)' \subseteq Inside(u) /\ Inside(u) \subseteq Inside(u)' \cup {y}
             /\ (u # v => Inside(u)' = Inside(u))
  BY <1>2, <1>3 DEF Inside, Encoding
<1>6. \A z \in Yamls : pc'[z] \in Encoding => pc[z] \in Encoding
  BY <1>2 DEF Encoding
<1>7. v \notin rivals => name'[v] = todo'[y] /\ old[y] = Blank
  <2> SUFFICES ASSUME v \notin rivals PROVE name'[v] = todo'[y] /\ old[y] = Blank
    OBVIOUS
  <2>1. name[v] = todo[y] /\ old[y] = Blank
    BY <1>2 DEF YamlInv, LoneWrites, Encoding
  <2> QED
    BY <2>1, <1>1, <1>4 DEF Blank
<1>8. LoneEncoder'
  BY <1>3, <1>5, <1>6 DEF YamlInv, LoneEncoder
<1>9. LoneWrites'
  <2> SUFFICES ASSUME NEW z \in Yamls, pc'[z] \in Encoding, cell[z] \notin rivals
               PROVE  /\ old[z] = Blank
                      /\ pc'[z] = "stamping"  => name'[cell[z]] = Words \ todo'[z]
                      /\ pc'[z] = "encoding"  => name'[cell[z]] = Words
                      /\ pc'[z] = "restoring" => name'[cell[z]] = todo'[z]
    BY <1>3 DEF LoneWrites
  <2>1. CASE z = y
    BY <2>1, <1>2, <1>7
  <2>2. CASE z # y
    <3>1. cell[z] # v
      BY <2>2, <1>4, <1>6 DEF YamlInv, LoneEncoder
    <3> QED
      BY <2>2, <3>1, <1>1, <1>2, <1>6 DEF YamlInv, LoneWrites
  <2> QED
    BY <2>1, <2>2
<1>10. QuietIsBlank'
  <2> SUFFICES ASSUME NEW u \in Versions, Inside(u)' = {}, u \notin rivals
               PROVE  name'[u] = Blank
    BY <1>3 DEF QuietIsBlank
  <2>1. CASE u = v
    <3>1. to = "done"
      BY <2>1, <1>2, <1>3 DEF Inside, Encoding
    <3> QED
      BY <2>1, <3>1, <1>2, <1>7 DEF Blank
  <2>2. CASE u # v
    BY <2>2, <1>1, <1>5 DEF YamlInv, QuietIsBlank
  <2> QED
    BY <2>1, <2>2
<1>11. CrashIsTorn' /\ StartsUnanswered' /\ LoneYamlIsRight'
  BY <1>2, <1>3 DEF YamlInv, CrashIsTorn, StartsUnanswered, LoneYamlIsRight
<1> QED
  BY <1>8, <1>9, <1>10, <1>11 DEF YamlInv

\* YamlInv is inductive, given the shape of the state.
THEOREM YamlInvariant == Spec => [](TypeOK /\ YamlInv)
<1> USE YamlAssumption
<1>1. Init => YamlInv
  BY DEF Init, YamlInv, LoneEncoder, LoneWrites, QuietIsBlank, CrashIsTorn, StartsUnanswered,
         LoneYamlIsRight, Requests, Encoding
<1>2. TypeOK /\ YamlInv /\ [Next]_vars => YamlInv'
  <2> SUFFICES ASSUME TypeOK, YamlInv, [Next]_vars PROVE YamlInv'
    OBVIOUS
  <2> USE DEF Requests
  <2>1. CASE Deliver
    BY <2>1, Elsewhere DEF Deliver, YamlInv, CrashIsTorn
  <2>2. ASSUME NEW r \in Requests, Lookup(r) PROVE YamlInv'
    <3>1. pc[r] = "start" /\ pc' = [pc EXCEPT ![r] = "found"] /\ cell' = [cell EXCEPT ![r] = cached]
      BY <2>2 DEF Lookup, Move
    <3>2. UNCHANGED <<name, old, todo, rivals, answer, crashed>>
      BY <2>2 DEF Lookup
    <3>3. CrashIsTorn'
      BY <3>2 DEF YamlInv, CrashIsTorn
    <3>4. \A y \in Yamls : /\ pc'[y] \in Encoding <=> pc[y] \in Encoding
                           /\ pc[y] \in Encoding => pc'[y] = pc[y]
                           /\ pc[y] # "start" => cell'[y] = cell[y]
                           /\ pc'[y] = "start" => pc[y] = "start"
      BY <3>1 DEF TypeOK, Encoding
    <3> QED
      BY <3>2, <3>3, <3>4, Elsewhere
  <2>3. ASSUME NEW y \in Yamls, Save(y) \/ StampWord(y) \/ EncodeYaml(y) \/ RestoreWord(y)
        PROVE  YamlInv'
    BY <2>3, SaveKeeps, StampKeeps, EncodeKeeps, RestoreKeeps
  <2>4. ASSUME NEW r \in Plains, EncodePlain(r) PROVE YamlInv'
    <3>1. pc' = [pc EXCEPT ![r] = "done"] /\ r \notin Yamls /\ crashed = 0
      BY <2>4 DEF EncodePlain, Move
    <3>2. UNCHANGED <<name, old, todo, rivals, cell>>
      BY <2>4 DEF EncodePlain
    <3>3. CrashIsTorn'
      BY <2>4, <3>1, <3>2 DEF EncodePlain, CrashIsTorn
    <3>4. \A y \in Yamls : pc'[y] = pc[y] /\ answer'[y] = answer[y]
      BY <2>4, <3>1 DEF EncodePlain, TypeOK
    <3> QED
      BY <3>2, <3>3, <3>4, Elsewhere
  <2>5. CASE UNCHANGED vars
    BY <2>5, Elsewhere DEF vars, YamlInv, CrashIsTorn
  <2> QED
    BY <2>1, <2>2, <2>3, <2>4, <2>5 DEF Next
<1> QED
  BY <1>1, <1>2, TypeCorrect, PTL DEF Spec

\* A YAML GET that had its object to itself answers with apiVersion and kind
\* (deployment.go:146-164 over versioning.go and helper.go).
THEOREM LoneYaml == Spec => []LoneYamlIsRight
<1>1. YamlInv => LoneYamlIsRight
  BY DEF YamlInv
<1> QED
  BY <1>1, YamlInvariant, PTL

\* The cache keeps what an encoder wrote, and the writer (websocket.go:99)
\* faults on it, only in objects that an encoder is inside of or two were.
THEOREM Traces == Spec => []OnlyRivalsLeaveTraces
<1>1. TypeOK /\ YamlInv => OnlyRivalsLeaveTraces
  BY YamlAssumption DEF TypeOK, YamlInv, QuietIsBlank, CrashIsTorn, OnlyRivalsLeaveTraces, Torn, Blank, Versions
<1> QED
  BY <1>1, YamlInvariant, PTL
=============================================================================
