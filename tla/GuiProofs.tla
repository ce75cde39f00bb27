------------------------------ MODULE GuiProofs ------------------------------
(***************************************************************************)
(* Proofs about the GUI: about its table of points, for every table, every *)
(* scan and any number of messages, and about what it shows of the points, *)
(* for any points and any number of polls.                                 *)
(*                                                                         *)
(* What the file holds, and when the status line may say that it was       *)
(* saved, does not depend on what a merge computes: each handler either    *)
(* leaves table, file and status line alone, or ends in a save whose       *)
(* outcome is the status, or writes a status of its own.                   *)
(*                                                                         *)
(* What an import does to the table depends on nothing else: by induction  *)
(* over what was found, a merge extends the table it was given (Grown).    *)
(* That this is the present table needs a user who waits for the scan.     *)
(*                                                                         *)
(* That the GUI and the worker tell the same story rests on the events that *)
(* are on their way: see the feed, below.                                  *)
(*                                                                         *)
(* The forms and the editor are about texts that become stored values,     *)
(* options and texts again: what a field shows tells what is stored        *)
(* (Tells), at any time, and what is stored tells what is read.            *)
(***************************************************************************)
EXTENDS Gui, NumberFacts, SequenceTheorems, TLAPS

\* The handlers that leave table, file and status line alone.
Quiet == UNCHANGED <<points, file, status>>

\* The handlers that end in a save, or do not save at all but say so.
Saves == Save
Says  == \E message \in {"loaded", "added", "cleared", "armed", "scanning", "imported"} :
            /\ status' = message
            /\ \/ UNCHANGED file
               \/ \E outcome \in Outcomes : WriteFile(outcome)

\* Each message is handled in one of the three ways.
LEMMA HandlerKinds == [Next]_vars => Quiet \/ Saves \/ Says
<1> SUFFICES ASSUME [Next]_vars
             PROVE  Quiet \/ Saves \/ Says
  OBVIOUS
<1>1. CASE UNCHANGED vars
  BY <1>1 DEF vars, config, Quiet
<1>2. CASE \E i \in DOMAIN points : EditPoint(i)
  BY <1>2 DEF EditPoint, Quiet
<1>3. CASE \E i \in DOMAIN points : DeletePoint(i)
  BY <1>3 DEF DeletePoint, Saves
<1>4. CASE \E i \in DOMAIN points : TogglePoint(i)
  BY <1>4 DEF TogglePoint, Saves
<1>5. CASE \E p \in Points : SavePoint(p)
  BY <1>5 DEF SavePoint, Saves
<1>6. CASE \E id \in Ids, tag \in Tags : AddBrowsedPoint(id, tag)
  BY <1>6 DEF AddBrowsedPoint, SaveThenSay, Says
<1>7. CASE NewPoint
  BY <1>7 DEF NewPoint, Quiet
<1>8. CASE ArmClear
  BY <1>8 DEF ArmClear, Says
<1>9. CASE Clear
  BY <1>9 DEF Clear, SaveThenSay, Says
<1>10. CASE EditMqtt
  BY <1>10 DEF EditMqtt, Quiet
<1>11. CASE SaveConfig
  BY <1>11 DEF SaveConfig, Saves
<1>12. CASE ScanAllObjects
  BY <1>12 DEF ScanAllObjects, Says
<1>13. CASE Restart
  BY <1>13 DEF Restart, Says
<1>14. CASE Tick
  <2>1. CASE results = <<>>
    BY <1>14, <2>1 DEF Tick, Quiet
  <2>2. CASE results # <<>>
    BY <1>14, <2>2 DEF Tick, SaveThenSay, Says
  <2> QED
    BY <2>1, <2>2
<1>15. CASE ScanEnds
  BY <1>15 DEF ScanEnds, config, Quiet
<1> QED
  BY <1>1, <1>2, <1>3, <1>4, <1>5, <1>6, <1>7, <1>8, <1>9, <1>10, <1>11, <1>12,
     <1>13, <1>14, <1>15 DEF Next, User

\* What a save may do to the file.
LEMMA WriteFileFacts ==
  ASSUME NEW outcome \in Outcomes, WriteFile(outcome)
  PROVE  /\ \/ file' = file
            \/ ~file'.loads
            \/ Valid(file'.points, file'.valid)
         /\ outcome = "saved" => file'.loads /\ file'.points = points'
  BY DEF WriteFile, Outcomes, Image, Broken

\* "Configuration saved" is only shown while the file holds the table.
THEOREM SavedAlways == Spec => []SavedMeansSaved
<1>1. Init => SavedMeansSaved
  BY DEF Init, SavedMeansSaved
<1>2. SavedMeansSaved /\ [Next]_vars => SavedMeansSaved'
  <2> SUFFICES ASSUME SavedMeansSaved, [Next]_vars
               PROVE  SavedMeansSaved'
    OBVIOUS
  <2>1. CASE Quiet
    BY <2>1 DEF Quiet, SavedMeansSaved
  <2>2. CASE Saves
    BY <2>2, WriteFileFacts DEF Saves, Save, SavedMeansSaved
  <2>3. CASE Says
    BY <2>3 DEF Says, SavedMeansSaved
  <2> QED
    BY <2>1, <2>2, <2>3, HandlerKinds
<1> QED
  BY <1>1, <1>2, PTL DEF Spec

\* No save replaces a valid configuration on disk by an invalid one.
THEOREM FileValidAlways == Spec => FileStaysValid
<1>1. [Next]_vars => \/ file' = file
                     \/ ~file'.loads
                     \/ Valid(file'.points, file'.valid)
  BY HandlerKinds, WriteFileFacts DEF Quiet, Saves, Save, Says
<1>2. [Next]_vars =>
        [(file.loads /\ Valid(file.points, file.valid))
           => (~file.loads \/ Valid(file.points, file.valid))']_vars
  BY <1>1 DEF Valid
<1> QED
  BY <1>2, PTL DEF Spec, FileStaysValid

-----------------------------------------------------------------------------
(* What a merge keeps. *)

\* Min is the smallest element.
LEMMA MinFacts ==
    ASSUME NEW T \in SUBSET Nat, T # {}
    PROVE  Min(T) \in T
<1>1. PICK x \in T : \A y \in T : ~(y < x)
  BY Least
<1>2. \A y \in T : x <= y
  BY <1>1
<1> QED
  BY <1>2 DEF Min

\* new is old with other tag paths and with distinct new identities appended.
Grown(old, new) ==
    /\ new \in Seq(Points)
    /\ Len(old) <= Len(new)
    /\ \A i \in 1..Len(old) : /\ new[i].id = old[i].id
                              /\ new[i].enabled = old[i].enabled
                              /\ new[i].interval = old[i].interval
    /\ \A i, j \in 1..Len(new) : (j > Len(old) /\ i # j) => new[i].id # new[j].id

\* One imported point extends the table by a new identity or changes one tag.
LEMMA MergeOneGrows ==
    ASSUME NEW old \in Seq(Points), NEW ps, Grown(old, ps),
           NEW found \in [id : Ids, tag : Tags]
    PROVE  Grown(old, MergeOne(ps, found))
<1> DEFINE new == [id |-> found.id, tag |-> found.tag, enabled |-> TRUE, interval |-> 10]
<1>1. ps \in Seq(Points) /\ new \in Points
  BY DEF Grown, Points
<1>2. CASE Positions(ps, found.id) = {}
  <2>1. \A i \in 1..Len(ps) : ps[i].id # found.id
    BY <1>1, <1>2 DEF Positions
  <2>2. MergeOne(ps, found) = Append(ps, new)
    BY <1>2 DEF MergeOne
  <2>3. /\ Append(ps, new) \in Seq(Points)
        /\ Len(Append(ps, new)) = Len(ps) + 1
        /\ \A i \in 1..Len(ps) : Append(ps, new)[i] = ps[i]
        /\ Append(ps, new)[Len(ps) + 1] = new
    BY <1>1
  <2>4. new.id = found.id
    OBVIOUS
  <2> HIDE DEF new
  <2>5. Len(old) <= Len(ps) + 1 /\ Len(old) \in Nat /\ Len(ps) \in Nat
    BY <1>1 DEF Grown
  <2>6. \A i \in 1..Len(old) : Append(ps, new)[i] = ps[i]
    BY <2>3, <2>5 DEF Grown
  <2>7. ASSUME NEW i \in 1..(Len(ps) + 1), NEW j \in 1..(Len(ps) + 1), j > Len(old), i # j
        PROVE  Append(ps, new)[i].id # Append(ps, new)[j].id
    <3>1. CASE i \in 1..Len(ps) /\ j \in 1..Len(ps)
      BY <3>1, <2>3, <2>7 DEF Grown
    <3>2. CASE i = Len(ps) + 1 /\ j \in 1..Len(ps)
      BY <3>2, <2>1, <2>3, <2>4
    <3>3. CASE j = Len(ps) + 1 /\ i \in 1..Len(ps)
      BY <3>3, <2>1, <2>3, <2>4
    <3> QED
      BY <2>5, <2>7, <3>1, <3>2, <3>3
  <2> QED
    BY <2>2, <2>3, <2>5, <2>6, <2>7 DEF Grown
<1>3. CASE Positions(ps, found.id) # {} /\ found.tag = NoTag
  BY <1>3 DEF MergeOne
<1>4. CASE Positions(ps, found.id) # {} /\ found.tag # NoTag
  <2> DEFINE place == Max(Positions(ps, found.id))
             qs == [ps EXCEPT ![place].tag = found.tag]
  <2>1. MergeOne(ps, found) = qs
    BY <1>4 DEF MergeOne
  <2> HIDE DEF place
  <2>a. DOMAIN ps = 1..Len(ps) /\ DOMAIN qs = 1..Len(ps) /\ Len(ps) \in Nat
    BY <1>1
  <2>b. ASSUME NEW i \in 1..Len(ps)
        PROVE  qs[i] = IF i = place THEN [ps[i] EXCEPT !.tag = found.tag] ELSE ps[i]
    BY <2>a
  <2>c. ASSUME NEW i \in 1..Len(ps)
        PROVE  ps[i] \in Points /\ [ps[i] EXCEPT !.tag = found.tag] \in Points
    <3>1. ps[i] \in Points
      BY <1>1
    <3> QED
      BY <3>1 DEF Points
  <2>2. qs \in Seq(Points) /\ Len(qs) = Len(ps)
    <3>1. \A i \in 1..Len(ps) : qs[i] \in Points
      BY <2>b, <2>c
    <3>2. qs = [i \in 1..Len(ps) |-> qs[i]]
      BY <2>a
    <3> HIDE DEF qs
    <3>3. qs \in [1..Len(ps) -> Points]
      BY <3>1, <3>2
    <3> QED
      BY <3>3, <2>a
  <2>3. ASSUME NEW i \in 1..Len(ps)
        PROVE  qs[i].id = ps[i].id /\ qs[i].enabled = ps[i].enabled /\ qs[i].interval = ps[i].interval
    <3>1. ps[i] \in Points
      BY <2>c
    <3> QED
      BY <3>1, <2>b DEF Points
  <2> HIDE DEF qs
  <2>4. Len(old) \in Nat /\ Len(ps) \in Nat /\ Len(old) <= Len(ps)
    BY <1>1 DEF Grown
  <2>5. \A i \in 1..Len(old) : i \in 1..Len(ps)
    BY <2>4
  <2> QED
    BY <2>1, <2>2, <2>3, <2>4, <2>5 DEF Grown
<1> QED
  BY <1>2, <1>3, <1>4

IsMerge(existing, imported, f) ==
    f = [n \in 0..Len(imported) |->
            IF n = 0 THEN existing ELSE MergeOne(f[n - 1], imported[n])]

\* A table with one point merged in is a table.
LEMMA MergeOneType ==
    ASSUME NEW ps \in Seq(Points), NEW found \in [id : Ids, tag : Tags]
    PROVE  MergeOne(ps, found) \in Seq(Points)
<1>1. Grown(ps, ps)
  BY DEF Grown
<1> QED
  BY <1>1, MergeOneGrows DEF Grown

\* A merge grows the table it was given.
LEMMA MergeGrows ==
    ASSUME NEW existing \in Seq(Points), NEW imported \in Seq([id : Ids, tag : Tags])
    PROVE  Grown(existing, Merge(existing, imported))
<1>1. Len(imported) \in Nat
  OBVIOUS
<1> DEFINE step == [n \in 1..Len(imported) |->
                      [ps \in Seq(Points) |-> MergeOne(ps, imported[n])]]
<1>a. \A n \in 1..Len(imported) : imported[n] \in [id : Ids, tag : Tags]
  BY ElementOfSeq, Zenon
<1>2. \E f : IsMerge(existing, imported, f)
  <2>1. step \in [1..Len(imported) -> [Seq(Points) -> Seq(Points)]]
    <3>1. ASSUME NEW n \in 1..Len(imported)
          PROVE  [ps \in Seq(Points) |-> MergeOne(ps, imported[n])] \in [Seq(Points) -> Seq(Points)]
      BY <1>a, MergeOneType, Zenon
    <3> QED
      BY <3>1, Zenon
  <2>2. PICK f \in [0..Len(imported) -> Seq(Points)] : Steps(f, existing, step, Len(imported))
    <3> HIDE DEF step
    <3> QED
      BY <1>1, <2>1, Recursion, Zenon
  <2>3. ASSUME NEW n \in 1..Len(imported)
        PROVE  f[n] = MergeOne(f[n - 1], imported[n])
    <3>1. f[n - 1] \in Seq(Points)
      <4>1. n - 1 \in 0..Len(imported)
        BY <1>1
      <4> QED
        BY <4>1, Zenon
    <3>2. f[n] = step[n][f[n - 1]]
      BY <2>2 DEF Steps
    <3>3. step[n][f[n - 1]] = MergeOne(f[n - 1], imported[n])
      BY <3>1, Zenon
    <3> QED
      BY <3>2, <3>3
  <2>4. f[0] = existing
    BY <2>2 DEF Steps
  <2> QED
    BY <1>1, <2>3, <2>4 DEF IsMerge
<1> DEFINE merged[n \in 0..Len(imported)] ==
             IF n = 0 THEN existing ELSE MergeOne(merged[n - 1], imported[n])
<1>3. IsMerge(existing, imported, merged)
  <2>1. merged = CHOOSE f : IsMerge(existing, imported, f)
    BY DEF IsMerge
  <2> QED
    BY <2>1, <1>2
<1>4. Merge(existing, imported) = merged[Len(imported)]
  BY DEF Merge
<1> HIDE DEF merged, step
<1> DEFINE T == {n \in 0..Len(imported) : Grown(existing, merged[n])}
<1>5. 0 \in T
  <2>1. merged[0] = existing
    BY <1>1, <1>3 DEF IsMerge
  <2>2. Grown(existing, existing)
    BY DEF Grown
  <2> QED
    BY <1>1, <2>1, <2>2
<1>6. ASSUME NEW n \in 0..(Len(imported) - 1), n \in T
      PROVE  n + 1 \in T
  <2>1. n + 1 \in 1..Len(imported) /\ (n + 1) - 1 = n /\ n + 1 # 0 /\ n + 1 \in 0..Len(imported)
    BY <1>1
  <2>2. merged[n + 1] = MergeOne(merged[n], imported[n + 1])
    BY <1>3, <2>1 DEF IsMerge
  <2>3. imported[n + 1] \in [id : Ids, tag : Tags]
    BY <2>1, <1>a, Zenon
  <2>4. Grown(existing, merged[n])
    BY <1>6
  <2>5. Grown(existing, MergeOne(merged[n], imported[n + 1]))
    BY <2>3, <2>4, MergeOneGrows
  <2> QED
    BY <2>1, <2>2, <2>5
<1> HIDE DEF T
<1>7. \A n \in 0..Len(imported) : n \in T
  BY <1>1, <1>5, <1>6, Induction
<1>8. Len(imported) \in T
  BY <1>1, <1>7
<1> QED
  BY <1>4, <1>8 DEF T

-----------------------------------------------------------------------------
(* Types. *)

Files == [points : Seq(Points), valid : BOOLEAN, loads : BOOLEAN]

\* Taking an element out of a sequence leaves a sequence that is one shorter.
LEMMA WithoutFacts ==
    ASSUME NEW S, NEW s \in Seq(S), NEW k \in DOMAIN s
    PROVE  /\ Without(s, k) \in Seq(S)
           /\ Len(Without(s, k)) = Len(s) - 1
<1>1. Len(s) \in Nat /\ k \in 1..Len(s) /\ Len(s) - 1 \in Nat
  OBVIOUS
<1>2. ASSUME NEW j \in 1..(Len(s) - 1)
      PROVE  s[IF j < k THEN j ELSE j + 1] \in S
  <2>1. (IF j < k THEN j ELSE j + 1) \in 1..Len(s)
    BY <1>1
  <2> QED
    BY <2>1, ElementOfSeq, Zenon
<1>3. Without(s, k) \in [1..(Len(s) - 1) -> S]
  BY <1>2, Zenon DEF Without
<1> QED
  BY <1>1, <1>3

\* A save leaves a file of points.
LEMMA WriteTypes ==
    ASSUME file \in Files, points' \in Seq(Points), mqttValid' \in BOOLEAN,
           NEW outcome \in Outcomes, WriteFile(outcome)
    PROVE  file' \in Files
<1>1. Image(points', mqttValid') \in Files
  BY DEF Image, Files
<1>2. Broken \in Files
  BY DEF Broken, Files
<1> QED
  BY <1>1, <1>2 DEF WriteFile

Statuses == Outcomes \cup {"loaded", "added", "cleared", "armed", "scanning", "imported"}

\* TypeOK, with the configuration apart from the scans and from the rest.
ConfigTypes == points \in Seq(Points) /\ mqttValid \in BOOLEAN /\ file \in Files
ScanTypes ==
    /\ jobs \in Seq(Seq(Points)) /\ results \in Seq(Seq(Points))
    /\ Len(jobs) + Len(results) <= MaxScans
    /\ draining \in BOOLEAN
EditorTypes ==
    /\ status \in Statuses
    /\ editing \in Nat /\ loaded \in Ids
    /\ armed \in BOOLEAN
UserTypes == messages \in 0..MaxMessages /\ sender \in {"user", "timer"}

\* The type invariant, by the parts that a message changes.
LEMMA TypeParts == TypeOK <=> ConfigTypes /\ ScanTypes /\ EditorTypes /\ UserTypes
  BY DEF TypeOK, ConfigTypes, ScanTypes, EditorTypes, UserTypes, Files, Statuses

\* At the start the table is that of the file.
LEMMA InitTypes == Init => TypeOK
<1> SUFFICES ASSUME Init
             PROVE  TypeOK
  OBVIOUS
<1>1. points \in Seq(Points) /\ mqttValid \in BOOLEAN
  BY TableAssumption, Zenon DEF Init, Points
<1>2. file \in Files
  BY <1>1 DEF Init, Image, Files
<1>3. loaded \in Ids
  <2>1. (CHOOSE i \in Ids : TRUE) \in Ids
    BY TableAssumption
  <2> QED
    BY <2>1 DEF Init
<1>4. ScanTypes
  <2>1. jobs = <<>> /\ results = <<>> /\ draining \in BOOLEAN
    BY Zenon DEF Init
  <2> QED
    BY <2>1, TableAssumption DEF ScanTypes
<1>5. EditorTypes /\ UserTypes
  <2>1. armed \in BOOLEAN
    BY Zenon DEF Init
  <2> QED
    BY <1>3, <2>1, TableAssumption DEF Init, EditorTypes, UserTypes, Statuses
<1> QED
  BY <1>1, <1>2, <1>4, <1>5, TypeParts DEF ConfigTypes

\* The table stays a table.
LEMMA UpsertFacts ==
    ASSUME points \in Seq(Points), NEW new \in Points, upsert_point(new)
    PROVE  /\ points' \in Seq(Points)
           /\ \A i \in DOMAIN points : i \in DOMAIN points' /\ points'[i].id = points[i].id
<1>1. CASE Positions(points, new.id) = {}
  BY <1>1 DEF upsert_point
<1>2. CASE Positions(points, new.id) # {}
  <2> DEFINE place == Min(Positions(points, new.id))
  <2>1. place \in DOMAIN points /\ points[place].id = new.id
    <3>1. Positions(points, new.id) \in SUBSET Nat
      BY DEF Positions
    <3>2. place \in Positions(points, new.id)
      BY <3>1, <1>2, MinFacts
    <3> QED
      BY <3>2 DEF Positions
  <2>2. points' = [points EXCEPT ![place] = new]
    BY <1>2 DEF upsert_point
  <2> QED
    BY <2>1, <2>2
<1> QED
  BY <1>1, <1>2

\* Every message keeps the types of table and file.
LEMMA ConfigStep ==
    ASSUME TypeOK, [Next]_vars
    PROVE  ConfigTypes'
<1>0. ConfigTypes /\ ScanTypes /\ EditorTypes
  BY TypeParts
<1>1. ASSUME points' \in Seq(Points), mqttValid' = mqttValid, Save
      PROVE  ConfigTypes'
  BY <1>0, <1>1, WriteTypes DEF Save, ConfigTypes
<1>2. ASSUME points' \in Seq(Points), mqttValid' = mqttValid, NEW m, SaveThenSay(m)
      PROVE  ConfigTypes'
  BY <1>0, <1>2, WriteTypes DEF SaveThenSay, ConfigTypes
<1>3. CASE UNCHANGED <<points, mqttValid, file>>
  BY <1>0, <1>3 DEF ConfigTypes
<1>4. CASE UNCHANGED vars
  BY <1>3, <1>4 DEF vars, config
<1>5. CASE (\E i \in DOMAIN points : EditPoint(i)) \/ NewPoint \/ ArmClear \/ ScanAllObjects \/ ScanEnds
  BY <1>3, <1>5 DEF EditPoint, NewPoint, ArmClear, ScanAllObjects, ScanEnds, Kept, config
<1>6. CASE EditMqtt
  BY <1>0, <1>6 DEF EditMqtt, ConfigTypes
<1>7. ASSUME NEW i \in DOMAIN points, DeletePoint(i)
      PROVE  ConfigTypes'
  BY <1>0, <1>1, <1>7, WithoutFacts DEF DeletePoint, Kept, ConfigTypes
<1>8. ASSUME NEW i \in DOMAIN points, TogglePoint(i)
      PROVE  ConfigTypes'
  <2>1. points[i] \in Points /\ [points[i] EXCEPT !.enabled = ~points[i].enabled] \in Points
    <3>1. points[i] \in Points
      BY <1>0 DEF ConfigTypes
    <3> QED
      BY <3>1 DEF Points
  <2>2. points' \in Seq(Points)
    BY <1>0, <1>8, <2>1 DEF TogglePoint, ConfigTypes
  <2> QED
    BY <1>1, <1>8, <2>2 DEF TogglePoint, Kept
<1>9. ASSUME NEW p \in Points, SavePoint(p)
      PROVE  ConfigTypes'
  <2>1. points' \in Seq(Points)
    BY <1>0, <1>9 DEF SavePoint, ConfigTypes
  <2> QED
    BY <1>1, <1>9, <2>1 DEF SavePoint, Kept
<1>10. ASSUME NEW id \in Ids, NEW tag \in Tags, AddBrowsedPoint(id, tag)
       PROVE  ConfigTypes'
  <2>1. [id |-> id, tag |-> tag, enabled |-> TRUE, interval |-> 10] \in Points
    BY DEF Points
  <2>2. points' \in Seq(Points)
    BY <1>0, <1>10, <2>1, UpsertFacts, Zenon DEF AddBrowsedPoint, ConfigTypes
  <2> QED
    BY <1>2, <1>10, <2>2 DEF AddBrowsedPoint, Kept
<1>11. CASE Clear
  <2>1. points' \in Seq(Points)
    BY <1>11 DEF Clear
  <2> QED
    BY <1>2, <1>11, <2>1 DEF Clear, Kept
<1>12. CASE SaveConfig
  BY <1>0, <1>1, <1>12 DEF SaveConfig, Kept, ConfigTypes
<1>13. CASE Restart
  BY <1>0, <1>13 DEF Restart, ConfigTypes, Files
<1>14. CASE Tick
  <2>1. CASE results = <<>>
    BY <2>1, <1>3, <1>14 DEF Tick
  <2>2. CASE results # <<>>
    <3>1. Head(results) \in Seq(Points)
      BY <2>2, <1>0, HeadTailProperties, Zenon DEF ScanTypes
    <3> QED
      BY <3>1, <2>2, <1>2, <1>14 DEF Tick
  <2> QED
    BY <2>1, <2>2
<1> QED
  BY <1>4, <1>5, <1>6, <1>7, <1>8, <1>9, <1>10, <1>11, <1>12, <1>13, <1>14 DEF Next, User

\* No more scans are outstanding than may be, and each has a table.
LEMMA ScanStep ==
    ASSUME TypeOK, [Next]_vars
    PROVE  ScanTypes'
<1>0. ConfigTypes /\ ScanTypes
  BY TypeParts
<1>1. CASE UNCHANGED scans
  BY <1>0, <1>1 DEF ScanTypes, scans
<1>2. CASE UNCHANGED vars
  BY <1>1, <1>2 DEF vars
<1>3. CASE \E i \in DOMAIN points : EditPoint(i) \/ DeletePoint(i) \/ TogglePoint(i)
  BY <1>1, <1>3 DEF EditPoint, DeletePoint, TogglePoint, Kept
<1>4. CASE \/ \E p \in Points : SavePoint(p)
           \/ \E id \in Ids, tag \in Tags : AddBrowsedPoint(id, tag)
  BY <1>1, <1>4 DEF SavePoint, AddBrowsedPoint, Kept
<1>5. CASE NewPoint \/ ArmClear \/ Clear \/ EditMqtt \/ SaveConfig
  BY <1>1, <1>5 DEF NewPoint, ArmClear, Clear, EditMqtt, SaveConfig, Kept
<1>6. CASE ScanAllObjects
  BY <1>0, <1>6, TableAssumption DEF ScanAllObjects, ScanTypes, ConfigTypes
<1>7. CASE Restart
  BY <1>0, <1>7, TableAssumption DEF Restart, ScanTypes
<1>8. CASE Tick
  <2>1. draining' \in BOOLEAN /\ jobs' = jobs
    BY <1>8 DEF Tick
  <2>2. CASE results = <<>>
    BY <2>1, <2>2, <1>0, <1>8 DEF Tick, ScanTypes
  <2>3. CASE results # <<>>
    <3>1. results' \in Seq(Seq(Points)) /\ Len(results') = Len(results) - 1
      BY <2>3, <1>0, <1>8, HeadTailProperties, Zenon DEF Tick, ScanTypes
    <3>2. Len(results) \in Nat /\ Len(jobs) \in Nat
      BY <1>0 DEF ScanTypes
    <3> QED
      BY <1>0, <2>1, <3>1, <3>2, TableAssumption DEF ScanTypes
  <2> QED
    BY <2>2, <2>3
<1>9. CASE ScanEnds
  <2>1. PICK k \in DOMAIN jobs, found \in Finds :
          /\ jobs' = Without(jobs, k)
          /\ results' = Append(results, Merge(jobs[k], found))
    BY <1>9 DEF ScanEnds
  <2>2. Merge(jobs[k], found) \in Seq(Points)
    <3>1. jobs[k] \in Seq(Points)
      BY <1>0, ElementOfSeq, LenProperties, Zenon DEF ScanTypes
    <3>2. found \in Seq([id : Ids, tag : Tags])
      BY TableAssumption
    <3> QED
      BY <3>1, <3>2, MergeGrows DEF Grown
  <2>3. jobs' \in Seq(Seq(Points)) /\ Len(jobs') = Len(jobs) - 1
    BY <1>0, <2>1, WithoutFacts DEF ScanTypes
  <2>4. results' \in Seq(Seq(Points)) /\ Len(results') = Len(results) + 1
    BY <1>0, <2>1, <2>2, AppendProperties, Zenon DEF ScanTypes
  <2>5. Len(results) \in Nat /\ Len(jobs) \in Nat
    BY <1>0 DEF ScanTypes
  <2>6. draining' = draining
    BY <1>9 DEF ScanEnds
  <2> QED
    BY <1>0, <2>3, <2>4, <2>5, <2>6, TableAssumption DEF ScanTypes
<1> QED
  BY <1>2, <1>3, <1>4, <1>5, <1>6, <1>7, <1>8, <1>9 DEF Next, User

\* The editor, the status line and the messages.
LEMMA EditorStep ==
    ASSUME TypeOK, [Next]_vars
    PROVE  EditorTypes' /\ UserTypes'
<1>0. ConfigTypes /\ EditorTypes /\ UserTypes
  BY TypeParts
<1>1. ASSUME UserMessage
      PROVE  UserTypes'
  BY <1>0, <1>1, TableAssumption DEF UserMessage, UserTypes
<1>2. ASSUME UNCHANGED <<messages, sender>> \/ (messages' = messages /\ sender' = "timer")
      PROVE  UserTypes'
  BY <1>0, <1>2 DEF UserTypes
<1>3. Statuses = Outcomes \cup {"loaded", "added", "cleared", "armed", "scanning", "imported"}
  BY DEF Statuses
<1>4. ASSUME status' \in Statuses, editing' = editing \/ editing' = 0, loaded' = loaded,
             armed' \in BOOLEAN
      PROVE  EditorTypes'
  BY <1>0, <1>4 DEF EditorTypes
<1>5. status \in Statuses /\ armed \in BOOLEAN
  BY <1>0 DEF EditorTypes
<1>6. CASE UNCHANGED vars
  BY <1>0, <1>6 DEF vars, editor, EditorTypes, UserTypes
<1>7. CASE \E i \in DOMAIN points : EditPoint(i)
  <2>1. PICK i \in DOMAIN points : EditPoint(i)
    BY <1>7
  <2>2. i \in Nat /\ points[i] \in Points
    BY <1>0 DEF ConfigTypes
  <2>3. points[i].id \in Ids
    BY <2>2 DEF Points
  <2> QED
    BY <1>0, <1>1, <2>1, <2>2, <2>3 DEF EditPoint, Disarm, EditorTypes
<1>8. CASE \E i \in DOMAIN points : DeletePoint(i) \/ TogglePoint(i)
  BY <1>1, <1>3, <1>4, <1>8
  DEF DeletePoint, TogglePoint, TableMessage, Disarm, ResetEditor, editor, Save
<1>9. CASE \E p \in Points : SavePoint(p)
  BY <1>1, <1>3, <1>4, <1>9 DEF SavePoint, TableMessage, Disarm, ResetEditor, Save
<1>10. CASE \E id \in Ids, tag \in Tags : AddBrowsedPoint(id, tag)
  BY <1>1, <1>3, <1>4, <1>10 DEF AddBrowsedPoint, TableMessage, Disarm, editor, SaveThenSay
<1>11. CASE NewPoint
  BY <1>1, <1>4, <1>5, <1>11 DEF NewPoint, Disarm, ResetEditor
<1>12. CASE ArmClear \/ Clear
  BY <1>1, <1>3, <1>4, <1>12
  DEF ArmClear, Clear, TableMessage, Disarm, ResetEditor, editor, SaveThenSay
<1>13. CASE EditMqtt \/ SaveConfig
  BY <1>1, <1>3, <1>4, <1>5, <1>13 DEF EditMqtt, SaveConfig, Disarm, editor, Save
<1>14. CASE ScanAllObjects \/ Restart
  BY <1>1, <1>3, <1>4, <1>5, <1>14
  DEF ScanAllObjects, Restart, TableMessage, Disarm, ResetEditor, editor
<1>15. CASE Tick
  BY <1>2, <1>3, <1>4, <1>5, <1>15 DEF Tick, Disarm, editor, SaveThenSay
<1>16. CASE ScanEnds
  BY <1>2, <1>4, <1>5, <1>16 DEF ScanEnds, editor
<1> QED
  BY <1>6, <1>7, <1>8, <1>9, <1>10, <1>11, <1>12, <1>13, <1>14, <1>15, <1>16 DEF Next, User

\* The table, the file and what the scans carry are always tables of points,
\* and no more scans are outstanding than MaxScans.
THEOREM TableTypesAlways == Spec => []TypeOK
<1>1. TypeOK /\ [Next]_vars => TypeOK'
  <2>1. TypeOK' <=> ConfigTypes' /\ ScanTypes' /\ EditorTypes' /\ UserTypes'
    BY DEF TypeOK, ConfigTypes, ScanTypes, EditorTypes, UserTypes, Files, Statuses
  <2> QED
    BY <2>1, ConfigStep, ScanStep, EditorStep
<1> QED
  BY <1>1, InitTypes, PTL DEF Spec

-----------------------------------------------------------------------------
(* A user who waits for a running scan before the table is changed.        *)

\* What outstanding scans were given, or found, belongs to the present table.
Outstanding ==
    /\ Len(jobs) + Len(results) <= 1
    /\ \A k \in DOMAIN jobs : jobs[k] = points
    /\ \A k \in DOMAIN results : Grown(points, results[k])

TableInv == TypeOK /\ Outstanding /\ EditorNamesLoaded

\* Each message keeps what is known of the scan that is outstanding.
LEMMA OutstandingStep ==
    ASSUME ~EditDuringScan, TableInv, [Next]_vars
    PROVE  Outstanding'
<1>0. ConfigTypes /\ ScanTypes /\ Outstanding
  BY TypeParts DEF TableInv
<1>a. Len(jobs) \in Nat /\ Len(results) \in Nat /\ Len(jobs) + Len(results) <= 1
  <2>1. Len(jobs) \in Nat /\ Len(results) \in Nat
    BY <1>0, LenProperties, Zenon DEF ScanTypes
  <2> QED
    BY <2>1, <1>0 DEF Outstanding
<1>1. ASSUME UNCHANGED <<points, scans>>
      PROVE  Outstanding'
  BY <1>0, <1>1 DEF scans, Outstanding, Grown
<1>2. ASSUME jobs' = <<>>, results' = <<>>
      PROVE  Outstanding'
  BY <1>2 DEF Outstanding
<1>3. ASSUME TableMessage
      PROVE  jobs = <<>> /\ results = <<>>
  BY <1>3 DEF TableMessage
<1>4. CASE UNCHANGED vars
  BY <1>1, <1>4 DEF vars, config
<1>5. CASE \E i \in DOMAIN points : EditPoint(i)
  BY <1>1, <1>5 DEF EditPoint, Kept
<1>6. CASE \E i \in DOMAIN points : DeletePoint(i) \/ TogglePoint(i)
  BY <1>2, <1>3, <1>6 DEF DeletePoint, TogglePoint, Kept, scans
<1>7. CASE \/ \E p \in Points : SavePoint(p)
           \/ \E id \in Ids, tag \in Tags : AddBrowsedPoint(id, tag)
           \/ Clear
  BY <1>2, <1>3, <1>7 DEF SavePoint, AddBrowsedPoint, Clear, Kept, scans
<1>8. CASE NewPoint \/ ArmClear \/ EditMqtt \/ SaveConfig
  BY <1>1, <1>8 DEF NewPoint, ArmClear, EditMqtt, SaveConfig, Kept
<1>9. CASE ScanAllObjects
  <2>1. points' = points /\ jobs' = <<points>> /\ results' = <<>>
    BY <1>3, <1>9 DEF ScanAllObjects, config
  <2> QED
    BY <2>1 DEF Outstanding
<1>10. CASE Restart
  BY <1>2, <1>10 DEF Restart
<1>11. CASE Tick
  <2>1. CASE results = <<>>
    <3>1. UNCHANGED <<points, jobs, results>>
      BY <2>1, <1>11 DEF Tick
    <3> QED
      BY <3>1, <1>0 DEF Outstanding, Grown
  <2>2. CASE results # <<>>
    <3>1. results' = Tail(results) /\ jobs' = jobs
      BY <2>2, <1>11 DEF Tick
    <3>2. Len(results) # 0
      BY <1>0, <2>2, EmptySeq, Zenon DEF ScanTypes
    <3>3. Len(results) = 1 /\ Len(jobs) = 0
      BY <1>a, <3>2
    <3>4. jobs = <<>>
      BY <1>0, <3>3, EmptySeq, Zenon DEF ScanTypes
    <3>5. results' \in Seq(Seq(Points)) /\ Len(results') = 0
      BY <2>2, <3>1, <3>3, <1>0, HeadTailProperties DEF ScanTypes
    <3>6. results' = <<>>
      BY <3>5, EmptySeq, Zenon
    <3> QED
      BY <1>2, <3>1, <3>4, <3>6
  <2> QED
    BY <2>1, <2>2
<1>12. CASE ScanEnds
  <2>1. PICK k \in DOMAIN jobs, found \in Finds :
          /\ jobs' = Without(jobs, k)
          /\ results' = Append(results, Merge(jobs[k], found))
    BY <1>12 DEF ScanEnds
  <2>2. points' = points
    BY <1>12 DEF ScanEnds, config
  <2>3. /\ Len(results) \in Nat /\ Len(jobs) \in Nat /\ k \in 1..Len(jobs)
        /\ jobs \in Seq(Seq(Points)) /\ results \in Seq(Seq(Points))
    BY <1>0 DEF ScanTypes
  <2>4. Len(results) = 0 /\ Len(jobs) = 1
    <3>1. k \in 1..Len(jobs)
      BY <2>3
    <3>2. \A a, b \in Nat : (a + b <= 1 /\ k \in 1..a) => b = 0 /\ a = 1
      OBVIOUS
    <3> QED
      BY <1>a, <3>1, <3>2, Zenon
  <2>5. results = <<>>
    BY <2>3, <2>4, EmptySeq, Zenon
  <2>6. Grown(points, Merge(jobs[k], found))
    <3>1. jobs[k] = points /\ points \in Seq(Points)
      BY <1>0, <2>1 DEF Outstanding, ConfigTypes
    <3>2. found \in Seq([id : Ids, tag : Tags])
      BY TableAssumption
    <3> QED
      BY <3>1, <3>2, MergeGrows
  <2>7. jobs' \in Seq(Seq(Points)) /\ Len(jobs') = 0
    <3>1. Without(jobs, k) \in Seq(Seq(Points)) /\ Len(Without(jobs, k)) = Len(jobs) - 1
      BY <2>3, WithoutFacts, Zenon
    <3> QED
      BY <2>1, <2>4, <3>1
  <2>8. results' = <<Merge(jobs[k], found)>>
    BY <2>1, <2>5
  <2>9. DOMAIN jobs' = {}
    BY <2>7
  <2> QED
    BY <2>2, <2>6, <2>7, <2>8, <2>9 DEF Outstanding, Grown
<1> QED
  BY <1>4, <1>5, <1>6, <1>7, <1>8, <1>9, <1>10, <1>11, <1>12 DEF Next, User

\* The import of a Tick is the present table, grown.
LEMMA ImportGrows ==
    ASSUME TableInv, Tick, results # <<>>
    PROVE  Grown(points, points')
<1>1. results \in Seq(Seq(Points)) /\ Outstanding
  BY DEF TableInv, TypeOK
<1>2. points' = results[1] /\ 1 \in DOMAIN results
  BY <1>1, HeadTailProperties DEF Tick
<1> QED
  BY <1>1, <1>2 DEF Outstanding

\* Each message leaves an open editor on the point it was opened for.
LEMMA EditorNamesStep ==
    ASSUME TableInv, [Next]_vars
    PROVE  EditorNamesLoaded'
<1>0. points \in Seq(Points) /\ editing \in Nat /\ EditorNamesLoaded
  BY DEF TableInv, TypeOK
<1>1. ASSUME editing' = 0
      PROVE  EditorNamesLoaded'
  BY <1>1 DEF EditorNamesLoaded
<1>2. ASSUME UNCHANGED editor,
             \A i \in DOMAIN points : i \in DOMAIN points' /\ points'[i].id = points[i].id
      PROVE  EditorNamesLoaded'
  BY <1>0, <1>2 DEF EditorNamesLoaded, editor
<1>3. CASE UNCHANGED vars
  BY <1>2, <1>3 DEF vars, config
<1>4. CASE \E i \in DOMAIN points : EditPoint(i)
  BY <1>4 DEF EditPoint, EditorNamesLoaded
<1>5. CASE \E i \in DOMAIN points : DeletePoint(i)
  BY <1>1, <1>5 DEF DeletePoint, ResetEditor
<1>6. ASSUME NEW i \in DOMAIN points, TogglePoint(i)
      PROVE  EditorNamesLoaded'
  <2>1. points' = [points EXCEPT ![i] = [points[i] EXCEPT !.enabled = ~points[i].enabled]]
    BY <1>6 DEF TogglePoint
  <2>2. points[i] \in Points
    BY <1>0
  <2>3. [points[i] EXCEPT !.enabled = ~points[i].enabled].id = points[i].id
    BY <2>2 DEF Points
  <2> QED
    BY <1>0, <1>2, <1>6, <2>1, <2>3 DEF TogglePoint
<1>7. CASE \E p \in Points : SavePoint(p)
  BY <1>1, <1>7 DEF SavePoint, ResetEditor
<1>8. ASSUME NEW id \in Ids, NEW tag \in Tags, AddBrowsedPoint(id, tag)
      PROVE  EditorNamesLoaded'
  <2>1. [id |-> id, tag |-> tag, enabled |-> TRUE, interval |-> 10] \in Points
    BY DEF Points
  <2> QED
    BY <1>0, <1>2, <1>8, <2>1, UpsertFacts, Zenon DEF AddBrowsedPoint
<1>9. CASE NewPoint \/ Clear \/ Restart
  BY <1>1, <1>9 DEF NewPoint, Clear, Restart, ResetEditor
<1>10. CASE ArmClear \/ EditMqtt \/ SaveConfig
  BY <1>2, <1>10 DEF ArmClear, EditMqtt, SaveConfig
<1>11. CASE ScanAllObjects \/ ScanEnds
  BY <1>2, <1>11 DEF ScanAllObjects, ScanEnds, config
<1>12. CASE Tick
  <2>1. CASE results = <<>>
    BY <2>1, <1>2, <1>12 DEF Tick
  <2>2. CASE results # <<>>
    <3>1. Grown(points, points')
      BY <2>2, <1>12, ImportGrows
    <3>2. \A i \in DOMAIN points : i \in DOMAIN points' /\ points'[i].id = points[i].id
      BY <3>1, <1>0 DEF Grown
    <3> QED
      BY <3>2, <1>2, <1>12 DEF Tick
  <2> QED
    BY <2>1, <2>2
<1> QED
  BY <1>3, <1>4, <1>5, <1>6, <1>7, <1>8, <1>9, <1>10, <1>11, <1>12 DEF Next, User

\* The invariant that the theorems below read from.
LEMMA TableInvAlways ==
    ASSUME ~EditDuringScan
    PROVE  Spec => []TableInv
<1>1. Init => TableInv
  BY InitTypes DEF Init, TableInv, Outstanding, EditorNamesLoaded
<1>2. TableInv /\ [Next]_vars => TableInv'
  <2> SUFFICES ASSUME TableInv, [Next]_vars
               PROVE  TableInv'
    OBVIOUS
  <2>1. TypeOK'
    <3>1. TypeOK' <=> ConfigTypes' /\ ScanTypes' /\ EditorTypes' /\ UserTypes'
      BY DEF TypeOK, ConfigTypes, ScanTypes, EditorTypes, UserTypes, Files, Statuses
    <3> QED
      BY <3>1, ConfigStep, ScanStep, EditorStep DEF TableInv
  <2> QED
    BY <2>1, OutstandingStep, EditorNamesStep DEF TableInv
<1> QED
  BY <1>1, <1>2, PTL DEF Spec

\* The entry that SavePoint would replace is the one the editor was loaded
\* with, as long as the user does not change the table during a scan.
THEOREM EditorNamesAlways ==
    ASSUME ~EditDuringScan
    PROVE  Spec => []EditorNamesLoaded
<1>1. TableInv => EditorNamesLoaded
  BY DEF TableInv
<1> QED
  BY <1>1, TableInvAlways, PTL

\* An import keeps every configured point in its place, with its enabled flag
\* and its interval, and adds distinct new ones, whatever the scan found.
THEOREM ImportKeepsAlways ==
    ASSUME ~EditDuringScan
    PROVE  Spec => ImportKeepsTable
<1> DEFINE Kept0 == (sender' = "timer" /\ results # <<>> /\ results' = Tail(results)) =>
         /\ \A i \in DOMAIN points :
              /\ i \in DOMAIN points'
              /\ [points'[i] EXCEPT !.tag = points[i].tag] = points[i]
         /\ \A i, j \in DOMAIN points' :
              (j > Len(points) /\ i # j) => points'[i].id # points'[j].id
<1>1. ASSUME TableInv, Next
      PROVE  Kept0
  <2>0. points \in Seq(Points) /\ results \in Seq(Seq(Points))
    BY <1>1 DEF TableInv, TypeOK
  <2> SUFFICES ASSUME sender' = "timer", results # <<>>, results' = Tail(results)
               PROVE  Kept0
    OBVIOUS
  <2>1. ~User
    BY DEF User, EditPoint, DeletePoint, TogglePoint, SavePoint, AddBrowsedPoint, NewPoint,
           ArmClear, Clear, EditMqtt, SaveConfig, ScanAllObjects, Restart, TableMessage, UserMessage
  <2>2. ~ScanEnds
    <3> SUFFICES ASSUME ScanEnds
                 PROVE  FALSE
      OBVIOUS
    <3>1. Len(results') = Len(results) - 1 /\ Len(results) \in Nat
      BY <2>0, HeadTailProperties, LenProperties, Zenon
    <3>2. PICK t : results' = Append(results, t)
      BY Zenon DEF ScanEnds
    <3>3. Len(results') = Len(results) + 1
      BY <2>0, <3>2
    <3> QED
      BY <3>1, <3>3
  <2>3. Grown(points, points')
    BY <1>1, <2>1, <2>2, ImportGrows DEF Next
  <2>4. points' \in Seq(Points) /\ Len(points) \in Nat /\ Len(points') \in Nat
    BY <2>0, <2>3 DEF Grown
  <2>5. ASSUME NEW i \in DOMAIN points
        PROVE  i \in DOMAIN points' /\ [points'[i] EXCEPT !.tag = points[i].tag] = points[i]
    <3>1. i \in 1..Len(points) /\ i \in 1..Len(points')
      BY <2>0, <2>3, <2>4 DEF Grown
    <3>2. points[i] \in Points /\ points'[i] \in Points
      BY <3>1, <2>0, <2>4
    <3>3. /\ points'[i].id = points[i].id
          /\ points'[i].enabled = points[i].enabled
          /\ points'[i].interval = points[i].interval
      BY <3>1, <2>3 DEF Grown
    <3> QED
      BY <3>1, <3>2, <3>3, <2>4 DEF Points
  <2>6. \A i, j \in DOMAIN points' :
              (j > Len(points) /\ i # j) => points'[i].id # points'[j].id
    BY <2>3, <2>4 DEF Grown
  <2> QED
    BY <2>5, <2>6
<1> HIDE DEF Kept0
<1>2. TableInv /\ [Next]_vars => [Kept0]_vars
  BY <1>1
<1>3. Spec => [][Kept0]_vars
  BY <1>2, TableInvAlways, PTL DEF Spec
<1> QED
  BY <1>3 DEF ImportKeepsTable, Kept0

-----------------------------------------------------------------------------
(* The whole GUI.                                                          *)

\* Whatever the other parts do, the table behaves as PointTable says: what is
\* proved of Spec holds of the GUI.
THEOREM GuiKeepsTable == GuiSpec => Spec
<1>1. GuiInit => Init
  BY DEF GuiInit
<1>2. [GuiNext]_gui => [Next]_vars
  BY DEF GuiNext, gui
<1> QED
  BY <1>1, <1>2, PTL DEF GuiSpec, Spec

-----------------------------------------------------------------------------
(* The feed: the statuses that the GUI builds from the events of the worker. *)
(* Each event makes a status of a status; those that are on their way form a *)
(* chain.  From what the GUI shows of a point the worker reported, the chain *)
(* leads to what the worker keeps of it, so that nothing is left to tell when *)
(* there are no more events.  What is told is recorded in another order than  *)
(* the worker does: publishes before samples.                                *)

\* What an event makes of the status of a point, and of the totals.
StatusAfter(id, s, e) ==
    CASE e.kind = "Samples" -> IF id \in Range(Identities(e.samples))
                               THEN record_sample(s, LastOf(e.samples, id).value) ELSE s
      [] e.kind = "Failures" -> IF id \in Range(e.identities)
                                THEN record_read_failures(s, Cardinality(Places(e.identities, id)))
                                ELSE s
      [] e.kind = "PointPublish" -> IF id = e.identity THEN record_publish(s, e.error) ELSE s
      [] OTHER -> s
TotalsAfter(t, e) ==
    IF e.kind = "PublishStatus"
    THEN [queued |-> t.queued + e.published,
          delivered |-> IF e.acked > t.delivered THEN e.acked ELSE t.delivered]
    ELSE t

Totals == [of |-> "totals", id |-> "none"]
StatusOf(id) == [of |-> "status", id |-> id]
After(k, v, e) == IF k.of = "totals" THEN TotalsAfter(v, e) ELSE StatusAfter(k.id, v, e)

\* The events of q lead from v to end.
Leads(k, q, f) == \A n \in 1..Len(q) : f[n] = After(k, f[n - 1], q[n])
Chain(k, v, q, end) == \E f : f[0] = v /\ f[Len(q)] = end /\ Leads(k, q, f)

\* Without events nothing changes,
LEMMA ChainOfNone ==
    ASSUME NEW k, NEW v
    PROVE  Chain(k, v, <<>>, v)
<1>1. [n \in 0..0 |-> v][0] = v /\ Len(<<>>) = 0 /\ 1..0 = {}
  OBVIOUS
<1> QED
  BY <1>1 DEF Chain, Leads

\* and nothing else is led to.
LEMMA NoneLeads ==
    ASSUME NEW k, NEW v, NEW end, Chain(k, v, <<>>, end)
    PROVE  end = v
BY DEF Chain

\* One event leads to what it makes.
LEMMA ChainOfOne ==
    ASSUME NEW k, NEW v, NEW e
    PROVE  Chain(k, v, <<e>>, After(k, v, e))
<1> DEFINE f == [n \in 0..1 |-> IF n = 0 THEN v ELSE After(k, v, e)]
<1>1. f[0] = v /\ f[1] = After(k, v, e) /\ Len(<<e>>) = 1 /\ <<e>>[1] = e
  OBVIOUS
<1>2. Leads(k, <<e>>, f)
  <2> HIDE DEF f
  <2>1. \A n \in 1..1 : n = 1 /\ n - 1 = 0
    OBVIOUS
  <2> QED
    BY <1>1, <2>1 DEF Leads
<1> HIDE DEF f
<1> QED
  BY <1>1, <1>2 DEF Chain

\* Events that come after others lead on.
LEMMA ChainsJoined ==
    ASSUME NEW q, NEW r, IsList(q), IsList(r),
           NEW k, NEW v, NEW mid, NEW end, Chain(k, v, q, mid), Chain(k, mid, r, end)
    PROVE  Chain(k, v, q \o r, end)
<1>1. PICK f : f[0] = v /\ f[Len(q)] = mid /\ Leads(k, q, f)
  BY DEF Chain
<1>2. PICK g : g[0] = mid /\ g[Len(r)] = end /\ Leads(k, r, g)
  BY DEF Chain
<1> DEFINE L == Len(q)
           N == Len(q \o r)
           h == [n \in 0..N |-> IF n <= L THEN f[n] ELSE g[n - L]]
<1>3. /\ L \in Nat /\ Len(r) \in Nat /\ N = L + Len(r)
      /\ \A n \in 1..L : (q \o r)[n] = q[n]
      /\ \A n \in 1..Len(r) : (q \o r)[L + n] = r[n]
  BY ListFacts, ListsJoined
<1> HIDE DEF L, N
<1>4. \A n \in 0..L : h[n] = f[n]
  BY <1>3
<1>5. \A n \in 0..Len(r) : h[L + n] = g[n]
  <2>1. ASSUME NEW n \in 0..Len(r)
        PROVE  h[L + n] = g[n]
    <3>1. L + n \in 0..N /\ (L + n) - L = n /\ (L + n <= L => n = 0)
      BY <1>3
    <3>2. n = 0 => h[L + n] = f[L] /\ f[L] = g[0]
      BY <1>1, <1>2, <1>3 DEF L
    <3> QED
      BY <3>1, <3>2
  <2> QED
    BY <2>1
<1> HIDE DEF h
<1>6. ASSUME NEW n \in 1..N
      PROVE  h[n] = After(k, h[n - 1], (q \o r)[n])
  <2>1. CASE n <= L
    <3>1. n \in 1..L /\ n \in 0..L /\ n - 1 \in 0..L
      BY <1>3, <2>1
    <3>2. f[n] = After(k, f[n - 1], q[n])
      BY <1>1, <3>1 DEF Leads, L
    <3> QED
      BY <3>1, <3>2, <1>3, <1>4
  <2>2. CASE ~(n <= L)
    <3> DEFINE j == n - L
    <3>1. j \in 1..Len(r) /\ j - 1 \in 0..Len(r) /\ j \in 0..Len(r) /\ n = L + j /\ n - 1 = L + (j - 1)
      BY <1>3, <2>2
    <3> HIDE DEF j
    <3>2. g[j] = After(k, g[j - 1], r[j])
      BY <1>2, <3>1 DEF Leads
    <3> QED
      BY <3>1, <3>2, <1>3, <1>5
  <2> QED
    BY <2>1, <2>2
<1>7. Leads(k, q \o r, h)
  BY <1>6 DEF Leads, N
<1>8. h[0] = v /\ h[Len(q \o r)] = end
  <2>1. 0 \in 0..L /\ Len(r) \in 0..Len(r)
    BY <1>3
  <2> QED
    BY <2>1, <1>1, <1>2, <1>3, <1>4, <1>5 DEF N
<1> QED
  BY <1>7, <1>8 DEF Chain

\* Once the first event has been taken the rest leads to the same end.
LEMMA ChainOfTail ==
    ASSUME NEW q, IsList(q), q # <<>>, NEW k, NEW v, NEW end, Chain(k, v, q, end)
    PROVE  Chain(k, After(k, v, Head(q)), Tail(q), end)
<1>1. PICK f : f[0] = v /\ f[Len(q)] = end /\ Leads(k, q, f)
  BY DEF Chain
<1> DEFINE N == Len(q) - 1
           g == [n \in 0..N |-> f[n + 1]]
<1>2. /\ Len(q) \in Nat /\ N \in Nat /\ Len(Tail(q)) = N /\ Head(q) = q[1] /\ N + 1 = Len(q)
      /\ \A n \in 1..N : Tail(q)[n] = q[n + 1]
  BY ListFacts
<1>3. ASSUME NEW n \in 1..N
      PROVE  g[n] = After(k, g[n - 1], Tail(q)[n])
  <2>1. n + 1 \in 1..Len(q) /\ (n + 1) - 1 = n /\ n \in 0..N /\ n - 1 \in 0..N /\ (n - 1) + 1 = n
    BY <1>2
  <2>2. f[n + 1] = After(k, f[(n + 1) - 1], q[n + 1])
    BY <1>1, <2>1 DEF Leads
  <2>3. g[n] = f[n + 1] /\ g[n - 1] = f[n]
    BY <2>1
  <2> QED
    BY <2>1, <2>2, <2>3, <1>2
<1>4. g[0] = After(k, v, Head(q)) /\ g[N] = end
  <2>1. 0 \in 0..N /\ N \in 0..N /\ 1 \in 1..Len(q) /\ 1 - 1 = 0
    BY <1>2
  <2>2. f[1] = After(k, f[1 - 1], q[1])
    BY <1>1, <2>1 DEF Leads
  <2>3. g[0] = f[1] /\ g[N] = f[Len(q)]
    BY <1>2, <2>1
  <2> QED
    BY <1>1, <1>2, <2>1, <2>2, <2>3
<1> HIDE DEF g
<1>5. Leads(k, Tail(q), g)
  BY <1>2, <1>3 DEF Leads
<1> QED
  BY <1>2, <1>4, <1>5 DEF Chain

\* A status has its fields, and events leave it so.
IsStatus(s) == \E a, b, c, d, e : s = [value |-> a, stale |-> b, failures |-> c,
                                       error |-> d, publish_error |-> e]

\* What an event makes of a status is a status.
LEMMA StatusKept ==
    ASSUME NEW id, NEW s, IsStatus(s), NEW e
    PROVE  IsStatus(StatusAfter(id, s, e))
<1>1. ASSUME NEW v
      PROVE  IsStatus(record_sample(s, v)) /\ IsStatus(record_publish(s, v)) /\ IsStatus(record_read_failures(s, v))
  BY DEF IsStatus, record_sample, record_publish, record_read_failures
<1> QED
  BY <1>1 DEF StatusAfter

\* Whatever the events, they lead somewhere.
LEMMA StatusLeads ==
    ASSUME NEW q, IsList(q), NEW id, NEW s, IsStatus(s)
    PROVE  \E end : Chain(StatusOf(id), s, q, end) /\ IsStatus(end)
<1> DEFINE N == Len(q)
           k == StatusOf(id)
           Upto(f, n) == f[0] = s /\ IsStatus(f[n]) /\ \A j \in 1..n : f[j] = After(k, f[j - 1], q[j])
           T == {n \in 0..N : \E f : Upto(f, n)}
<1>1. N \in Nat
  BY ListFacts
<1> HIDE DEF N
<1>2. 0 \in T
  <2> DEFINE g == [n \in 0..0 |-> s]
  <2>1. g[0] = s
    OBVIOUS
  <2> HIDE DEF g
  <2>2. Upto(g, 0)
    BY <2>1
  <2> HIDE DEF Upto
  <2> QED
    BY <1>1, <2>2
<1>3. ASSUME NEW n \in 0..(N - 1), n \in T
      PROVE  n + 1 \in T
  <2>1. PICK f : Upto(f, n)
    BY <1>3
  <2> DEFINE g == [j \in 0..(n + 1) |-> IF j = n + 1 THEN After(k, f[n], q[n + 1]) ELSE f[j]]
  <2>2. \A j \in 0..n : g[j] = f[j]
    OBVIOUS
  <2>3. g[n + 1] = After(k, f[n], q[n + 1])
    OBVIOUS
  <2>4. IsStatus(g[n + 1])
    <3>1. After(k, f[n], q[n + 1]) = StatusAfter(id, f[n], q[n + 1])
      BY DEF After, StatusOf
    <3> QED
      BY <2>1, <2>3, <3>1, StatusKept
  <2> HIDE DEF g
  <2>5. ASSUME NEW j \in 1..(n + 1)
        PROVE  g[j] = After(k, g[j - 1], q[j])
    <3>1. CASE j = n + 1
      BY <3>1, <2>2, <2>3
    <3>2. CASE j # n + 1
      <4>1. j \in 1..n /\ j \in 0..n /\ j - 1 \in 0..n
        BY <3>2
      <4> QED
        BY <4>1, <2>1, <2>2
    <3> QED
      BY <3>1, <3>2
  <2>6. Upto(g, n + 1)
    BY <2>1, <2>2, <2>4, <2>5
  <2>7. n + 1 \in 0..N
    BY <1>1
  <2> HIDE DEF Upto
  <2> QED
    BY <2>6, <2>7
<1>4. N \in T
  <2> HIDE DEF T
  <2>1. \A n \in 0..N : n \in T
    BY <1>1, <1>2, <1>3, Induction
  <2> QED
    BY <1>1, <2>1
<1>5. PICK f : Upto(f, N)
  BY <1>4
<1>6. Chain(k, s, q, f[N]) /\ IsStatus(f[N])
  BY <1>5 DEF Chain, Leads, N
<1> HIDE DEF k
<1> QED
  BY <1>6 DEF k

Kinds == {"Samples", "Failures", "PointPublish", "PublishStatus", "Lifecycle"}
IsEvent(e) == e.kind \in Kinds /\ (e.kind = "Samples" => IsList(e.samples))
GuiFields == {"lifecycle", "statuses", "recent_samples", "published_total", "acked_total"}

\* What is recorded of a point is a matter of its own entries.
LEMMA FailuresFacts ==
    ASSUME NEW statuses, NEW list, NEW id
    PROVE  /\ StatusIn(WithFailures(statuses, list), id) =
                 IF id \in Range(list)
                 THEN record_read_failures(StatusIn(statuses, id), Cardinality(Places(list, id)))
                 ELSE StatusIn(statuses, id)
           /\ DOMAIN WithFailures(statuses, list) = DOMAIN statuses \cup Range(list)
BY DEF StatusIn, WithFailures

\* The same for samples,
LEMMA SamplesFacts ==
    ASSUME NEW statuses, NEW list, NEW id
    PROVE  /\ StatusIn(WithSamples(statuses, list), id) =
                 IF id \in Range(Identities(list))
                 THEN record_sample(StatusIn(statuses, id), LastOf(list, id).value)
                 ELSE StatusIn(statuses, id)
           /\ DOMAIN WithSamples(statuses, list) = DOMAIN statuses \cup Range(Identities(list))
BY DEF StatusIn, WithSamples

\* and for what became of them.
LEMMA PublishesFacts ==
    ASSUME NEW statuses, NEW list, NEW id
    PROVE  /\ StatusIn(WithPublishes(statuses, list), id) =
                 IF id \in Range(Identities(list))
                 THEN record_publish(StatusIn(statuses, id), LastOf(list, id).error)
                 ELSE StatusIn(statuses, id)
           /\ DOMAIN WithPublishes(statuses, list) = DOMAIN statuses \cup Range(Identities(list))
BY DEF StatusIn, WithPublishes

\* A list of one.
LEMMA OfOne ==
    ASSUME NEW e
    PROVE  Range(Identities(<<e>>)) = {e.identity} /\ LastOf(<<e>>, e.identity) = e
<1>1. DOMAIN <<e>> = {1} /\ <<e>>[1] = e
  OBVIOUS
<1>2. DOMAIN Identities(<<e>>) = {1} /\ Identities(<<e>>)[1] = e.identity
  BY <1>1 DEF Identities
<1>3. Range(Identities(<<e>>)) = {e.identity}
  BY <1>2 DEF Range
<1>4. Places(Identities(<<e>>), e.identity) = {1}
  BY <1>2 DEF Places
<1>5. Max({1}) = 1
  BY DEF Max
<1> QED
  BY <1>1, <1>3, <1>4, <1>5 DEF LastOf

\* What the GUI makes of an event.
LEMMA ShowsFacts ==
    ASSUME NEW g, DOMAIN g = GuiFields, NEW e, IsEvent(e)
    PROVE  /\ DOMAIN Shows(g, e) = GuiFields
           /\ \A id : StatusIn(Shows(g, e).statuses, id) = StatusAfter(id, StatusIn(g.statuses, id), e)
           /\ DOMAIN Shows(g, e).statuses = DOMAIN g.statuses \cup Mentions(e)
           /\ [queued |-> Shows(g, e).published_total, delivered |-> Shows(g, e).acked_total]
                 = TotalsAfter([queued |-> g.published_total, delivered |-> g.acked_total], e)
           /\ Shows(g, e).lifecycle = (IF e.kind = "Lifecycle" THEN e.lifecycle ELSE g.lifecycle)
           /\ e.kind # "Samples" => Shows(g, e).recent_samples = g.recent_samples
<1>1. CASE e.kind = "Samples"
  <2> DEFINE recent == LET all == Reverse(e.samples) \o g.recent_samples
                       IN  SubSeq(all, 1, IF Len(all) > RecentCapacity
                                          THEN RecentCapacity ELSE Len(all))
  <2>1. Shows(g, e) = [g EXCEPT !.statuses = WithSamples(g.statuses, e.samples),
                                !.recent_samples = recent]
    BY <1>1 DEF Shows
  <2>2. Mentions(e) = Range(Identities(e.samples))
    BY <1>1 DEF Mentions, Range, Identities
  <2> HIDE DEF recent
  <2>3. /\ DOMAIN Shows(g, e) = GuiFields
        /\ Shows(g, e).statuses = WithSamples(g.statuses, e.samples)
        /\ Shows(g, e).published_total = g.published_total
        /\ Shows(g, e).acked_total = g.acked_total
        /\ Shows(g, e).lifecycle = g.lifecycle
    BY <2>1 DEF GuiFields
  <2>4. ASSUME NEW id
        PROVE  StatusIn(Shows(g, e).statuses, id) = StatusAfter(id, StatusIn(g.statuses, id), e)
    <3>1. StatusIn(WithSamples(g.statuses, e.samples), id) =
             IF id \in Range(Identities(e.samples))
             THEN record_sample(StatusIn(g.statuses, id), LastOf(e.samples, id).value)
             ELSE StatusIn(g.statuses, id)
      BY SamplesFacts
    <3> QED
      BY <1>1, <2>3, <3>1 DEF StatusAfter
  <2>5. DOMAIN WithSamples(g.statuses, e.samples) = DOMAIN g.statuses \cup Range(Identities(e.samples))
    BY SamplesFacts
  <2>6. [queued |-> Shows(g, e).published_total, delivered |-> Shows(g, e).acked_total]
           = TotalsAfter([queued |-> g.published_total, delivered |-> g.acked_total], e)
    BY <1>1, <2>3 DEF TotalsAfter
  <2> QED
    BY <1>1, <2>2, <2>3, <2>4, <2>5, <2>6
<1>2. CASE e.kind = "Failures"
  <2>1. Shows(g, e) = [g EXCEPT !.statuses = WithFailures(g.statuses, e.identities)]
    BY <1>2 DEF Shows
  <2>2. Mentions(e) = Range(e.identities)
    BY <1>2 DEF Mentions
  <2>3. /\ DOMAIN Shows(g, e) = GuiFields
        /\ Shows(g, e).statuses = WithFailures(g.statuses, e.identities)
        /\ Shows(g, e).published_total = g.published_total
        /\ Shows(g, e).acked_total = g.acked_total
        /\ Shows(g, e).lifecycle = g.lifecycle
        /\ Shows(g, e).recent_samples = g.recent_samples
    BY <2>1 DEF GuiFields
  <2>4. ASSUME NEW id
        PROVE  StatusIn(Shows(g, e).statuses, id) = StatusAfter(id, StatusIn(g.statuses, id), e)
    <3>1. StatusIn(WithFailures(g.statuses, e.identities), id) =
             IF id \in Range(e.identities)
             THEN record_read_failures(StatusIn(g.statuses, id), Cardinality(Places(e.identities, id)))
             ELSE StatusIn(g.statuses, id)
      BY FailuresFacts
    <3> QED
      BY <1>2, <2>3, <3>1 DEF StatusAfter
  <2>5. DOMAIN WithFailures(g.statuses, e.identities) = DOMAIN g.statuses \cup Range(e.identities)
    BY FailuresFacts
  <2>6. [queued |-> Shows(g, e).published_total, delivered |-> Shows(g, e).acked_total]
           = TotalsAfter([queued |-> g.published_total, delivered |-> g.acked_total], e)
    BY <1>2, <2>3 DEF TotalsAfter
  <2> QED
    BY <1>2, <2>2, <2>3, <2>4, <2>5, <2>6
<1>3. CASE e.kind = "PointPublish"
  <2>1. Shows(g, e) = [g EXCEPT !.statuses = WithPublishes(g.statuses, <<e>>)]
    BY <1>3 DEF Shows
  <2>2. Mentions(e) = {e.identity}
    BY <1>3 DEF Mentions
  <2>3. /\ DOMAIN Shows(g, e) = GuiFields
        /\ Shows(g, e).statuses = WithPublishes(g.statuses, <<e>>)
        /\ Shows(g, e).published_total = g.published_total
        /\ Shows(g, e).acked_total = g.acked_total
        /\ Shows(g, e).lifecycle = g.lifecycle
        /\ Shows(g, e).recent_samples = g.recent_samples
    BY <2>1 DEF GuiFields
  <2>4. ASSUME NEW id
        PROVE  StatusIn(Shows(g, e).statuses, id) = StatusAfter(id, StatusIn(g.statuses, id), e)
    <3>1. StatusIn(WithPublishes(g.statuses, <<e>>), id) =
             IF id \in Range(Identities(<<e>>))
             THEN record_publish(StatusIn(g.statuses, id), LastOf(<<e>>, id).error)
             ELSE StatusIn(g.statuses, id)
      BY PublishesFacts
    <3> QED
      BY <1>3, <2>3, <3>1, OfOne DEF StatusAfter
  <2>5. DOMAIN WithPublishes(g.statuses, <<e>>) = DOMAIN g.statuses \cup Range(Identities(<<e>>))
    BY PublishesFacts
  <2>6. [queued |-> Shows(g, e).published_total, delivered |-> Shows(g, e).acked_total]
           = TotalsAfter([queued |-> g.published_total, delivered |-> g.acked_total], e)
    BY <1>3, <2>3 DEF TotalsAfter
  <2> QED
    BY <1>3, <2>2, <2>3, <2>4, <2>5, <2>6, OfOne
<1>4. CASE e.kind \in {"PublishStatus", "Lifecycle"}
  <2>1. /\ DOMAIN Shows(g, e) = GuiFields
        /\ Shows(g, e).statuses = g.statuses
        /\ Shows(g, e).recent_samples = g.recent_samples
        /\ Mentions(e) = {}
    BY <1>4 DEF Shows, Mentions, GuiFields
  <2>2. \A id : StatusAfter(id, StatusIn(g.statuses, id), e) = StatusIn(g.statuses, id)
    BY <1>4 DEF StatusAfter
  <2>3. /\ e.kind = "PublishStatus" =>
              /\ Shows(g, e).published_total = g.published_total + e.published
              /\ Shows(g, e).acked_total = IF e.acked > g.acked_total THEN e.acked ELSE g.acked_total
        /\ e.kind = "Lifecycle" => /\ Shows(g, e).published_total = g.published_total
                                   /\ Shows(g, e).acked_total = g.acked_total
        /\ Shows(g, e).lifecycle = (IF e.kind = "Lifecycle" THEN e.lifecycle ELSE g.lifecycle)
    BY <1>4 DEF Shows, GuiFields
  <2> QED
    BY <1>4, <2>1, <2>2, <2>3 DEF TotalsAfter
<1> QED
  BY <1>1, <1>2, <1>3, <1>4 DEF IsEvent, Kinds

-----------------------------------------------------------------------------
(* What a poll sends. *)

\* The entries at some positions of a list are a list.
LEMMA ThoseFacts ==
    ASSUME NEW list, IsList(list), NEW positions \in SUBSET DOMAIN list
    PROVE  /\ IsList(Those(list, positions))
           /\ Range(Those(list, positions)) = {list[n] : n \in positions}
<1>1. DOMAIN list = 1..Len(list) /\ Len(list) \in Nat
  BY ListFacts
<1>2. positions \in SUBSET Nat /\ IsFiniteSet(positions)
  <2>1. IsFiniteSet(1..Len(list))
    BY <1>1, FS_Interval
  <2>2. positions \in SUBSET (1..Len(list))
    BY <1>1
  <2>3. IsFiniteSet(positions)
    BY <2>1, <2>2, FS_Subset
  <2> QED
    BY <2>2, <2>3
<1> DEFINE c == Cardinality(positions)
           those == Those(list, positions)
<1>3. /\ c \in Nat /\ DOMAIN InOrder(positions) = 1..c
      /\ \A n \in 1..c : InOrder(positions)[n] \in positions
      /\ \A p \in positions : \E n \in 1..c : InOrder(positions)[n] = p
  BY <1>2, InOrderFacts
<1> HIDE DEF c
<1>4. those = [n \in 1..c |-> list[InOrder(positions)[n]]]
  BY <1>3 DEF Those
<1> HIDE DEF those
<1>5. those = [n \in 1..c |-> those[n]] /\ DOMAIN those = 1..c
  BY <1>4
<1>6. IsList(those)
  BY <1>3, <1>5, ListOfFunction
<1>7. \A n \in 1..c : those[n] = list[InOrder(positions)[n]]
  BY <1>4
<1>8. Range(those) = {list[n] : n \in positions}
  BY <1>3, <1>5, <1>7 DEF Range
<1> QED
  BY <1>6, <1>8 DEF those

\* What is published are the samples, in some order.
LEMMA OrderFacts ==
    ASSUME NEW read, IsList(read), NEW envelope \in BOOLEAN
    PROVE  /\ IsList(PublishOrder(read, envelope))
           /\ Range(PublishOrder(read, envelope)) = Range(read)
<1> DEFINE is_first(i) == \A j \in 1..(i - 1) : read[j].device # read[i].device
           group(i) == IF is_first(i) THEN {j \in DOMAIN read : read[j].device = read[i].device} ELSE {}
           L == Len(read)
           ss == [i \in 1..L |-> Those(read, group(i))]
           flat == FlattenSeq(ss)
<1>1. CASE ~envelope
  BY <1>1 DEF PublishOrder
<1>2. CASE envelope
  <2>1. L \in Nat /\ DOMAIN read = 1..L
    BY ListFacts
  <2>2. PublishOrder(read, envelope) = flat
    BY <1>2, <2>1 DEF PublishOrder
  <2>3. \A i \in 1..L : group(i) \in SUBSET (1..L)
    BY <2>1
  <2>4. ASSUME NEW i \in 1..L
        PROVE  \E g \in 1..L : i \in group(g)
    <3> DEFINE Same == {j \in 1..L : read[j].device = read[i].device}
    <3>1. Same \in SUBSET Nat /\ Same # {}
      OBVIOUS
    <3>2. PICK g \in Same : \A y \in Same : g <= y
      <4> HIDE DEF Same
      <4> QED
        BY <3>1, Lowest
    <3>3. g \in 1..L /\ read[g].device = read[i].device
      OBVIOUS
    <3>4. ASSUME NEW j \in 1..(g - 1)
          PROVE  read[j].device # read[g].device
      <4>1. j \in 1..L /\ ~(g <= j)
        BY <2>1, <3>3
      <4> QED
        BY <4>1, <3>2, <3>3
    <3> QED
      BY <2>1, <3>3, <3>4
  <2> HIDE DEF group
  <2>5. ASSUME NEW i \in 1..L
        PROVE  /\ IsList(ss[i]) /\ Range(ss[i]) = {read[n] : n \in group(i)}
               /\ ss[i] \in Seq(Range(read)) /\ DOMAIN ss[i] = 1..Len(ss[i])
    <3>1. ss[i] = Those(read, group(i)) /\ group(i) \in SUBSET DOMAIN read
      BY <2>1, <2>3
    <3>2. IsList(ss[i]) /\ Range(ss[i]) = {read[n] : n \in group(i)}
      BY <3>1, ThoseFacts
    <3>3. PICK S : ss[i] \in Seq(S)
      BY <3>2 DEF IsList
    <3>4. DOMAIN ss[i] = 1..Len(ss[i])
      BY <3>2, ListFacts
    <3>5. \A n \in 1..Len(ss[i]) : ss[i][n] \in Range(read)
      <4>1. \A n \in 1..Len(ss[i]) : ss[i][n] \in Range(ss[i])
        BY <3>4 DEF Range
      <4>2. {read[n] : n \in group(i)} \subseteq Range(read)
        BY <3>1 DEF Range
      <4> QED
        BY <3>2, <4>1, <4>2
    <3>6. ss[i] \in Seq(Range(read))
      <4> HIDE DEF ss
      <4> QED
        BY <3>3, <3>5
    <3> QED
      BY <3>2, <3>4, <3>6
  <2>6. ss \in [1..L -> Seq(Range(read))]
    BY <2>5
  <2> HIDE DEF ss
  <2>7. flat \in Seq(Range(read)) /\ MadeOf(flat, ss, L)
    BY <2>1, <2>6, Flattened
  <2> HIDE DEF flat
  <2>8. Range(flat) \subseteq Range(read)
    <3>1. DOMAIN flat = 1..Len(flat) /\ \A n \in 1..Len(flat) : flat[n] \in Range(read)
      BY <2>7
    <3> QED
      BY <3>1 DEF Range
  <2>9. ASSUME NEW i \in 1..L
        PROVE  read[i] \in Range(flat)
    <3>1. PICK g \in 1..L : i \in group(g)
      BY <2>4
    <3>2. read[i] \in Range(ss[g])
      BY <2>5, <3>1
    <3>3. PICK n \in DOMAIN ss[g] : ss[g][n] = read[i]
      BY <3>2 DEF Range
    <3>4. PICK d \in DOMAIN flat : flat[d] = ss[g][n]
      BY <2>7, <3>3 DEF MadeOf
    <3> QED
      BY <3>3, <3>4 DEF Range
  <2>10. Range(read) \subseteq Range(flat)
    <3>1. Range(read) = {read[i] : i \in 1..L}
      BY <2>1 DEF Range
    <3> QED
      BY <2>9, <3>1
  <2> QED
    BY <2>2, <2>7, <2>8, <2>10 DEF IsList
<1> QED
  BY <1>1, <1>2

\* What a poll records of a point.
Failing(id, s, failed) ==
    IF id \in Range(Identities(failed))
    THEN record_read_failures(s, Cardinality(Places(Identities(failed), id))) ELSE s
Reading(id, s, read, v) == IF id \in Range(Identities(read)) THEN record_sample(s, v) ELSE s
Publishing(id, s, publishes) ==
    IF id \in Range(Identities(publishes)) THEN record_publish(s, LastOf(publishes, id).error) ELSE s

\* The events of what is published.
ArePublishes(q) == IsList(q) /\ \A n \in 1..Len(q) : q[n].kind = "PointPublish"

\* What is published is what was read.
LEMMA PublishedFacts ==
    ASSUME NEW read, IsList(read), NEW envelope \in BOOLEAN, NEW refused
    PROVE  /\ ArePublishes(Publishes(read, envelope, refused))
           /\ Range(Identities(Publishes(read, envelope, refused))) = Range(Identities(read))
<1> DEFINE order == PublishOrder(read, envelope)
           pub == Publishes(read, envelope, refused)
           L == Len(order)
<1>1. IsList(order) /\ Range(order) = Range(read)
  BY OrderFacts
<1>2. L \in Nat /\ DOMAIN order = 1..L
  BY <1>1, ListFacts
<1>3. /\ pub = [n \in 1..L |-> pub[n]] /\ DOMAIN pub = 1..L
      /\ \A n \in 1..L : pub[n].kind = "PointPublish" /\ pub[n].identity = order[n].identity
  <2> HIDE DEF L
  <2> QED
    BY <1>2 DEF Publishes
<1> HIDE DEF order, pub
<1>4. ArePublishes(pub)
  BY <1>2, <1>3, ListOfFunction DEF ArePublishes
<1>5. ASSUME NEW q
      PROVE  Range(Identities(q)) = {p.identity : p \in Range(q)}
  BY DEF Range, Identities
<1>6. Identities(pub) = Identities(order)
  BY <1>2, <1>3 DEF Identities
<1> QED
  BY <1>1, <1>4, <1>5, <1>6 DEF pub

\* One by one, the events of what is published leave the last error, as the worker
\* records it, and no totals.
LEMMA PublishesLead ==
    ASSUME NEW q, ArePublishes(q), NEW id, NEW s, NEW t
    PROVE  Chain(StatusOf(id), s, q, Publishing(id, s, q)) /\ Chain(Totals, t, q, t)
<1> DEFINE L == Len(q)
           U(n) == {j \in 1..n : q[j].identity = id}
           f == [n \in 0..L |-> IF U(n) = {} THEN s ELSE record_publish(s, q[Max(U(n))].error)]
<1>1. L \in Nat /\ DOMAIN q = 1..L /\ \A n \in 1..L : q[n].kind = "PointPublish"
  BY ListFacts DEF ArePublishes
<1>2. ASSUME NEW n \in 1..L
      PROVE  f[n] = StatusAfter(id, f[n - 1], q[n])
  <2>1. n \in 0..L /\ n - 1 \in 0..L /\ n \in Nat
    BY <1>1
  <2>2. /\ f[n] = (IF U(n) = {} THEN s ELSE record_publish(s, q[Max(U(n))].error))
        /\ f[n - 1] = (IF U(n - 1) = {} THEN s ELSE record_publish(s, q[Max(U(n - 1))].error))
    BY <2>1
  <2> HIDE DEF f
  <2>3. CASE q[n].identity # id
    <3>1. U(n) = U(n - 1)
      BY <2>1, <2>3
    <3>2. StatusAfter(id, f[n - 1], q[n]) = f[n - 1]
      BY <1>1, <2>3 DEF StatusAfter
    <3> QED
      BY <2>2, <3>1, <3>2
  <2>4. CASE q[n].identity = id
    <3>1. n \in U(n) /\ U(n) \in SUBSET (1..n) /\ U(n) # {}
      BY <2>1, <2>4
    <3>2. Max(U(n)) = n
      <4> HIDE DEF U
      <4>1. Max(U(n)) \in U(n) /\ n <= Max(U(n))
        BY <2>1, <3>1, Highest
      <4>2. Max(U(n)) \in 1..n
        BY <3>1, <4>1
      <4> QED
        BY <2>1, <4>1, <4>2
    <3>3. StatusAfter(id, f[n - 1], q[n]) = record_publish(f[n - 1], q[n].error)
      BY <1>1, <2>4 DEF StatusAfter
    <3>4. \A x, y : record_publish(record_publish(s, x), y) = record_publish(s, y)
      BY DEF record_publish
    <3> QED
      BY <2>2, <3>1, <3>2, <3>3, <3>4
  <2> QED
    BY <2>3, <2>4
<1>3. f[0] = s
  <2>1. 0 \in 0..L /\ U(0) = {}
    BY <1>1
  <2> QED
    BY <2>1
<1>4. f[L] = Publishing(id, s, q)
  <2>1. DOMAIN Identities(q) = 1..L /\ \A n \in 1..L : Identities(q)[n] = q[n].identity
    BY <1>1 DEF Identities
  <2>2. U(L) = Places(Identities(q), id)
    BY <2>1 DEF Places
  <2>3. U(L) = {} <=> id \notin Range(Identities(q))
    BY <2>1 DEF Range
  <2>4. f[L] = (IF U(L) = {} THEN s ELSE record_publish(s, q[Max(U(L))].error))
    BY <1>1
  <2> HIDE DEF U, f
  <2> QED
    BY <2>2, <2>3, <2>4 DEF Publishing, LastOf
<1> HIDE DEF f
<1>5. Leads(StatusOf(id), q, f)
  BY <1>2 DEF Leads, After, StatusOf
<1>6. Chain(StatusOf(id), s, q, Publishing(id, s, q))
  BY <1>3, <1>4, <1>5 DEF Chain
<1>7. Chain(Totals, t, q, t)
  <2> DEFINE g == [n \in 0..L |-> t]
  <2>1. \A n \in 0..L : g[n] = t
    OBVIOUS
  <2> HIDE DEF g
  <2>2. ASSUME NEW n \in 1..L
        PROVE  g[n] = After(Totals, g[n - 1], q[n])
    <3>1. n \in 0..L /\ n - 1 \in 0..L
      BY <1>1
    <3> QED
      BY <3>1, <2>1, <1>1 DEF After, Totals, TotalsAfter
  <2>3. 0 \in 0..L /\ L \in 0..L
    BY <1>1
  <2> QED
    BY <2>1, <2>2, <2>3 DEF Chain, Leads
<1> QED
  BY <1>6, <1>7

\* The samples of a poll name what was read, and carry its value.
LEMMA SamplesOf ==
    ASSUME NEW read, IsList(read), NEW v
    PROVE  /\ IsList(Samples(read, v)) /\ Len(Samples(read, v)) = Len(read)
           /\ Identities(Samples(read, v)) = Identities(read)
           /\ \A id \in Range(Identities(read)) : LastOf(Samples(read, v), id).value = v
<1> DEFINE L == Len(read)
           list == Samples(read, v)
<1>1. L \in Nat /\ DOMAIN read = 1..L
  BY ListFacts
<1>2. /\ list = [n \in 1..L |-> list[n]] /\ DOMAIN list = 1..L
      /\ \A n \in 1..L : list[n].value = v /\ list[n].identity = read[n].identity
  BY <1>1 DEF Samples
<1> HIDE DEF list
<1>3. IsList(list) /\ Len(list) = L
  BY <1>1, <1>2, ListOfFunction
<1>4. Identities(list) = Identities(read)
  BY <1>1, <1>2 DEF Identities
<1>5. ASSUME NEW id \in Range(Identities(read))
      PROVE  LastOf(list, id).value = v
  <2> DEFINE P == Places(Identities(list), id)
  <2>1. P # {} /\ P \in SUBSET (1..L)
    BY <1>1, <1>4 DEF Places, Range, Identities
  <2>2. Max(P) \in P
    <3> HIDE DEF P
    <3> QED
      BY <1>1, <2>1, Highest
  <2>3. Max(P) \in 1..L
    BY <2>1, <2>2
  <2> QED
    BY <2>3, <1>2 DEF LastOf
<1> QED
  BY <1>3, <1>4, <1>5 DEF list

\* What the worker records in a poll.
LEMMA WorkerRecords ==
    ASSUME NEW statuses, NEW read, IsList(read), NEW failed, NEW publishes, NEW v, NEW id
    PROVE  StatusIn(WithPublishes(WithSamples(WithFailures(statuses, Identities(failed)),
                                              Samples(read, v)), publishes), id)
              = Publishing(id, Reading(id, Failing(id, StatusIn(statuses, id), failed), read, v), publishes)
<1> DEFINE a == WithFailures(statuses, Identities(failed))
           b == WithSamples(a, Samples(read, v))
<1>1. StatusIn(a, id) = Failing(id, StatusIn(statuses, id), failed)
  BY FailuresFacts DEF Failing
<1> HIDE DEF a
<1>2. StatusIn(b, id) = Reading(id, StatusIn(a, id), read, v)
  <2>1. StatusIn(WithSamples(a, Samples(read, v)), id) =
           IF id \in Range(Identities(Samples(read, v)))
           THEN record_sample(StatusIn(a, id), LastOf(Samples(read, v), id).value)
           ELSE StatusIn(a, id)
    BY SamplesFacts, Zenon
  <2>2. Identities(Samples(read, v)) = Identities(read)
    BY SamplesOf
  <2>3. id \in Range(Identities(read)) => LastOf(Samples(read, v), id).value = v
    BY SamplesOf
  <2> QED
    BY <2>1, <2>2, <2>3 DEF Reading
<1> HIDE DEF b
<1>3. StatusIn(WithPublishes(b, publishes), id) = Publishing(id, StatusIn(b, id), publishes)
  BY PublishesFacts DEF Publishing
<1> QED
  BY <1>1, <1>2, <1>3 DEF a, b

\* What the worker sends in a poll, and what the GUI makes of it.
LEMMA SendsLead ==
    ASSUME NEW read, IsList(read), NEW failed, IsList(failed), NEW publishes, ArePublishes(publishes),
           NEW stats, NEW id, NEW s, NEW t
    PROVE  /\ IsList(Sends(read, failed, publishes, stats))
           /\ Chain(StatusOf(id), s, Sends(read, failed, publishes, stats),
                    Reading(id, Publishing(id, Failing(id, s, failed),
                                           IF read = <<>> THEN <<>> ELSE publishes),
                            read, stats.value))
           /\ Chain(Totals, t, Sends(read, failed, publishes, stats),
                    IF read = <<>> THEN t
                    ELSE TotalsAfter(t, [kind |-> "PublishStatus", published |-> stats.published,
                                         acked |-> stats.acked]))
           /\ \A e \in Range(Sends(read, failed, publishes, stats)) :
                 IsEvent(e) /\ e.kind # "Lifecycle"
           /\ \A x \in Range(Identities(read)) \cup Range(Identities(failed)) :
                 \E e \in Range(Sends(read, failed, publishes, stats)) : x \in Mentions(e)
<1> DEFINE E1 == [kind |-> "Failures", identities |-> Identities(failed)]
           E2 == [kind |-> "Samples", samples |-> Samples(read, stats.value)]
           E3 == [kind |-> "PublishStatus", published |-> stats.published, acked |-> stats.acked]
           A == IF failed = <<>> THEN <<>> ELSE <<E1>>
           C == <<E2, E3>>
           B == IF read = <<>> THEN <<>> ELSE publishes \o C
           K == StatusOf(id)
<1>1. Sends(read, failed, publishes, stats) = A \o B
  BY DEF Sends
<1>2. Range(Identities(<<>>)) = {}
  BY DEF Range, Identities
<1>3. /\ IsList(<<>>) /\ Range(<<>>) = {}
      /\ \A x : IsList(<<x>>) /\ Range(<<x>>) = {x}
      /\ \A x, y : IsList(<<x, y>>) /\ Range(<<x, y>>) = {x, y} /\ <<x, y>> = <<x>> \o <<y>>
  <2>1. IsList(<<>>) /\ Range(<<>>) = {}
    BY DEF IsList, Range
  <2>2. ASSUME NEW x
        PROVE  IsList(<<x>>) /\ Range(<<x>>) = {x}
    <3>1. <<x>> \in Seq({x}) /\ DOMAIN <<x>> = {1} /\ <<x>>[1] = x
      OBVIOUS
    <3> QED
      BY <3>1 DEF IsList, Range
  <2>3. ASSUME NEW x, NEW y
        PROVE  IsList(<<x, y>>) /\ Range(<<x, y>>) = {x, y} /\ <<x, y>> = <<x>> \o <<y>>
    <3>1. /\ <<x, y>> \in Seq({x, y}) /\ DOMAIN <<x, y>> = {1, 2}
          /\ <<x, y>>[1] = x /\ <<x, y>>[2] = y
      OBVIOUS
    <3>2. <<x, y>> = <<x>> \o <<y>>
      <4> DEFINE both == <<x>> \o <<y>>
      <4>1. /\ <<x>> \in Seq({x, y}) /\ <<y>> \in Seq({x, y})
            /\ Len(<<x>>) = 1 /\ Len(<<y>>) = 1 /\ <<x>>[1] = x /\ <<y>>[1] = y
        OBVIOUS
      <4>2. /\ both \in Seq({x, y}) /\ Len(both) = 1 + 1
            /\ \A n \in 1..1 : both[n] = <<x>>[n]
            /\ \A n \in 1..1 : both[1 + n] = <<y>>[n]
        BY <4>1, Joined
      <4>3. both[1] = x /\ both[2] = y /\ Len(both) = 2
        BY <4>1, <4>2
      <4> HIDE DEF both
      <4>4. <<x, y>> = both
        BY <3>1, <4>2, <4>3
      <4> QED
        BY <4>4 DEF both
    <3> QED
      BY <3>1, <3>2 DEF IsList, Range
  <2> QED
    BY <2>1, <2>2, <2>3
<1>4. /\ E1.kind = "Failures" /\ E1.identities = Identities(failed)
      /\ E2.kind = "Samples" /\ E2.samples = Samples(read, stats.value)
      /\ E3.kind = "PublishStatus"
  OBVIOUS
<1> HIDE DEF E1, E2, E3
<1>5. /\ IsList(A) /\ Range(A) = (IF failed = <<>> THEN {} ELSE {E1})
      /\ Chain(K, s, A, Failing(id, s, failed)) /\ Chain(Totals, t, A, t)
  <2>1. CASE failed = <<>>
    BY <2>1, <1>2, <1>3, ChainOfNone DEF Failing
  <2>2. CASE failed # <<>>
    <3>1. After(K, s, E1) = Failing(id, s, failed)
      BY <1>4 DEF After, StatusOf, StatusAfter, Failing
    <3>2. After(Totals, t, E1) = t
      BY <1>4 DEF After, Totals, TotalsAfter
    <3>3. Chain(K, s, <<E1>>, After(K, s, E1)) /\ Chain(Totals, t, <<E1>>, After(Totals, t, E1))
      BY ChainOfOne
    <3>4. A = <<E1>>
      BY <2>2
    <3> QED
      BY <2>2, <3>1, <3>2, <3>3, <3>4, <1>3
  <2> QED
    BY <2>1, <2>2
<1> HIDE DEF A
<1>6. ASSUME NEW x, NEW y
      PROVE  Chain(K, x, C, Reading(id, x, read, stats.value)) /\ Chain(Totals, y, C, TotalsAfter(y, E3))
  <2>1. After(K, x, E2) = Reading(id, x, read, stats.value)
    <3>1. Identities(Samples(read, stats.value)) = Identities(read)
      BY SamplesOf
    <3>2. id \in Range(Identities(read)) => LastOf(Samples(read, stats.value), id).value = stats.value
      BY SamplesOf
    <3>3. After(K, x, E2) = StatusAfter(id, x, E2)
      BY DEF After, StatusOf
    <3> QED
      BY <1>4, <3>1, <3>2, <3>3 DEF StatusAfter, Reading
  <2>2. \A z : After(K, z, E3) = z
    BY <1>4 DEF After, StatusOf, StatusAfter
  <2>3. After(Totals, y, E2) = y /\ After(Totals, y, E3) = TotalsAfter(y, E3)
    BY <1>4 DEF After, Totals, TotalsAfter
  <2>4. C = <<E2>> \o <<E3>> /\ IsList(<<E2>>) /\ IsList(<<E3>>)
    BY <1>3
  <2>5. /\ Chain(K, x, <<E2>>, Reading(id, x, read, stats.value))
        /\ Chain(K, Reading(id, x, read, stats.value), <<E3>>, Reading(id, x, read, stats.value))
    BY <2>1, <2>2, ChainOfOne
  <2>6. Chain(Totals, y, <<E2>>, y) /\ Chain(Totals, y, <<E3>>, TotalsAfter(y, E3))
    BY <2>3, ChainOfOne
  <2> HIDE DEF C, K
  <2> QED
    BY <2>4, <2>5, <2>6, ChainsJoined
<1>7. IsList(C) /\ Range(C) = {E2, E3} /\ IsList(publishes)
  BY <1>3 DEF ArePublishes
<1> HIDE DEF C
<1> DEFINE mid == Failing(id, s, failed)
           pub == IF read = <<>> THEN <<>> ELSE publishes
           end == Reading(id, Publishing(id, mid, pub), read, stats.value)
           sum == IF read = <<>> THEN t ELSE TotalsAfter(t, E3)
<1>8. /\ IsList(B) /\ Range(B) = (IF read = <<>> THEN {} ELSE Range(publishes) \cup {E2, E3})
      /\ Chain(K, mid, B, end) /\ Chain(Totals, t, B, sum)
  <2>1. CASE read = <<>>
    <3>1. end = mid
      BY <2>1, <1>2 DEF Reading, Publishing
    <3> HIDE DEF end, mid, K
    <3> QED
      BY <2>1, <3>1, <1>3, ChainOfNone
  <2>2. CASE read # <<>>
    <3>1. Chain(K, mid, publishes, Publishing(id, mid, publishes)) /\ Chain(Totals, t, publishes, t)
      BY PublishesLead
    <3>2. Chain(K, Publishing(id, mid, publishes), C, end) /\ Chain(Totals, t, C, TotalsAfter(t, E3))
      BY <1>6, <2>2
    <3>3. B = publishes \o C /\ sum = TotalsAfter(t, E3)
      BY <2>2
    <3> HIDE DEF end, mid, K, sum, B
    <3>4. Chain(K, mid, publishes \o C, end)
      BY <3>1, <3>2, <1>7, ChainsJoined, Zenon
    <3>5. Chain(Totals, t, publishes \o C, TotalsAfter(t, E3))
      BY <3>1, <3>2, <1>7, ChainsJoined, Zenon
    <3>6. IsList(publishes \o C) /\ Range(publishes \o C) = Range(publishes) \cup {E2, E3}
      BY <1>7, ListsJoined
    <3> QED
      BY <2>2, <3>3, <3>4, <3>5, <3>6
  <2> QED
    BY <2>1, <2>2
<1> HIDE DEF B, end, mid, K, sum
<1>9. /\ IsList(A \o B) /\ Range(A \o B) = Range(A) \cup Range(B)
      /\ Chain(K, s, A \o B, end) /\ Chain(Totals, t, A \o B, sum)
  <2>1. Chain(K, s, A, mid)
    BY <1>5 DEF mid
  <2>2. Chain(K, s, A \o B, end)
    BY <2>1, <1>5, <1>8, ChainsJoined, Zenon
  <2>3. Chain(Totals, t, A \o B, sum)
    BY <1>5, <1>8, ChainsJoined, Zenon
  <2>4. IsList(A \o B) /\ Range(A \o B) = Range(A) \cup Range(B)
    BY <1>5, <1>8, ListsJoined
  <2> QED
    BY <2>2, <2>3, <2>4
<1>10. \A e \in Range(A \o B) : IsEvent(e) /\ e.kind # "Lifecycle"
  <2>1. \A e \in Range(publishes) : e.kind = "PointPublish"
    <3>1. DOMAIN publishes = 1..Len(publishes)
      BY <1>7, ListFacts
    <3> QED
      BY <3>1 DEF ArePublishes, Range
  <2>2. IsList(E2.samples)
    BY <1>4, SamplesOf
  <2>3. Range(A \o B) \subseteq {E1, E2, E3} \cup Range(publishes)
    BY <1>5, <1>8, <1>9
  <2> QED
    BY <1>4, <2>1, <2>2, <2>3 DEF IsEvent, Kinds
<1>11. ASSUME NEW x \in Range(Identities(read)) \cup Range(Identities(failed))
       PROVE  \E e \in Range(A \o B) : x \in Mentions(e)
  <2>1. CASE x \in Range(Identities(failed))
    <3>1. failed # <<>> /\ E1 \in Range(A \o B)
      BY <2>1, <1>2, <1>5, <1>9
    <3>2. Mentions(E1) = Range(Identities(failed))
      BY <1>4 DEF Mentions
    <3> QED
      BY <2>1, <3>1, <3>2
  <2>2. CASE x \in Range(Identities(read))
    <3>1. read # <<>> /\ E2 \in Range(A \o B)
      BY <2>2, <1>2, <1>8, <1>9
    <3>2. Mentions(E2) = Range(Identities(Samples(read, stats.value)))
      BY <1>4 DEF Mentions, Range, Identities
    <3>3. Identities(Samples(read, stats.value)) = Identities(read)
      BY SamplesOf
    <3> QED
      BY <2>2, <3>1, <3>2, <3>3
  <2> QED
    BY <2>1, <2>2
<1> QED
  BY <1>1, <1>9, <1>10, <1>11 DEF end, mid, sum, K, E3

-----------------------------------------------------------------------------
(* The list of recent samples. *)

\* i is the first place of id in a list of samples.
IsFirst(list, id, i) ==
    list[i].identity = id /\ \A j \in DOMAIN list : list[j].identity = id => i <= j

NewestInv(g) ==
    \A id : \A i \in DOMAIN g.recent_samples :
        IsFirst(g.recent_samples, id, i) /\ StatusIn(g.statuses, id).value # NoValue =>
            g.recent_samples[i].value = StatusIn(g.statuses, id).value

Recent(samples, old) ==
    LET all == Reverse(samples) \o old
    IN  SubSeq(all, 1, IF Len(all) > RecentCapacity THEN RecentCapacity ELSE Len(all))

InFront(recent, samples, old) ==
    /\ IsList(recent)
    /\ \A i \in 1..Len(recent) :
          /\ i <= Len(samples) => /\ Len(samples) - i + 1 \in 1..Len(samples)
                                  /\ recent[i] = samples[Len(samples) - i + 1]
          /\ i > Len(samples) => i - Len(samples) \in 1..Len(old) /\ recent[i] = old[i - Len(samples)]

\* Samples come to the front in reverse order, and the rest is cut off.
LEMMA RecentFacts ==
    ASSUME NEW samples, IsList(samples), NEW old, IsList(old)
    PROVE  InFront(Recent(samples, old), samples, old)
<1> DEFINE N == Len(samples)
           L == Len(old)
           turned == Reverse(samples)
           all == turned \o old
           recent == Recent(samples, old)
           M == IF Len(all) > RecentCapacity THEN RecentCapacity ELSE Len(all)
<1>1. N \in Nat /\ L \in Nat /\ DOMAIN samples = 1..N /\ DOMAIN old = 1..L
  BY ListFacts
<1>2. /\ turned = [n \in 1..N |-> turned[n]]
      /\ \A n \in 1..N : turned[n] = samples[N - n + 1]
  BY DEF Reverse
<1> HIDE DEF turned, N, L
<1>3. IsList(turned) /\ Len(turned) = N
  BY <1>1, <1>2, ListOfFunction
<1>4. /\ IsList(all) /\ Len(all) = N + L
      /\ \A n \in 1..N : all[n] = turned[n]
      /\ \A n \in 1..L : all[N + n] = old[n]
  BY <1>3, ListsJoined DEF L
<1> HIDE DEF all
<1>5. M \in Nat /\ M <= N + L
  BY <1>1, <1>4, FeedAssumption
<1> HIDE DEF M
<1>6. recent = SubSeq(all, 1, M)
  BY DEF Recent, all, M, turned, recent
<1> HIDE DEF recent
<1>7. /\ IsList(recent) /\ Len(recent) = M
      /\ \A i \in 1..M : recent[i] = all[i]
  <2>1. PICK S : all \in Seq(S)
    BY <1>4 DEF IsList
  <2>2. 1 \in Int /\ M \in Int /\ \A i \in 1..M : all[i] \in S
    BY <1>1, <1>4, <1>5, <2>1
  <2>3. /\ recent \in Seq(S) /\ Len(recent) = IF 1 <= M THEN M - 1 + 1 ELSE 0
        /\ \A i \in 1..(M - 1 + 1) : recent[i] = all[1 + i - 1]
    BY <1>6, <2>2, SubSeqProperties
  <2>4. M - 1 + 1 = M /\ (~(1 <= M) => M = 0) /\ \A i \in 1..M : 1 + i - 1 = i
    BY <1>5
  <2> QED
    BY <2>3, <2>4 DEF IsList
<1>8. ASSUME NEW i \in 1..M, i <= N
      PROVE  N - i + 1 \in 1..N /\ recent[i] = samples[N - i + 1]
  <2>1. i \in 1..N /\ N - i + 1 \in 1..N
    BY <1>1, <1>5, <1>8
  <2> QED
    BY <2>1, <1>2, <1>4, <1>7
<1>9. ASSUME NEW i \in 1..M, i > N
      PROVE  i - N \in 1..L /\ recent[i] = old[i - N]
  <2>1. i - N \in 1..L /\ N + (i - N) = i
    BY <1>1, <1>5, <1>9
  <2>2. all[N + (i - N)] = old[i - N]
    BY <2>1, <1>4
  <2> QED
    BY <2>1, <2>2, <1>7
<1> QED
  BY <1>7, <1>8, <1>9 DEF N, L, InFront, recent

\* The first sample of a point in the list stays its value.
LEMMA NewestShows ==
    ASSUME NEW g, DOMAIN g = GuiFields, IsList(g.recent_samples), NewestInv(g), NEW e, IsEvent(e)
    PROVE  IsList(Shows(g, e).recent_samples) /\ NewestInv(Shows(g, e))
<1> DEFINE after == Shows(g, e)
<1>1. \A id : StatusIn(after.statuses, id) = StatusAfter(id, StatusIn(g.statuses, id), e)
  BY ShowsFacts
<1>2. CASE e.kind # "Samples"
  <2>1. after.recent_samples = g.recent_samples
    BY <1>2, ShowsFacts
  <2>2. ASSUME NEW id, NEW s
        PROVE  StatusAfter(id, s, e).value = s.value
    BY <1>2 DEF StatusAfter, record_publish, record_read_failures
  <2>3. \A id : StatusIn(after.statuses, id).value = StatusIn(g.statuses, id).value
    BY <1>1, <2>2
  <2> HIDE DEF after
  <2> QED
    BY <2>1, <2>3 DEF NewestInv, after
<1>3. CASE e.kind = "Samples"
  <2> DEFINE samples == e.samples
             old == g.recent_samples
             recent == after.recent_samples
             N == Len(samples)
  <2>1. recent = Recent(samples, old)
    BY <1>3 DEF Shows, GuiFields, Recent
  <2>2. IsList(samples) /\ IsList(old)
    BY <1>3 DEF IsEvent
  <2>3. ASSUME NEW id
        PROVE  StatusIn(after.statuses, id) =
                  IF id \in Range(Identities(samples))
                  THEN record_sample(StatusIn(g.statuses, id), LastOf(samples, id).value)
                  ELSE StatusIn(g.statuses, id)
    BY <1>1, <1>3 DEF StatusAfter
  <2>4. \A id : \A i \in DOMAIN old :
            IsFirst(old, id, i) /\ StatusIn(g.statuses, id).value # NoValue =>
                old[i].value = StatusIn(g.statuses, id).value
    BY DEF NewestInv
  <2> HIDE DEF samples, old, recent
  <2>5. /\ IsList(recent)
        /\ \A i \in 1..Len(recent) :
              /\ i <= N => N - i + 1 \in 1..N /\ recent[i] = samples[N - i + 1]
              /\ i > N => i - N \in 1..Len(old) /\ recent[i] = old[i - N]
    <3>1. InFront(Recent(samples, old), samples, old)
      BY <2>2, RecentFacts
    <3> QED
      BY <2>1, <3>1 DEF InFront
  <2>6. /\ N \in Nat /\ DOMAIN samples = 1..N
        /\ Len(old) \in Nat /\ DOMAIN old = 1..Len(old)
        /\ Len(recent) \in Nat /\ DOMAIN recent = 1..Len(recent)
    BY <2>2, <2>5, ListFacts
  <2> HIDE DEF N
  <2>7. ASSUME NEW id, NEW i \in DOMAIN recent, IsFirst(recent, id, i),
               StatusIn(after.statuses, id).value # NoValue
        PROVE  recent[i].value = StatusIn(after.statuses, id).value
    <3> DEFINE P == Places(Identities(samples), id)
    <3>1. /\ P = {n \in 1..N : samples[n].identity = id} /\ P \in SUBSET (1..N)
          /\ P = {} <=> id \notin Range(Identities(samples))
      BY <2>6 DEF Places, Identities, Range
    <3>2. CASE id \in Range(Identities(samples))
      <4> DEFINE p == Max(P)
      <4>1. p \in P /\ \A n \in P : n <= p
        <5> HIDE DEF P
        <5> QED
          BY <2>6, <3>1, <3>2, Highest
      <4> HIDE DEF p
      <4>2. p \in 1..N /\ samples[p].identity = id
        BY <3>1, <4>1
      <4> DEFINE top == N - p + 1
      <4>3. top \in 1..N /\ N - top + 1 = p /\ i \in 1..Len(recent)
        BY <2>6, <4>2
      <4>4. top <= i
        <5>1. CASE i > N
          BY <4>3, <5>1, <2>6
        <5>2. CASE i <= N
          <6>1. N - i + 1 \in 1..N /\ recent[i] = samples[N - i + 1]
            BY <2>5, <4>3, <5>2
          <6>2. samples[N - i + 1].identity = id
            BY <6>1, <2>7 DEF IsFirst
          <6>3. N - i + 1 \in P
            BY <6>1, <6>2, <3>1
          <6>4. N - i + 1 <= p
            BY <6>3, <4>1
          <6> QED
            BY <6>4, <4>2, <4>3, <2>6
        <5> QED
          BY <5>1, <5>2, <4>3, <2>6
      <4>5. top \in 1..Len(recent) /\ recent[top] = samples[p]
        <5>1. top \in 1..Len(recent) /\ top <= N
          BY <4>3, <4>4, <2>6
        <5> QED
          BY <5>1, <4>3, <2>5
      <4>6. i = top
        <5>1. i <= top
          BY <4>2, <4>5, <2>6, <2>7 DEF IsFirst
        <5> QED
          BY <5>1, <4>3, <4>4, <2>6
      <4>7. StatusIn(after.statuses, id).value = samples[p].value
        <5>1. LastOf(samples, id) = samples[p]
          BY DEF LastOf, p
        <5>2. \A s, v : record_sample(s, v).value = v
          BY DEF record_sample
        <5> QED
          BY <2>3, <3>2, <5>1, <5>2
      <4> QED
        BY <4>5, <4>6, <4>7
    <3>3. CASE id \notin Range(Identities(samples))
      <4>1. StatusIn(after.statuses, id) = StatusIn(g.statuses, id)
        BY <2>3, <3>3
      <4>2. i \in 1..Len(recent) /\ recent[i].identity = id
        BY <2>6, <2>7 DEF IsFirst
      <4>3. i > N
        <5>1. ASSUME i <= N
              PROVE  FALSE
          <6>1. N - i + 1 \in 1..N /\ recent[i] = samples[N - i + 1]
            BY <2>5, <4>2, <5>1
          <6>2. N - i + 1 \in P
            BY <6>1, <4>2, <3>1
          <6> QED
            BY <6>2, <3>1, <3>3
        <5> QED
          BY <5>1, <4>2, <2>6
      <4> DEFINE k == i - N
      <4>4. k \in 1..Len(old) /\ recent[i] = old[k] /\ i = N + k
        BY <2>5, <2>6, <4>2, <4>3
      <4>5. ASSUME NEW j \in DOMAIN old, old[j].identity = id
            PROVE  k <= j
        <5>1. ASSUME j < k
              PROVE  FALSE
          <6> DEFINE h == N + j
          <6>1. h \in 1..Len(recent) /\ h > N /\ h - N = j /\ ~(i <= h)
            BY <2>6, <4>2, <4>4, <5>1
          <6> HIDE DEF h
          <6>2. recent[h].identity = id
            BY <6>1, <2>5, <4>5
          <6> QED
            BY <6>1, <6>2, <2>6, <2>7 DEF IsFirst
        <5>2. j \in Nat /\ k \in Nat
          BY <2>6, <4>4
        <5> QED
          BY <5>1, <5>2
      <4> HIDE DEF k
      <4>6. k \in DOMAIN old /\ IsFirst(old, id, k)
        BY <2>6, <4>2, <4>4, <4>5 DEF IsFirst
      <4> QED
        BY <4>1, <4>4, <4>6, <2>4, <2>7
    <3> QED
      BY <3>2, <3>3
  <2> QED
    BY <2>5, <2>7 DEF NewestInv, recent
<1> QED
  BY <1>2, <1>3

-----------------------------------------------------------------------------
(* The invariant. *)

WorkerFields == {"mode", "envelope", "status", "published", "acked"}
heard == feed["worker"]

FeedShape ==
    /\ DOMAIN shown = GuiFields /\ DOMAIN worker = WorkerFields /\ DOMAIN feed = Senders
    /\ worker.envelope \in BOOLEAN
    /\ worker.published \in Nat /\ worker.acked \in 0..worker.published
    /\ \A s \in Senders : IsList(feed[s]) /\ \A e \in Range(feed[s]) : IsEvent(e)
    /\ \A e \in Range(feed["once"]) : e.kind # "Lifecycle"
    /\ \A id : IsStatus(StatusIn(worker.status, id)) /\ IsStatus(StatusIn(shown.statuses, id))
    /\ IsList(shown.recent_samples)

\* The worker's changes of state that the GUI has not seen yet.
Turns(q) == {n \in DOMAIN q : q[n].kind = "Lifecycle"}

LifeInv ==
    /\ worker.mode \in {"on", "off"}
    /\ worker.mode = "on" =>
          \/ shown.lifecycle = "Running" /\ Turns(heard) = {}
          \/ shown.lifecycle = "Stopped" /\ Turns(heard) = {1} /\ heard[1].lifecycle = "Running"
    /\ worker.mode = "off" =>
          \/ shown.lifecycle = "Stopped" /\ heard = <<>>
          \/ /\ shown.lifecycle = "Running" /\ Turns(heard) = {Len(heard)}
             /\ heard[Len(heard)].lifecycle = "Stopped"

\* The events that are on their way lead from the GUI's status of a point to
\* one that agrees with the worker's.
Same(s, own) == IsStatus(s) /\ s.stale = own.stale /\ s.error = own.error
Agrees(id, whole, q, s, own) ==
    \E end : /\ Chain(StatusOf(id), s, q, end)
             /\ Same(end, own) /\ (whole => end = own)

ReportedInv ==
    /\ sampled \subseteq reported /\ reported \subseteq DOMAIN worker.status
    /\ \A id \in reported :
          /\ id \in DOMAIN shown.statuses \/ \E e \in Range(heard) : id \in Mentions(e)
          /\ Agrees(id, id \in sampled, heard, StatusIn(shown.statuses, id), StatusIn(worker.status, id))

TotalsOf(g) == [queued |-> g.published_total, delivered |-> g.acked_total]
OwnTotals(w) == [queued |-> w.published, delivered |-> w.acked]
TotalsInv == ~mixed => Chain(Totals, TotalsOf(shown), heard, OwnTotals(worker))

FeedInv == FeedShape /\ LifeInv /\ ReportedInv /\ TotalsInv /\ NewestInv(shown)

\* What is shown of a point nothing is known of is a status.
LEMMA UnreportedIsStatus == IsStatus(Unreported) /\ Unreported.value = NoValue
BY DEF Unreported, IsStatus

\* Without statuses nothing is known of any point.
LEMMA NoStatuses ==
    ASSUME NEW id
    PROVE  StatusIn(<<>>, id) = Unreported
BY EmptyList DEF StatusIn

\* Nothing has been sent at the start.
LEMMA InitFeedInv == StatusFeedInit => FeedInv
<1> SUFFICES ASSUME StatusFeedInit
             PROVE  FeedInv
  OBVIOUS
<1>1. /\ worker = [mode |-> "off", envelope |-> FALSE, status |-> <<>>, published |-> 0, acked |-> 0]
      /\ feed = [s \in Senders |-> <<>>]
      /\ shown = [lifecycle |-> "Stopped", statuses |-> <<>>, recent_samples |-> <<>>,
                  published_total |-> 0, acked_total |-> 0]
      /\ reported = {} /\ sampled = {}
  BY DEF StatusFeedInit
<1>2. FeedShape
  BY <1>1, NoStatuses, UnreportedIsStatus, EmptyList DEF FeedShape, GuiFields, WorkerFields, Senders
<1>3. LifeInv
  BY <1>1 DEF LifeInv, heard, Senders
<1>4. ReportedInv
  BY <1>1 DEF ReportedInv
<1>5. TotalsInv
  <2>1. heard = <<>> /\ TotalsOf(shown) = OwnTotals(worker)
    BY <1>1 DEF heard, Senders, TotalsOf, OwnTotals
  <2> QED
    BY <2>1, ChainOfNone DEF TotalsInv
<1>6. NewestInv(shown)
  BY <1>1, EmptyList DEF NewestInv
<1> QED
  BY <1>2, <1>3, <1>4, <1>5, <1>6 DEF FeedInv

\* The rest of the GUI leaves the feed alone.
LEMMA StutterKeepsFeed == FeedInv /\ UNCHANGED statusFeed => FeedInv'
BY DEF FeedInv, FeedShape, LifeInv, ReportedInv, TotalsInv, heard, statusFeed, NewestInv

-----------------------------------------------------------------------------
(* The worker sends. *)

\* A run starts when all that the last one sent was heard.
LEMMA StartKeepsFeed ==
    ASSUME FeedInv, NEW envelope \in BOOLEAN, StartRun(envelope)
    PROVE  FeedInv'
<1> DEFINE e == [kind |-> "Lifecycle", lifecycle |-> "Running"]
<1>1. heard = <<>> /\ DOMAIN feed = Senders /\ IsList(feed["once"])
  BY DEF FeedInv, LifeInv, StartRun, FeedShape, Senders
<1>2. /\ worker' = [mode |-> "on", envelope |-> envelope, status |-> <<>>, published |-> 0, acked |-> 0]
      /\ shown' = [shown EXCEPT !.published_total = 0, !.acked_total = 0]
      /\ feed' = [feed EXCEPT !["worker"] = heard \o <<e>>]
      /\ reported' = {} /\ sampled' = {}
  BY DEF StartRun, heard
<1>3. heard' = <<e>> /\ feed'["once"] = feed["once"] /\ DOMAIN feed' = Senders
  <2>1. <<>> \o <<e>> = <<e>>
    OBVIOUS
  <2> QED
    BY <1>1, <1>2, <2>1 DEF heard, Senders
<1>4. e.kind = "Lifecycle" /\ e.lifecycle = "Running"
  OBVIOUS
<1> HIDE DEF e
<1>5. /\ DOMAIN shown' = GuiFields /\ shown'.statuses = shown.statuses
      /\ shown'.recent_samples = shown.recent_samples /\ shown'.lifecycle = "Stopped"
      /\ shown'.published_total = 0 /\ shown'.acked_total = 0
  BY <1>2 DEF FeedInv, FeedShape, GuiFields, StartRun
<1>6. FeedShape'
  <2>1. IsEvent(e)
    BY <1>4 DEF IsEvent, Kinds
  <2>2. IsList(heard') /\ \A x \in Range(heard') : IsEvent(x)
    BY <2>1, <1>3, ListOfOne
  <2>3. \A s \in Senders : IsList(feed'[s]) /\ \A x \in Range(feed'[s]) : IsEvent(x)
    BY <2>2, <1>3 DEF FeedInv, FeedShape, Senders, heard
  <2>4. DOMAIN worker' = WorkerFields /\ worker'.envelope \in BOOLEAN /\ worker'.published = 0
        /\ worker'.acked = 0 /\ worker'.status = <<>>
    BY <1>2 DEF WorkerFields
  <2>5. \A id : IsStatus(StatusIn(worker'.status, id)) /\ IsStatus(StatusIn(shown'.statuses, id))
    BY <1>5, <2>4, NoStatuses, UnreportedIsStatus DEF FeedInv, FeedShape
  <2> QED
    BY <1>3, <1>5, <2>3, <2>4, <2>5 DEF FeedInv, FeedShape
<1>7. LifeInv'
  <2>1. DOMAIN heard' = {1} /\ heard'[1] = e
    BY <1>3
  <2>2. Turns(heard') = {1}
    BY <1>4, <2>1 DEF Turns
  <2> QED
    BY <1>2, <1>4, <1>5, <2>1, <2>2 DEF LifeInv
<1>8. ReportedInv'
  BY <1>2 DEF ReportedInv
<1>9. TotalsInv'
  <2>1. TotalsOf(shown') = OwnTotals(worker')
    BY <1>2, <1>5 DEF TotalsOf, OwnTotals
  <2>2. \A t : After(Totals, t, e) = t
    BY <1>4 DEF After, Totals, TotalsAfter
  <2> QED
    BY <1>3, <2>1, <2>2, ChainOfOne DEF TotalsInv
<1>10. NewestInv(shown')
  BY <1>5 DEF FeedInv, NewestInv
<1> QED
  BY <1>6, <1>7, <1>8, <1>9, <1>10 DEF FeedInv

\* What the worker sends while it runs comes after what it has sent, and the
\* GUI has not seen it.
LEMMA SendingKeeps ==
    ASSUME FeedInv, NEW more, IsList(more), \A e \in Range(more) : IsEvent(e),
           feed' = [feed EXCEPT !["worker"] = @ \o more],
           shown' = shown
    PROVE  /\ heard' = heard \o more /\ IsList(heard) /\ IsList(heard') /\ DOMAIN feed' = Senders
           /\ Range(heard') = Range(heard) \cup Range(more)
           /\ feed'["once"] = feed["once"]
           /\ \A s \in Senders : IsList(feed'[s]) /\ \A e \in Range(feed'[s]) : IsEvent(e)
           /\ \A k, v, mid, end : Chain(k, v, heard, mid) /\ Chain(k, mid, more, end) => Chain(k, v, heard', end)
           /\ (\A e \in Range(more) : e.kind # "Lifecycle") /\ worker.mode = "on" /\ worker'.mode = "on" => LifeInv'
<1>1. DOMAIN feed = Senders /\ IsList(heard) /\ \A e \in Range(heard) : IsEvent(e)
  BY DEF FeedInv, FeedShape, Senders, heard
<1>2. heard' = heard \o more /\ feed'["once"] = feed["once"] /\ DOMAIN feed' = Senders
  BY <1>1 DEF heard, Senders
<1>3. /\ IsList(heard') /\ Range(heard') = Range(heard) \cup Range(more)
      /\ Len(heard') = Len(heard) + Len(more)
      /\ \A n \in 1..Len(heard) : heard'[n] = heard[n]
      /\ \A n \in 1..Len(more) : heard'[Len(heard) + n] = more[n]
  BY <1>1, <1>2, ListsJoined
<1>4. \A s \in Senders : IsList(feed'[s]) /\ \A e \in Range(feed'[s]) : IsEvent(e)
  BY <1>1, <1>2, <1>3 DEF FeedInv, FeedShape, Senders, heard
<1>5. ASSUME NEW k, NEW v, NEW mid, NEW end, Chain(k, v, heard, mid), Chain(k, mid, more, end)
      PROVE  Chain(k, v, heard', end)
  BY <1>1, <1>2, <1>5, ChainsJoined, Zenon
<1>6. ASSUME \A e \in Range(more) : e.kind # "Lifecycle", worker.mode = "on", worker'.mode = "on"
      PROVE  LifeInv'
  <2>1. /\ Len(heard) \in Nat /\ DOMAIN heard = 1..Len(heard)
        /\ Len(more) \in Nat /\ DOMAIN more = 1..Len(more)
        /\ DOMAIN heard' = 1..Len(heard')
    BY <1>1, <1>3, ListFacts
  <2>2. ASSUME NEW n \in DOMAIN heard', n \notin DOMAIN heard
        PROVE  heard'[n].kind # "Lifecycle"
    <3>1. n - Len(heard) \in 1..Len(more) /\ n = Len(heard) + (n - Len(heard))
      BY <1>3, <2>1, <2>2
    <3>2. heard'[n] = more[n - Len(heard)]
      BY <3>1, <1>3
    <3> QED
      BY <3>1, <3>2, <2>1, <1>6 DEF Range
  <2>3. Turns(heard') = Turns(heard)
    <3>1. \A n \in DOMAIN heard : n \in DOMAIN heard' /\ heard'[n] = heard[n]
      BY <1>3, <2>1
    <3> QED
      BY <2>2, <3>1 DEF Turns
  <2>4. Turns(heard) = {1} => heard'[1] = heard[1]
    <3>1. Turns(heard) \in SUBSET DOMAIN heard
      BY DEF Turns
    <3> QED
      BY <1>3, <2>1, <3>1
  <2> QED
    BY <1>6, <2>3, <2>4 DEF FeedInv, LifeInv
<1> QED
  BY <1>1, <1>2, <1>3, <1>4, <1>5, <1>6

\* A run ends with its last event.
LEMMA StopKeepsFeed ==
    ASSUME FeedInv, StopRun
    PROVE  FeedInv'
<1> DEFINE e == [kind |-> "Lifecycle", lifecycle |-> "Stopped"]
<1>1. /\ worker' = [worker EXCEPT !.mode = "off"] /\ feed' = [feed EXCEPT !["worker"] = @ \o <<e>>]
      /\ UNCHANGED <<shown, reported, sampled, mixed>>
      /\ worker.mode = "on" /\ shown.lifecycle = "Running"
  BY DEF StopRun
<1>2. e.kind = "Lifecycle" /\ e.lifecycle = "Stopped"
  OBVIOUS
<1> HIDE DEF e
<1>3. IsEvent(e) /\ \A k, v : After(k, v, e) = v
  BY <1>2 DEF IsEvent, Kinds, After, TotalsAfter, StatusAfter
<1>4. IsList(<<e>>) /\ Range(<<e>>) = {e} /\ Len(<<e>>) = 1 /\ <<e>>[1] = e
  BY ListOfOne
<1>5. /\ heard' = heard \o <<e>> /\ IsList(heard) /\ IsList(heard') /\ DOMAIN feed' = Senders
      /\ Range(heard') = Range(heard) \cup {e}
      /\ feed'["once"] = feed["once"]
      /\ \A s \in Senders : IsList(feed'[s]) /\ \A x \in Range(feed'[s]) : IsEvent(x)
      /\ \A k, v, mid, end : Chain(k, v, heard, mid) /\ Chain(k, mid, <<e>>, end) => Chain(k, v, heard', end)
  BY <1>1, <1>3, <1>4, SendingKeeps
<1>6. \A k, v, end : Chain(k, v, heard, end) => Chain(k, v, heard', end)
  BY <1>3, <1>5, ChainOfOne
<1>7. /\ DOMAIN worker' = WorkerFields /\ worker'.mode = "off" /\ worker'.envelope = worker.envelope
      /\ worker'.status = worker.status /\ worker'.published = worker.published /\ worker'.acked = worker.acked
  BY <1>1 DEF FeedInv, FeedShape, WorkerFields
<1>8. FeedShape'
  BY <1>1, <1>5, <1>7 DEF FeedInv, FeedShape
<1>9. LifeInv'
  <2>1. /\ Len(heard) \in Nat /\ DOMAIN heard = 1..Len(heard) /\ Len(heard') = Len(heard) + 1
        /\ DOMAIN heard' = 1..Len(heard')
        /\ \A n \in 1..Len(heard) : heard'[n] = heard[n]
        /\ heard'[Len(heard) + 1] = e
    <3>1. \A n \in 1..1 : (heard \o <<e>>)[Len(heard) + n] = <<e>>[n]
      BY <1>4, <1>5, ListsJoined
    <3> QED
      BY <1>4, <1>5, <3>1, ListsJoined, ListFacts
  <2>2. Turns(heard) = {}
    BY <1>1 DEF FeedInv, LifeInv
  <2>3. Turns(heard') = {Len(heard')}
    <3>1. \A n \in 1..Len(heard) : heard'[n].kind # "Lifecycle"
      BY <2>1, <2>2 DEF Turns
    <3>2. \A n \in 1..Len(heard') : n \in 1..Len(heard) \/ n = Len(heard')
      BY <2>1
    <3>3. Len(heard') \in 1..Len(heard') /\ heard'[Len(heard')].kind = "Lifecycle"
      BY <2>1, <1>2
    <3> QED
      BY <2>1, <3>1, <3>2, <3>3 DEF Turns
  <2> QED
    BY <1>1, <1>2, <1>7, <2>1, <2>3 DEF LifeInv
<1>10. ReportedInv'
  <2>1. ASSUME NEW id \in reported
        PROVE  /\ id \in DOMAIN shown.statuses \/ \E x \in Range(heard') : id \in Mentions(x)
               /\ Agrees(id, id \in sampled, heard', StatusIn(shown.statuses, id), StatusIn(worker.status, id))
    <3>1. /\ id \in DOMAIN shown.statuses \/ \E x \in Range(heard) : id \in Mentions(x)
          /\ Agrees(id, id \in sampled, heard, StatusIn(shown.statuses, id), StatusIn(worker.status, id))
      BY DEF FeedInv, ReportedInv
    <3> QED
      BY <3>1, <1>5, <1>6 DEF Agrees
  <2> QED
    BY <1>1, <1>7, <2>1 DEF FeedInv, ReportedInv
<1>11. TotalsInv'
  BY <1>1, <1>6, <1>7 DEF FeedInv, TotalsInv, OwnTotals, TotalsOf
<1> QED
  BY <1>1, <1>8, <1>9, <1>10, <1>11 DEF FeedInv, NewestInv

\* What the GUI makes of a poll agrees with what the worker recorded of it.
LEMMA PollAgrees ==
    ASSUME NEW read, NEW failed, NEW publishes, NEW v, NEW id,
           Range(Identities(publishes)) = Range(Identities(read)),
           NEW m, NEW w, IsStatus(m), IsStatus(w),
           Same(m, w) \/ id \in Range(Identities(read)) \cup Range(Identities(failed))
    PROVE  LET mine == Reading(id, Publishing(id, Failing(id, m, failed),
                                              IF read = <<>> THEN <<>> ELSE publishes), read, v)
               own == Publishing(id, Reading(id, Failing(id, w, failed), read, v), publishes)
           IN  /\ Same(mine, own) /\ IsStatus(own)
               /\ (m = w \/ id \in Range(Identities(read))) => mine = own
<1> DEFINE pub == IF read = <<>> THEN <<>> ELSE publishes
           mf == Failing(id, m, failed)
           wf == Failing(id, w, failed)
           mine == Reading(id, Publishing(id, mf, pub), read, v)
           own == Publishing(id, Reading(id, wf, read, v), publishes)
<1>1. Range(Identities(<<>>)) = {}
  BY DEF Range, Identities
<1>2. CASE id \in Range(Identities(read))
  <2>1. pub = publishes
    BY <1>1, <1>2
  <2>2. PICK x : x = LastOf(publishes, id).error
    OBVIOUS
  <2>3. mine = record_sample(record_publish(mf, x), v) /\ own = record_publish(record_sample(wf, v), x)
    BY <1>2, <2>1, <2>2 DEF Reading, Publishing
  <2>4. \A a, b : record_sample(record_publish(a, x), v) = record_publish(record_sample(b, v), x)
    BY DEF record_sample, record_publish
  <2>5. IsStatus(own)
    BY <2>3 DEF record_sample, record_publish, IsStatus
  <2> HIDE DEF mine, own, mf, wf
  <2>6. mine = own
    BY <2>3, <2>4
  <2>7. Same(mine, own) /\ IsStatus(own)
    BY <2>5, <2>6 DEF Same
  <2> QED
    BY <2>6, <2>7 DEF mine, own, mf, wf
<1>3. CASE id \notin Range(Identities(read))
  <2>1. id \notin Range(Identities(pub)) /\ id \notin Range(Identities(publishes))
    BY <1>1, <1>3
  <2> HIDE DEF pub
  <2>2. mine = mf /\ own = wf
    BY <1>3, <2>1 DEF Reading, Publishing
  <2>3. CASE id \notin Range(Identities(failed))
    <3>1. mf = m /\ wf = w
      BY <2>3 DEF Failing
    <3> QED
      BY <1>3, <2>2, <2>3, <3>1 DEF pub
  <2>4. CASE id \in Range(Identities(failed))
    <3>1. PICK c : c = Cardinality(Places(Identities(failed), id))
      OBVIOUS
    <3>2. mf = record_read_failures(m, c) /\ wf = record_read_failures(w, c)
      BY <2>4, <3>1 DEF Failing
    <3>3. IsStatus(mf) /\ IsStatus(wf)
      BY <3>2 DEF record_read_failures, IsStatus
    <3>4. mf.stale = wf.stale /\ mf.error = wf.error
      BY <3>2 DEF record_read_failures
    <3>5. m = w => mf = wf
      BY <3>2
    <3> HIDE DEF mf, wf
    <3>6. Same(mf, wf)
      BY <3>3, <3>4 DEF Same
    <3> HIDE DEF mine, own
    <3> QED
      BY <1>3, <2>2, <3>3, <3>5, <3>6 DEF mine, own, mf, wf, pub
  <2> QED
    BY <2>3, <2>4
<1> QED
  BY <1>2, <1>3

\* The identities of a list are those of its entries.
LEMMA IdentitiesOf ==
    ASSUME NEW q
    PROVE  Range(Identities(q)) = {p.identity : p \in Range(q)}
BY DEF Range, Identities

\* What was accepted is counted.
LEMMA AcceptedFacts ==
    ASSUME NEW q, ArePublishes(q)
    PROVE  Accepted(q) \in Nat /\ (Range(Identities(q)) = {} => Accepted(q) = 0)
<1> DEFINE A == {n \in DOMAIN q : q[n].error = NoError}
<1>1. DOMAIN q = 1..Len(q) /\ Len(q) \in Nat
  BY ListFacts DEF ArePublishes
<1>2. IsFiniteSet(DOMAIN q) /\ A \in SUBSET DOMAIN q
  BY <1>1, FS_Interval
<1>3. IsFiniteSet(A)
  BY <1>2, FS_Subset
<1>4. Cardinality(A) \in Nat
  BY <1>3, FS_CardinalityType
<1>5. ASSUME Range(Identities(q)) = {}
      PROVE  Cardinality(A) = 0
  <2>1. A = {}
    BY <1>5 DEF Range, Identities
  <2> QED
    BY <2>1, FS_EmptySet
<1> QED
  BY <1>4, <1>5 DEF Accepted

\* What a poll sends leads from where the GUI will be to what the worker recorded.
LEMMA PollKeepsFeed ==
    ASSUME FeedInv, NEW read, IsList(read), NEW failed, IsList(failed), NEW refused, NEW acked,
           WorkerPoll(read, failed, refused, acked)
    PROVE  FeedInv'
<1> DEFINE publishes == Publishes(read, worker.envelope, refused)
           total == worker.published + Accepted(publishes)
           recorded == WithPublishes(WithSamples(WithFailures(worker.status, Identities(failed)),
                                               Samples(read, polls + 1)), publishes)
           stats == [value |-> polls + 1, published |-> Accepted(publishes), acked |-> acked]
           more == Sends(read, failed, publishes, stats)
           Named == Range(Identities(read)) \cup Range(Identities(failed))
<1>1. /\ worker.mode = "on"
      /\ acked \in {worker.acked, IF read = <<>> THEN worker.acked ELSE total}
      /\ worker' = [worker EXCEPT !.status = recorded, !.published = total, !.acked = acked]
      /\ feed' = [feed EXCEPT !["worker"] = @ \o more]
      /\ reported' = reported \cup Range(Identities(read \o failed))
      /\ sampled' = sampled \cup Range(Identities(read))
      /\ shown' = shown /\ mixed' = mixed
  BY DEF WorkerPoll
<1>2. /\ ArePublishes(publishes) /\ Range(Identities(publishes)) = Range(Identities(read))
      /\ Accepted(publishes) \in Nat
      /\ read = <<>> => Accepted(publishes) = 0
  <2>1. worker.envelope \in BOOLEAN
    BY DEF FeedInv, FeedShape
  <2>2. ArePublishes(publishes) /\ Range(Identities(publishes)) = Range(Identities(read))
    BY <2>1, PublishedFacts
  <2>3. Accepted(publishes) \in Nat /\ (Range(Identities(publishes)) = {} => Accepted(publishes) = 0)
    BY <2>2, AcceptedFacts
  <2>4. Range(Identities(<<>>)) = {}
    BY DEF Range, Identities
  <2> QED
    BY <2>2, <2>3, <2>4
<1> HIDE DEF publishes
<1>3. stats.value = polls + 1 /\ stats.published = Accepted(publishes) /\ stats.acked = acked
  OBVIOUS
<1> HIDE DEF stats
<1>4. /\ IsList(more) /\ \A e \in Range(more) : IsEvent(e) /\ e.kind # "Lifecycle"
      /\ \A x \in Named : \E e \in Range(more) : x \in Mentions(e)
  BY <1>2, SendsLead
<1>5. ASSUME NEW id, NEW s
      PROVE  Chain(StatusOf(id), s, more,
                   Reading(id, Publishing(id, Failing(id, s, failed),
                                          IF read = <<>> THEN <<>> ELSE publishes),
                           read, polls + 1))
  <2>1. Chain(StatusOf(id), s, more,
                   Reading(id, Publishing(id, Failing(id, s, failed),
                                          IF read = <<>> THEN <<>> ELSE publishes),
                           read, stats.value))
    BY <1>2, SendsLead
  <2> QED
    BY <2>1, <1>3
<1>6. ASSUME NEW t
      PROVE  Chain(Totals, t, more,
                   IF read = <<>> THEN t
                   ELSE TotalsAfter(t, [kind |-> "PublishStatus", published |-> Accepted(publishes),
                                        acked |-> acked]))
  <2>1. Chain(Totals, t, more,
                   IF read = <<>> THEN t
                   ELSE TotalsAfter(t, [kind |-> "PublishStatus", published |-> stats.published,
                                        acked |-> stats.acked]))
    BY <1>2, SendsLead
  <2> QED
    BY <2>1, <1>3
<1> HIDE DEF more
<1>7. ASSUME NEW id
      PROVE  StatusIn(recorded, id) =
                Publishing(id, Reading(id, Failing(id, StatusIn(worker.status, id), failed),
                                       read, polls + 1), publishes)
  BY WorkerRecords
<1>8. DOMAIN worker.status \cup Named \subseteq DOMAIN recorded
  <2> DEFINE a == WithFailures(worker.status, Identities(failed))
             b == WithSamples(a, Samples(read, polls + 1))
  <2>1. DOMAIN a = DOMAIN worker.status \cup Range(Identities(failed))
    BY FailuresFacts
  <2> HIDE DEF a
  <2>2. DOMAIN b = DOMAIN a \cup Range(Identities(Samples(read, polls + 1)))
    BY SamplesFacts
  <2>3. Identities(Samples(read, polls + 1)) = Identities(read)
    BY SamplesOf
  <2> HIDE DEF b
  <2>4. DOMAIN WithPublishes(b, publishes) = DOMAIN b \cup Range(Identities(publishes))
    BY PublishesFacts
  <2> QED
    BY <2>1, <2>2, <2>3, <2>4, Zenon DEF a, b
<1> HIDE DEF recorded
<1>9. Range(Identities(read \o failed)) = Named
  <2>1. Range(read \o failed) = Range(read) \cup Range(failed)
    BY ListsJoined
  <2> QED
    BY <2>1, IdentitiesOf
<1> HIDE DEF Named
<1>10. /\ heard' = heard \o more /\ IsList(heard) /\ IsList(heard') /\ DOMAIN feed' = Senders
       /\ Range(heard') = Range(heard) \cup Range(more)
       /\ feed'["once"] = feed["once"]
       /\ \A s \in Senders : IsList(feed'[s]) /\ \A e \in Range(feed'[s]) : IsEvent(e)
       /\ \A k, v, mid, end : Chain(k, v, heard, mid) /\ Chain(k, mid, more, end) => Chain(k, v, heard', end)
       /\ worker'.mode = "on" => LifeInv'
  BY <1>1, <1>4, SendingKeeps
<1>11. /\ DOMAIN worker' = WorkerFields /\ worker'.mode = "on" /\ worker'.envelope = worker.envelope
       /\ worker'.status = recorded /\ worker'.published = total /\ worker'.acked = acked
  <2> HIDE DEF total
  <2> QED
    BY <1>1 DEF FeedInv, FeedShape, WorkerFields
<1>12. /\ worker.published \in Nat /\ worker.acked \in 0..worker.published
       /\ worker'.published \in Nat /\ worker'.acked \in 0..worker'.published
       /\ acked >= worker.acked /\ acked \in Nat /\ worker.acked \in Nat
  <2>1. worker.published \in Nat /\ worker.acked \in 0..worker.published
    BY DEF FeedInv, FeedShape
  <2>2. total \in Nat /\ total >= worker.published
    BY <1>2, <2>1
  <2>3. acked = worker.acked \/ acked = total
    BY <1>1
  <2> HIDE DEF total
  <2> QED
    BY <1>11, <2>1, <2>2, <2>3
<1>13. ASSUME NEW id, NEW s, NEW end, Chain(StatusOf(id), s, heard, end), IsStatus(end),
              Same(end, StatusIn(worker.status, id)) \/ id \in Named,
              NEW whole, whole \in BOOLEAN,
              whole => end = StatusIn(worker.status, id) \/ id \in Range(Identities(read))
       PROVE  Agrees(id, whole, heard', s, StatusIn(worker'.status, id))
  <2> DEFINE w == StatusIn(worker.status, id)
             mine == Reading(id, Publishing(id, Failing(id, end, failed),
                                            IF read = <<>> THEN <<>> ELSE publishes),
                             read, polls + 1)
             own == Publishing(id, Reading(id, Failing(id, w, failed), read, polls + 1), publishes)
  <2>1. IsStatus(w)
    BY DEF FeedInv, FeedShape
  <2>2. Same(mine, own) /\ (end = w \/ id \in Range(Identities(read)) => mine = own)
    <3>1. Same(end, w) \/ id \in Range(Identities(read)) \cup Range(Identities(failed))
      BY <1>13 DEF Named
    <3> HIDE DEF w
    <3> QED
      BY <1>2, <1>13, <2>1, <3>1, PollAgrees
  <2>3. Chain(StatusOf(id), end, more, mine)
    BY <1>5
  <2>4. StatusIn(worker'.status, id) = own
    BY <1>7, <1>11
  <2> HIDE DEF mine, own, w
  <2>5. Chain(StatusOf(id), s, heard', mine)
    BY <1>10, <1>13, <2>3
  <2>6. whole => mine = own
    BY <1>13, <2>2 DEF w
  <2> QED
    BY <2>2, <2>4, <2>5, <2>6 DEF Agrees
<1>14. FeedShape'
  <2>1. ASSUME NEW id
        PROVE  IsStatus(StatusIn(worker'.status, id))
    <3> DEFINE w == StatusIn(worker.status, id)
               y == Reading(id, Failing(id, w, failed), read, polls + 1)
    <3>1. IsStatus(w)
      BY DEF FeedInv, FeedShape
    <3> HIDE DEF w
    <3>2. IsStatus(Failing(id, w, failed))
      BY <3>1 DEF Failing, record_read_failures, IsStatus
    <3>3. IsStatus(y)
      BY <3>2 DEF Reading, record_sample, IsStatus
    <3> HIDE DEF y
    <3>4. IsStatus(Publishing(id, y, publishes))
      BY <3>3 DEF Publishing, record_publish, IsStatus
    <3> QED
      BY <3>4, <1>7, <1>11 DEF y, w
  <2> QED
    BY <2>1, <1>1, <1>10, <1>11, <1>12 DEF FeedInv, FeedShape
<1>15. ReportedInv'
  <2>1. sampled \subseteq reported /\ reported \subseteq DOMAIN worker.status
    BY DEF FeedInv, ReportedInv
  <2>2. sampled' \subseteq reported' /\ reported' \subseteq DOMAIN worker'.status
    BY <1>1, <1>8, <1>9, <1>11, <2>1 DEF Named
  <2>3. ASSUME NEW id \in reported'
        PROVE  /\ id \in DOMAIN shown'.statuses \/ \E e \in Range(heard') : id \in Mentions(e)
               /\ Agrees(id, id \in sampled', heard', StatusIn(shown'.statuses, id),
                         StatusIn(worker'.status, id))
    <3> DEFINE s == StatusIn(shown.statuses, id)
    <3>1. IsStatus(s)
      BY DEF FeedInv, FeedShape
    <3>2. CASE id \in reported
      <4>1. /\ id \in DOMAIN shown.statuses \/ \E e \in Range(heard) : id \in Mentions(e)
            /\ Agrees(id, id \in sampled, heard, s, StatusIn(worker.status, id))
        BY <3>2 DEF FeedInv, ReportedInv
      <4>2. PICK end : /\ Chain(StatusOf(id), s, heard, end)
                       /\ Same(end, StatusIn(worker.status, id))
                       /\ id \in sampled => end = StatusIn(worker.status, id)
        BY <4>1 DEF Agrees
      <4>3. IsStatus(end)
        BY <4>2 DEF Same
      <4>4. id \in sampled' => end = StatusIn(worker.status, id) \/ id \in Range(Identities(read))
        BY <1>1, <4>2
      <4>5. (id \in sampled') \in BOOLEAN
        OBVIOUS
      <4> HIDE DEF s
      <4>6. Agrees(id, id \in sampled', heard', s, StatusIn(worker'.status, id))
        BY <1>13, <4>2, <4>3, <4>4, <4>5
      <4> QED
        BY <1>1, <1>10, <4>1, <4>6 DEF s
    <3>3. CASE id \notin reported
      <4>1. id \in Named /\ id \notin sampled
        BY <1>1, <1>9, <2>1, <3>3
      <4>2. PICK end : Chain(StatusOf(id), s, heard, end) /\ IsStatus(end)
        BY <1>10, <3>1, StatusLeads
      <4>3. id \in sampled' => id \in Range(Identities(read))
        BY <1>1, <4>1
      <4>4. (id \in sampled') \in BOOLEAN
        OBVIOUS
      <4> HIDE DEF s
      <4>5. Agrees(id, id \in sampled', heard', s, StatusIn(worker'.status, id))
        BY <1>13, <4>1, <4>2, <4>3, <4>4
      <4>6. \E e \in Range(heard') : id \in Mentions(e)
        BY <1>4, <1>10, <4>1
      <4> QED
        BY <1>1, <4>5, <4>6 DEF s
    <3> QED
      BY <3>2, <3>3
  <2> QED
    BY <2>2, <2>3 DEF ReportedInv
<1>16. TotalsInv'
  <2> SUFFICES ASSUME ~mixed
               PROVE  Chain(Totals, TotalsOf(shown), heard', OwnTotals(worker'))
    BY <1>1 DEF TotalsInv, TotalsOf
  <2> DEFINE t == OwnTotals(worker)
             e == [kind |-> "PublishStatus", published |-> Accepted(publishes), acked |-> acked]
             end == IF read = <<>> THEN t ELSE TotalsAfter(t, e)
  <2>1. Chain(Totals, TotalsOf(shown), heard, t)
    BY DEF FeedInv, TotalsInv
  <2>2. Chain(Totals, t, more, end)
    BY <1>6
  <2>3. end = OwnTotals(worker')
    <3>1. t.queued = worker.published /\ t.delivered = worker.acked
      BY DEF OwnTotals
    <3>2. OwnTotals(worker') = [queued |-> total, delivered |-> acked]
      BY <1>11 DEF OwnTotals
    <3>3. CASE read = <<>>
      <4>1. total = worker.published /\ acked = worker.acked
        BY <3>3, <1>1, <1>2, <1>12
      <4> QED
        BY <3>2, <3>3, <4>1 DEF OwnTotals
    <3>4. CASE read # <<>>
      <4>1. e.kind = "PublishStatus" /\ e.published = Accepted(publishes) /\ e.acked = acked
        OBVIOUS
      <4> HIDE DEF e
      <4>2. TotalsAfter(t, e) = [queued |-> total, delivered |-> IF acked > worker.acked THEN acked ELSE worker.acked]
        BY <3>1, <4>1 DEF TotalsAfter
      <4>3. (IF acked > worker.acked THEN acked ELSE worker.acked) = acked
        BY <1>12
      <4> QED
        BY <3>2, <3>4, <4>2, <4>3
    <3> QED
      BY <3>3, <3>4
  <2> HIDE DEF t, end
  <2> QED
    BY <1>10, <2>1, <2>2, <2>3
<1> QED
  BY <1>1, <1>10, <1>11, <1>14, <1>15, <1>16 DEF FeedInv, NewestInv

\* A failure makes statuses agree in what it sets.
LEMMA FailingAgrees ==
    ASSUME NEW failed, NEW id, NEW m, NEW w, IsStatus(m), IsStatus(w),
           Same(m, w) \/ id \in Range(Identities(failed))
    PROVE  /\ Same(Failing(id, m, failed), Failing(id, w, failed))
           /\ IsStatus(Failing(id, w, failed))
<1>1. CASE id \notin Range(Identities(failed))
  <2>1. Failing(id, m, failed) = m /\ Failing(id, w, failed) = w
    BY <1>1 DEF Failing
  <2> QED
    BY <1>1, <2>1
<1>2. CASE id \in Range(Identities(failed))
  <2>1. PICK c : c = Cardinality(Places(Identities(failed), id))
    OBVIOUS
  <2> DEFINE mf == record_read_failures(m, c)
             wf == record_read_failures(w, c)
  <2>2. Failing(id, m, failed) = mf /\ Failing(id, w, failed) = wf
    BY <1>2, <2>1 DEF Failing
  <2>3. IsStatus(mf) /\ IsStatus(wf) /\ mf.stale = wf.stale /\ mf.error = wf.error
    BY DEF record_read_failures, IsStatus
  <2> HIDE DEF mf, wf
  <2> QED
    BY <2>2, <2>3 DEF Same
<1> QED
  BY <1>1, <1>2

\* The same for devices that no longer answer.
LEMMA LostKeepsFeed ==
    ASSUME FeedInv, NEW lost, DevicesLost(lost)
    PROVE  FeedInv'
<1> DEFINE e == [kind |-> "Failures", identities |-> Identities(lost)]
           Named == Range(Identities(lost))
<1>1. /\ worker.mode = "on"
      /\ worker' = [worker EXCEPT !.status = WithFailures(worker.status, Identities(lost))]
      /\ feed' = [feed EXCEPT !["worker"] = @ \o <<e>>]
      /\ reported' = reported \cup Named
      /\ shown' = shown /\ sampled' = sampled /\ mixed' = mixed
  BY DEF DevicesLost
<1>2. e.kind = "Failures" /\ e.identities = Identities(lost)
  OBVIOUS
<1> HIDE DEF e
<1>3. /\ IsEvent(e) /\ e.kind # "Lifecycle" /\ Mentions(e) = Named
      /\ \A id, s : After(StatusOf(id), s, e) = Failing(id, s, lost)
      /\ \A t : After(Totals, t, e) = t
  BY <1>2 DEF IsEvent, Kinds, Mentions, After, StatusOf, StatusAfter, Failing, Totals, TotalsAfter
<1>4. IsList(<<e>>) /\ Range(<<e>>) = {e}
  BY ListOfOne
<1>5. /\ heard' = heard \o <<e>> /\ IsList(heard) /\ IsList(heard') /\ DOMAIN feed' = Senders
      /\ Range(heard') = Range(heard) \cup {e}
      /\ feed'["once"] = feed["once"]
      /\ \A s \in Senders : IsList(feed'[s]) /\ \A x \in Range(feed'[s]) : IsEvent(x)
      /\ \A k, v, mid, end : Chain(k, v, heard, mid) /\ Chain(k, mid, <<e>>, end) => Chain(k, v, heard', end)
      /\ worker'.mode = "on" => LifeInv'
  <2>1. \A x \in Range(<<e>>) : IsEvent(x) /\ x.kind # "Lifecycle"
    BY <1>3, <1>4
  <2> DEFINE more == <<e>>
  <2>2. IsList(more) /\ feed' = [feed EXCEPT !["worker"] = @ \o more] /\ Range(more) = {e}
    BY <1>1, <1>4
  <2>3. \A x \in Range(more) : IsEvent(x) /\ x.kind # "Lifecycle"
    BY <2>1
  <2> HIDE DEF more
  <2>4. /\ heard' = heard \o more /\ IsList(heard) /\ IsList(heard') /\ DOMAIN feed' = Senders
        /\ Range(heard') = Range(heard) \cup Range(more)
        /\ feed'["once"] = feed["once"]
        /\ \A s \in Senders : IsList(feed'[s]) /\ \A x \in Range(feed'[s]) : IsEvent(x)
        /\ \A k, v, mid, end : Chain(k, v, heard, mid) /\ Chain(k, mid, more, end) => Chain(k, v, heard', end)
        /\ worker'.mode = "on" => LifeInv'
    BY <1>1, <2>2, <2>3, SendingKeeps
  <2> QED
    BY <2>2, <2>4 DEF more
<1>6. ASSUME NEW k, NEW v, NEW mid, Chain(k, v, heard, mid)
      PROVE  Chain(k, v, heard', After(k, mid, e))
  <2>1. Chain(k, mid, <<e>>, After(k, mid, e))
    BY ChainOfOne
  <2> QED
    BY <1>5, <1>6, <2>1
<1>7. /\ DOMAIN worker' = WorkerFields /\ worker'.mode = "on" /\ worker'.envelope = worker.envelope
      /\ worker'.status = WithFailures(worker.status, Identities(lost))
      /\ worker'.published = worker.published /\ worker'.acked = worker.acked
  BY <1>1 DEF FeedInv, FeedShape, WorkerFields
<1>8. ASSUME NEW id
      PROVE  StatusIn(worker'.status, id) = Failing(id, StatusIn(worker.status, id), lost)
  <2>1. StatusIn(WithFailures(worker.status, Identities(lost)), id) =
           IF id \in Range(Identities(lost))
           THEN record_read_failures(StatusIn(worker.status, id), Cardinality(Places(Identities(lost), id)))
           ELSE StatusIn(worker.status, id)
    BY FailuresFacts
  <2> QED
    BY <2>1, <1>7 DEF Failing
<1>9. DOMAIN worker'.status = DOMAIN worker.status \cup Named
  BY <1>7, FailuresFacts
<1>10. FeedShape'
  <2>1. ASSUME NEW id
        PROVE  IsStatus(StatusIn(worker'.status, id))
    <3> DEFINE w == StatusIn(worker.status, id)
    <3>1. IsStatus(w)
      BY DEF FeedInv, FeedShape
    <3> HIDE DEF w
    <3>2. IsStatus(Failing(id, w, lost))
      BY <3>1 DEF Failing, record_read_failures, IsStatus
    <3> QED
      BY <3>2, <1>8 DEF w
  <2> QED
    BY <2>1, <1>1, <1>5, <1>7 DEF FeedInv, FeedShape
<1>11. ReportedInv'
  <2>1. sampled \subseteq reported /\ reported \subseteq DOMAIN worker.status
    BY DEF FeedInv, ReportedInv
  <2>2. ASSUME NEW id \in reported'
        PROVE  /\ id \in DOMAIN shown.statuses \/ \E x \in Range(heard') : id \in Mentions(x)
               /\ Agrees(id, id \in sampled, heard', StatusIn(shown.statuses, id),
                         StatusIn(worker'.status, id))
    <3> DEFINE s == StatusIn(shown.statuses, id)
               w == StatusIn(worker.status, id)
    <3>1. IsStatus(s) /\ IsStatus(w)
      BY DEF FeedInv, FeedShape
    <3>2. ASSUME NEW end, Chain(StatusOf(id), s, heard, end), IsStatus(end),
                 Same(end, w) \/ id \in Named, id \in sampled => end = w
          PROVE  Agrees(id, id \in sampled, heard', s, StatusIn(worker'.status, id))
      <4> HIDE DEF s, w
      <4>1. Chain(StatusOf(id), s, heard', Failing(id, end, lost))
        <5>1. Chain(StatusOf(id), s, heard', After(StatusOf(id), end, e))
          BY <1>6, <3>2
        <5> QED
          BY <5>1, <1>3
      <4>2. Same(Failing(id, end, lost), Failing(id, w, lost))
        BY <3>1, <3>2, FailingAgrees
      <4>3. id \in sampled => Failing(id, end, lost) = Failing(id, w, lost)
        BY <3>2
      <4>4. StatusIn(worker'.status, id) = Failing(id, w, lost)
        BY <1>8 DEF w
      <4> QED
        BY <4>1, <4>2, <4>3, <4>4 DEF Agrees
    <3>3. CASE id \in reported
      <4>1. /\ id \in DOMAIN shown.statuses \/ \E x \in Range(heard) : id \in Mentions(x)
            /\ Agrees(id, id \in sampled, heard, s, w)
        BY <3>3 DEF FeedInv, ReportedInv
      <4> HIDE DEF s, w
      <4>2. PICK end : /\ Chain(StatusOf(id), s, heard, end) /\ Same(end, w)
                       /\ id \in sampled => end = w
        BY <4>1 DEF Agrees
      <4>3. IsStatus(end)
        BY <4>2 DEF Same
      <4> QED
        BY <1>5, <3>2, <4>1, <4>2, <4>3 DEF s
    <3>4. CASE id \notin reported
      <4>1. id \in Named /\ id \notin sampled
        BY <1>1, <2>1, <3>4
      <4> HIDE DEF s, w
      <4>2. PICK end : Chain(StatusOf(id), s, heard, end) /\ IsStatus(end)
        BY <1>5, <3>1, StatusLeads
      <4>3. \E x \in Range(heard') : id \in Mentions(x)
        BY <1>3, <1>5, <4>1
      <4> QED
        BY <3>2, <4>1, <4>2, <4>3 DEF s
    <3> QED
      BY <3>3, <3>4
  <2> QED
    BY <2>1, <2>2, <1>1, <1>9 DEF ReportedInv
<1>12. TotalsInv'
  <2> SUFFICES ASSUME ~mixed
               PROVE  Chain(Totals, TotalsOf(shown), heard', OwnTotals(worker'))
    BY <1>1 DEF TotalsInv, TotalsOf
  <2>1. Chain(Totals, TotalsOf(shown), heard, OwnTotals(worker))
    BY DEF FeedInv, TotalsInv
  <2>2. OwnTotals(worker') = OwnTotals(worker)
    BY <1>7 DEF OwnTotals
  <2>3. Chain(Totals, TotalsOf(shown), heard', After(Totals, OwnTotals(worker), e))
    BY <1>6, <2>1
  <2> QED
    BY <1>3, <2>2, <2>3
<1> QED
  BY <1>1, <1>5, <1>7, <1>10, <1>11, <1>12 DEF FeedInv, NewestInv

\* A poll of the user's sends on its own behalf.
LEMMA PollOnceKeepsFeed ==
    ASSUME FeedInv, NEW read, IsList(read), NEW failed, IsList(failed), NEW refused,
           NEW envelope \in BOOLEAN, PollOnceEnds(read, failed, refused, envelope)
    PROVE  FeedInv'
<1> DEFINE publishes == Publishes(read, envelope, refused)
           stats == [value |-> polls + 1, published |-> Accepted(publishes), acked |-> 0]
           more == Sends(read, failed, publishes, stats)
<1>1. /\ feed' = [feed EXCEPT !["once"] = @ \o more]
      /\ UNCHANGED <<worker, shown, reported, sampled, mixed>>
  BY DEF PollOnceEnds
<1>2. ArePublishes(publishes)
  BY PublishedFacts
<1> HIDE DEF publishes, stats
<1>3. IsList(more) /\ \A e \in Range(more) : IsEvent(e) /\ e.kind # "Lifecycle"
  BY <1>2, SendsLead
<1> HIDE DEF more
<1>4. /\ DOMAIN feed = Senders /\ IsList(feed["once"])
      /\ \A e \in Range(feed["once"]) : IsEvent(e) /\ e.kind # "Lifecycle"
  BY DEF FeedInv, FeedShape, Senders
<1>5. DOMAIN feed' = Senders /\ feed'["once"] = feed["once"] \o more /\ heard' = heard
  BY <1>1, <1>4 DEF heard, Senders
<1>6. /\ IsList(feed'["once"])
      /\ \A e \in Range(feed'["once"]) : IsEvent(e) /\ e.kind # "Lifecycle"
  BY <1>3, <1>4, <1>5, ListsJoined
<1>7. FeedShape'
  <2>1. \A s \in Senders : IsList(feed'[s]) /\ \A e \in Range(feed'[s]) : IsEvent(e)
    <3>1. IsList(heard) /\ \A e \in Range(heard) : IsEvent(e)
      BY DEF FeedInv, FeedShape, Senders, heard
    <3> QED
      BY <3>1, <1>5, <1>6 DEF Senders, heard
  <2> QED
    BY <2>1, <1>1, <1>5, <1>6 DEF FeedInv, FeedShape
<1> QED
  BY <1>1, <1>5, <1>7 DEF FeedInv, LifeInv, ReportedInv, TotalsInv, NewestInv, TotalsOf, OwnTotals

-----------------------------------------------------------------------------
(* The GUI hears. *)

\* What is left to hear, and whether it holds a change of state.
LEMMA TailTurns ==
    ASSUME NEW q, IsList(q), q # <<>>
    PROVE  /\ Head(q) = q[1] /\ 1 \in DOMAIN q /\ Head(q) \in Range(q)
           /\ Range(q) = {Head(q)} \cup Range(Tail(q))
           /\ Head(q).kind # "Lifecycle" /\ Turns(q) = {} => Turns(Tail(q)) = {}
           /\ Turns(q) = {1} => Turns(Tail(q)) = {}
           /\ Turns(q) = {Len(q)} =>
                 \/ Len(q) = 1 /\ Tail(q) = <<>>
                 \/ /\ Head(q).kind # "Lifecycle" /\ Turns(Tail(q)) = {Len(Tail(q))}
                    /\ Tail(q)[Len(Tail(q))] = q[Len(q)]
           /\ 1 \in Turns(q) <=> Head(q).kind = "Lifecycle"
<1> DEFINE L == Len(q)
           r == Tail(q)
<1>1. /\ L \in Nat /\ DOMAIN q = 1..L /\ L # 0
      /\ IsList(r) /\ Len(r) = L - 1
      /\ Head(q) = q[1] /\ 1 \in DOMAIN q
      /\ \A n \in 1..(L - 1) : r[n] = q[n + 1]
  BY ListFacts
<1>2. DOMAIN r = 1..(L - 1) /\ (r = <<>> <=> L - 1 = 0)
  BY <1>1, ListFacts
<1> HIDE DEF L, r
<1>3. \A n \in 1..(L - 1) : n + 1 \in 1..L
  BY <1>1
<1>4. \A m \in 1..L : m = 1 \/ (m - 1 \in 1..(L - 1) /\ m = (m - 1) + 1)
  BY <1>1
<1>5. Range(q) = {Head(q)} \cup Range(r) /\ Head(q) \in Range(q)
  <2>1. Range(r) \subseteq Range(q)
    BY <1>1, <1>2, <1>3 DEF Range
  <2>2. Range(q) \subseteq {q[1]} \cup Range(r)
    <3>1. ASSUME NEW m \in 1..L
          PROVE  q[m] \in {q[1]} \cup Range(r)
      <4>1. CASE m = 1
        BY <4>1
      <4>2. CASE m # 1
        <5>1. m - 1 \in 1..(L - 1) /\ r[m - 1] = q[m]
          BY <1>1, <1>4, <4>2
        <5> QED
          BY <5>1, <1>2 DEF Range
      <4> QED
        BY <4>1, <4>2
    <3> QED
      BY <3>1, <1>1 DEF Range
  <2>3. q[1] \in Range(q)
    BY <1>1 DEF Range
  <2> QED
    BY <2>1, <2>2, <2>3, <1>1
<1>6. \A n : n \in Turns(r) <=> n \in 1..(L - 1) /\ n + 1 \in Turns(q)
  BY <1>1, <1>2, <1>3 DEF Turns
<1>7. 1 \in Turns(q) <=> Head(q).kind = "Lifecycle"
  BY <1>1 DEF Turns
<1>8. Turns(q) = {} => Turns(r) = {}
  BY <1>6
<1>9. Turns(q) = {1} => Turns(r) = {}
  <2>1. \A n \in 1..(L - 1) : n + 1 # 1
    BY <1>1
  <2> QED
    BY <2>1, <1>6
<1>10. ASSUME Turns(q) = {L}, L # 1
       PROVE  /\ Head(q).kind # "Lifecycle" /\ Turns(r) = {L - 1} /\ r[L - 1] = q[L]
  <2>1. L - 1 \in 1..(L - 1) /\ (L - 1) + 1 = L
    BY <1>1, <1>10
  <2>2. \A n \in 1..(L - 1) : n + 1 = L <=> n = L - 1
    BY <1>1
  <2>3. Turns(r) = {L - 1}
    BY <2>1, <2>2, <1>6, <1>10
  <2> QED
    BY <2>1, <2>3, <1>1, <1>7, <1>10
<1>11. L = 1 => r = <<>>
  BY <1>2
<1> QED
  BY <1>1, <1>5, <1>7, <1>8, <1>9, <1>10, <1>11 DEF L, r

\* The GUI hears the worker: the chain is one event shorter.
LEMMA HearingKeepsFeed ==
    ASSUME FeedInv, DrainEvent("worker")
    PROVE  FeedInv'
<1> DEFINE e == Head(heard)
<1>1. /\ heard # <<>> /\ shown' = Shows(shown, e)
      /\ feed' = [feed EXCEPT !["worker"] = Tail(@)]
      /\ reported' = reported /\ sampled' = sampled /\ worker' = worker
      /\ ~mixed' => ~mixed
  BY DEF DrainEvent, heard
<1>2. /\ DOMAIN shown = GuiFields /\ DOMAIN feed = Senders
      /\ IsList(heard) /\ \A x \in Range(heard) : IsEvent(x)
      /\ IsList(shown.recent_samples) /\ NewestInv(shown)
      /\ \A id : IsStatus(StatusIn(shown.statuses, id))
  BY DEF FeedInv, FeedShape, Senders, heard
<1>3. heard' = Tail(heard) /\ feed'["once"] = feed["once"] /\ DOMAIN feed' = Senders
  BY <1>1, <1>2 DEF heard, Senders
<1>4. /\ e = heard[1] /\ e \in Range(heard) /\ IsEvent(e)
      /\ Range(heard) = {e} \cup Range(heard') /\ IsList(heard')
  BY <1>1, <1>2, <1>3, TailTurns, ListFacts
<1> HIDE DEF e
<1>5. /\ DOMAIN shown' = GuiFields
      /\ \A id : StatusIn(shown'.statuses, id) = StatusAfter(id, StatusIn(shown.statuses, id), e)
      /\ DOMAIN shown'.statuses = DOMAIN shown.statuses \cup Mentions(e)
      /\ TotalsOf(shown') = TotalsAfter(TotalsOf(shown), e)
      /\ shown'.lifecycle = (IF e.kind = "Lifecycle" THEN e.lifecycle ELSE shown.lifecycle)
  <2> DEFINE g == Shows(shown, e)
  <2>1. /\ DOMAIN g = GuiFields
        /\ \A id : StatusIn(g.statuses, id) = StatusAfter(id, StatusIn(shown.statuses, id), e)
        /\ DOMAIN g.statuses = DOMAIN shown.statuses \cup Mentions(e)
        /\ TotalsOf(g) = TotalsAfter(TotalsOf(shown), e)
        /\ g.lifecycle = (IF e.kind = "Lifecycle" THEN e.lifecycle ELSE shown.lifecycle)
    BY <1>2, <1>4, ShowsFacts DEF TotalsOf
  <2> HIDE DEF g
  <2>2. shown' = g
    BY <1>1 DEF g
  <2> QED
    BY <2>1, <2>2 DEF TotalsOf
<1>6. IsList(shown'.recent_samples) /\ NewestInv(shown')
  BY <1>1, <1>2, <1>4, NewestShows
<1>7. FeedShape'
  <2>1. \A s \in Senders : IsList(feed'[s]) /\ \A x \in Range(feed'[s]) : IsEvent(x)
    BY <1>2, <1>3, <1>4 DEF FeedInv, FeedShape, Senders, heard
  <2>2. \A id : IsStatus(StatusIn(shown'.statuses, id))
    BY <1>2, <1>5, StatusKept
  <2> QED
    BY <2>1, <2>2, <1>1, <1>3, <1>5, <1>6 DEF FeedInv, FeedShape
<1>8. LifeInv'
  <2>1. /\ e.kind # "Lifecycle" /\ Turns(heard) = {} => Turns(heard') = {}
        /\ Turns(heard) = {1} => Turns(heard') = {}
        /\ Turns(heard) = {Len(heard)} =>
                 \/ Len(heard) = 1 /\ heard' = <<>>
                 \/ /\ e.kind # "Lifecycle" /\ Turns(heard') = {Len(heard')}
                    /\ heard'[Len(heard')] = heard[Len(heard)]
        /\ 1 \in Turns(heard) <=> e.kind = "Lifecycle"
    BY <1>1, <1>2, <1>3, TailTurns DEF e
  <2>2. worker.mode \in {"on", "off"}
    BY DEF FeedInv, LifeInv
  <2>3. CASE worker.mode = "on"
    <3>1. CASE shown.lifecycle = "Running" /\ Turns(heard) = {}
      <4>1. e.kind # "Lifecycle" /\ Turns(heard') = {}
        BY <2>1, <3>1
      <4> QED
        BY <4>1, <3>1, <2>3, <1>1, <1>5 DEF LifeInv
    <3>2. CASE shown.lifecycle = "Stopped" /\ Turns(heard) = {1} /\ heard[1].lifecycle = "Running"
      <4>1. e.kind = "Lifecycle" /\ Turns(heard') = {}
        BY <2>1, <3>2
      <4>2. shown'.lifecycle = "Running"
        BY <4>1, <3>2, <1>4, <1>5
      <4> QED
        BY <4>1, <4>2, <2>3, <1>1 DEF LifeInv
    <3> QED
      BY <2>3, <3>1, <3>2 DEF FeedInv, LifeInv
  <2>4. CASE worker.mode = "off"
    <3>1. /\ shown.lifecycle = "Running" /\ Turns(heard) = {Len(heard)}
          /\ heard[Len(heard)].lifecycle = "Stopped"
      BY <2>4, <1>1 DEF FeedInv, LifeInv
    <3>2. CASE Len(heard) = 1 /\ heard' = <<>>
      <4>1. e.kind = "Lifecycle" /\ e.lifecycle = "Stopped"
        BY <2>1, <3>1, <3>2, <1>4
      <4> QED
        BY <4>1, <3>2, <2>4, <1>1, <1>5 DEF LifeInv
    <3>3. CASE /\ e.kind # "Lifecycle" /\ Turns(heard') = {Len(heard')}
               /\ heard'[Len(heard')] = heard[Len(heard)]
      BY <3>1, <3>3, <2>4, <1>1, <1>5 DEF LifeInv
    <3> QED
      BY <2>1, <3>1, <3>2, <3>3
  <2> QED
    BY <2>2, <2>3, <2>4
<1>9. ReportedInv'
  <2>1. ASSUME NEW id \in reported
        PROVE  /\ id \in DOMAIN shown'.statuses \/ \E x \in Range(heard') : id \in Mentions(x)
               /\ Agrees(id, id \in sampled, heard', StatusIn(shown'.statuses, id),
                         StatusIn(worker.status, id))
    <3> DEFINE s == StatusIn(shown.statuses, id)
               w == StatusIn(worker.status, id)
    <3>1. /\ id \in DOMAIN shown.statuses \/ \E x \in Range(heard) : id \in Mentions(x)
          /\ Agrees(id, id \in sampled, heard, s, w)
      BY DEF FeedInv, ReportedInv
    <3>2. StatusIn(shown'.statuses, id) = StatusAfter(id, s, e)
      BY <1>5
    <3> HIDE DEF s, w
    <3>3. PICK end : /\ Chain(StatusOf(id), s, heard, end) /\ Same(end, w)
                     /\ id \in sampled => end = w
      BY <3>1 DEF Agrees
    <3>4. Chain(StatusOf(id), After(StatusOf(id), s, e), heard', end)
      BY <1>1, <1>2, <1>3, <3>3, ChainOfTail DEF e
    <3>5. After(StatusOf(id), s, e) = StatusAfter(id, s, e)
      BY DEF After, StatusOf
    <3>6. Agrees(id, id \in sampled, heard', StatusIn(shown'.statuses, id), w)
      BY <3>2, <3>3, <3>4, <3>5 DEF Agrees
    <3> QED
      BY <3>1, <3>6, <1>4, <1>5 DEF w
  <2> QED
    BY <2>1, <1>1 DEF FeedInv, ReportedInv
<1>10. TotalsInv'
  <2> SUFFICES ASSUME ~mixed
               PROVE  Chain(Totals, TotalsOf(shown'), heard', OwnTotals(worker))
    BY <1>1 DEF TotalsInv, TotalsOf, OwnTotals
  <2>1. Chain(Totals, TotalsOf(shown), heard, OwnTotals(worker))
    BY DEF FeedInv, TotalsInv
  <2>2. Chain(Totals, After(Totals, TotalsOf(shown), e), heard', OwnTotals(worker))
    BY <1>1, <1>2, <1>3, <2>1, ChainOfTail DEF e
  <2>3. After(Totals, TotalsOf(shown), e) = TotalsOf(shown')
    BY <1>5 DEF After, Totals
  <2> QED
    BY <2>2, <2>3
<1> QED
  BY <1>6, <1>7, <1>8, <1>9, <1>10 DEF FeedInv

\* The GUI hears of a poll of the user's: nothing is claimed of its points.
LEMMA HearingOnceKeepsFeed ==
    ASSUME FeedInv, DrainEvent("once")
    PROVE  FeedInv'
<1> DEFINE sent == feed["once"]
           e == Head(sent)
<1>1. /\ sent # <<>> /\ shown' = Shows(shown, e)
      /\ feed' = [feed EXCEPT !["once"] = Tail(@)]
      /\ reported' = reported \ Mentions(e) /\ sampled' = sampled \ Mentions(e)
      /\ worker' = worker
      /\ mixed' = (mixed \/ e.kind = "PublishStatus")
  BY DEF DrainEvent
<1>2. /\ DOMAIN shown = GuiFields /\ DOMAIN feed = Senders
      /\ IsList(sent) /\ \A x \in Range(sent) : IsEvent(x) /\ x.kind # "Lifecycle"
      /\ IsList(shown.recent_samples) /\ NewestInv(shown)
      /\ \A id : IsStatus(StatusIn(shown.statuses, id))
  BY DEF FeedInv, FeedShape, Senders
<1>3. feed'["once"] = Tail(sent) /\ heard' = heard /\ DOMAIN feed' = Senders
  BY <1>1, <1>2 DEF heard, Senders
<1>4. /\ e \in Range(sent) /\ IsEvent(e) /\ e.kind # "Lifecycle"
      /\ Range(feed'["once"]) \subseteq Range(sent) /\ IsList(feed'["once"])
  BY <1>1, <1>2, <1>3, TailTurns, ListFacts
<1> HIDE DEF e, sent
<1>5. /\ DOMAIN shown' = GuiFields
      /\ \A id : StatusIn(shown'.statuses, id) = StatusAfter(id, StatusIn(shown.statuses, id), e)
      /\ DOMAIN shown'.statuses = DOMAIN shown.statuses \cup Mentions(e)
      /\ TotalsOf(shown') = TotalsAfter(TotalsOf(shown), e)
      /\ shown'.lifecycle = shown.lifecycle
  BY <1>1, <1>2, <1>4, ShowsFacts DEF TotalsOf
<1>6. IsList(shown'.recent_samples) /\ NewestInv(shown')
  BY <1>1, <1>2, <1>4, NewestShows
<1>7. FeedShape'
  <2>1. \A s \in Senders : IsList(feed'[s]) /\ \A x \in Range(feed'[s]) : IsEvent(x)
    <3>1. IsList(heard) /\ \A x \in Range(heard) : IsEvent(x)
      BY DEF FeedInv, FeedShape, Senders, heard
    <3> QED
      BY <3>1, <1>2, <1>3, <1>4 DEF Senders, heard
  <2>2. \A id : IsStatus(StatusIn(shown'.statuses, id))
    BY <1>2, <1>5, StatusKept
  <2>3. \A x \in Range(feed'["once"]) : x.kind # "Lifecycle"
    BY <1>2, <1>4
  <2> QED
    BY <2>1, <2>2, <2>3, <1>1, <1>3, <1>5, <1>6 DEF FeedInv, FeedShape
<1>8. LifeInv'
  BY <1>1, <1>3, <1>5 DEF FeedInv, LifeInv
<1>9. ReportedInv'
  <2>1. ASSUME NEW id, id \notin Mentions(e), NEW s
        PROVE  StatusAfter(id, s, e) = s
    <3>1. e.kind = "Samples" => Mentions(e) = Range(Identities(e.samples))
      BY DEF Mentions, Range, Identities
    <3>2. e.kind = "Failures" => Mentions(e) = Range(e.identities)
      BY DEF Mentions
    <3>3. e.kind = "PointPublish" => Mentions(e) = {e.identity}
      BY DEF Mentions
    <3> QED
      BY <2>1, <3>1, <3>2, <3>3 DEF StatusAfter
  <2>2. ASSUME NEW id \in reported, id \notin Mentions(e)
        PROVE  /\ id \in DOMAIN shown'.statuses \/ \E x \in Range(heard) : id \in Mentions(x)
               /\ Agrees(id, id \in sampled, heard, StatusIn(shown'.statuses, id),
                         StatusIn(worker.status, id))
    <3>1. /\ id \in DOMAIN shown.statuses \/ \E x \in Range(heard) : id \in Mentions(x)
          /\ Agrees(id, id \in sampled, heard, StatusIn(shown.statuses, id), StatusIn(worker.status, id))
      BY DEF FeedInv, ReportedInv
    <3>2. StatusIn(shown'.statuses, id) = StatusIn(shown.statuses, id)
      BY <1>5, <2>1, <2>2
    <3> QED
      BY <3>1, <3>2, <1>5
  <2>3. sampled' \subseteq reported' /\ reported' \subseteq DOMAIN worker.status
    BY <1>1 DEF FeedInv, ReportedInv
  <2>4. ASSUME NEW id \in reported'
        PROVE  id \in reported /\ id \notin Mentions(e) /\ (id \in sampled' <=> id \in sampled)
    BY <1>1
  <2>5. ASSUME NEW id \in reported'
        PROVE  Agrees(id, id \in sampled', heard, StatusIn(shown'.statuses, id),
                      StatusIn(worker.status, id))
    BY <2>2, <2>4 DEF Agrees
  <2> QED
    BY <2>2, <2>3, <2>4, <2>5, <1>1, <1>3 DEF ReportedInv
<1>10. TotalsInv'
  <2> SUFFICES ASSUME ~mixed, e.kind # "PublishStatus"
               PROVE  Chain(Totals, TotalsOf(shown'), heard, OwnTotals(worker))
    BY <1>1, <1>3 DEF TotalsInv, TotalsOf, OwnTotals
  <2>1. Chain(Totals, TotalsOf(shown), heard, OwnTotals(worker))
    BY DEF FeedInv, TotalsInv
  <2>2. TotalsOf(shown') = TotalsOf(shown)
    BY <1>5 DEF TotalsAfter
  <2> QED
    BY <2>1, <2>2
<1> QED
  BY <1>6, <1>7, <1>8, <1>9, <1>10 DEF FeedInv

\* The GUI forgets what it showed: nothing is claimed of any point.
LEMMA ForgettingKeepsFeed ==
    ASSUME FeedInv, ForgetStatuses
    PROVE  FeedInv'
<1>1. /\ shown' = [shown EXCEPT !.statuses = <<>>] /\ reported' = {} /\ sampled' = {}
      /\ worker' = worker /\ feed' = feed /\ mixed' = mixed
  BY DEF ForgetStatuses
<1>2. /\ DOMAIN shown' = GuiFields /\ shown'.statuses = <<>>
      /\ shown'.lifecycle = shown.lifecycle /\ shown'.recent_samples = shown.recent_samples
      /\ shown'.published_total = shown.published_total /\ shown'.acked_total = shown.acked_total
  BY <1>1 DEF FeedInv, FeedShape, GuiFields
<1>3. \A id : StatusIn(shown'.statuses, id) = Unreported
  BY <1>2, NoStatuses
<1>4. FeedShape'
  BY <1>1, <1>2, <1>3, UnreportedIsStatus DEF FeedInv, FeedShape
<1>5. LifeInv'
  BY <1>1, <1>2 DEF FeedInv, LifeInv, heard
<1>6. ReportedInv'
  BY <1>1 DEF ReportedInv
<1>7. TotalsInv'
  BY <1>1, <1>2 DEF FeedInv, TotalsInv, TotalsOf, OwnTotals, heard
<1>8. NewestInv(shown')
  BY <1>3, UnreportedIsStatus DEF NewestInv
<1> QED
  BY <1>4, <1>5, <1>6, <1>7, <1>8 DEF FeedInv

\* Every step keeps the invariant.
LEMMA StepKeepsFeed ==
    ASSUME FeedInv, StatusFeedNext
    PROVE  FeedInv'
<1>1. ASSUME NEW due \in Dues, NEW failing
      PROVE  /\ IsList(Those(due, {n \in DOMAIN due : due[n] \notin failing}))
             /\ IsList(Those(due, {n \in DOMAIN due : due[n] \in failing}))
  <2>1. IsList(due)
    BY FeedAssumption DEF IsList
  <2>2. /\ {n \in DOMAIN due : due[n] \notin failing} \in SUBSET DOMAIN due
        /\ {n \in DOMAIN due : due[n] \in failing} \in SUBSET DOMAIN due
    OBVIOUS
  <2> QED
    BY <2>1, <2>2, ThoseFacts
<1>2. CASE \E envelope \in BOOLEAN : StartRun(envelope)
  BY <1>2, StartKeepsFeed
<1>3. CASE StopRun
  BY <1>3, StopKeepsFeed
<1>4. ASSUME NEW due \in Dues, NEW failing \in SUBSET Range(due),
             LET read == Those(due, {n \in DOMAIN due : due[n] \notin failing})
                 failed == Those(due, {n \in DOMAIN due : due[n] \in failing})
             IN  \/ \E refused \in Refusals(read, worker.envelope) :
                       \E acked \in 0..(worker.published + Len(read)) :
                           WorkerPoll(read, failed, refused, acked)
                 \/ \E envelope \in BOOLEAN : \E refused \in Refusals(read, envelope) :
                       PollOnceEnds(read, failed, refused, envelope)
      PROVE  FeedInv'
  <2> DEFINE read == Those(due, {n \in DOMAIN due : due[n] \notin failing})
             failed == Those(due, {n \in DOMAIN due : due[n] \in failing})
  <2>1. IsList(read) /\ IsList(failed)
    BY <1>1
  <2>2. \/ \E refused, acked : WorkerPoll(read, failed, refused, acked)
        \/ \E envelope \in BOOLEAN : \E refused : PollOnceEnds(read, failed, refused, envelope)
    BY <1>4
  <2> HIDE DEF read, failed
  <2>3. CASE \E refused, acked : WorkerPoll(read, failed, refused, acked)
    BY <2>1, <2>3, PollKeepsFeed
  <2>4. CASE \E envelope \in BOOLEAN : \E refused : PollOnceEnds(read, failed, refused, envelope)
    BY <2>1, <2>4, PollOnceKeepsFeed
  <2> QED
    BY <2>2, <2>3, <2>4
<1>5. CASE \E lost \in Dues : DevicesLost(lost)
  BY <1>5, LostKeepsFeed
<1>6. CASE \E s \in Senders : DrainEvent(s)
  BY <1>6, HearingKeepsFeed, HearingOnceKeepsFeed DEF Senders
<1>7. CASE ForgetStatuses
  BY <1>7, ForgettingKeepsFeed
<1> QED
  BY <1>2, <1>3, <1>4, <1>5, <1>6, <1>7 DEF StatusFeedNext

\* With nothing left to hear the chains are of no events: both ends are the same.
LEMMA FeedInvIsFaithful ==
    ASSUME FeedInv
    PROVE  FeedIsFaithful
<1>1. ASSUME CaughtUp
      PROVE  StatusesAgree /\ StaleAgrees /\ TotalsAgree
  <2>1. heard = <<>>
    BY <1>1 DEF CaughtUp, heard
  <2>2. ASSUME NEW id \in reported
        PROVE  /\ id \in DOMAIN worker.status /\ id \in DOMAIN shown.statuses
               /\ shown.statuses[id].stale = worker.status[id].stale
               /\ shown.statuses[id].error = worker.status[id].error
               /\ id \in sampled => shown.statuses[id] = worker.status[id]
    <3>1. id \in DOMAIN worker.status
      BY DEF FeedInv, ReportedInv
    <3>2. id \in DOMAIN shown.statuses
      BY <2>1, EmptyList DEF FeedInv, ReportedInv
    <3> DEFINE s == StatusIn(shown.statuses, id)
               w == StatusIn(worker.status, id)
    <3>3. s = shown.statuses[id] /\ w = worker.status[id]
      BY <3>1, <3>2 DEF StatusIn
    <3>4. Agrees(id, id \in sampled, heard, s, w)
      BY DEF FeedInv, ReportedInv
    <3> HIDE DEF s, w
    <3>5. PICK end : /\ Chain(StatusOf(id), s, <<>>, end) /\ Same(end, w)
                     /\ id \in sampled => end = w
      BY <2>1, <3>4 DEF Agrees
    <3>6. end = s
      BY <3>5, NoneLeads
    <3> QED
      BY <3>1, <3>2, <3>3, <3>5, <3>6 DEF Same
  <2>3. StatusesAgree
    <3>1. ASSUME NEW id \in reported, id \in sampled
          PROVE  points_page(shown.statuses, id).chip = point_status_chip(worker.status, id)
      <4>1. points_page(shown.statuses, id).chip = point_status_chip(shown.statuses, id)
        BY DEF points_page
      <4>2. /\ id \in DOMAIN worker.status /\ id \in DOMAIN shown.statuses
            /\ shown.statuses[id] = worker.status[id]
        BY <2>2, <3>1
      <4>3. point_status_chip(shown.statuses, id) = point_status_chip(worker.status, id)
        BY <4>2 DEF point_status_chip
      <4> QED
        BY <4>1, <4>3
    <3> QED
      BY <2>2, <3>1 DEF StatusesAgree
  <2>4. StaleAgrees
    <3> SUFFICES ASSUME reported = DOMAIN worker.status, reported = DOMAIN shown.statuses
                 PROVE  overview_page(shown).stale = Cardinality(Stale(worker.status))
      BY DEF StaleAgrees
    <3>1. Stale(shown.statuses) = Stale(worker.status)
      BY <2>2 DEF Stale
    <3> QED
      BY <3>1 DEF overview_page
  <2>5. TotalsAgree
    <3> SUFFICES ASSUME ~mixed
                 PROVE  /\ overview_page(shown).queued = worker.published
                        /\ overview_page(shown).delivered = worker.acked
      BY DEF TotalsAgree
    <3>1. Chain(Totals, TotalsOf(shown), <<>>, OwnTotals(worker))
      BY <2>1 DEF FeedInv, TotalsInv
    <3>2. OwnTotals(worker) = TotalsOf(shown)
      BY <3>1, NoneLeads
    <3> QED
      BY <3>2 DEF OwnTotals, TotalsOf, overview_page
  <2> QED
    BY <2>3, <2>4, <2>5
<1>2. NewestIsShown
  <2> DEFINE activity == overview_page(shown).activity
             of(id) == {i \in DOMAIN activity : activity[i].identity = id}
             newest(id) == CHOOSE i \in of(id) : \A j \in of(id) : i <= j
  <2>0. activity = shown.recent_samples
    BY DEF overview_page
  <2> HIDE DEF activity
  <2>1. DOMAIN activity = 1..Len(activity) /\ Len(activity) \in Nat
    BY <2>0, ListFacts DEF FeedInv, FeedShape
  <2>2. ASSUME NEW id, of(id) # {}, StatusIn(shown.statuses, id).value # NoValue
        PROVE  activity[newest(id)].value = StatusIn(shown.statuses, id).value
    <3>1. of(id) \in SUBSET Nat
      BY <2>1
    <3>2. \E i \in of(id) : \A j \in of(id) : i <= j
      <4> HIDE DEF of
      <4> QED
        BY <2>2, <3>1, Lowest
    <3>3. newest(id) \in of(id) /\ \A j \in of(id) : newest(id) <= j
      <4> HIDE DEF of
      <4> QED
        BY <3>2
    <3> HIDE DEF newest
    <3>4. newest(id) \in DOMAIN activity /\ IsFirst(activity, id, newest(id))
      BY <3>3 DEF IsFirst
    <3> QED
      BY <2>0, <2>2, <3>4 DEF FeedInv, NewestInv
  <2>3. ASSUME NEW id \in DOMAIN shown.statuses, of(id) # {},
               points_page(shown.statuses, id).value # NoValue
        PROVE  activity[newest(id)].value = points_page(shown.statuses, id).value
    <3>1. points_page(shown.statuses, id).value = StatusIn(shown.statuses, id).value
      BY DEF points_page
    <3> HIDE DEF of, newest
    <3> QED
      BY <2>2, <2>3, <3>1
  <2> USE DEF activity
  <2> QED
    BY <2>3, Zenon DEF NewestIsShown
<1> QED
  BY <1>1, <1>2 DEF FeedIsFaithful

\* With the channel drained the GUI and the worker tell the same story: of each
\* point the worker reported and nobody else since, of the number of stale points,
\* and of what was queued and delivered; and the newest sample in the list is the
\* value in the table.  For all points due, any capacity and any number of polls.
THEOREM FeedAlways == GuiSpec => []GuiFeedIsFaithful
<1>1. GuiInit => FeedInv
  BY InitFeedInv DEF GuiInit
<1>2. FeedInv /\ [GuiNext]_gui => FeedInv'
  <2> SUFFICES ASSUME FeedInv, [GuiNext]_gui
               PROVE  FeedInv'
    OBVIOUS
  <2>1. CASE UNCHANGED statusFeed
    BY <2>1, StutterKeepsFeed
  <2>2. CASE StatusFeedNext
    BY <2>2, StepKeepsFeed
  <2>3. StatusFeedNext \/ UNCHANGED statusFeed
    BY DEF GuiNext, gui
  <2> QED
    BY <2>1, <2>2, <2>3
<1>3. FeedInv => GuiFeedIsFaithful
  BY FeedInvIsFaithful DEF GuiFeedIsFaithful
<1> QED
  BY <1>1, <1>2, <1>3, PTL DEF GuiSpec

-----------------------------------------------------------------------------
(* The connection and MQTT forms.                                          *)
(* A text goes from the screen into a stored value and back, and from the    *)
(* value into the option of the adapter.  What ties the two is that a field  *)
(* of the form tells what is stored (Tells): a number leads to the same      *)
(* number, given the field's default, and any other text is the value's.     *)
(* What is typed, shown and built again tells the same.                      *)

\* The fields of a connection.
SpecsOf(id) == caps[id].connection_fields

FieldKinds == {"text", "u32", "bool", "enum", "secret"}

\* The one checkbox there is, bool(FALSE).
Unchecked == [kind |-> "bool", options |-> {}, default |-> <<"bool", "false">>]

\* The default of a number is one that parses as itself.
IsSpec(spec) ==
    /\ spec.kind \in FieldKinds
    /\ spec.kind = "u32" => \E n \in Numbers : spec = u32(n)
    /\ spec.kind = "bool" => spec = Unchecked

\* What parses is a number, and is what its own text parses as.
LEMMA ParseFacts ==
    /\ \A t : parse(t) = None \/ (parse(t) \in Nat /\ parse(t) \in Numbers)
    /\ \A n \in Numbers : n \in Nat /\ parse(Decimal(n)) = n
    /\ DEFAULTS \subseteq Numbers
    /\ \A t : (t \in BlankTexts \cup WORDS \cup Addresses) => parse(t) = None
    /\ parse("true") = None /\ parse("false") = None /\ parse("") = None
    /\ None \notin Nat
<1>1. \A t \in DOMAIN Numerals :
         /\ Numerals[t] \in Nat /\ Numerals[t] \in Numbers
         /\ parse(Decimal(Numerals[t])) = Numerals[t]
  BY FormsAssumption DEF parse, Numbers
<1>2. None \notin Nat
  BY DEF None
<1>3. \A n \in Numbers : n \in Nat /\ parse(Decimal(n)) = n
  BY <1>1 DEF Numbers
<1>4. \A t : parse(t) = None \/ (parse(t) \in Nat /\ parse(t) \in Numbers)
  BY <1>1 DEF parse
<1>5. DEFAULTS \subseteq Numbers
  BY FormsAssumption DEF Numbers
<1>6. \A t : (t \in BlankTexts \cup WORDS \cup Addresses) => parse(t) = None
  BY FormsAssumption DEF parse
<1>7. "true" \in WORDS /\ "false" \in WORDS /\ "" \in BlankTexts
  BY DEF WORDS, BlankTexts
<1> QED
  BY <1>2, <1>3, <1>4, <1>5, <1>6, <1>7

LEMMA DefaultNumbers ==
    /\ 0 \in Numbers /\ 1 \in Numbers /\ 8 \in Numbers /\ 30 \in Numbers /\ 32 \in Numbers
    /\ 256 \in Numbers /\ 300 \in Numbers /\ 502 \in Numbers /\ 1000 \in Numbers
    /\ 2000 \in Numbers /\ 3000 \in Numbers /\ 8883 \in Numbers /\ 47808 \in Numbers
<1>1. DEFAULTS \subseteq Numbers
  BY ParseFacts
<1> QED
  BY <1>1 DEF DEFAULTS

LEMMA ProtocolNames == Protocols = {"bacnet", "modbus", "opcua"}
  BY DEF Protocols, caps

\* The fields of the three adapters, one by one.
LEMMA BacnetFields ==
    /\ DOMAIN SpecsOf("bacnet") =
            {"interface", "discover_all_interfaces", "bind_failure_policy", "port",
             "broadcast_address", "bbmd_address", "bbmd_port", "bbmd_ttl_secs",
             "discovery_window_ms", "apdu_timeout_ms", "poll_concurrency",
             "device_backoff_max_secs"}
    /\ SpecsOf("bacnet").interface = text
    /\ SpecsOf("bacnet").discover_all_interfaces = Unchecked
    /\ SpecsOf("bacnet").bind_failure_policy = enumeration({"skip", "strict"}, "skip")
    /\ SpecsOf("bacnet").port = u32(0)
    /\ SpecsOf("bacnet").broadcast_address = text
    /\ SpecsOf("bacnet").bbmd_address = text
    /\ SpecsOf("bacnet").bbmd_port = u32(47808)
    /\ SpecsOf("bacnet").bbmd_ttl_secs = u32(300)
    /\ SpecsOf("bacnet").discovery_window_ms = u32(3000)
    /\ SpecsOf("bacnet").apdu_timeout_ms = u32(2000)
    /\ SpecsOf("bacnet").poll_concurrency = u32(8)
    /\ SpecsOf("bacnet").device_backoff_max_secs = u32(300)
<1> DEFINE F == SpecsOf("bacnet")
<1>1. F = BacnetCapabilities.connection_fields
  BY DEF SpecsOf, caps
<1>2. DOMAIN F =
            {"interface", "discover_all_interfaces", "bind_failure_policy", "port",
             "broadcast_address", "bbmd_address", "bbmd_port", "bbmd_ttl_secs",
             "discovery_window_ms", "apdu_timeout_ms", "poll_concurrency",
             "device_backoff_max_secs"}
  BY <1>1 DEF BacnetCapabilities, bool, Boolean
<1>3. F.interface = text
  BY <1>1 DEF BacnetCapabilities
<1>4. F.discover_all_interfaces = Unchecked
  BY <1>1 DEF BacnetCapabilities, bool, Boolean, Unchecked
<1>5. F.bind_failure_policy = enumeration({"skip", "strict"}, "skip")
  BY <1>1 DEF BacnetCapabilities
<1>6. F.port = u32(0)
  BY <1>1 DEF BacnetCapabilities
<1>7. F.broadcast_address = text
  BY <1>1 DEF BacnetCapabilities
<1>8. F.bbmd_address = text
  BY <1>1 DEF BacnetCapabilities
<1>9. F.bbmd_port = u32(47808)
  BY <1>1 DEF BacnetCapabilities
<1>10. F.bbmd_ttl_secs = u32(300)
  BY <1>1 DEF BacnetCapabilities
<1>11. F.discovery_window_ms = u32(3000)
  BY <1>1 DEF BacnetCapabilities
<1>12. F.apdu_timeout_ms = u32(2000)
  BY <1>1 DEF BacnetCapabilities
<1>13. F.poll_concurrency = u32(8)
  BY <1>1 DEF BacnetCapabilities
<1>14. F.device_backoff_max_secs = u32(300)
  BY <1>1 DEF BacnetCapabilities
<1> QED
  BY <1>2, <1>3, <1>4, <1>5, <1>6, <1>7, <1>8, <1>9, <1>10, <1>11, <1>12, <1>13, <1>14

LEMMA ModbusFields ==
    /\ DOMAIN SpecsOf("modbus") =
            {"host", "port", "unit_id", "timeout_ms", "scan_concurrency", "max_hosts",
             "browse_start", "browse_count"}
    /\ SpecsOf("modbus").host = text
    /\ SpecsOf("modbus").port = u32(502)
    /\ SpecsOf("modbus").unit_id = u32(1)
    /\ SpecsOf("modbus").timeout_ms = u32(1000)
    /\ SpecsOf("modbus").scan_concurrency = u32(32)
    /\ SpecsOf("modbus").max_hosts = u32(256)
    /\ SpecsOf("modbus").browse_start = u32(0)
    /\ SpecsOf("modbus").browse_count = u32(32)
<1>1. SpecsOf("modbus") = ModbusCapabilities.connection_fields
  BY DEF SpecsOf, caps
<1> QED
  BY <1>1 DEF ModbusCapabilities

LEMMA OpcuaFields ==
    /\ DOMAIN SpecsOf("opcua") =
            {"endpoint_url", "security_policy", "security_mode", "username", "password"}
    /\ SpecsOf("opcua").endpoint_url = text
    /\ SpecsOf("opcua").security_policy = enumeration(POLICIES, "none")
    /\ SpecsOf("opcua").security_mode = enumeration(MODES, "none")
    /\ SpecsOf("opcua").username = text
    /\ SpecsOf("opcua").password = secret
<1>1. SpecsOf("opcua") = OpcuaCapabilities.connection_fields
  BY DEF SpecsOf, caps
<1> QED
  BY <1>1 DEF OpcuaCapabilities

LEMMA SpecFacts ==
    ASSUME NEW id \in Protocols, NEW key \in DOMAIN SpecsOf(id)
    PROVE  IsSpec(SpecsOf(id)[key])
<1>1. IsSpec(text) /\ IsSpec(secret)
  BY DEF IsSpec, text, secret, FieldKinds
<1>2. IsSpec(Unchecked)
  BY DEF IsSpec, Unchecked, FieldKinds
<1>3. \A options, default : IsSpec(enumeration(options, default))
  BY DEF IsSpec, enumeration, FieldKinds
<1>4. \A n \in DEFAULTS : IsSpec(u32(n))
  <2>1. \A n : u32(n).kind = "u32"
    BY DEF u32
  <2> QED
    BY <2>1, ParseFacts DEF IsSpec, FieldKinds
<1>5. /\ IsSpec(u32(0)) /\ IsSpec(u32(1)) /\ IsSpec(u32(8)) /\ IsSpec(u32(32)) /\ IsSpec(u32(256))
      /\ IsSpec(u32(300)) /\ IsSpec(u32(502)) /\ IsSpec(u32(1000)) /\ IsSpec(u32(2000))
      /\ IsSpec(u32(3000)) /\ IsSpec(u32(47808))
  <2>1. {0, 1, 8, 32, 256, 300, 502, 1000, 2000, 3000, 47808} \subseteq DEFAULTS
    BY DEF DEFAULTS
  <2> QED
    BY <1>4, <2>1
<1>6. CASE id = "bacnet"
  BY <1>1, <1>2, <1>3, <1>5, <1>6, BacnetFields
<1>7. CASE id = "modbus"
  BY <1>1, <1>5, <1>7, ModbusFields
<1>8. CASE id = "opcua"
  BY <1>1, <1>3, <1>8, OpcuaFields
<1> QED
  BY <1>6, <1>7, <1>8, ProtocolNames

Built(spec, raw) ==
    CASE spec.kind = "u32" /\ parse(raw) # None -> Number(parse(raw))
      [] spec.kind = "bool" -> Boolean(raw = "true")
      [] OTHER -> String(raw)

ShownText(spec, v) == IF v = Absent THEN default_field_string(spec) ELSE v[2]

Reads(v) == IF v[1] \in {"number", "string"} THEN parse(v[2]) ELSE None

\* Of a number the text and the value lead to the same one, given the default;
\* any other field shows its value, a checkbox perhaps the value it is built to.
Tells(spec, v, t) ==
    LET default == parse(default_field_string(spec))
    IN  /\ v = Absent \/ IsValue(v)
        /\ spec.kind = "u32" => OrElse(Reads(v), default) = OrElse(parse(t), default)
        /\ spec.kind = "bool" => ShownText(spec, v) = t \/ v = Boolean(t = "true")
        /\ spec.kind \notin {"u32", "bool"} => ShownText(spec, v) = t

LEMMA DefaultNumber ==
    ASSUME NEW spec, IsSpec(spec), spec.kind = "u32"
    PROVE  /\ parse(default_field_string(spec)) \in Nat /\ parse(default_field_string(spec)) \in Numbers
           /\ spec.default = Number(parse(default_field_string(spec)))
<1>1. PICK n \in Numbers : spec = u32(n)
  BY DEF IsSpec
<1>2. default_field_string(spec) = Decimal(n) /\ spec.default = Number(n)
  BY <1>1 DEF default_field_string, json_scalar, u32, Number
<1> QED
  BY <1>2, ParseFacts

LEMMA BuiltFacts ==
    ASSUME NEW spec, IsSpec(spec), NEW t
    PROVE  /\ Built(spec, t) # Absent /\ IsValue(Built(spec, t))
           /\ Tells(spec, Built(spec, t), t)
<1>1. CASE spec.kind = "u32" /\ parse(t) # None
  <2>1. Built(spec, t) = Number(parse(t)) /\ parse(t) \in Numbers
    BY <1>1, ParseFacts DEF Built
  <2>2. /\ Built(spec, t)[1] = "number" /\ Built(spec, t)[2] = Decimal(parse(t))
        /\ Built(spec, t) # Absent
    BY <2>1 DEF Number, Absent
  <2>3. parse(Built(spec, t)[2]) = parse(t)
    BY <2>1, <2>2, ParseFacts
  <2>4. Built(spec, t)[2] \notin {"true", "false"}
    BY <1>1, <2>3, ParseFacts
  <2>5. IsValue(Built(spec, t))
    BY <2>2, <2>3, <2>4 DEF IsValue
  <2>6. Reads(Built(spec, t)) = parse(t)
    BY <2>2, <2>3 DEF Reads
  <2> QED
    BY <1>1, <2>2, <2>5, <2>6 DEF Tells
<1>2. CASE spec.kind = "bool"
  <2>1. Built(spec, t) = Boolean(t = "true")
    BY <1>2 DEF Built
  <2>2. /\ Built(spec, t)[1] = "bool" /\ Built(spec, t)[2] \in {"true", "false"}
        /\ Built(spec, t) # Absent
    BY <2>1 DEF Boolean, Absent
  <2>3. Built(spec, t)[2] \notin DOMAIN Numerals
    <3>1. "true" \in WORDS /\ "false" \in WORDS
      BY DEF WORDS
    <3> QED
      BY <2>2, <3>1, FormsAssumption
  <2> QED
    BY <1>2, <2>1, <2>2, <2>3 DEF Tells, IsValue
<1>3. CASE spec.kind # "bool" /\ ~(spec.kind = "u32" /\ parse(t) # None)
  <2>1. Built(spec, t) = String(t)
    BY <1>3 DEF Built
  <2>2. /\ Built(spec, t)[1] = "string" /\ Built(spec, t)[2] = t
        /\ Built(spec, t) # Absent
    BY <2>1 DEF String, Absent
  <2>3. IsValue(Built(spec, t)) /\ ShownText(spec, Built(spec, t)) = t /\ Reads(Built(spec, t)) = parse(t)
    BY <2>2 DEF IsValue, ShownText, Reads
  <2> QED
    BY <1>3, <2>2, <2>3 DEF Tells
<1> QED
  BY <1>1, <1>2, <1>3

LEMMA ShownFacts ==
    ASSUME NEW spec, IsSpec(spec), NEW v, v = Absent \/ IsValue(v)
    PROVE  Tells(spec, v, ShownText(spec, v))
<1> DEFINE default == parse(default_field_string(spec))
<1>1. CASE spec.kind # "u32"
  BY <1>1 DEF Tells
<1>2. CASE spec.kind = "u32" /\ v = Absent
  <2>1. Reads(v) = None
    BY <1>2 DEF Reads, Absent
  <2>2. ShownText(spec, v) = default_field_string(spec)
    BY <1>2 DEF ShownText
  <2>3. OrElse(Reads(v), default) = OrElse(parse(default_field_string(spec)), default)
    BY <2>1 DEF OrElse
  <2> QED
    BY <1>2, <2>2, <2>3 DEF Tells
<1>3. CASE spec.kind = "u32" /\ v # Absent
  <2>1. ShownText(spec, v) = v[2] /\ IsValue(v)
    BY <1>3 DEF ShownText
  <2>2. Reads(v) = parse(v[2])
    BY <2>1 DEF Reads, IsValue, parse
  <2> QED
    BY <1>3, <2>1, <2>2 DEF Tells
<1> QED
  BY <1>1, <1>2, <1>3

LEMMA RebuiltFacts ==
    ASSUME NEW spec, IsSpec(spec), NEW v, NEW t, Tells(spec, v, t)
    PROVE  Tells(spec, Built(spec, ShownText(spec, v)), t)
<1> DEFINE s == ShownText(spec, v)
           b == Built(spec, s)
           default == parse(default_field_string(spec))
<1>1. Tells(spec, b, s) /\ Tells(spec, v, s) /\ IsValue(b) /\ b # Absent
  BY BuiltFacts, ShownFacts DEF Tells
<1>2. CASE spec.kind = "u32"
  <2>1. OrElse(Reads(b), default) = OrElse(Reads(v), default)
    BY <1>1, <1>2 DEF Tells
  <2> QED
    BY <1>1, <1>2, <2>1 DEF Tells
<1>3. CASE spec.kind = "bool"
  <2>1. b = Boolean(s = "true")
    BY <1>3 DEF Built
  <2>2. CASE s = t
    BY <1>1, <1>3, <2>1, <2>2 DEF Tells
  <2>3. CASE v = Boolean(t = "true")
    <3>1. s = IF t = "true" THEN "true" ELSE "false"
      BY <2>3 DEF Boolean, ShownText, Absent
    <3>2. b = Boolean(t = "true")
      BY <2>1, <3>1 DEF Boolean
    <3> QED
      BY <1>1, <1>3, <3>2 DEF Tells
  <2> QED
    BY <1>3, <2>2, <2>3 DEF Tells
<1>4. CASE spec.kind \notin {"u32", "bool"}
  <2>1. s = t
    BY <1>4 DEF Tells
  <2> QED
    BY <1>1, <2>1
<1> QED
  BY <1>2, <1>3, <1>4

\* Each field of a form shows what is stored of it.
FormTells(id, conn, values) ==
    \A key \in DOMAIN SpecsOf(id) : Tells(SpecsOf(id)[key], Get(conn, key), values[key])

\* A number is used as it is meant, if its default is within the limits.
LEMMA NumberMeant ==
    ASSUME NEW n \in Numbers, NEW conn, NEW key, Within(key, n), NEW t, NEW nics,
           Tells(u32(n), Get(conn, key), t), PlainText(key, u32(n), t)
    PROVE  /\ OrElse(conn_u64(conn, key), n) = Meaning(key, u32(n), t, nics)
           /\ Meaning(key, u32(n), t, nics) \in Nat
           /\ Within(key, Meaning(key, u32(n), t, nics))
<1>1. u32(n).kind = "u32" /\ default_field_string(u32(n)) = Decimal(n)
  BY DEF u32, default_field_string, json_scalar, Number
<1>2. parse(Decimal(n)) = n /\ n \in Nat /\ n # None
  BY ParseFacts
<1>3. OrElse(conn_u64(conn, key), n) = OrElse(parse(t), n)
  BY <1>1, <1>2 DEF Tells, conn_u64, Reads
<1>4. t = "" \/ (parse(t) # None /\ Within(key, parse(t)))
  BY <1>1 DEF PlainText
<1>5. Meaning(key, u32(n), t, nics) = IF t = "" THEN n ELSE parse(t)
  BY <1>1, <1>2 DEF Meaning
<1>6. CASE t = ""
  BY <1>2, <1>3, <1>5, <1>6, ParseFacts DEF OrElse
<1>7. CASE t # ""
  BY <1>3, <1>4, <1>5, <1>7, ParseFacts DEF OrElse
<1> QED
  BY <1>6, <1>7

\* A text is stored as it is shown.
LEMMA TextKept ==
    ASSUME NEW spec \in {text, secret}, NEW v, NEW t, Tells(spec, v, t)
    PROVE  v[2] = t
<1>1. Absent[2] = ""
  BY DEF Absent
<1>2. spec.kind \in {"text", "secret"} /\ default_field_string(spec) = ""
  <2>1. text.kind = "text" /\ secret.kind = "secret" /\ text.default = Absent /\ secret.default = Absent
    BY DEF text, secret
  <2> QED
    BY <1>1, <2>1 DEF default_field_string, json_scalar
<1>3. ShownText(spec, v) = t
  BY <1>2 DEF Tells
<1> QED
  BY <1>1, <1>2, <1>3 DEF ShownText

\* So is the choice of an enumeration, or its default is left out.
LEMMA ChoiceKept ==
    ASSUME NEW options, NEW d, NEW v, NEW t, Tells(enumeration(options, d), v, t)
    PROVE  v[2] = t \/ (v[2] = "" /\ t = d)
<1>1. Absent[2] = ""
  BY DEF Absent
<1> DEFINE spec == enumeration(options, d)
<1>2. spec.kind = "enum" /\ default_field_string(spec) = d
  BY DEF enumeration, default_field_string, json_scalar, String
<1> HIDE DEF spec
<1>3. ShownText(spec, v) = t
  BY <1>2 DEF Tells, spec
<1> QED
  BY <1>1, <1>2, <1>3 DEF ShownText

LEMMA BacnetUsed ==
    ASSUME NEW conn, NEW values, FormTells("bacnet", conn, values), NEW nics,
           NEW key \in DOMAIN SpecsOf("bacnet"),
           PlainText(key, SpecsOf("bacnet")[key], values[key])
    PROVE  BacnetSettings(conn, nics)[key] = Meaning(key, SpecsOf("bacnet")[key], values[key], nics)
<1> DEFINE used == BacnetSettings(conn, nics)
           spec == SpecsOf("bacnet")[key]
           t == values[key]
           meant == Meaning(key, spec, t, nics)
<1>1. Tells(spec, Get(conn, key), t)
  BY DEF FormTells
<1>2. \A n \in Numbers : spec = u32(n) /\ Within(key, n) =>
         /\ OrElse(conn_u64(conn, key), n) = meant /\ meant \in Nat
         /\ Within(key, meant)
  BY <1>1, NumberMeant
<1> SUFFICES used[key] = meant
  OBVIOUS
<1> HIDE DEF spec, t, meant
<1>3. CASE key \in {"port", "bbmd_port", "bbmd_ttl_secs"}
  <2>1. \A n \in Nat : Within(key, n) <=> n <= 65535
    BY <1>3 DEF Within, Limits
  <2>2. \A n \in Nat : n <= 65535 => n % 2^16 = n
    OBVIOUS
  <2>3. CASE key = "port"
    <3>1. spec = u32(0)
      BY <2>3, BacnetFields DEF spec
    <3>2. used["port"] = OrElse(conn_u64(conn, "port"), 0) % 2^16
      BY DEF BacnetSettings
    <3> HIDE DEF used
    <3> QED
      BY <2>3, <1>2, <2>1, <2>2, <3>1, <3>2, DefaultNumbers
  <2>4. CASE key = "bbmd_port"
    <3>1. spec = u32(47808)
      BY <2>4, BacnetFields DEF spec
    <3>2. used["bbmd_port"] = OrElse(conn_u64(conn, "bbmd_port"), 47808) % 2^16
      BY DEF BacnetSettings
    <3> HIDE DEF used
    <3> QED
      BY <2>4, <1>2, <2>1, <2>2, <3>1, <3>2, DefaultNumbers
  <2>5. CASE key = "bbmd_ttl_secs"
    <3>1. spec = u32(300)
      BY <2>5, BacnetFields DEF spec
    <3>2. used["bbmd_ttl_secs"] = OrElse(conn_u64(conn, "bbmd_ttl_secs"), 300) % 2^16
      BY DEF BacnetSettings
    <3> HIDE DEF used
    <3> QED
      BY <2>5, <1>2, <2>1, <2>2, <3>1, <3>2, DefaultNumbers
  <2> QED
    BY <1>3, <2>3, <2>4, <2>5
<1>4. CASE key \in {"discovery_window_ms", "apdu_timeout_ms", "poll_concurrency", "device_backoff_max_secs"}
  <2>1. \A n \in Nat : key # "device_backoff_max_secs" => Within(key, n)
    BY <1>4 DEF Within, Limits
  <2>2. CASE key = "discovery_window_ms"
    <3>1. spec = u32(3000)
      BY <2>2, BacnetFields DEF spec
    <3>2. used["discovery_window_ms"] = OrElse(conn_u64(conn, "discovery_window_ms"), 3000)
      BY DEF BacnetSettings
    <3> HIDE DEF used
    <3> QED
      BY <2>2, <1>2, <2>1, <3>1, <3>2, DefaultNumbers
  <2>3. CASE key = "apdu_timeout_ms"
    <3>1. spec = u32(2000)
      BY <2>3, BacnetFields DEF spec
    <3>2. used["apdu_timeout_ms"] = OrElse(conn_u64(conn, "apdu_timeout_ms"), 2000)
      BY DEF BacnetSettings
    <3> HIDE DEF used
    <3> QED
      BY <2>3, <1>2, <2>1, <3>1, <3>2, DefaultNumbers
  <2>4. CASE key = "poll_concurrency"
    <3>1. spec = u32(8)
      BY <2>4, BacnetFields DEF spec
    <3>2. used["poll_concurrency"] = OrElse(conn_u64(conn, "poll_concurrency"), 8)
      BY DEF BacnetSettings
    <3> HIDE DEF used
    <3> QED
      BY <2>4, <1>2, <2>1, <3>1, <3>2, DefaultNumbers
  <2>5. CASE key = "device_backoff_max_secs"
    <3>1. spec = u32(300)
      BY <2>5, BacnetFields DEF spec
    <3>2. used["device_backoff_max_secs"] = device_backoff_max(conn)
      BY DEF BacnetSettings
    <3>3. device_backoff_max(conn) = AtLeast(OrElse(conn_u64(conn, key), 300), 10)
      BY <2>5 DEF device_backoff_max, conn_u64, OrElse, AtLeast, None
    <3>4. \A n \in Nat : Within(key, n) <=> n >= 10 /\ n <= 2^30
      BY <2>5 DEF Within, Limits
    <3> HIDE DEF used
    <3> QED
      BY <1>2, <2>5, <3>1, <3>2, <3>3, <3>4, DefaultNumbers DEF AtLeast
  <2> QED
    BY <1>4, <2>2, <2>3, <2>4, <2>5
<1>5. CASE key = "discover_all_interfaces"
  <2>1. spec = Unchecked /\ spec.kind = "bool" /\ default_field_string(spec) = "false"
    BY <1>5, BacnetFields DEF spec, Unchecked, default_field_string, json_scalar
  <2>2. used["discover_all_interfaces"] = conn_bool(conn, "discover_all_interfaces")
    BY DEF BacnetSettings
  <2>3. t \in {"true", "false"}
    BY <2>1 DEF PlainText, spec, t
  <2>4. meant = (t = "true")
    BY <2>1 DEF Meaning, meant
  <2>5. "true" \notin DOMAIN LowerOf /\ "false" \notin DOMAIN LowerOf
    BY FormsAssumption DEF WORDS
  <2> DEFINE v == Get(conn, key)
  <2>10. /\ v = Absent \/ IsValue(v)
         /\ ShownText(spec, v) = t \/ v = Boolean(t = "true")
    BY <1>1, <2>1 DEF Tells
  <2>11. conn_bool(conn, key) <=>
          \/ v[1] = "bool" /\ v[2] = "true"
          \/ v[1] = "string" /\ (Lower(v[2]) = "true" \/ v[2] = "1")
          \/ v[1] = "number" /\ parse(v[2]) \notin {None, 0}
    BY Zenon DEF conn_bool
  <2>12. Absent[1] = "absent" /\ Absent[2] = "" /\ \A s \in STRING : Absent # Boolean(s = "true")
    BY DEF Absent, Boolean
  <2>13. v = Boolean(t = "true") => v # Absent /\ v[2] = t
    BY <2>3 DEF Boolean, Absent
  <2> HIDE DEF v
  <2>6. conn_bool(conn, key) <=> t = "true"
    <3>1. CASE v = Absent
      <4>1. t = "false"
        BY <2>1, <2>10, <2>13, <3>1 DEF ShownText
      <4> QED
        BY <2>11, <2>12, <3>1, <4>1
    <3>2. CASE v # Absent
      <4>1. v[2] = t /\ IsValue(v)
        BY <2>10, <2>13, <3>2 DEF ShownText
      <4>2. v[1] \in {"string", "bool"}
        BY <2>3, <4>1 DEF IsValue
      <4> QED
        BY <2>3, <2>5, <2>11, <4>1, <4>2 DEF Lower
    <3> QED
      BY <3>1, <3>2
  <2>7. conn_bool(conn, key) = (t = "true")
    <3>1. conn_bool(conn, key) \in BOOLEAN
      BY DEF conn_bool
    <3> QED
      BY <2>6, <3>1, Zenon
  <2> QED
    BY <1>5, <2>2, <2>4, <2>7, Zenon
<1>6. CASE key \in {"interface", "broadcast_address", "bbmd_address"}
  <2>1. spec = text /\ spec.kind = "text" /\ key \in AddressKeys
    BY <1>6, BacnetFields DEF spec, text, AddressKeys
  <2>2. Get(conn, key)[2] = t
    BY <1>1, <2>1, TextKept
  <2>3. t \in Addresses \cup {""} /\ "" \notin Addresses /\ (Blank(t) <=> t = "")
    <3>1. t \in Addresses \cup {""}
      BY <2>1 DEF PlainText, spec, t
    <3> QED
      BY <3>1, FormsAssumption DEF BlankTexts, Blank
  <2>4. conn_str(conn, key, "") = t
    BY <2>2, <2>3 DEF conn_str
  <2>5. \A default : ParsedAddress(conn_str(conn, key, ""), default) = IF t = "" THEN default ELSE t
    BY <2>3, <2>4 DEF ParsedAddress
  <2>6. meant = IF t = "" THEN LeftBlank(key, nics) ELSE t
    BY <2>1 DEF Meaning, meant
  <2>7. CASE key = "interface"
    <3>1. used["interface"] = ParsedAddress(conn_str(conn, "interface", ""),
                                            IF nics = <<>> THEN Unspecified ELSE nics[1])
      BY DEF BacnetSettings
    <3>2. LeftBlank("interface", nics) = IF nics = <<>> THEN Unspecified ELSE nics[1]
      BY DEF LeftBlank
    <3> HIDE DEF used
    <3> QED
      BY <2>5, <2>6, <2>7, <3>1, <3>2
  <2>8. CASE key = "broadcast_address"
    <3>1. used["broadcast_address"] = ParsedAddress(conn_str(conn, "broadcast_address", ""), Broadcast)
      BY DEF BacnetSettings
    <3>2. LeftBlank("broadcast_address", nics) = Broadcast
      BY DEF LeftBlank
    <3> HIDE DEF used
    <3> QED
      BY <2>5, <2>6, <2>8, <3>1, <3>2
  <2>9. CASE key = "bbmd_address"
    <3>1. used["bbmd_address"] = ParsedAddress(conn_str(conn, "bbmd_address", ""), "none")
      BY DEF BacnetSettings
    <3>2. LeftBlank("bbmd_address", nics) = "none"
      BY DEF LeftBlank
    <3> HIDE DEF used
    <3> QED
      BY <2>5, <2>6, <2>9, <3>1, <3>2
  <2> QED
    BY <1>6, <2>7, <2>8, <2>9
<1>7. CASE key = "bind_failure_policy"
  <2> DEFINE raw == Get(conn, key)[2]
  <2>1. spec = enumeration({"skip", "strict"}, "skip")
    BY <1>7, BacnetFields DEF spec
  <2>2. spec.kind = "enum" /\ spec.options = {"skip", "strict"} /\ default_field_string(spec) = "skip"
    BY <2>1 DEF enumeration, default_field_string, json_scalar, String
  <2>3. raw = t \/ (raw = "" /\ t = "skip")
    <3>1. Tells(enumeration({"skip", "strict"}, "skip"), Get(conn, key), t)
      BY <1>1, <2>1
    <3> QED
      BY <3>1, ChoiceKept
  <2> HIDE DEF raw
  <2>4. t \in {"skip", "strict", ""}
    BY <2>2 DEF PlainText, spec, t
  <2>5. meant = IF t = "" THEN "skip" ELSE t
    BY <2>2 DEF Meaning, meant
  <2>6. "skip" \notin DOMAIN LowerOf /\ "strict" \notin DOMAIN LowerOf
    BY FormsAssumption DEF WORDS
  <2>7. conn_str(conn, key, "skip") = IF Blank(raw) THEN "skip" ELSE raw
    BY DEF conn_str, raw
  <2>8. Lower(conn_str(conn, key, "skip")) = meant
    BY <2>3, <2>4, <2>5, <2>6, <2>7 DEF Lower, Blank, BlankTexts
  <2>9. used["bind_failure_policy"] =
          IF Lower(conn_str(conn, "bind_failure_policy", "skip")) = "strict" THEN "strict" ELSE "skip"
    BY DEF BacnetSettings
  <2> HIDE DEF used
  <2> QED
    BY <1>7, <2>4, <2>5, <2>8, <2>9
<1> QED
  BY <1>3, <1>4, <1>5, <1>6, <1>7, BacnetFields

LEMMA ModbusUsed ==
    ASSUME NEW conn, NEW values, FormTells("modbus", conn, values), NEW nics,
           NEW key \in DOMAIN SpecsOf("modbus"),
           PlainText(key, SpecsOf("modbus")[key], values[key])
    PROVE  ModbusSettings(conn)[key] = Meaning(key, SpecsOf("modbus")[key], values[key], nics)
<1> DEFINE used == ModbusSettings(conn)
           spec == SpecsOf("modbus")[key]
           t == values[key]
           meant == Meaning(key, spec, t, nics)
<1>1. Tells(spec, Get(conn, key), t)
  BY DEF FormTells
<1>2. \A n \in Numbers : spec = u32(n) /\ Within(key, n) =>
         /\ OrElse(conn_u64(conn, key), n) = meant /\ meant \in Nat
         /\ Within(key, meant)
  BY <1>1, NumberMeant
<1> SUFFICES used[key] = meant
  OBVIOUS
<1> HIDE DEF spec, t, meant
<1>3. CASE key = "port"
  <2>1. spec = u32(502)
    BY <1>3, ModbusFields DEF spec
  <2>2. used["port"] = OrElse(conn_u64(conn, "port"), 502) % 2^16
    BY DEF ModbusSettings
  <2>3. \A n \in Nat : Within(key, n) <=> n <= 65535
    BY <1>3 DEF Within, Limits
  <2> HIDE DEF used
  <2> QED
    BY <1>3, <1>2, <2>1, <2>2, <2>3, DefaultNumbers
<1>4. CASE key = "unit_id"
  <2>1. spec = u32(1)
    BY <1>4, ModbusFields DEF spec
  <2>2. used["unit_id"] = OrElse(conn_u64(conn, "unit_id"), 1) % 2^8
    BY DEF ModbusSettings
  <2>3. \A n \in Nat : Within(key, n) <=> n <= 255
    BY <1>4 DEF Within, Limits
  <2> HIDE DEF used
  <2> QED
    BY <1>4, <1>2, <2>1, <2>2, <2>3, DefaultNumbers
<1>5. CASE key = "timeout_ms"
  <2>1. spec = u32(1000)
    BY <1>5, ModbusFields DEF spec
  <2>2. used["timeout_ms"] = AtLeast(OrElse(conn_u64(conn, "timeout_ms"), 1000), 100)
    BY DEF ModbusSettings
  <2>3. \A n \in Nat : Within(key, n) <=> n >= 100 /\ n <= 2^30
    BY <1>5 DEF Within, Limits
  <2> HIDE DEF used
  <2> QED
    BY <1>5, <1>2, <2>1, <2>2, <2>3, DefaultNumbers DEF AtLeast
<1>6. CASE key = "scan_concurrency"
  <2>1. spec = u32(32)
    BY <1>6, ModbusFields DEF spec
  <2>2. used["scan_concurrency"] = AtLeast(OrElse(conn_u64(conn, "scan_concurrency"), 32), 1)
    BY DEF ModbusSettings
  <2>3. \A n \in Nat : Within(key, n) <=> n >= 1 /\ n <= 2^30
    BY <1>6 DEF Within, Limits
  <2> HIDE DEF used
  <2> QED
    BY <1>6, <1>2, <2>1, <2>2, <2>3, DefaultNumbers DEF AtLeast
<1>7. CASE key = "max_hosts"
  <2>1. spec = u32(256)
    BY <1>7, ModbusFields DEF spec
  <2>2. used["max_hosts"] = AtLeast(OrElse(conn_u64(conn, "max_hosts"), 256), 1)
    BY DEF ModbusSettings
  <2>3. \A n \in Nat : Within(key, n) <=> n >= 1 /\ n <= 2^30
    BY <1>7 DEF Within, Limits
  <2> HIDE DEF used
  <2> QED
    BY <1>7, <1>2, <2>1, <2>2, <2>3, DefaultNumbers DEF AtLeast
<1>8. CASE key = "browse_start"
  <2>1. spec = u32(0)
    BY <1>8, ModbusFields DEF spec
  <2>2. used["browse_start"] = AtMost(OrElse(conn_u64(conn, "browse_start"), 0), 2^16 - 1)
    BY DEF ModbusSettings
  <2>3. \A n \in Nat : Within(key, n) <=> n <= 65535
    BY <1>8 DEF Within, Limits
  <2> HIDE DEF used
  <2> QED
    BY <1>8, <1>2, <2>1, <2>2, <2>3, DefaultNumbers DEF AtMost
<1>9. CASE key = "browse_count"
  <2>1. spec = u32(32)
    BY <1>9, ModbusFields DEF spec
  <2>2. used["browse_count"] = AtLeast(AtMost(OrElse(conn_u64(conn, "browse_count"), 32), 2^16 - 1), 1)
    BY DEF ModbusSettings
  <2>3. \A n \in Nat : Within(key, n) <=> n >= 1 /\ n <= 65535
    BY <1>9 DEF Within, Limits
  <2> HIDE DEF used
  <2> QED
    BY <1>9, <1>2, <2>1, <2>2, <2>3, DefaultNumbers DEF AtLeast, AtMost
<1>10. CASE key = "host"
  <2>1. spec = text /\ spec.kind = "text"
    BY <1>10, ModbusFields DEF spec, text
  <2>2. Get(conn, "host")[2] = t
    BY <1>1, <1>10, <2>1, TextKept
  <2>3. used["host"] = IF Blank(Get(conn, "host")[2]) THEN "none" ELSE Get(conn, "host")[2]
    BY DEF ModbusSettings
  <2>4. t # " "
    BY <2>1 DEF PlainText, spec, t
  <2>5. meant = IF t = "" THEN "none" ELSE t
    BY <1>10, <2>1 DEF Meaning, LeftBlank, meant
  <2> HIDE DEF used
  <2> QED
    BY <1>10, <2>2, <2>3, <2>4, <2>5 DEF Blank, BlankTexts
<1> QED
  BY <1>3, <1>4, <1>5, <1>6, <1>7, <1>8, <1>9, <1>10, ModbusFields

LEMMA OpcuaUsed ==
    ASSUME NEW conn, NEW values, FormTells("opcua", conn, values), NEW nics,
           NEW key \in DOMAIN SpecsOf("opcua"),
           PlainText(key, SpecsOf("opcua")[key], values[key]),
           key = "security_policy" => values["security_mode"] \in MODES \ {"none"},
           key = "password" => ~Blank(values["username"])
    PROVE  OpcuaSettings(conn)[key] = Meaning(key, SpecsOf("opcua")[key], values[key], nics)
<1> DEFINE used == OpcuaSettings(conn)
           spec == SpecsOf("opcua")[key]
           t == values[key]
           meant == Meaning(key, spec, t, nics)
           Raw(k) == Get(conn, k)[2]
<1>1. \A k \in DOMAIN SpecsOf("opcua") : Tells(SpecsOf("opcua")[k], Get(conn, k), values[k])
  BY DEF FormTells
<1>2. /\ Raw("endpoint_url") = values["endpoint_url"] /\ Raw("username") = values["username"]
      /\ Raw("password") = values["password"]
  <2>1. Tells(text, Get(conn, "endpoint_url"), values["endpoint_url"])
    BY <1>1, OpcuaFields
  <2>2. Tells(text, Get(conn, "username"), values["username"])
    BY <1>1, OpcuaFields
  <2>3. Tells(secret, Get(conn, "password"), values["password"])
    BY <1>1, OpcuaFields
  <2>4. Raw("endpoint_url") = values["endpoint_url"]
    BY <2>1, TextKept
  <2>5. Raw("username") = values["username"]
    BY <2>2, TextKept
  <2>6. Raw("password") = values["password"]
    BY <2>3, TextKept
  <2> QED
    BY <2>4, <2>5, <2>6
<1>3. /\ Raw("security_mode") = values["security_mode"]
            \/ (Raw("security_mode") = "" /\ values["security_mode"] = "none")
      /\ Raw("security_policy") = values["security_policy"]
            \/ (Raw("security_policy") = "" /\ values["security_policy"] = "none")
  <2>1. Tells(enumeration(MODES, "none"), Get(conn, "security_mode"), values["security_mode"])
    BY <1>1, OpcuaFields
  <2>2. Tells(enumeration(POLICIES, "none"), Get(conn, "security_policy"), values["security_policy"])
    BY <1>1, OpcuaFields
  <2>3. \/ Raw("security_mode") = values["security_mode"]
        \/ (Raw("security_mode") = "" /\ values["security_mode"] = "none")
    BY <2>1, ChoiceKept
  <2>4. \/ Raw("security_policy") = values["security_policy"]
        \/ (Raw("security_policy") = "" /\ values["security_policy"] = "none")
    BY <2>2, ChoiceKept
  <2> QED
    BY <2>3, <2>4
<1>4. \A k, d : conn_str(conn, k, d) = IF Blank(Raw(k)) THEN d ELSE Raw(k)
  BY DEF conn_str
<1>5. \A w \in POLICIES \cup MODES : Lower(w) = w /\ ~Blank(w)
  BY FormsAssumption DEF WORDS, POLICIES, MODES, Lower, Blank, BlankTexts
<1>6. spec.kind \in {"text", "secret"} =>
        t # " " /\ meant = IF t = "" THEN LeftBlank(key, nics) ELSE t
  BY DEF PlainText, Meaning
<1>7. spec.kind = "enum" /\ default_field_string(spec) = "none" =>
        t \in spec.options \cup {""} /\ meant = IF t = "" THEN "none" ELSE t
  BY DEF PlainText, Meaning
<1>8. text.kind = "text" /\ secret.kind = "secret"
  BY DEF text, secret
<1>9. \A options : LET e == enumeration(options, "none")
                   IN  e.kind = "enum" /\ e.options = options /\ default_field_string(e) = "none"
  BY DEF enumeration, default_field_string, json_scalar, String
<1>10. \A s : Blank(s) <=> s = "" \/ s = " "
  BY DEF Blank, BlankTexts
<1>11. /\ LeftBlank("endpoint_url", nics) = "none" /\ LeftBlank("username", nics) = "anonymous"
       /\ LeftBlank("password", nics) = ""
  BY DEF LeftBlank
<1> SUFFICES used[key] = meant
  OBVIOUS
<1> HIDE DEF meant, Raw
<1>12. CASE key = "endpoint_url"
  <2>1. spec = text
    BY <1>12, OpcuaFields
  <2>2. used["endpoint_url"] = conn_str(conn, "endpoint_url", "none")
    BY DEF OpcuaSettings
  <2> HIDE DEF used, spec
  <2> QED
    BY <1>2, <1>4, <1>6, <1>8, <1>10, <1>11, <1>12, <2>1, <2>2
<1>13. CASE key = "username"
  <2>1. spec = text
    BY <1>13, OpcuaFields
  <2>2. used["username"] = IF conn_str(conn, "username", "") = "" THEN "anonymous"
                           ELSE conn_str(conn, "username", "")
    BY DEF OpcuaSettings
  <2> HIDE DEF used, spec
  <2> QED
    BY <1>2, <1>4, <1>6, <1>8, <1>10, <1>11, <1>13, <2>1, <2>2
<1>14. CASE key = "password"
  <2>1. spec = secret
    BY <1>14, OpcuaFields
  <2>2. used["password"] = IF conn_str(conn, "username", "") = "" THEN ""
                           ELSE conn_str(conn, "password", "")
    BY DEF OpcuaSettings
  <2> HIDE DEF used, spec
  <2> QED
    BY <1>2, <1>4, <1>6, <1>8, <1>10, <1>11, <1>14, <2>1, <2>2
<1>15. CASE key = "security_mode"
  <2> DEFINE mode == Lower(conn_str(conn, "security_mode", "none"))
  <2>1. spec = enumeration(MODES, "none")
    BY <1>15, OpcuaFields
  <2>2. used["security_mode"] = IF mode \in MODES THEN mode ELSE "error"
    BY DEF OpcuaSettings
  <2> HIDE DEF used, spec
  <2>3. t \in MODES \cup {""} /\ meant = IF t = "" THEN "none" ELSE t
    BY <1>7, <1>9, <2>1
  <2>4. "none" \in MODES
    BY DEF MODES
  <2>5. mode = meant
    BY <1>3, <1>4, <1>5, <1>10, <1>15, <2>3, <2>4
  <2> HIDE DEF mode
  <2> QED
    BY <1>15, <2>2, <2>3, <2>4, <2>5
<1>16. CASE key = "security_policy"
  <2> DEFINE mode == Lower(conn_str(conn, "security_mode", "none"))
             policy == Lower(conn_str(conn, "security_policy", "none"))
  <2>1. spec = enumeration(POLICIES, "none")
    BY <1>16, OpcuaFields
  <2>2. used["security_policy"] = IF policy \notin POLICIES \/ (policy # "none" /\ mode = "none")
                                  THEN "error" ELSE policy
    BY DEF OpcuaSettings
  <2> HIDE DEF used, spec
  <2>3. t \in POLICIES \cup {""} /\ meant = IF t = "" THEN "none" ELSE t
    BY <1>7, <1>9, <2>1
  <2>4. "none" \in POLICIES
    BY DEF POLICIES
  <2>5. policy = meant
    BY <1>3, <1>4, <1>5, <1>10, <1>16, <2>3, <2>4
  <2>6. values["security_mode"] \in MODES \ {"none"}
    BY <1>16
  <2>7. mode # "none"
    BY <1>3, <1>4, <1>5, <2>6
  <2> HIDE DEF mode, policy
  <2> QED
    BY <1>16, <2>2, <2>3, <2>4, <2>5, <2>7
<1> QED
  BY <1>12, <1>13, <1>14, <1>15, <1>16, OpcuaFields

\* A form whose fields show what is stored is used as it is.
LEMMA UsedIsMeant ==
    ASSUME NEW form, NEW conn, form.protocol \in Protocols,
           FormTells(form.protocol, conn, form.conn_values)
    PROVE  ConnectionIsUsed(form, conn)
<1> DEFINE values == form.conn_values
           id == form.protocol
<1> SUFFICES ASSUME NEW nics \in NicLists, NEW key \in DOMAIN SpecsOf(id) \ Silent(form),
                    PlainText(key, SpecsOf(id)[key], values[key])
             PROVE  Settings(id, conn, nics)[key] = Meaning(key, SpecsOf(id)[key], values[key], nics)
  BY DEF ConnectionIsUsed, SpecsOf
<1>1. CASE id = "bacnet"
  <2>1. Settings("bacnet", conn, nics) = BacnetSettings(conn, nics)
    BY DEF Settings
  <2> HIDE DEF id, values
  <2> QED
    BY <1>1, <2>1, BacnetUsed DEF id, values
<1>2. CASE id = "modbus"
  <2>1. Settings("modbus", conn, nics) = ModbusSettings(conn)
    BY DEF Settings
  <2> QED
    BY <1>2, <2>1, ModbusUsed
<1>3. CASE id = "opcua"
  <2>1. Settings("opcua", conn, nics) = OpcuaSettings(conn)
    BY DEF Settings
  <2>2. /\ key = "security_policy" => values["security_mode"] \in MODES \ {"none"}
        /\ key = "password" => ~Blank(values["username"])
    BY <1>3 DEF Silent
  <2> QED
    BY <1>3, <2>1, <2>2, OpcuaUsed
<1> QED
  BY <1>1, <1>2, <1>3, ProtocolNames

-----------------------------------------------------------------------------
(* Topics. *)

\* Where a device is published to: the prefix, cut, is the same for all of them,
\* and what identifies the device is made harmless.
LEMMA DeviceTopics ==
    ASSUME NEW p, validate_publish_topic(device_envelope_topic(p, "sample")), NEW id
    PROVE  validate_publish_topic(device_envelope_topic(p, id))
<1> DEFINE segments == Split(p)
           Named == {i \in DOMAIN segments : segments[i] # ""}
           last == IF \E i \in DOMAIN segments : segments[i] # ""
                   THEN CHOOSE i \in DOMAIN segments :
                           segments[i] # "" /\ \A j \in (i + 1)..Len(segments) : segments[j] = ""
                   ELSE 0
           n == IF last = 0 THEN 1 ELSE last
           prefix == SubSeq(segments, 1, n)
<1>1. PICK S : segments \in Seq(S) /\ segments # <<>>
  <2>1. CASE p \in DOMAIN SegmentsOf
    BY <2>1, TopicsAssumption DEF Split
  <2>2. CASE p \notin DOMAIN SegmentsOf
    <3>1. segments = <<p>>
      BY <2>2 DEF Split
    <3>2. <<p>> \in Seq({p}) /\ <<p>> # <<>>
      OBVIOUS
    <3> QED
      BY <3>1, <3>2
  <2> QED
    BY <2>1, <2>2
<1>2. \A d : device_envelope_topic(p, d) = prefix \o <<sanitize_segment(d), "telemetry">>
  BY DEF device_envelope_topic
<1> HIDE DEF segments
<1>3. Len(segments) \in Nat /\ DOMAIN segments = 1..Len(segments) /\ Len(segments) # 0
  BY <1>1, LenProperties, EmptySeq
<1>4. n \in 1..Len(segments)
  <2>1. CASE Named = {}
    <3>1. last = 0
      BY <2>1
    <3> HIDE DEF last
    <3> QED
      BY <1>3, <3>1
  <2>2. CASE Named # {}
    <3>1. Named \in SUBSET (1..Len(segments))
      BY <1>3
    <3>2. Max(Named) \in Named /\ \A i \in Named : i <= Max(Named)
      <4> HIDE DEF Named
      <4> QED
        BY <1>3, <2>2, <3>1, Highest
    <3>3. \E i \in DOMAIN segments :
             segments[i] # "" /\ \A j \in (i + 1)..Len(segments) : segments[j] = ""
      <4> DEFINE m == Max(Named)
      <4>1. m \in 1..Len(segments) /\ segments[m] # "" /\ \A i \in Named : i <= m
        BY <3>1, <3>2
      <4> HIDE DEF m
      <4>2. \A j \in (m + 1)..Len(segments) : j \in 1..Len(segments) /\ ~(j <= m)
        <5> DEFINE len == Len(segments)
        <5>1. len \in Nat /\ m \in 1..len
          BY <1>3, <4>1
        <5> HIDE DEF len
        <5> QED
          BY <5>1
      <4>3. \A j \in (m + 1)..Len(segments) : segments[j] = ""
        BY <1>3, <4>1, <4>2
      <4> QED
        BY <1>3, <4>1, <4>3
    <3>4. last \in DOMAIN segments
      BY <3>3
    <3> HIDE DEF last
    <3> QED
      BY <1>3, <3>4
  <2> QED
    BY <2>1, <2>2
<1> HIDE DEF n
<1>5. prefix \in Seq(S) /\ Len(prefix) = n
  <2>1. \A i \in 1..n : segments[i] \in S
    BY <1>1, <1>3, <1>4, ElementOfSeq
  <2> QED
    BY <1>3, <1>4, <2>1, SubSeqProperties
<1> HIDE DEF prefix
<1>6. \A d : LET topic == device_envelope_topic(p, d)
             IN  /\ DOMAIN topic = 1..(n + 2)
                 /\ \A i \in 1..n : topic[i] = prefix[i]
                 /\ topic[n + 1] = sanitize_segment(d) /\ topic[n + 2] = "telemetry"
  <2> TAKE d
  <2> DEFINE end == <<sanitize_segment(d), "telemetry">>
             topic == prefix \o end
             T == S \cup {sanitize_segment(d), "telemetry"}
  <2>1. prefix \in Seq(T)
    BY <1>5, SeqMonotonic
  <2>2. /\ end \in Seq(T) /\ Len(end) = 2 /\ end[1] = sanitize_segment(d)
        /\ end[2] = "telemetry"
    OBVIOUS
  <2> HIDE DEF end, T
  <2>3. /\ topic \in Seq(T) /\ Len(topic) = n + 2
        /\ \A i \in 1..(n + 2) : topic[i] = IF i <= n THEN prefix[i] ELSE end[i - n]
    <3>1. /\ prefix \o end \in Seq(T) /\ Len(prefix \o end) = Len(prefix) + Len(end)
          /\ \A i \in 1..(Len(prefix) + Len(end)) :
                (prefix \o end)[i] = IF i <= Len(prefix) THEN prefix[i] ELSE end[i - Len(prefix)]
      BY <2>1, <2>2, ConcatProperties
    <3> QED
      BY <1>5, <2>2, <3>1
  <2>4. DOMAIN topic = 1..(n + 2)
    BY <2>3, LenProperties
  <2> HIDE DEF topic
  <2>5. \A i \in 1..n : topic[i] = prefix[i]
    BY <1>3, <1>4, <2>3
  <2>6. topic[n + 1] = end[1] /\ topic[n + 2] = end[2]
    BY <1>3, <1>4, <2>3
  <2>7. device_envelope_topic(p, d) = topic
    BY <1>2 DEF topic, end
  <2> QED
    BY <2>2, <2>4, <2>5, <2>6, <2>7
<1> DEFINE topic == device_envelope_topic(p, id)
           sample == device_envelope_topic(p, "sample")
<1>7. /\ DOMAIN topic = 1..(n + 2) /\ DOMAIN sample = 1..(n + 2)
      /\ \A i \in 1..n : topic[i] = sample[i]
      /\ topic[n + 1] = sanitize_segment(id) /\ topic[n + 2] = "telemetry"
  BY <1>6
<1>8. \A i \in DOMAIN sample : sample[i] \notin Wildcards
  BY DEF validate_publish_topic
<1>9. sanitize_segment(id) \notin Wildcards /\ "telemetry" \notin Wildcards
  BY DEF sanitize_segment, Wildcards
<1> HIDE DEF topic, sample
<1>10. \A i \in DOMAIN topic : topic[i] \notin Wildcards
  <2> TAKE i \in DOMAIN topic
  <2>1. i \in 1..n \/ i = n + 1 \/ i = n + 2
    BY <1>3, <1>4, <1>7
  <2>2. i \in 1..n => i \in DOMAIN sample
    BY <1>3, <1>4, <1>7
  <2> QED
    BY <1>7, <1>8, <1>9, <2>1, <2>2
<1>11. ~IsEmptyTopic(topic)
  <2>1. 1 \in DOMAIN topic /\ 2 \in DOMAIN topic
    BY <1>3, <1>4, <1>7
  <2>2. \A s : DOMAIN <<s>> = {1}
    OBVIOUS
  <2>3. DOMAIN <<>> = {}
    OBVIOUS
  <2> QED
    BY <2>1, <2>2, <2>3 DEF IsEmptyTopic
<1> QED
  BY <1>10, <1>11 DEF validate_publish_topic, topic

\* What a valid configuration publishes to.
LEMMA TopicsAreValid ==
    ASSUME NEW m, ValidConfig(m)
    PROVE  \A topic \in PublishedTopics(m) : validate_publish_topic(topic)
<1>1. validate_publish_topic(Split(m.health_topic))
  BY DEF ValidConfig
<1>2. ASSUME m.payload_format = "netix_envelope", NEW point \in SitePoints
      PROVE  validate_publish_topic(
                 device_envelope_topic(m.device_topic_prefix, envelope_device_id(point)))
  <2>1. validate_publish_topic(device_envelope_topic(m.device_topic_prefix, "sample"))
    BY <1>2 DEF ValidConfig
  <2> QED
    BY <2>1, DeviceTopics
<1>3. ASSUME m.payload_format # "netix_envelope", NEW point \in SitePoints
      PROVE  validate_publish_topic(telemetry_topic(m.topic_prefix, point))
  BY <1>3 DEF ValidConfig
<1> QED
  BY <1>1, <1>2, <1>3 DEF PublishedTopics

-----------------------------------------------------------------------------
(* The connections of a file or of the program, and what is shown of them.   *)

\* The stored connection of a protocol, if there is one.
ConnectionOf(conns, id) == IF id \in DOMAIN conns THEN conns[id] ELSE <<>>

\* What is kept of a protocol's connection is read and shown as such.
LEMMA KeptValues ==
    ASSUME NEW conns, AreValues(conns), NEW id, NEW key
    PROVE  LET conn == ConnectionOf(conns, id)
           IN  /\ key \in DOMAIN conn => IsValue(conn[key])
               /\ Get(conn, key) = Absent \/ IsValue(Get(conn, key))
               /\ Get(conn, key) = Absent <=> key \notin DOMAIN conn
               /\ key \in DOMAIN conn => Get(conn, key) = conn[key]
<1> DEFINE conn == ConnectionOf(conns, id)
<1>1. key \in DOMAIN conn => IsValue(conn[key])
  <2>1. CASE id \in DOMAIN conns
    BY <2>1 DEF AreValues, HasValues, ConnectionOf
  <2>2. CASE id \notin DOMAIN conns
    BY <2>2 DEF ConnectionOf
  <2> QED
    BY <2>1, <2>2
<1> HIDE DEF conn
<1>2. key \in DOMAIN conn => Get(conn, key) = conn[key] /\ conn[key] # Absent
  BY <1>1 DEF Get, IsValue
<1>3. key \notin DOMAIN conn => Get(conn, key) = Absent
  BY DEF Get
<1> QED
  BY <1>1, <1>2, <1>3 DEF conn

LEMMA ShownAgrees ==
    ASSUME NEW id \in Protocols, NEW conns, AreValues(conns)
    PROVE  /\ DOMAIN connection_strings(id, conns) = DOMAIN SpecsOf(id)
           /\ \A key \in DOMAIN SpecsOf(id) :
                 connection_strings(id, conns)[key] = ShownText(SpecsOf(id)[key], Get(ConnectionOf(conns, id), key))
           /\ FormTells(id, ConnectionOf(conns, id), connection_strings(id, conns))
<1> DEFINE conn == ConnectionOf(conns, id)
           specs == SpecsOf(id)
           values == connection_strings(id, conns)
<1>1. values = Shown(specs, conn)
  BY DEF connection_strings, SpecsOf, ConnectionOf
<1> HIDE DEF conn, specs, values
<1>2. /\ DOMAIN values = DOMAIN specs
      /\ \A key \in DOMAIN specs :
            values[key] = IF key \in DOMAIN conn THEN json_scalar(conn[key])
                          ELSE default_field_string(specs[key])
  BY <1>1 DEF Shown
<1>3. \A key \in DOMAIN specs :
         /\ values[key] = ShownText(specs[key], Get(conn, key))
         /\ Tells(specs[key], Get(conn, key), values[key])
  <2> TAKE key \in DOMAIN specs
  <2>1. /\ Get(conn, key) = Absent \/ IsValue(Get(conn, key))
        /\ Get(conn, key) = Absent <=> key \notin DOMAIN conn
        /\ key \in DOMAIN conn => Get(conn, key) = conn[key]
    BY KeptValues DEF conn
  <2>2. values[key] = ShownText(specs[key], Get(conn, key))
    BY <1>2, <2>1 DEF ShownText, json_scalar
  <2>3. IsSpec(specs[key])
    BY SpecFacts DEF specs
  <2> QED
    BY <2>1, <2>2, <2>3, ShownFacts
<1> QED
  BY <1>2, <1>3 DEF FormTells, conn, specs, values

\* What a form is stored as.
LEMMA BuiltConnection ==
    ASSUME NEW specs, NEW values, DOMAIN values = DOMAIN specs
    PROVE  /\ DOMAIN build_addressing(specs, values) = DOMAIN specs
           /\ \A key \in DOMAIN specs :
                 /\ build_addressing(specs, values)[key] = Built(specs[key], values[key])
                 /\ Get(build_addressing(specs, values), key) = Built(specs[key], values[key])
<1>1. /\ DOMAIN build_addressing(specs, values) = DOMAIN specs
      /\ \A key \in DOMAIN specs :
            build_addressing(specs, values)[key] = Built(specs[key], values[key])
  BY Zenon DEF build_addressing, Built
<1> QED
  BY <1>1 DEF Get

\* A form that was built shows what is stored.
LEMMA BuiltAgrees ==
    ASSUME NEW id \in Protocols, NEW values, DOMAIN values = DOMAIN SpecsOf(id)
    PROVE  LET conn == build_addressing(SpecsOf(id), values)
           IN  /\ \A key \in DOMAIN conn : IsValue(conn[key])
               /\ FormTells(id, conn, values)
<1> DEFINE conn == build_addressing(SpecsOf(id), values)
<1>1. /\ DOMAIN conn = DOMAIN SpecsOf(id)
      /\ \A key \in DOMAIN SpecsOf(id) :
            /\ conn[key] = Built(SpecsOf(id)[key], values[key])
            /\ Get(conn, key) = Built(SpecsOf(id)[key], values[key])
  BY BuiltConnection
<1> HIDE DEF conn
<1>2. \A key \in DOMAIN SpecsOf(id) :
         /\ IsValue(Built(SpecsOf(id)[key], values[key]))
         /\ Tells(SpecsOf(id)[key], Built(SpecsOf(id)[key], values[key]), values[key])
  BY SpecFacts, BuiltFacts
<1> QED
  BY <1>1, <1>2 DEF FormTells, conn

\* So does one that is shown and built again.
LEMMA RebuiltAgrees ==
    ASSUME NEW id \in Protocols, NEW conns, AreValues(conns), NEW said,
           FormTells(id, ConnectionOf(conns, id), said)
    PROVE  FormTells(id, build_addressing(SpecsOf(id), connection_strings(id, conns)), said)
<1> DEFINE values == connection_strings(id, conns)
           conn == build_addressing(SpecsOf(id), values)
<1>1. /\ DOMAIN values = DOMAIN SpecsOf(id)
      /\ \A key \in DOMAIN SpecsOf(id) :
            values[key] = ShownText(SpecsOf(id)[key], Get(ConnectionOf(conns, id), key))
  BY ShownAgrees
<1> HIDE DEF values
<1>2. \A key \in DOMAIN SpecsOf(id) : Get(conn, key) = Built(SpecsOf(id)[key], values[key])
  BY <1>1, BuiltConnection
<1> HIDE DEF conn
<1>3. \A key \in DOMAIN SpecsOf(id) : Tells(SpecsOf(id)[key], Get(conn, key), said[key])
  <2> TAKE key \in DOMAIN SpecsOf(id)
  <2> DEFINE spec == SpecsOf(id)[key]
             v == Get(ConnectionOf(conns, id), key)
  <2>1. Tells(spec, v, said[key]) /\ IsSpec(spec)
    BY SpecFacts DEF FormTells
  <2>2. Get(conn, key) = Built(spec, ShownText(spec, v))
    BY <1>1, <1>2
  <2> HIDE DEF spec, v
  <2>3. Tells(spec, Built(spec, ShownText(spec, v)), said[key])
    BY <2>1, RebuiltFacts
  <2> QED
    BY <2>2, <2>3 DEF spec
<1> QED
  BY <1>3 DEF FormTells, conn, values

LEMMA StoredConnection ==
    ASSUME NEW conns, AreValues(conns), NEW id, NEW conn,
           \A key \in DOMAIN conn : IsValue(conn[key])
    PROVE  AreValues(With(conns, id, conn)) /\ ConnectionOf(With(conns, id, conn), id) = conn
<1> DEFINE new == With(conns, id, conn)
<1>1. /\ DOMAIN new = DOMAIN conns \cup {id} /\ new[id] = conn
      /\ \A k \in DOMAIN conns : k # id => new[k] = conns[k]
  BY DEF With
<1> HIDE DEF new
<1> QED
  BY <1>1 DEF AreValues, HasValues, ConnectionOf, new

LEMMA MigratedValues ==
    ASSUME NEW version, NEW conns, AreValues(conns)
    PROVE  AreValues(migrate(version, conns))
<1>1. IsValue(Number(0))
  <2>1. parse(Decimal(0)) = 0 /\ 0 # None
    <3>1. \A n \in Numbers : n \in Nat /\ parse(Decimal(n)) = n
      BY ParseFacts
    <3> QED
      BY <3>1, DefaultNumbers DEF None
  <2>2. Number(0)[1] = "number" /\ Number(0)[2] = Decimal(0) /\ Number(0) # Absent
    BY DEF Number, Absent
  <2>3. Decimal(0) \notin {"true", "false"}
    BY <2>1, ParseFacts
  <2> QED
    BY <2>1, <2>2, <2>3 DEF IsValue
<1> DEFINE new == [conns EXCEPT !.bacnet = With(conns.bacnet, "port", Number(0))]
<1>2. migrate(version, conns) \in {conns, new} /\ ("bacnet" \notin DOMAIN conns => migrate(version, conns) = conns)
  BY DEF migrate
<1>3. ASSUME "bacnet" \in DOMAIN conns
      PROVE  AreValues(new)
  <2>1. DOMAIN new = DOMAIN conns /\ \A id \in DOMAIN conns : id # "bacnet" => new[id] = conns[id]
    OBVIOUS
  <2>2. new["bacnet"] = With(conns["bacnet"], "port", Number(0))
    BY <1>3
  <2> HIDE DEF new
  <2>3. \A key \in DOMAIN new["bacnet"] : IsValue(new["bacnet"][key])
    BY <1>1, <1>3, <2>2 DEF With, AreValues, HasValues
  <2> QED
    BY <2>1, <2>3 DEF AreValues, HasValues
<1> HIDE DEF new
<1> QED
  BY <1>2, <1>3

-----------------------------------------------------------------------------
(* The MQTT settings *)

IsMqtt(m) ==
    /\ DOMAIN m = DOMAIN MqttDefaults
    /\ m["port"] \in Numbers /\ m["keep_alive_secs"] \in Numbers

\* All but the secrets are as the form says.
MqttAgrees(said, m) == \A key \in DOMAIN MqttDefaults \ Secrets : m[key] = said[key]

\* A number that was typed is used if it is one, a keep-alive of zero as one.
BufferOf(m, buf) ==
    /\ \A n \in Nat : n <= 65535 /\ parse(buf.port) = n => m["port"] = n
    /\ \A n \in Nat : parse(buf.keep_alive) = n => m["keep_alive_secs"] \in {n, AtLeast(n, 1)}

LEMMA MqttKeys ==
    DOMAIN MqttDefaults =
        {"host", "port", "use_tls", "client_id", "topic_prefix", "health_topic", "username",
         "password", "password_env", "ca_cert_path", "client_cert_path", "client_key_path",
         "client_key_passphrase", "remember_secrets", "retain", "keep_alive_secs",
         "payload_format", "device_topic_prefix", "autostart"}
  BY DEF MqttDefaults

LEMMA ClientUsed ==
    ASSUME NEW form, NEW m, IsMqtt(m), MqttAgrees(form.mqtt, m), BufferOf(m, form.buffers)
    PROVE  ClientIsUsed(form, m)
<1> DEFINE options == ClientOptions(m)
           said == form.mqtt
           shownPort == parse(form.buffers.port)
           shownAlive == parse(form.buffers.keep_alive)
<1>1. /\ m.host = said.host /\ m.client_id = said.client_id /\ m.use_tls = said.use_tls
      /\ m.ca_cert_path = said.ca_cert_path /\ m.client_cert_path = said.client_cert_path
      /\ m.client_key_path = said.client_key_path /\ m.username = said.username
  BY MqttKeys DEF MqttAgrees, Secrets
<1>2. m.port \in Nat /\ m.keep_alive_secs \in Nat
  BY ParseFacts DEF IsMqtt
<1>3. (shownPort = None \/ shownPort \in Nat) /\ (shownAlive = None \/ shownAlive \in Nat)
  BY ParseFacts
<1>4. /\ \A n \in Nat : n <= 65535 /\ shownPort = n => m.port = n
      /\ \A n \in Nat : shownAlive = n => m.keep_alive_secs \in {n, AtLeast(n, 1)}
  BY DEF BufferOf
<1>5. options.address[1] = said.host /\ options.client_id = said.client_id
  BY <1>1 DEF ClientOptions
<1>6. ASSUME shownPort # None, shownPort <= 65535
      PROVE  options.address[2] = shownPort
  <2>1. options.address[2] = m.port
    BY DEF ClientOptions
  <2>2. shownPort \in Nat /\ shownPort <= 65535
    BY <1>3, <1>6
  <2> HIDE DEF options, shownPort
  <2> QED
    BY <1>4, <2>1, <2>2
<1>7. ASSUME shownAlive >= 5, shownAlive <= 65535
      PROVE  options.keep_alive = shownAlive
  <2>1. options.keep_alive = AtLeast(m.keep_alive_secs, 5)
    BY DEF ClientOptions
  <2>2. shownAlive \in Nat /\ shownAlive >= 5
    BY <1>3, <1>7 DEF None
  <2> HIDE DEF options, shownAlive
  <2>3. m.keep_alive_secs \in {shownAlive, AtLeast(shownAlive, 1)}
    BY <1>4, <2>2
  <2>4. m.keep_alive_secs = shownAlive
    BY <2>2, <2>3 DEF AtLeast
  <2> QED
    BY <2>1, <2>2, <2>4 DEF AtLeast
<1>8. ASSUME shownAlive > 65535
      PROVE  ~options.ok
  <2>1. options.ok => m.keep_alive_secs < 2^16
    BY DEF ClientOptions
  <2>2. shownAlive \in Nat
    BY <1>3, <1>8 DEF None
  <2> HIDE DEF options, shownAlive
  <2>3. m.keep_alive_secs \in {shownAlive, AtLeast(shownAlive, 1)}
    BY <1>4, <2>2
  <2>4. m.keep_alive_secs = shownAlive
    BY <1>8, <2>2, <2>3 DEF AtLeast
  <2> QED
    BY <1>8, <2>1, <2>2, <2>4
<1> DEFINE transport == build_transport(m)
<1>9. options.transport = transport
  BY DEF ClientOptions
<1>10. options.ok => transport.kind # "error"
  BY DEF ClientOptions
<1>11. m.use_tls /\ transport.kind # "error" =>
          /\ transport.roots = m.ca_cert_path
          /\ transport.client = IF m.client_cert_path # NotSet /\ m.client_key_path # NotSet
                                THEN m.client_cert_path ELSE NotSet
  BY DEF build_transport
<1>12. ~m.use_tls => transport.kind = "tcp"
  BY DEF build_transport
<1> HIDE DEF transport
<1>13. options.username = IF m.username \in {NotSet, ""} THEN NotSet ELSE m.username
  BY DEF ClientOptions
<1>14. \A key \in DOMAIN MqttDefaults \ (Secrets \cup Typed) : m[key] = said[key]
  BY DEF MqttAgrees
<1> HIDE DEF options, shownPort, shownAlive
<1>15. options.ok /\ said.use_tls =>
          /\ options.transport.roots = said.ca_cert_path
          /\ (said.client_cert_path = NotSet <=> said.client_key_path = NotSet) =>
                options.transport.client = said.client_cert_path
  BY <1>1, <1>9, <1>10, <1>11
<1>16. ~said.use_tls => options.transport.kind = "tcp"
  BY <1>1, <1>9, <1>12
<1>17. options.username = IF said.username = "" THEN NotSet ELSE said.username
  BY <1>1, <1>13
<1>18. NumbersAreUsed(form.buffers, options)
  BY <1>6, <1>7, <1>8 DEF NumbersAreUsed, shownPort, shownAlive
<1>19. TransportIsUsed(said, options)
  BY <1>15, <1>16 DEF TransportIsUsed
<1>20. NamesAreUsed(said, options)
  BY <1>5, <1>17 DEF NamesAreUsed
<1>21. OthersAreKept(said, m)
  BY <1>14 DEF OthersAreKept
<1> QED
  BY <1>18, <1>19, <1>20, <1>21 DEF ClientIsUsed, options

\* What is shown of numbers is what they are.
LEMMA ShownBuffers ==
    ASSUME NEW m, IsMqtt(m)
    PROVE  BufferOf(m, [port |-> Decimal(m.port), keep_alive |-> Decimal(m.keep_alive_secs)])
<1>1. parse(Decimal(m.port)) = m.port /\ parse(Decimal(m.keep_alive_secs)) = m.keep_alive_secs
  BY ParseFacts DEF IsMqtt
<1> HIDE DEF IsMqtt
<1> QED
  BY <1>1 DEF BufferOf

\* Loading completes what is written; of what is complete it keeps all but the
\* password, which the environment may replace.
LEMMA LoadedMqtt ==
    ASSUME NEW written, NEW value,
           \A key \in DOMAIN written \cap Typed : written[key] \in Numbers
    PROVE  LET m == resolve_password_env(Completed(written), value)
           IN  /\ IsMqtt(m)
               /\ \A key \in DOMAIN MqttDefaults \ {"password"} :
                     m[key] = IF key \in DOMAIN written THEN written[key] ELSE MqttDefaults[key]
               /\ m["password"] = IF m["password_env"] # NotSet /\ ~Blank(value) THEN value
                                  ELSE IF "password" \in DOMAIN written THEN written["password"]
                                  ELSE MqttDefaults["password"]
<1> DEFINE full == Completed(written)
           m == resolve_password_env(full, value)
<1>1. /\ DOMAIN full = DOMAIN MqttDefaults
      /\ \A key \in DOMAIN MqttDefaults :
            full[key] = IF key \in DOMAIN written THEN written[key] ELSE MqttDefaults[key]
  BY DEF Completed
<1>2. "password" \in DOMAIN MqttDefaults /\ "password_env" \in DOMAIN MqttDefaults
  BY MqttKeys
<1> HIDE DEF full
<1>3. /\ DOMAIN m = DOMAIN full
      /\ \A key \in DOMAIN full \ {"password"} : m[key] = full[key]
      /\ m["password"] = IF full["password_env"] # NotSet /\ ~Blank(value) THEN value
                         ELSE full["password"]
  BY <1>1, <1>2 DEF resolve_password_env
<1> HIDE DEF m
<1>4. "port" \in DOMAIN MqttDefaults /\ "keep_alive_secs" \in DOMAIN MqttDefaults
  BY MqttKeys
<1>5. MqttDefaults["port"] \in Numbers /\ MqttDefaults["keep_alive_secs"] \in Numbers
  <2>1. MqttDefaults["port"] = 8883 /\ MqttDefaults["keep_alive_secs"] = 30
    BY DEF MqttDefaults
  <2> QED
    BY <2>1, DefaultNumbers
<1>6. full["port"] \in Numbers /\ full["keep_alive_secs"] \in Numbers
  BY <1>1, <1>4, <1>5 DEF Typed
<1>7. IsMqtt(m)
  BY <1>1, <1>3, <1>4, <1>6 DEF IsMqtt
<1> QED
  BY <1>1, <1>2, <1>3, <1>7 DEF m, full

-----------------------------------------------------------------------------
(* The invariant: the form tells what is stored, and the file brings back    *)
(* settings of which the form that was saved tells.                          *)

\* Connections in which the form of a protocol finds what it shows.
ConnectionsOf(id, conns, values) ==
    AreValues(conns) /\ FormTells(id, ConnectionOf(conns, id), values)

\* A form and settings that say the same.
FormShows(form, m) == IsMqtt(m) /\ MqttAgrees(form.mqtt, m) /\ BufferOf(m, form.buffers)

\* The file brings back the form that was last saved.
FileInv ==
    /\ stored.protocol \in Protocols
    /\ Loaded(disk, env).protocol = stored.protocol
    /\ ConnectionsOf(stored.protocol, Loaded(disk, env).connections, stored.conn_values)
    /\ FormShows(stored, Loaded(disk, env).mqtt)
    /\ disk \notin FormFiles => SecretsAreKept(stored, Loaded(disk, env).mqtt)

\* The form shows what would be used.
FormInv ==
    /\ protocol \in Protocols
    /\ DOMAIN conn_values = DOMAIN SpecsOf(protocol)
    /\ ConnectionsOf(protocol, connections, conn_values)
    /\ IsMqtt(mqtt) /\ BufferOf(mqtt, buffers)
    /\ DOMAIN buffers = {"port", "keep_alive"}

\* What was started is valid, and what was loaded is what the file brings back.
PhaseInv ==
    /\ phase \in {"started", "autostarted"} => ValidConfig(mqtt)
    /\ phase \in {"loaded", "autostarted"} =>
          /\ protocol = stored.protocol /\ mqtt = Loaded(disk, env).mqtt
          /\ FormTells(stored.protocol, ConnectionOf(connections, protocol), stored.conn_values)

SettingsInv == FileInv /\ FormInv /\ PhaseInv

LEMMA LoadedFacts ==
    ASSUME NEW f, NEW value
    PROVE  /\ Loaded(f, value).protocol = IF f.protocol = "" THEN "bacnet" ELSE f.protocol
           /\ Loaded(f, value).connections = migrate(f.version, f.connections)
           /\ Loaded(f, value).mqtt = resolve_password_env(Completed(f.mqtt), value)
  BY DEF Loaded

\* A file there may be is shown as it is.
LEMMA FileShown ==
    ASSUME NEW f \in FormFiles, NEW value
    PROVE  LET c == Loaded(f, value)
           IN  /\ c.protocol \in Protocols
               /\ AreValues(c.connections)
               /\ IsMqtt(c.mqtt)
<1>1. /\ f.protocol \in Protocols \cup {""} /\ AreValues(f.connections)
      /\ \A key \in DOMAIN f.mqtt \cap Typed : f.mqtt[key] \in Numbers
  BY SettingsAssumption DEF Typed
<1>2. Loaded(f, value).protocol \in Protocols
  BY <1>1, LoadedFacts, ProtocolNames
<1>3. AreValues(Loaded(f, value).connections)
  <2>1. AreValues(migrate(f.version, f.connections))
    BY <1>1, MigratedValues
  <2> QED
    BY <2>1, LoadedFacts
<1>4. IsMqtt(Loaded(f, value).mqtt)
  <2>1. IsMqtt(resolve_password_env(Completed(f.mqtt), value))
    BY <1>1, LoadedMqtt
  <2> QED
    BY <2>1, LoadedFacts
<1> QED
  BY <1>2, <1>3, <1>4

LEMMA SettingsStart ==
    ASSUME SettingsInit
    PROVE  SettingsInv
<1> DEFINE c == Loaded(disk, env)
           values == connection_strings(c.protocol, c.connections)
           typedIn == [port |-> Decimal(c.mqtt.port), keep_alive |-> Decimal(c.mqtt.keep_alive_secs)]
<1>1. disk \in FormFiles
  BY DEF SettingsInit
<1>2. c.protocol \in Protocols /\ AreValues(c.connections) /\ IsMqtt(c.mqtt)
  BY <1>1, FileShown
<1>3. /\ FormOf(disk, env).protocol = c.protocol /\ FormOf(disk, env).conn_values = values
      /\ FormOf(disk, env).mqtt = c.mqtt /\ FormOf(disk, env).buffers = typedIn
  BY DEF FormOf
<1>4. /\ protocol = c.protocol /\ connections = c.connections /\ mqtt = c.mqtt
      /\ conn_values = values /\ buffers = typedIn
      /\ stored.protocol = c.protocol /\ stored.conn_values = values /\ stored.mqtt = c.mqtt
      /\ stored.buffers = typedIn /\ phase = "loaded"
  <2>1. /\ protocol = c.protocol /\ connections = c.connections /\ mqtt = c.mqtt
        /\ conn_values = connection_strings(protocol, connections)
        /\ buffers = FormOf(disk, env).buffers
        /\ stored = FormOf(disk, env) /\ phase = "loaded"
    BY DEF SettingsInit
  <2> HIDE DEF c, typedIn
  <2>2. conn_values = values
    BY <2>1
  <2> HIDE DEF values
  <2> QED
    BY <1>3, <2>1, <2>2
<1>5. BufferOf(c.mqtt, typedIn)
  BY <1>2, ShownBuffers
<1>6. /\ DOMAIN values = DOMAIN SpecsOf(c.protocol)
      /\ ConnectionsOf(c.protocol, c.connections, values)
  BY <1>2, ShownAgrees DEF ConnectionsOf
<1>11. DOMAIN typedIn = {"port", "keep_alive"}
  OBVIOUS
<1> HIDE DEF c, values, typedIn
<1>7. MqttAgrees(c.mqtt, c.mqtt)
  BY DEF MqttAgrees
<1>8. FileInv
  BY <1>1, <1>2, <1>4, <1>5, <1>6, <1>7 DEF FileInv, FormShows, c
<1>9. FormInv
  BY <1>2, <1>4, <1>5, <1>6, <1>11 DEF FormInv
<1>10. PhaseInv
  BY <1>4, <1>6 DEF PhaseInv, ConnectionsOf, c
<1> QED
  BY <1>8, <1>9, <1>10 DEF SettingsInv

\* Storing the form: the connection it is built to is read as it is shown.
LEMMA Persisted ==
    ASSUME FormInv, NEW id \in Protocols, NEW values, DOMAIN values = DOMAIN SpecsOf(id)
    PROVE  ConnectionsOf(id, With(connections, id, build_addressing(caps[id].connection_fields, values)), values)
<1> DEFINE conn == build_addressing(SpecsOf(id), values)
<1>1. (\A key \in DOMAIN conn : IsValue(conn[key])) /\ FormTells(id, conn, values)
  BY BuiltAgrees
<1>2. AreValues(connections)
  BY DEF FormInv, ConnectionsOf
<1> HIDE DEF conn
<1>3. AreValues(With(connections, id, conn)) /\ ConnectionOf(With(connections, id, conn), id) = conn
  BY <1>1, <1>2, StoredConnection
<1>4. conn = build_addressing(caps[id].connection_fields, values)
  BY DEF conn, SpecsOf
<1> QED
  BY <1>1, <1>3, <1>4 DEF ConnectionsOf

\* What leaves the file alone leaves what it brings back alone.
LEMMA FileUntouched ==
    ASSUME FileInv, UNCHANGED <<disk, env, stored>>
    PROVE  FileInv'
  BY DEF FileInv, SecretsAreKept

\* An edit keeps the file, and says of nothing that it was started or loaded.
LEMMA EditKeeps ==
    ASSUME SettingsInv, NEW n, Edit(n), FormInv'
    PROVE  SettingsInv'
<1>1. UNCHANGED <<disk, env, stored>> /\ phase' = "edited"
  BY DEF Edit
<1>2. FileInv'
  BY <1>1, FileUntouched DEF SettingsInv
<1>3. PhaseInv'
  BY <1>1 DEF PhaseInv
<1> QED
  BY <1>2, <1>3 DEF SettingsInv

LEMMA ProtocolSelectedKeeps ==
    ASSUME SettingsInv, NEW id \in Protocols, ProtocolSelected(id)
    PROVE  SettingsInv'
<1>1. /\ protocol' = id /\ conn_values' = connection_strings(id, connections)
      /\ connections' = connections /\ mqtt' = mqtt /\ buffers' = buffers /\ Edit(1)
  BY DEF ProtocolSelected
<1>2. AreValues(connections) /\ IsMqtt(mqtt) /\ BufferOf(mqtt, buffers)
  BY DEF SettingsInv, FormInv, ConnectionsOf
<1>3. /\ DOMAIN connection_strings(id, connections) = DOMAIN SpecsOf(id)
      /\ FormTells(id, ConnectionOf(connections, id), connection_strings(id, connections))
  BY <1>2, ShownAgrees
<1>4. FormInv'
  BY <1>1, <1>2, <1>3 DEF SettingsInv, FormInv, ConnectionsOf
<1> QED
  BY <1>1, <1>4, EditKeeps

\* The edits of the connection form: the form is stored as it is shown.
LEMMA ConnectionEdited ==
    ASSUME SettingsInv, NEW n, Edit(n), NEW key, NEW t,
           conn_values' = [conn_values EXCEPT ![key] = t], persist_connection(conn_values'),
           UNCHANGED <<protocol, mqtt, buffers>>
    PROVE  SettingsInv'
<1>1. protocol \in Protocols /\ DOMAIN conn_values = DOMAIN SpecsOf(protocol)
  BY DEF SettingsInv, FormInv
<1>2. DOMAIN conn_values' = DOMAIN SpecsOf(protocol)
  BY <1>1
<1>3. connections' = With(connections, protocol,
                          build_addressing(caps[protocol].connection_fields, conn_values'))
  BY DEF persist_connection
<1>4. ConnectionsOf(protocol, connections', conn_values')
  BY <1>1, <1>2, <1>3, Persisted DEF SettingsInv
<1>5. FormInv'
  BY <1>1, <1>2, <1>4 DEF SettingsInv, FormInv
<1> QED
  BY <1>5, EditKeeps

\* The edits of the MQTT form.
LEMMA MqttEdited ==
    ASSUME SettingsInv, EditMqttForm, IsMqtt(mqtt'), BufferOf(mqtt', buffers'),
           DOMAIN buffers' = DOMAIN buffers
    PROVE  SettingsInv'
<1>1. Edit(2) /\ UNCHANGED <<protocol, connections, conn_values>>
  BY DEF EditMqttForm
<1>2. FormInv'
  BY <1>1 DEF SettingsInv, FormInv
<1> QED
  BY <1>1, <1>2, EditKeeps

LEMMA MqttFieldEdited ==
    ASSUME SettingsInv, EditMqttForm, NEW key, key \notin Typed, NEW v,
           mqtt' = [mqtt EXCEPT ![key] = v], buffers' = buffers
    PROVE  SettingsInv'
<1>1. IsMqtt(mqtt) /\ BufferOf(mqtt, buffers)
  BY DEF SettingsInv, FormInv
<1>2. /\ DOMAIN mqtt' = DOMAIN mqtt /\ mqtt'["port"] = mqtt["port"]
      /\ mqtt'["keep_alive_secs"] = mqtt["keep_alive_secs"]
  BY DEF Typed
<1>3. IsMqtt(mqtt')
  BY <1>1, <1>2 DEF IsMqtt
<1>4. BufferOf(mqtt', buffers')
  BY <1>1, <1>2 DEF BufferOf
<1> QED
  BY <1>3, <1>4, MqttEdited

LEMMA ParsedText ==
    ASSUME NEW t
    PROVE  parse(t) = None \/ (parse(t) \in Nat /\ parse(t) \in Numbers)
  BY ParseFacts

\* A port that was typed: it is used if it is one, and the text stays.
LEMMA PortTyped ==
    ASSUME NEW m, IsMqtt(m), NEW buf, DOMAIN buf = {"port", "keep_alive"}, BufferOf(m, buf), NEW t,
           NEW Ports, \A n \in Nat : n <= 65535 => n \in Ports,
           NEW new, new = IF parse(t) \in Ports THEN [m EXCEPT !.port = parse(t)] ELSE m,
           None \notin Ports
    PROVE  IsMqtt(new) /\ BufferOf(new, [buf EXCEPT !.port = t])
<1> DEFINE after == [buf EXCEPT !.port = t]
<1>1. after.port = t /\ after.keep_alive = buf.keep_alive
  OBVIOUS
<1> HIDE DEF after
<1>2. "port" \in DOMAIN m /\ "keep_alive_secs" \in DOMAIN m
  BY MqttKeys DEF IsMqtt
<1>3. parse(t) = None \/ (parse(t) \in Nat /\ parse(t) \in Numbers)
  BY ParsedText
<1>4. CASE parse(t) \in Ports
  <2>1. new = [m EXCEPT !.port = parse(t)]
    BY <1>4
  <2>2. /\ DOMAIN new = DOMAIN m /\ new["port"] = parse(t)
        /\ new["keep_alive_secs"] = m["keep_alive_secs"]
    BY <1>2, <2>1
  <2>3. parse(t) \in Numbers
    BY <1>3, <1>4
  <2> QED
    BY <1>1, <2>2, <2>3 DEF IsMqtt, BufferOf, after
<1>5. CASE parse(t) \notin Ports
  <2>1. new = m
    BY <1>5
  <2>2. \A n \in Nat : n <= 65535 => parse(t) # n
    BY <1>5
  <2> QED
    BY <1>1, <2>1, <2>2 DEF BufferOf, after
<1> QED
  BY <1>4, <1>5

LEMMA KeepAliveTyped ==
    ASSUME NEW m, IsMqtt(m), NEW buf, DOMAIN buf = {"port", "keep_alive"}, BufferOf(m, buf), NEW t,
           NEW new, new = IF parse(t) # None
                          THEN [m EXCEPT !.keep_alive_secs = AtLeast(parse(t), 1)] ELSE m
    PROVE  IsMqtt(new) /\ BufferOf(new, [buf EXCEPT !.keep_alive = t])
<1> DEFINE after == [buf EXCEPT !.keep_alive = t]
<1>1. after.keep_alive = t /\ after.port = buf.port
  OBVIOUS
<1> HIDE DEF after
<1>2. "port" \in DOMAIN m /\ "keep_alive_secs" \in DOMAIN m
  BY MqttKeys DEF IsMqtt
<1>3. parse(t) = None \/ (parse(t) \in Nat /\ parse(t) \in Numbers)
  BY ParseFacts
<1>4. CASE parse(t) # None
  <2>1. new = [m EXCEPT !.keep_alive_secs = AtLeast(parse(t), 1)]
    BY <1>4
  <2>2. /\ DOMAIN new = DOMAIN m /\ new["port"] = m["port"]
        /\ new["keep_alive_secs"] = AtLeast(parse(t), 1)
    BY <1>2, <2>1
  <2>3. AtLeast(parse(t), 1) \in Numbers
    BY <1>3, <1>4, DefaultNumbers DEF AtLeast
  <2> QED
    BY <1>1, <2>2, <2>3 DEF IsMqtt, BufferOf, after
<1>5. CASE parse(t) = None
  <2>1. new = m
    BY <1>5
  <2>2. \A n \in Nat : parse(t) # n
    BY <1>5 DEF None
  <2> QED
    BY <1>1, <2>1, <2>2 DEF BufferOf, after
<1> QED
  BY <1>4, <1>5

LEMMA MqttNumberEdited ==
    ASSUME SettingsInv, NEW t, MqttPort(t) \/ MqttKeepAlive(t)
    PROVE  SettingsInv'
<1>1. IsMqtt(mqtt) /\ BufferOf(mqtt, buffers) /\ DOMAIN buffers = {"port", "keep_alive"}
  BY DEF SettingsInv, FormInv
<1>2. CASE MqttPort(t)
  <2>1. /\ EditMqttForm /\ buffers' = [buffers EXCEPT !.port = t]
        /\ mqtt' = IF parse(t) \in 0..(2^16 - 1) THEN [mqtt EXCEPT !.port = parse(t)] ELSE mqtt
    BY <1>2 DEF MqttPort
  <2> DEFINE Ports == 0..(2^16 - 1)
  <2>10. /\ \A n \in Nat : n <= 65535 => n \in Ports
         /\ None \notin Ports
    BY DEF None
  <2>11. mqtt' = IF parse(t) \in Ports THEN [mqtt EXCEPT !.port = parse(t)] ELSE mqtt
    BY <2>1
  <2> HIDE DEF Ports
  <2>2. IsMqtt(mqtt') /\ BufferOf(mqtt', [buffers EXCEPT !.port = t])
    BY <1>1, <2>10, <2>11, PortTyped
  <2>3. DOMAIN buffers' = DOMAIN buffers
    BY <2>1
  <2> QED
    BY <2>1, <2>2, <2>3, MqttEdited
<1>3. CASE MqttKeepAlive(t)
  <2>1. /\ EditMqttForm /\ buffers' = [buffers EXCEPT !.keep_alive = t]
        /\ mqtt' = IF parse(t) # None
                   THEN [mqtt EXCEPT !.keep_alive_secs = AtLeast(parse(t), 1)] ELSE mqtt
    BY <1>3 DEF MqttKeepAlive
  <2>2. IsMqtt(mqtt') /\ BufferOf(mqtt', [buffers EXCEPT !.keep_alive = t])
    BY <1>1, <2>1, KeepAliveTyped
  <2>3. DOMAIN buffers' = DOMAIN buffers
    BY <2>1
  <2> QED
    BY <2>1, <2>2, <2>3, MqttEdited
<1> QED
  BY <1>2, <1>3

-----------------------------------------------------------------------------

\* Storing the connection on a start leaves the form as it is.
LEMMA StartKeeps ==
    ASSUME SettingsInv, StartPublishing \/ StartOneShot
    PROVE  SettingsInv'
<1>1. /\ persist_connection(conn_values) /\ UNCHANGED <<protocol, mqtt, conn_values, buffers>>
      /\ UNCHANGED <<disk, env, stored>>
      /\ (phase' = "started" /\ ValidConfig(mqtt)) \/ phase' = "one-shot"
  BY DEF StartPublishing, StartOneShot
<1>2. connections' = With(connections, protocol,
                          build_addressing(caps[protocol].connection_fields, conn_values))
  BY <1>1 DEF persist_connection
<1>3. ConnectionsOf(protocol, connections', conn_values)
  BY <1>2, Persisted DEF SettingsInv, FormInv
<1>4. FormInv'
  BY <1>1, <1>3 DEF SettingsInv, FormInv
<1>5. FileInv'
  BY <1>1, FileUntouched DEF SettingsInv
<1>6. PhaseInv'
  <2>1. ValidConfig(mqtt) => ValidConfig(mqtt)'
    BY <1>1 DEF ValidConfig, telemetry_topic
  <2> QED
    BY <1>1, <2>1 DEF PhaseInv
<1> QED
  BY <1>4, <1>5, <1>6 DEF SettingsInv

\* What is written is what will be loaded, but for the secrets.
LEMMA SaveKeeps ==
    ASSUME SettingsInv, SaveSettings
    PROVE  SettingsInv'
<1> DEFINE written == sanitized_for_save(mqtt)
           m == Loaded(disk', env).mqtt
<1>1. /\ disk' = [version |-> 2, protocol |-> protocol, connections |-> connections, mqtt |-> written]
      /\ stored' = Form /\ phase' = "saved"
      /\ UNCHANGED <<protocol, connections, mqtt, conn_values, buffers, env>>
  BY DEF SaveSettings
<1>2. FormInv
  BY DEF SettingsInv
<1>3. /\ disk'.version = 2 /\ disk'.protocol = protocol /\ disk'.connections = connections
      /\ disk'.mqtt = written
  BY <1>1
<1>4. /\ stored'.protocol = protocol /\ stored'.conn_values = conn_values
      /\ stored'.mqtt = mqtt /\ stored'.buffers = buffers
  BY <1>1 DEF Form
<1>5. /\ Loaded(disk', env).protocol = protocol /\ Loaded(disk', env).connections = connections
      /\ m = resolve_password_env(Completed(written), env)
  <2>1. protocol # ""
    BY <1>2, ProtocolNames DEF FormInv
  <2>2. migrate(2, connections) = connections
    BY DEF migrate
  <2> QED
    BY <1>3, <2>1, <2>2, LoadedFacts
<1>6. /\ DOMAIN written = DOMAIN MqttDefaults
      /\ \A key \in DOMAIN MqttDefaults \ Secrets : written[key] = mqtt[key]
      /\ \A key \in Secrets : written[key] = IF mqtt.remember_secrets THEN mqtt[key] ELSE NotSet
  <2>1. DOMAIN mqtt = DOMAIN MqttDefaults
    BY <1>2 DEF FormInv, IsMqtt
  <2>2. "password" \in DOMAIN MqttDefaults /\ "client_key_passphrase" \in DOMAIN MqttDefaults
    BY MqttKeys
  <2>3. CASE mqtt.remember_secrets
    BY <2>1, <2>3 DEF sanitized_for_save
  <2>4. CASE ~mqtt.remember_secrets
    <3>1. written = [mqtt EXCEPT !.password = NotSet, !.client_key_passphrase = NotSet]
      BY <2>4 DEF sanitized_for_save
    <3> HIDE DEF written
    <3> QED
      BY <2>1, <2>2, <2>4, <3>1 DEF Secrets
  <2> QED
    BY <2>3, <2>4
<1> HIDE DEF written
<1>7. \A key \in DOMAIN written \cap Typed : written[key] \in Numbers
  BY <1>2, <1>6 DEF FormInv, IsMqtt, Typed, Secrets
<1>8. /\ IsMqtt(m)
      /\ \A key \in DOMAIN MqttDefaults \ {"password"} : m[key] = written[key]
      /\ m["password"] = IF m["password_env"] # NotSet /\ ~Blank(env) THEN env ELSE written["password"]
  <2>1. LET r == resolve_password_env(Completed(written), env)
        IN  /\ IsMqtt(r)
            /\ \A key \in DOMAIN MqttDefaults \ {"password"} :
                  r[key] = IF key \in DOMAIN written THEN written[key] ELSE MqttDefaults[key]
            /\ r["password"] = IF r["password_env"] # NotSet /\ ~Blank(env) THEN env
                               ELSE IF "password" \in DOMAIN written THEN written["password"]
                               ELSE MqttDefaults["password"]
    BY <1>7, LoadedMqtt
  <2>2. "password" \in DOMAIN MqttDefaults
    BY MqttKeys
  <2> QED
    BY <1>5, <1>6, <2>1, <2>2
<1> HIDE DEF m
<1>9. MqttAgrees(mqtt, m)
  BY <1>6, <1>8 DEF MqttAgrees, Secrets
<1>10. BufferOf(m, buffers)
  <2>1. m["port"] = mqtt["port"] /\ m["keep_alive_secs"] = mqtt["keep_alive_secs"]
    BY <1>9, MqttKeys DEF MqttAgrees, Secrets
  <2> QED
    BY <1>2, <2>1 DEF FormInv, BufferOf
<1>11. SecretsAreKept(stored', m)
  <2>1. m["password_env"] = mqtt["password_env"]
    BY <1>9, MqttKeys DEF MqttAgrees, Secrets
  <2>2. m["client_key_passphrase"] = written["client_key_passphrase"]
    BY <1>8, MqttKeys
  <2> QED
    BY <1>4, <1>6, <1>8, <2>1, <2>2 DEF SecretsAreKept, Secrets
<1>12. FileInv'
  <2>1. SecretsAreKept(stored, Loaded(disk, env).mqtt)'
    BY <1>1, <1>11 DEF SecretsAreKept, m
  <2>2. ConnectionsOf(protocol, connections, conn_values) /\ protocol \in Protocols
    BY <1>2 DEF FormInv
  <2>3. FormShows(stored', m)
    BY <1>4, <1>8, <1>9, <1>10 DEF FormShows
  <2> QED
    BY <1>1, <1>4, <1>5, <2>1, <2>2, <2>3 DEF FileInv, m
<1>13. FormInv'
  BY <1>1, <1>2 DEF FormInv
<1>14. PhaseInv'
  BY <1>1 DEF PhaseInv
<1> QED
  BY <1>12, <1>13, <1>14 DEF SettingsInv

\* A restart shows the file again; what it starts is stored as it is shown.
LEMMA RestartKeeps ==
    ASSUME SettingsInv, RestartApp
    PROVE  SettingsInv'
<1> DEFINE c == Loaded(disk, env)
           starts == c.mqtt.autostart /\ ValidConfig(c.mqtt)
           values == connection_strings(c.protocol, c.connections)
           conn == build_addressing(SpecsOf(c.protocol), values)
           typedIn == [port |-> Decimal(c.mqtt.port), keep_alive |-> Decimal(c.mqtt.keep_alive_secs)]
<1>1. /\ protocol' = c.protocol /\ mqtt' = c.mqtt /\ conn_values' = values /\ buffers' = typedIn
      /\ connections' = IF starts THEN With(c.connections, c.protocol, conn) ELSE c.connections
      /\ phase' = IF starts THEN "autostarted" ELSE "loaded"
      /\ UNCHANGED <<disk, env, stored>>
  BY DEF RestartApp, SpecsOf
<1>2. /\ c.protocol \in Protocols /\ c.protocol = stored.protocol
      /\ AreValues(c.connections)
      /\ FormTells(c.protocol, ConnectionOf(c.connections, c.protocol), stored.conn_values)
      /\ IsMqtt(c.mqtt)
  BY DEF SettingsInv, FileInv, ConnectionsOf, FormShows
<1>3. BufferOf(c.mqtt, typedIn)
  BY <1>2, ShownBuffers
<1>4. DOMAIN typedIn = {"port", "keep_alive"}
  OBVIOUS
<1>5. /\ DOMAIN values = DOMAIN SpecsOf(c.protocol)
      /\ FormTells(c.protocol, ConnectionOf(c.connections, c.protocol), values)
  BY <1>2, ShownAgrees
<1>6. FormTells(c.protocol, conn, stored.conn_values)
  BY <1>2, RebuiltAgrees
<1> HIDE DEF values, typedIn
<1>7. (\A key \in DOMAIN conn : IsValue(conn[key])) /\ FormTells(c.protocol, conn, values)
  BY <1>2, <1>5, BuiltAgrees
<1> HIDE DEF conn
<1>8. /\ AreValues(With(c.connections, c.protocol, conn))
      /\ ConnectionOf(With(c.connections, c.protocol, conn), c.protocol) = conn
  BY <1>2, <1>7, StoredConnection
<1> HIDE DEF c, starts
<1>9. /\ AreValues(connections')
      /\ FormTells(protocol', ConnectionOf(connections', protocol'), conn_values')
      /\ FormTells(protocol', ConnectionOf(connections', protocol'), stored.conn_values)
  BY <1>1, <1>2, <1>5, <1>6, <1>7, <1>8
<1>10. FormInv'
  BY <1>1, <1>2, <1>3, <1>4, <1>5, <1>9 DEF FormInv, ConnectionsOf
<1>11. FileInv'
  BY <1>1, FileUntouched DEF SettingsInv
<1>12. PhaseInv'
  <2>1. phase' \in {"started", "autostarted"} => starts
    BY <1>1
  <2>2. ValidConfig(c.mqtt) => ValidConfig(mqtt')
    BY <1>1
  <2>3. starts => ValidConfig(mqtt')
    BY <2>2 DEF starts
  <2>4. ValidConfig(mqtt') => ValidConfig(mqtt)'
    BY DEF ValidConfig, telemetry_topic
  <2>5. Loaded(disk, env)' = c
    BY <1>1 DEF c
  <2> QED
    BY <1>1, <1>2, <1>9, <2>1, <2>3, <2>4, <2>5 DEF PhaseInv
<1> QED
  BY <1>10, <1>11, <1>12 DEF SettingsInv

LEMMA SettingsStep ==
    ASSUME SettingsInv, SettingsNext
    PROVE  SettingsInv'
<1>1. CASE \E id \in Protocols : ProtocolSelected(id)
  BY <1>1, ProtocolSelectedKeeps
<1>2. ASSUME NEW key, NEW t, ConnFieldChanged(key, t)
      PROVE  SettingsInv'
  <2>1. /\ Edit(IF t \in {"true", "false"} THEN 1 ELSE 2)
        /\ conn_values' = [conn_values EXCEPT ![key] = t]
        /\ persist_connection(conn_values')
        /\ UNCHANGED <<protocol, mqtt, buffers>>
    BY <1>2 DEF ConnFieldChanged
  <2> QED
    BY <2>1, ConnectionEdited
<1>3. ASSUME NEW nics \in NicLists, RefreshNics(nics)
      PROVE  SettingsInv'
  <2>1. /\ Edit(2)
        /\ conn_values' = [conn_values EXCEPT !["interface"] = nics[1]]
        /\ persist_connection(conn_values')
        /\ UNCHANGED <<protocol, mqtt, buffers>>
    BY <1>3 DEF RefreshNics
  <2> QED
    BY <2>1, ConnectionEdited
<1>4. ASSUME NEW key \in TextKeys \cup OptionalKeys, NEW t, MqttText(key, t)
      PROVE  SettingsInv'
  <2>1. /\ EditMqttForm /\ buffers' = buffers
        /\ mqtt' = [mqtt EXCEPT ![key] = IF key \in OptionalKeys THEN non_empty(t) ELSE t]
    BY <1>4 DEF MqttText
  <2>2. key \notin Typed
    BY DEF TextKeys, OptionalKeys, Typed
  <2> QED
    BY <2>1, <2>2, MqttFieldEdited
<1>5. ASSUME NEW key \in Flags, MqttFlag(key)
      PROVE  SettingsInv'
  <2>1. /\ EditMqttForm /\ buffers' = buffers
        /\ mqtt' = [mqtt EXCEPT ![key] = ~mqtt[key]]
    BY <1>5 DEF MqttFlag
  <2>2. key \notin Typed
    BY DEF Flags, Typed
  <2> QED
    BY <2>1, <2>2, MqttFieldEdited
<1>6. ASSUME NEW format, MqttPayloadFormat(format)
      PROVE  SettingsInv'
  <2>1. /\ EditMqttForm /\ buffers' = buffers
        /\ mqtt' = [mqtt EXCEPT !["payload_format"] = format]
    BY <1>6 DEF MqttPayloadFormat
  <2>2. "payload_format" \notin Typed
    BY DEF Typed
  <2> QED
    BY <2>1, <2>2, MqttFieldEdited
<1>7. CASE \E t \in Texts["u32"] : MqttPort(t) \/ MqttKeepAlive(t)
  BY <1>7, MqttNumberEdited
<1>8. CASE SaveSettings
  BY <1>8, SaveKeeps
<1>9. CASE StartPublishing \/ StartOneShot
  BY <1>9, StartKeeps
<1>10. CASE RestartApp
  BY <1>10, RestartKeeps
<1> QED
  BY <1>1, <1>2, <1>3, <1>4, <1>5, <1>6, <1>7, <1>8, <1>9, <1>10 DEF SettingsNext

LEMMA SettingsMeant ==
    ASSUME SettingsInv
    PROVE  SettingsAreTrue
<1>1. Connection = ConnectionOf(connections, protocol)
  BY DEF Connection, ConnectionOf
<1>2. /\ Form.protocol = protocol /\ Form.conn_values = conn_values /\ Form.mqtt = mqtt
      /\ Form.buffers = buffers
  BY DEF Form
<1>3. /\ protocol \in Protocols /\ FormTells(protocol, Connection, conn_values)
      /\ IsMqtt(mqtt) /\ BufferOf(mqtt, buffers)
  BY <1>1 DEF SettingsInv, FormInv, ConnectionsOf
<1>4. ConnectionIsUsed(Form, Connection)
  BY <1>2, <1>3, UsedIsMeant
<1>5. ClientIsUsed(Form, mqtt)
  <2>1. MqttAgrees(Form.mqtt, mqtt)
    BY <1>2 DEF MqttAgrees
  <2> QED
    BY <1>2, <1>3, <2>1, ClientUsed
<1>6. ClientOptions(mqtt).password =
          IF mqtt.username \in {NotSet, ""} \/ mqtt.password = NotSet THEN "" ELSE mqtt.password
  BY DEF ClientOptions
<1>7. ASSUME phase \in {"started", "autostarted"}
      PROVE  \A topic \in PublishedTopics(mqtt) : validate_publish_topic(topic)
  BY <1>7, TopicsAreValid DEF SettingsInv, PhaseInv
<1>8. FormIsUsed
  BY <1>4, <1>5, <1>6, <1>7 DEF FormIsUsed
<1>9. ASSUME phase \in {"loaded", "autostarted"}
      PROVE  /\ protocol = stored.protocol
             /\ ConnectionIsUsed(stored, Connection)
             /\ ClientIsUsed(stored, mqtt)
             /\ disk \notin FormFiles => SecretsAreKept(stored, mqtt)
  <2>1. /\ protocol = stored.protocol /\ mqtt = Loaded(disk, env).mqtt
        /\ FormTells(stored.protocol, Connection, stored.conn_values)
    BY <1>1, <1>9 DEF SettingsInv, PhaseInv
  <2>2. /\ stored.protocol \in Protocols /\ FormShows(stored, mqtt)
        /\ disk \notin FormFiles => SecretsAreKept(stored, mqtt)
    BY <2>1 DEF SettingsInv, FileInv
  <2>3. ConnectionIsUsed(stored, Connection)
    BY <2>1, <2>2, UsedIsMeant
  <2>4. ClientIsUsed(stored, mqtt)
    BY <2>2, ClientUsed DEF FormShows
  <2> QED
    BY <2>1, <2>2, <2>3, <2>4
<1>10. FileIsUsed
  BY <1>9 DEF FileIsUsed
<1> QED
  BY <1>8, <1>10 DEF SettingsAreTrue

\* The forms mean what they show.  Whatever is typed, saved, started, restarted or
\* written into the file by hand, an adapter that is started gets the option that
\* each field says, the MQTT client that of its form; only topics that may be
\* published to are; and what the next start loads is what was shown when saving.
THEOREM SettingsAlways == GuiSpec => []GuiSettingsAreTrue
<1>1. GuiInit => SettingsInv
  BY SettingsStart DEF GuiInit
<1>2. SettingsInv /\ [GuiNext]_gui => SettingsInv'
  <2> SUFFICES ASSUME SettingsInv, [GuiNext]_gui
               PROVE  SettingsInv'
    OBVIOUS
  <2>1. CASE SettingsNext
    BY <2>1, SettingsStep
  <2>2. CASE UNCHANGED settings
    <3>1. /\ UNCHANGED <<protocol, connections, mqtt, conn_values, buffers>>
          /\ UNCHANGED <<disk, env, stored, phase>>
      BY <2>2 DEF settings
    <3>2. FileInv'
      BY <3>1, FileUntouched DEF SettingsInv
    <3>3. FormInv'
      BY <3>1 DEF SettingsInv, FormInv
    <3>4. PhaseInv'
      BY <3>1 DEF SettingsInv, PhaseInv, ValidConfig
    <3> QED
      BY <3>2, <3>3, <3>4 DEF SettingsInv
  <2> QED
    BY <2>1, <2>2 DEF GuiNext, gui
<1>3. SettingsInv => GuiSettingsAreTrue
  BY SettingsMeant DEF GuiSettingsAreTrue
<1> QED
  BY <1>1, <1>2, <1>3, PTL DEF GuiSpec

-----------------------------------------------------------------------------
(* Addresses: what becomes of the fields of a point that are shown and       *)
(* stored again, and of those that are typed.                                *)

\* The fields of an addressing.
AddressSpecs(id) == caps[id].addressing_fields

LEMMA BacnetAddress ==
    /\ DOMAIN AddressSpecs("bacnet") = {"device_instance", "object_type", "object_instance", "property"}
    /\ AddressSpecs("bacnet")["device_instance"] = u32(0)
    /\ AddressSpecs("bacnet")["object_type"] = enumeration(OBJECT_TYPES, "analog_input")
    /\ AddressSpecs("bacnet")["object_instance"] = u32(0)
    /\ AddressSpecs("bacnet")["property"] = text
<1>1. AddressSpecs("bacnet") = BacnetCapabilities.addressing_fields
  BY DEF AddressSpecs, caps
<1> QED
  BY <1>1 DEF BacnetCapabilities

LEMMA ModbusAddress ==
    /\ DOMAIN AddressSpecs("modbus") = {"table", "address", "datatype", "word_order", "scale"}
    /\ AddressSpecs("modbus")["table"] = enumeration(TABLES, "holding")
    /\ AddressSpecs("modbus")["address"] = u32(0)
    /\ AddressSpecs("modbus")["datatype"] = enumeration(DATATYPES, "u16")
    /\ AddressSpecs("modbus")["word_order"] = enumeration({"big", "little"}, "big")
    /\ AddressSpecs("modbus")["scale"] = text
<1>1. AddressSpecs("modbus") = ModbusCapabilities.addressing_fields
  BY DEF AddressSpecs, caps
<1> QED
  BY <1>1 DEF ModbusCapabilities

LEMMA OpcuaAddress ==
    DOMAIN AddressSpecs("opcua") = {"node_id"} /\ AddressSpecs("opcua")["node_id"] = text
<1>1. AddressSpecs("opcua") = OpcuaCapabilities.addressing_fields
  BY DEF AddressSpecs, caps
<1> QED
  BY <1>1 DEF OpcuaCapabilities

\* A field of an address is a number from zero, a choice or a text.
IsAddressSpec(spec) ==
    IsSpec(spec) /\ (spec = u32(0) \/ spec = text \/ \E options, d : spec = enumeration(options, d))

LEMMA NumberSpec == u32(0).kind = "u32" /\ default_field_string(u32(0)) = Decimal(0)
  BY DEF u32, default_field_string, json_scalar, Number

LEMMA TextSpec == text.kind = "text" /\ default_field_string(text) = ""
  BY DEF text, default_field_string, json_scalar, Absent

LEMMA ChoiceSpec ==
    ASSUME NEW options, NEW d
    PROVE  /\ enumeration(options, d).kind = "enum"
           /\ enumeration(options, d).options = options
           /\ default_field_string(enumeration(options, d)) = d
  BY DEF enumeration, default_field_string, json_scalar, String

LEMMA AbsentText == Absent[1] = "absent" /\ Absent[2] = ""
  BY DEF Absent

LEMMA AddressSpecFacts ==
    ASSUME NEW id \in Protocols, NEW key \in DOMAIN AddressSpecs(id)
    PROVE  IsAddressSpec(AddressSpecs(id)[key])
<1>1. IsAddressSpec(text)
  BY TextSpec DEF IsAddressSpec, IsSpec, FieldKinds
<1>2. \A options, d : IsAddressSpec(enumeration(options, d))
  BY ChoiceSpec DEF IsAddressSpec, IsSpec, FieldKinds
<1>3. IsAddressSpec(u32(0))
  <2>1. 0 \in Numbers /\ u32(0).kind = "u32"
    BY NumberSpec, DefaultNumbers
  <2>2. \E n \in Numbers : u32(0) = u32(n)
    BY <2>1
  <2> QED
    BY <2>1, <2>2 DEF IsAddressSpec, IsSpec, FieldKinds
<1>4. CASE id = "bacnet"
  BY <1>1, <1>2, <1>3, <1>4, BacnetAddress
<1>5. CASE id = "modbus"
  BY <1>1, <1>2, <1>3, <1>5, ModbusAddress
<1>6. CASE id = "opcua"
  BY <1>1, <1>6, OpcuaAddress
<1> QED
  BY <1>4, <1>5, <1>6, ProtocolNames

\* What becomes of a value that is shown and stored again.
LEMMA StoredAgain ==
    ASSUME NEW spec, IsAddressSpec(spec), NEW v, v = Absent \/ IsValue(v)
    PROVE  LET s == ShownText(spec, v)
               b == Built(spec, s)
           IN  /\ spec.kind = "u32" /\ v # Absent => Reads(b) = Reads(v)
               /\ spec.kind = "u32" => OrElse(Reads(b), 0) = OrElse(Reads(v), 0)
               /\ spec.kind # "u32" => b[2] = s
               /\ v # Absent /\ (spec.kind = "u32" => v[1] = "number") => b[2] = v[2]
<1> DEFINE s == ShownText(spec, v)
           b == Built(spec, s)
<1>1. v # Absent => s = v[2]
  BY DEF ShownText
<1>2. CASE spec = u32(0)
  <2>1. spec.kind = "u32" /\ default_field_string(spec) = Decimal(0)
    BY <1>2, NumberSpec
  <2>2. parse(Decimal(0)) = 0
    <3>1. \A n \in Numbers : parse(Decimal(n)) = n
      BY ParseFacts
    <3> QED
      BY <3>1, DefaultNumbers
  <2>3. b = IF parse(s) # None THEN Number(parse(s)) ELSE String(s)
    BY <2>1 DEF Built
  <2>4. Reads(b) = parse(s)
    <3>1. CASE parse(s) # None
      <4>1. b[1] = "number" /\ b[2] = Decimal(parse(s))
        BY <2>3, <3>1 DEF Number
      <4>2. parse(Decimal(parse(s))) = parse(s)
        BY <3>1, ParseFacts
      <4> QED
        BY <4>1, <4>2 DEF Reads
    <3>2. CASE parse(s) = None
      BY <2>3, <3>2 DEF Reads, String
    <3> QED
      BY <3>1, <3>2
  <2>5. v # Absent => Reads(v) = parse(v[2])
    BY DEF Reads, IsValue, parse
  <2>6. v = Absent => Reads(v) = None /\ s = Decimal(0)
    BY <2>1, AbsentText DEF Reads, ShownText
  <2>7. v # Absent => Reads(b) = Reads(v)
    BY <1>1, <2>4, <2>5
  <2>8. OrElse(Reads(b), 0) = OrElse(Reads(v), 0)
    BY <2>2, <2>4, <2>6, <2>7 DEF OrElse, None
  <2>9. ASSUME v # Absent, v[1] = "number"
        PROVE  b[2] = v[2]
    <3>1. s = v[2] /\ (parse(s) = None \/ s = Decimal(parse(s)))
      BY <1>1, <2>9 DEF IsValue
    <3> QED
      BY <2>3, <3>1 DEF Number, String
  <2> HIDE DEF s, b
  <2> QED
    BY <2>1, <2>7, <2>8, <2>9 DEF s, b
<1>3. CASE spec # u32(0)
  <2>1. spec.kind # "u32" /\ spec.kind # "bool"
    <3>1. spec.kind \in {"text", "enum"}
      <4>1. CASE spec = text
        BY <4>1, TextSpec
      <4>2. CASE \E options, d : spec = enumeration(options, d)
        <5>1. PICK options, d : spec = enumeration(options, d)
          BY <4>2
        <5> QED
          BY <5>1, ChoiceSpec
      <4> QED
        BY <1>3, <4>1, <4>2 DEF IsAddressSpec
    <3> QED
      BY <3>1
  <2>2. b = String(s)
    BY <2>1 DEF Built
  <2>3. b[2] = s
    BY <2>2 DEF String
  <2> HIDE DEF s, b
  <2> QED
    BY <1>1, <2>1, <2>3 DEF s, b
<1> QED
  BY <1>2, <1>3

\* What the form of a stored addressing is stored as.
Restored(id, old) == build_addressing(AddressSpecs(id), Shown(AddressSpecs(id), old))

LEMMA RestoredValues ==
    ASSUME NEW id \in Protocols, NEW old, HasValues(old), NEW key \in DOMAIN AddressSpecs(id)
    PROVE  LET spec == AddressSpecs(id)[key]
           IN  /\ Get(old, key) = Absent \/ IsValue(Get(old, key))
               /\ Get(old, key) = Absent <=> key \notin DOMAIN old
               /\ key \in DOMAIN Restored(id, old)
               /\ Restored(id, old)[key] = Built(spec, ShownText(spec, Get(old, key)))
               /\ Get(Restored(id, old), key) = Built(spec, ShownText(spec, Get(old, key)))
               /\ Shown(AddressSpecs(id), old)[key] = ShownText(spec, Get(old, key))
<1> DEFINE specs == AddressSpecs(id)
           values == Shown(specs, old)
<1>1. /\ Get(old, key) = Absent \/ IsValue(Get(old, key))
      /\ Get(old, key) = Absent <=> key \notin DOMAIN old
      /\ key \in DOMAIN old => Get(old, key) = old[key]
  BY DEF Get, HasValues, IsValue
<1> HIDE DEF specs
<1>2. /\ DOMAIN values = DOMAIN specs
      /\ values[key] = IF key \in DOMAIN old THEN json_scalar(old[key])
                       ELSE default_field_string(specs[key])
  BY DEF Shown, specs
<1>3. values[key] = ShownText(specs[key], Get(old, key))
  BY <1>1, <1>2 DEF ShownText, json_scalar
<1> HIDE DEF values
<1>4. /\ DOMAIN build_addressing(specs, values) = DOMAIN specs
      /\ build_addressing(specs, values)[key] = Built(specs[key], values[key])
      /\ Get(build_addressing(specs, values), key) = Built(specs[key], values[key])
  BY <1>2, BuiltConnection DEF specs
<1>5. Restored(id, old) = build_addressing(specs, values)
  BY DEF Restored, specs, values
<1> QED
  BY <1>1, <1>3, <1>4, <1>5 DEF specs, values

\* What an adapter reads of it: of a number the number, of a choice the choice
\* or its default, of a text the text.
LEMMA RestoredReads ==
    ASSUME NEW id \in Protocols, NEW old, HasValues(old), NEW key \in DOMAIN AddressSpecs(id)
    PROVE  LET spec == AddressSpecs(id)[key]
               new == Restored(id, old)
           IN  /\ spec = u32(0) =>
                     /\ OrElse(conn_u64(new, key), 0) = OrElse(conn_u64(old, key), 0)
                     /\ key \in DOMAIN old => conn_u64(new, key) = conn_u64(old, key)
               /\ spec = text => Get(new, key)[2] = Get(old, key)[2]
               /\ \A options, d : spec = enumeration(options, d) =>
                     Get(new, key)[2] = IF key \in DOMAIN old THEN old[key][2] ELSE d
<1> DEFINE spec == AddressSpecs(id)[key]
           new == Restored(id, old)
           v == Get(old, key)
           s == ShownText(spec, v)
           b == Built(spec, s)
<1>1. /\ v = Absent \/ IsValue(v)
      /\ v = Absent <=> key \notin DOMAIN old
      /\ Get(new, key) = b
  BY RestoredValues
<1>2. IsAddressSpec(spec)
  BY AddressSpecFacts
<1>3. key \in DOMAIN old => v = old[key]
  BY DEF Get
<1>4. conn_u64(new, key) = Reads(b) /\ conn_u64(old, key) = Reads(v)
  BY <1>1 DEF conn_u64, Reads
<1> HIDE DEF spec, new, v
<1>5. /\ spec.kind = "u32" /\ v # Absent => Reads(b) = Reads(v)
      /\ spec.kind = "u32" => OrElse(Reads(b), 0) = OrElse(Reads(v), 0)
      /\ spec.kind # "u32" => b[2] = s
  BY <1>1, <1>2, StoredAgain
<1>6. s = IF v = Absent THEN default_field_string(spec) ELSE v[2]
  BY DEF ShownText
<1> HIDE DEF b, s
<1>7. spec = u32(0) =>
         /\ OrElse(conn_u64(new, key), 0) = OrElse(conn_u64(old, key), 0)
         /\ key \in DOMAIN old => conn_u64(new, key) = conn_u64(old, key)
  BY <1>1, <1>4, <1>5, NumberSpec
<1>8. spec = text => Get(new, key)[2] = v[2]
  BY <1>1, <1>5, <1>6, TextSpec, AbsentText
<1>9. \A options, d : spec = enumeration(options, d) =>
         Get(new, key)[2] = IF key \in DOMAIN old THEN old[key][2] ELSE d
  <2> TAKE options, d
  <2> HAVE spec = enumeration(options, d)
  <2>1. spec.kind = "enum" /\ default_field_string(spec) = d
    BY ChoiceSpec
  <2> QED
    BY <1>1, <1>3, <1>5, <1>6, <2>1
<1> QED
  BY <1>7, <1>8, <1>9 DEF spec, new, v

-----------------------------------------------------------------------------

\* What the adapter reads of a point is the same again, if there is what it asks for.
LEMMA TargetKept ==
    ASSUME NEW id \in Protocols, NEW old, HasValues(old), Required[id] \subseteq DOMAIN old
    PROVE  Target(id, Restored(id, old)) = Target(id, old)
<1> DEFINE new == Restored(id, old)
<1>1. CASE id = "bacnet"
  <2>1. {"device_instance", "object_type"} \subseteq DOMAIN old
    BY <1>1 DEF Required
  <2>2. conn_u64(new, "device_instance") = conn_u64(old, "device_instance")
    BY <1>1, <2>1, BacnetAddress, RestoredReads
  <2>3. OrElse(conn_u64(new, "object_instance"), 0) = OrElse(conn_u64(old, "object_instance"), 0)
    BY <1>1, BacnetAddress, RestoredReads
  <2>4. Get(new, "object_type")[2] = Get(old, "object_type")[2]
    <3>1. Get(new, "object_type")[2] = old["object_type"][2]
      BY <1>1, <2>1, BacnetAddress, RestoredReads
    <3>2. Get(old, "object_type") = old["object_type"]
      BY <2>1 DEF Get
    <3> QED
      BY <3>1, <3>2
  <2>5. Get(new, "property")[2] = Get(old, "property")[2]
    BY <1>1, BacnetAddress, RestoredReads
  <2> HIDE DEF new
  <2>6. /\ conn_str(new, "object_type", "") = conn_str(old, "object_type", "")
        /\ conn_str(new, "property", "present_value") = conn_str(old, "property", "present_value")
    BY <2>4, <2>5 DEF conn_str
  <2>7. BacnetTarget(new) = BacnetTarget(old)
    BY <2>2, <2>3, <2>6 DEF BacnetTarget
  <2>8. \A a : Target("bacnet", a) = BacnetTarget(a)
    BY DEF Target
  <2> QED
    BY <1>1, <2>7, <2>8 DEF new
<1>2. CASE id = "modbus"
  <2> DEFINE Str(a, key, default) == IF key \in DOMAIN a THEN json_scalar(a[key]) ELSE default
  <2>1. OrElse(conn_u64(new, "address"), 0) = OrElse(conn_u64(old, "address"), 0)
    BY <1>2, ModbusAddress, RestoredReads
  <2>2. ASSUME NEW key \in {"table", "datatype", "word_order", "scale"}
        PROVE  key \in DOMAIN new /\ Get(new, key) = new[key]
    <3>1. key \in DOMAIN AddressSpecs("modbus")
      BY <2>2, ModbusAddress
    <3>2. key \in DOMAIN new
      BY <1>2, <3>1, RestoredValues
    <3> QED
      BY <3>2 DEF Get
  <2>3. Get(new, "table")[2] = IF "table" \in DOMAIN old THEN old["table"][2] ELSE "holding"
    BY <1>2, ModbusAddress, RestoredReads
  <2>4. Get(new, "datatype")[2] = IF "datatype" \in DOMAIN old THEN old["datatype"][2] ELSE "u16"
    BY <1>2, ModbusAddress, RestoredReads
  <2>5. Get(new, "word_order")[2] = IF "word_order" \in DOMAIN old THEN old["word_order"][2] ELSE "big"
    BY <1>2, ModbusAddress, RestoredReads
  <2>6. Get(new, "scale")[2] = Get(old, "scale")[2]
    BY <1>2, ModbusAddress, RestoredReads
  <2>7. Get(old, "scale")[2] = IF "scale" \in DOMAIN old THEN old["scale"][2] ELSE ""
    BY AbsentText DEF Get
  <2> HIDE DEF new
  <2>8. Str(new, "table", "holding") = Str(old, "table", "holding")
    <3>1. "table" \in DOMAIN new /\ new["table"][2] = Get(new, "table")[2]
      BY <2>2
    <3> QED
      BY <3>1, <2>3 DEF json_scalar
  <2>81. Str(new, "datatype", "u16") = Str(old, "datatype", "u16")
    <3>1. "datatype" \in DOMAIN new /\ new["datatype"][2] = Get(new, "datatype")[2]
      BY <2>2
    <3> QED
      BY <3>1, <2>4 DEF json_scalar
  <2>82. Str(new, "word_order", "big") = Str(old, "word_order", "big")
    <3>1. "word_order" \in DOMAIN new /\ new["word_order"][2] = Get(new, "word_order")[2]
      BY <2>2
    <3> QED
      BY <3>1, <2>5 DEF json_scalar
  <2>83. Str(new, "scale", "") = Str(old, "scale", "")
    <3>1. "scale" \in DOMAIN new /\ new["scale"][2] = Get(new, "scale")[2]
      BY <2>2
    <3> QED
      BY <3>1, <2>6, <2>7 DEF json_scalar
  <2>9. \A a : ModbusTarget(a) =
            <<Str(a, "table", "holding"), Decimal(OrElse(conn_u64(a, "address"), 0) % 2^16),
              Str(a, "datatype", "u16"), Str(a, "word_order", "big"),
              IF Str(a, "scale", "") \in Factors THEN Str(a, "scale", "") ELSE "1.0">>
    BY DEF ModbusTarget
  <2> HIDE DEF Str
  <2>10. ModbusTarget(new) = ModbusTarget(old)
    BY <2>1, <2>8, <2>81, <2>82, <2>83, <2>9
  <2>11. \A a : Target("modbus", a) = ModbusTarget(a)
    BY DEF Target
  <2> QED
    BY <1>2, <2>10, <2>11 DEF new
<1>3. CASE id = "opcua"
  <2>1. Get(new, "node_id")[2] = Get(old, "node_id")[2]
    BY <1>3, OpcuaAddress, RestoredReads
  <2> HIDE DEF new
  <2>2. OpcuaTarget(new) = OpcuaTarget(old)
    BY <2>1 DEF OpcuaTarget, conn_str
  <2>3. \A a : Target("opcua", a) = OpcuaTarget(a)
    BY DEF Target
  <2> QED
    BY <1>3, <2>2, <2>3 DEF new
<1> QED
  BY <1>1, <1>2, <1>3, ProtocolNames

LEMMA IdentityKept ==
    ASSUME NEW id \in Protocols, NEW old, HasValues(old), DOMAIN old = DOMAIN AddressSpecs(id),
           \A key \in DOMAIN old : AddressSpecs(id)[key].kind = "u32" => old[key][1] = "number"
    PROVE  Identity(Restored(id, old)) = Identity(old)
<1> DEFINE new == Restored(id, old)
<1>1. DOMAIN new = DOMAIN old
  BY DEF Restored, build_addressing
<1>2. ASSUME NEW key \in DOMAIN old
      PROVE  new[key][2] = old[key][2]
  <2> DEFINE spec == AddressSpecs(id)[key]
             v == old[key]
             b == Built(spec, ShownText(spec, v))
  <2>1. v # Absent /\ IsValue(v) /\ Get(old, key) = v
    BY DEF HasValues, IsValue, Get
  <2>2. new[key] = b
    BY <2>1, RestoredValues
  <2>3. IsAddressSpec(spec)
    BY AddressSpecFacts
  <2>4. spec.kind = "u32" => v[1] = "number"
    OBVIOUS
  <2> HIDE DEF spec, v, new
  <2>5. b[2] = v[2]
    BY <2>1, <2>3, <2>4, StoredAgain
  <2> QED
    BY <2>2, <2>5 DEF v
<1> HIDE DEF new
<1>3. Identity(new) = Identity(old)
  BY <1>1, <1>2 DEF Identity, json_scalar
<1> QED
  BY <1>3 DEF new

\* Points of one identity are shown alike.
LEMMA ShownAlike ==
    ASSUME NEW specs, NEW a, NEW b, Identity(a) = Identity(b)
    PROVE  Shown(specs, a) = Shown(specs, b)
<1>1. ASSUME NEW x, NEW y, Identity(x) = Identity(y), NEW key \in DOMAIN x
      PROVE  key \in DOMAIN y /\ y[key][2] = x[key][2]
  <2>1. <<key, json_scalar(x[key])>> \in Identity(y)
    BY <1>1 DEF Identity
  <2>2. PICK k \in DOMAIN y : <<k, json_scalar(y[k])>> = <<key, json_scalar(x[key])>>
    BY <2>1 DEF Identity
  <2> QED
    BY <2>2 DEF json_scalar
<1>2. \A key \in DOMAIN a : key \in DOMAIN b /\ json_scalar(b[key]) = json_scalar(a[key])
  BY <1>1 DEF json_scalar
<1>3. \A key \in DOMAIN b : key \in DOMAIN a
  BY <1>1
<1>4. \A key \in DOMAIN specs :
         (IF key \in DOMAIN a THEN json_scalar(a[key]) ELSE default_field_string(specs[key]))
         = (IF key \in DOMAIN b THEN json_scalar(b[key]) ELSE default_field_string(specs[key]))
  BY <1>2, <1>3
<1> QED
  BY <1>4 DEF Shown

-----------------------------------------------------------------------------
\* What is typed plainly is read.

LEMMA TypedReads ==
    ASSUME NEW id \in Protocols, NEW values, DOMAIN values = DOMAIN AddressSpecs(id),
           NEW key \in DOMAIN AddressSpecs(id)
    PROVE  LET spec == AddressSpecs(id)[key]
               new == build_addressing(AddressSpecs(id), values)
           IN  /\ spec = u32(0) /\ parse(values[key]) # None =>
                     conn_u64(new, key) = parse(values[key])
               /\ (spec = text \/ \E options, d : spec = enumeration(options, d)) =>
                     Get(new, key)[2] = values[key]
               /\ key \in DOMAIN new /\ new[key] = Get(new, key)
<1> DEFINE specs == AddressSpecs(id)
           spec == specs[key]
           new == build_addressing(specs, values)
           t == values[key]
           b == Built(spec, t)
<1>1. Get(new, key) = b /\ key \in DOMAIN new /\ new[key] = b
  BY BuiltConnection
<1>2. conn_u64(new, key) = Reads(b)
  BY <1>1 DEF conn_u64, Reads
<1> HIDE DEF spec, new, t, specs
<1>3. ASSUME spec = u32(0), parse(t) # None
      PROVE  Reads(b) = parse(t)
  <2>1. b = Number(parse(t))
    BY <1>3, NumberSpec DEF Built
  <2>2. b[1] = "number" /\ b[2] = Decimal(parse(t))
    BY <2>1 DEF Number
  <2>3. parse(Decimal(parse(t))) = parse(t)
    BY <1>3, ParseFacts
  <2> QED
    BY <2>2, <2>3 DEF Reads
<1>4. ASSUME spec = text \/ \E options, d : spec = enumeration(options, d)
      PROVE  b[2] = t
  <2>1. spec.kind \in {"text", "enum"}
    <3>1. CASE spec = text
      BY <3>1, TextSpec
    <3>2. CASE \E options, d : spec = enumeration(options, d)
      <4>1. PICK options, d : spec = enumeration(options, d)
        BY <3>2
      <4> QED
        BY <4>1, ChoiceSpec
    <3> QED
      BY <1>4, <3>1, <3>2
  <2>2. b = String(t)
    BY <2>1 DEF Built
  <2> QED
    BY <2>2 DEF String
<1> HIDE DEF b
<1> QED
  BY <1>1, <1>2, <1>3, <1>4 DEF spec, new, t, specs

\* Words have no capitals and are not blank.
LEMMA WordFacts ==
    ASSUME NEW t, t \in OBJECT_TYPES
    PROVE  Lower(t) = t /\ ~Blank(t)
  BY FormsAssumption DEF WORDS, Lower, Blank, BlankTexts, OBJECT_TYPES

LEMMA PlainBacnet ==
    ASSUME NEW values, DOMAIN values = DOMAIN AddressSpecs("bacnet"),
           \A key \in DOMAIN values : PlainAddress(key, AddressSpecs("bacnet")[key], values[key])
    PROVE  BacnetTarget(build_addressing(AddressSpecs("bacnet"), values)) =
               <<Decimal(parse(values["device_instance"])), values["object_type"],
                 Decimal(parse(values["object_instance"])), values["property"]>>
<1> DEFINE new == build_addressing(AddressSpecs("bacnet"), values)
<1>1. "bacnet" \in Protocols
  BY ProtocolNames
<1>2. parse(values["device_instance"]) # None /\ parse(values["object_instance"]) # None
  BY BacnetAddress, NumberSpec DEF PlainAddress
<1>3. values["object_type"] \in OBJECT_TYPES
  BY BacnetAddress, ChoiceSpec DEF PlainAddress
<1>4. values["property"] \notin DOMAIN LowerOf /\ ~Blank(values["property"])
  BY BacnetAddress, TextSpec DEF PlainAddress
<1>5. conn_u64(new, "device_instance") = parse(values["device_instance"])
  BY <1>1, <1>2, BacnetAddress, TypedReads
<1>6. conn_u64(new, "object_instance") = parse(values["object_instance"])
  BY <1>1, <1>2, BacnetAddress, TypedReads
<1>7. Get(new, "object_type")[2] = values["object_type"]
  BY <1>1, BacnetAddress, TypedReads
<1>8. Get(new, "property")[2] = values["property"]
  BY <1>1, BacnetAddress, TypedReads
<1> HIDE DEF new
<1>9. Lower(conn_str(new, "object_type", "")) = values["object_type"]
  BY <1>3, <1>7, WordFacts DEF conn_str
<1>10. Lower(conn_str(new, "property", "present_value")) = values["property"]
  BY <1>4, <1>8 DEF conn_str, Lower
<1>11. OrElse(conn_u64(new, "object_instance"), 0) = parse(values["object_instance"])
  BY <1>2, <1>6 DEF OrElse
<1>12. BacnetTarget(new) =
           <<Decimal(parse(values["device_instance"])), values["object_type"],
             Decimal(parse(values["object_instance"])), values["property"]>>
  BY <1>2, <1>3, <1>5, <1>9, <1>10, <1>11 DEF BacnetTarget
<1> QED
  BY <1>12 DEF new

LEMMA PlainModbus ==
    ASSUME NEW values, DOMAIN values = DOMAIN AddressSpecs("modbus"),
           \A key \in DOMAIN values : PlainAddress(key, AddressSpecs("modbus")[key], values[key])
    PROVE  ModbusTarget(build_addressing(AddressSpecs("modbus"), values)) =
               <<values["table"], Decimal(parse(values["address"])), values["datatype"],
                 values["word_order"], values["scale"]>>
<1> DEFINE new == build_addressing(AddressSpecs("modbus"), values)
           Str(key, default) == IF key \in DOMAIN new THEN json_scalar(new[key]) ELSE default
<1>1. "modbus" \in Protocols
  BY ProtocolNames
<1>2. parse(values["address"]) # None /\ parse(values["address"]) < 2^16
  BY ModbusAddress, NumberSpec DEF PlainAddress
<1>3. values["scale"] \in Factors
  BY ModbusAddress, TextSpec DEF PlainAddress
<1>4. conn_u64(new, "address") = parse(values["address"])
  BY <1>1, <1>2, ModbusAddress, TypedReads
<1>5. ASSUME NEW key \in {"table", "datatype", "word_order", "scale"}
      PROVE  key \in DOMAIN new /\ new[key][2] = values[key]
  <2>1. /\ key \in DOMAIN AddressSpecs("modbus")
        /\ \/ AddressSpecs("modbus")[key] = text
           \/ \E options, d : AddressSpecs("modbus")[key] = enumeration(options, d)
    BY ModbusAddress
  <2> QED
    BY <1>1, <2>1, TypedReads
<1> HIDE DEF new
<1>6. \A default : \A key \in {"table", "datatype", "word_order", "scale"} :
          Str(key, default) = values[key]
  BY <1>5 DEF json_scalar
<1>7. OrElse(conn_u64(new, "address"), 0) % 2^16 = parse(values["address"])
  <2>1. parse(values["address"]) \in Nat
    BY <1>2, ParsedText
  <2>2. OrElse(conn_u64(new, "address"), 0) = parse(values["address"])
    BY <1>2, <1>4 DEF OrElse
  <2> QED
    BY <1>2, <2>1, <2>2
<1>8. ModbusTarget(new) =
          <<Str("table", "holding"), Decimal(OrElse(conn_u64(new, "address"), 0) % 2^16),
            Str("datatype", "u16"), Str("word_order", "big"),
            IF Str("scale", "") \in Factors THEN Str("scale", "") ELSE "1.0">>
  BY DEF ModbusTarget
<1> HIDE DEF Str
<1>9. ModbusTarget(new) =
          <<values["table"], Decimal(parse(values["address"])), values["datatype"],
            values["word_order"], values["scale"]>>
  BY <1>3, <1>6, <1>7, <1>8
<1> QED
  BY <1>9 DEF new

LEMMA PlainOpcua ==
    ASSUME NEW values, DOMAIN values = DOMAIN AddressSpecs("opcua"),
           \A key \in DOMAIN values : PlainAddress(key, AddressSpecs("opcua")[key], values[key])
    PROVE  OpcuaTarget(build_addressing(AddressSpecs("opcua"), values)) = <<values["node_id"]>>
<1> DEFINE new == build_addressing(AddressSpecs("opcua"), values)
<1>1. ~Blank(values["node_id"])
  BY OpcuaAddress, TextSpec DEF PlainAddress
<1>2. Get(new, "node_id")[2] = values["node_id"]
  BY ProtocolNames, OpcuaAddress, TypedReads
<1> HIDE DEF new
<1>3. OpcuaTarget(new) = <<values["node_id"]>>
  BY <1>1, <1>2 DEF OpcuaTarget, conn_str
<1> QED
  BY <1>3 DEF new

-----------------------------------------------------------------------------
(* The editor's invariant: what was found since the selection is of the      *)
(* selected protocol, unless an answer came late; and the form shows the     *)
(* point it was loaded from until something is typed, whatever replaces      *)
(* that point in the meantime.                                               *)

EntriesOk == IsList(entries) /\ \A i \in DOMAIN entries : HasValues(entries[i].addressing)

BrowsedOk ==
    \A found \in browsed : HasValues(found.addressing) /\ (late \/ found.home = picked)

FieldsOk ==
    /\ DOMAIN fields = DOMAIN AddressSpecs(picked)
    /\ at # 0 => at \in DOMAIN entries
    /\ at # 0 /\ ~touched => fields = Shown(AddressSpecs(picked), entries[at].addressing)

EditorInv == picked \in Protocols /\ EntriesOk /\ BrowsedOk /\ FieldsOk

\* A list of points and one more.
LEMMA EntryAppended ==
    ASSUME NEW q, IsList(q), NEW e
    PROVE  /\ IsList(Append(q, e)) /\ DOMAIN q = 1..Len(q) /\ Len(q) \in Nat
           /\ DOMAIN Append(q, e) = 1..Len(q) + 1
           /\ \A i \in DOMAIN q : i \in DOMAIN Append(q, e) /\ Append(q, e)[i] = q[i]
           /\ \A i \in DOMAIN Append(q, e) : i \in DOMAIN q \/ Append(q, e)[i] = e
<1>1. PICK S : q \in Seq(S)
  BY DEF IsList
<1> DEFINE T == S \cup {e}
<1>2. q \in Seq(T) /\ e \in T
  BY <1>1
<1>3. /\ Append(q, e) \in Seq(T) /\ Len(Append(q, e)) = Len(q) + 1
      /\ \A i \in 1..Len(q) : Append(q, e)[i] = q[i]
      /\ Append(q, e)[Len(q) + 1] = e
  BY <1>2, AppendProperties
<1>4. DOMAIN q = 1..Len(q) /\ Len(q) \in Nat /\ DOMAIN Append(q, e) = 1..Len(q) + 1
  BY <1>1, <1>3
<1> QED
  BY <1>3, <1>4 DEF IsList

LEMMA EntryReplaced ==
    ASSUME NEW q, IsList(q), NEW k \in DOMAIN q, NEW e
    PROVE  /\ IsList([q EXCEPT ![k] = e]) /\ DOMAIN [q EXCEPT ![k] = e] = DOMAIN q
           /\ [q EXCEPT ![k] = e][k] = e
           /\ \A i \in DOMAIN q : i # k => [q EXCEPT ![k] = e][i] = q[i]
<1>1. PICK S : q \in Seq(S)
  BY DEF IsList
<1> DEFINE T == S \cup {e}
<1>2. q \in Seq(T) /\ e \in T
  BY <1>1
<1>3. [q EXCEPT ![k] = e] \in Seq(T)
  BY <1>2
<1> QED
  BY <1>3 DEF IsList

\* What is stored has values.
LEMMA BuiltAddress ==
    ASSUME NEW id \in Protocols, NEW values, DOMAIN values = DOMAIN AddressSpecs(id)
    PROVE  HasValues(build_addressing(AddressSpecs(id), values))
<1> DEFINE new == build_addressing(AddressSpecs(id), values)
<1>1. DOMAIN new = DOMAIN AddressSpecs(id)
  BY BuiltConnection
<1>2. ASSUME NEW key \in DOMAIN AddressSpecs(id)
      PROVE  IsValue(new[key])
  <2>1. IsSpec(AddressSpecs(id)[key])
    BY AddressSpecFacts DEF IsAddressSpec
  <2>2. new[key] = Built(AddressSpecs(id)[key], values[key])
    BY BuiltConnection
  <2> QED
    BY <2>1, <2>2, BuiltFacts
<1> QED
  BY <1>1, <1>2 DEF HasValues

LEMMA ShownDomain ==
    \A specs, old : DOMAIN Shown(specs, old) = DOMAIN specs
  BY DEF Shown

\* Points that come and go as one of the table is added or replaced.
LEMMA PointAdded ==
    ASSUME EditorInv, NEW new, HasValues(new.addressing), entries' = Append(entries, new)
    PROVE  /\ EntriesOk'
           /\ \A i \in DOMAIN entries : i \in DOMAIN entries' /\ entries'[i] = entries[i]
           /\ \A i \in DOMAIN entries' :
                 (i \in DOMAIN entries /\ entries'[i] = entries[i]) \/ entries'[i] = new
<1>1. IsList(entries) /\ \A i \in DOMAIN entries : HasValues(entries[i].addressing)
  BY DEF EditorInv, EntriesOk
<1>2. /\ IsList(entries')
      /\ \A i \in DOMAIN entries : i \in DOMAIN entries' /\ entries'[i] = entries[i]
      /\ \A i \in DOMAIN entries' : i \in DOMAIN entries \/ entries'[i] = new
  BY <1>1, EntryAppended
<1>3. \A i \in DOMAIN entries' :
         (i \in DOMAIN entries /\ entries'[i] = entries[i]) \/ entries'[i] = new
  BY <1>2
<1>4. \A i \in DOMAIN entries' : HasValues(entries'[i].addressing)
  BY <1>1, <1>3
<1> QED
  BY <1>2, <1>3, <1>4 DEF EntriesOk

LEMMA PointReplaced ==
    ASSUME EditorInv, NEW k \in DOMAIN entries, NEW new, HasValues(new.addressing),
           entries' = [entries EXCEPT ![k] = new]
    PROVE  /\ EntriesOk' /\ entries'[k] = new /\ DOMAIN entries' = DOMAIN entries
           /\ \A i \in DOMAIN entries : i # k => entries'[i] = entries[i]
<1>1. IsList(entries) /\ \A i \in DOMAIN entries : HasValues(entries[i].addressing)
  BY DEF EditorInv, EntriesOk
<1>2. /\ IsList(entries') /\ entries'[k] = new /\ DOMAIN entries' = DOMAIN entries
      /\ \A i \in DOMAIN entries : i # k => entries'[i] = entries[i]
  BY <1>1, EntryReplaced
<1>3. \A i \in DOMAIN entries' : HasValues(entries'[i].addressing)
  BY <1>1, <1>2
<1> QED
  BY <1>2, <1>3 DEF EntriesOk

\* A form that starts over shows defaults and no point.
LEMMA StartsOver ==
    ASSUME NEW id, EditorStartsOver(id), picked' = id
    PROVE  FieldsOk'
<1>1. at' = 0 /\ DOMAIN fields' = DOMAIN AddressSpecs(id)
  BY ShownDomain DEF EditorStartsOver, AddressSpecs
<1> QED
  BY <1>1 DEF FieldsOk

LEMMA EditorStart == PointFormsInit => EditorInv
<1> SUFFICES ASSUME PointFormsInit
             PROVE  EditorInv
  OBVIOUS
<1>1. /\ entries \in PointFiles /\ picked \in Protocols /\ at = 0 /\ browsed = {}
      /\ fields = Shown(AddressSpecs(picked), <<>>)
  BY DEF PointFormsInit, addressing_fields, AddressSpecs
<1>2. EntriesOk
  BY <1>1, EntriesAssumption DEF EntriesOk, IsList
<1>3. BrowsedOk
  BY <1>1 DEF BrowsedOk
<1>4. FieldsOk
  BY <1>1, ShownDomain DEF FieldsOk
<1> QED
  BY <1>1, <1>2, <1>3, <1>4 DEF EditorInv

LEMMA UntouchedEntries ==
    ASSUME EditorInv, UNCHANGED entries
    PROVE  EntriesOk' /\ (UNCHANGED <<picked, fields, at, touched>> => FieldsOk')
  BY DEF EditorInv, EntriesOk, FieldsOk, AddressSpecs

LEMMA SelectKeeps ==
    ASSUME EditorInv, NEW id \in Protocols, SelectProtocol(id)
    PROVE  EditorInv'
<1>1. /\ picked' = id /\ EditorStartsOver(id) /\ browsed' = {} /\ UNCHANGED entries
  BY DEF SelectProtocol
<1> QED
  BY <1>1, UntouchedEntries, StartsOver DEF EditorInv, BrowsedOk

LEMMA FoundKeeps ==
    ASSUME EditorInv, NEW found, AddFound(found)
    PROVE  /\ EditorInv'
           /\ \A i \in DOMAIN entries' :
                 (i \in DOMAIN entries /\ entries'[i] = entries[i]) \/ entries'[i] = found
<1> DEFINE same == {i \in DOMAIN entries :
                       Identity(entries[i].addressing) = Identity(found.addressing)}
           k == CHOOSE i \in same : \A j \in same : i <= j
<1>1. /\ found \in browsed
      /\ IF same = {} THEN entries' = Append(entries, found)
         ELSE entries' = [entries EXCEPT ![k] = found]
      /\ UNCHANGED <<picked, browsed, late, fields, at, touched>>
  BY DEF AddFound, lists
<1>2. HasValues(found.addressing)
  BY <1>1 DEF EditorInv, BrowsedOk
<1>3. BrowsedOk'
  BY <1>1 DEF EditorInv, BrowsedOk
<1>4. FieldsOk
  BY DEF EditorInv
<1>5. CASE same = {}
  <2>1. entries' = Append(entries, found)
    BY <1>1, <1>5
  <2>2. /\ EntriesOk'
        /\ \A i \in DOMAIN entries : i \in DOMAIN entries' /\ entries'[i] = entries[i]
        /\ \A i \in DOMAIN entries' :
              (i \in DOMAIN entries /\ entries'[i] = entries[i]) \/ entries'[i] = found
    BY <1>2, <2>1, PointAdded
  <2>3. FieldsOk'
    BY <1>1, <1>4, <2>2 DEF FieldsOk, AddressSpecs
  <2> QED
    BY <1>1, <1>3, <2>2, <2>3 DEF EditorInv
<1>6. CASE same # {}
  <2>1. k \in same
    <3>1. same \in SUBSET Nat
      <4>1. IsList(entries)
        BY DEF EditorInv, EntriesOk
      <4>2. DOMAIN entries \subseteq Nat
        BY <4>1, EntryAppended
      <4> QED
        BY <4>2
    <3>2. \E i \in same : \A j \in same : i <= j
      <4> HIDE DEF same
      <4> QED
        BY <1>6, <3>1, Lowest
    <3> QED
      BY <3>2
  <2>2. k \in DOMAIN entries /\ Identity(entries[k].addressing) = Identity(found.addressing)
    BY <2>1
  <2>3. entries' = [entries EXCEPT ![k] = found]
    BY <1>1, <1>6
  <2> HIDE DEF k, same
  <2>4. /\ EntriesOk' /\ entries'[k] = found /\ DOMAIN entries' = DOMAIN entries
        /\ \A i \in DOMAIN entries : i # k => entries'[i] = entries[i]
    BY <1>2, <2>2, <2>3, PointReplaced
  <2>5. FieldsOk'
    <3>1. ASSUME NEW i \in DOMAIN entries
          PROVE  Shown(AddressSpecs(picked), entries'[i].addressing) =
                     Shown(AddressSpecs(picked), entries[i].addressing)
      <4>1. CASE i = k
        BY <2>2, <2>4, <4>1, ShownAlike
      <4>2. CASE i # k
        BY <2>4, <4>2
      <4> QED
        BY <4>1, <4>2
    <3> QED
      BY <1>1, <1>4, <2>4, <3>1 DEF FieldsOk, AddressSpecs
  <2> QED
    BY <1>1, <1>3, <2>4, <2>5 DEF EditorInv
<1> QED
  BY <1>5, <1>6

LEMMA StoreKeeps ==
    ASSUME EditorInv, StoreEntry
    PROVE  LET new == [home |-> picked,
                       addressing |-> build_addressing(AddressSpecs(picked), fields)]
           IN  /\ EditorInv'
               /\ \A i \in DOMAIN entries' :
                     (i \in DOMAIN entries /\ entries'[i] = entries[i]) \/ entries'[i] = new
               /\ at # 0 => entries'[at] = new
<1> DEFINE new == [home |-> picked, addressing |-> build_addressing(AddressSpecs(picked), fields)]
<1>1. /\ IF at = 0 THEN entries' = Append(entries, new)
         ELSE entries' = [entries EXCEPT ![at] = new]
      /\ EditorStartsOver(picked) /\ UNCHANGED <<picked, browsed, late>>
  BY DEF StoreEntry, addressing_fields, AddressSpecs, lists
<1>2. new.addressing = build_addressing(AddressSpecs(picked), fields)
  OBVIOUS
<1> HIDE DEF new
<1>3. HasValues(new.addressing)
  BY <1>2, BuiltAddress DEF EditorInv, FieldsOk
<1>4. BrowsedOk'
  BY <1>1 DEF EditorInv, BrowsedOk
<1>5. FieldsOk' /\ picked' \in Protocols
  BY <1>1, StartsOver DEF EditorInv
<1> DEFINE Goal ==
              /\ EditorInv'
              /\ \A i \in DOMAIN entries' :
                    (i \in DOMAIN entries /\ entries'[i] = entries[i]) \/ entries'[i] = new
              /\ at # 0 => entries'[at] = new
<1>6. ASSUME at = 0
      PROVE  Goal
  BY <1>1, <1>3, <1>4, <1>5, <1>6, PointAdded DEF EditorInv
<1>7. ASSUME at # 0
      PROVE  Goal
  <2>1. at \in DOMAIN entries
    BY <1>7 DEF EditorInv, FieldsOk
  <2>2. /\ EntriesOk' /\ entries'[at] = new /\ DOMAIN entries' = DOMAIN entries
        /\ \A i \in DOMAIN entries : i # at => entries'[i] = entries[i]
    BY <1>1, <1>3, <1>7, <2>1, PointReplaced
  <2> QED
    BY <1>4, <1>5, <2>2 DEF EditorInv
<1> QED
  BY <1>6, <1>7 DEF new

\* What reads or searches leaves the points alone, and what was found stays
\* of its protocol.
LEMMA OtherKeeps ==
    ASSUME EditorInv,
           \/ \E i \in DOMAIN entries : LoadEntry(i)
           \/ \E key \in DOMAIN fields : \E t : TypeAddress(key, t)
           \/ start_discovery \/ start_browse
           \/ \E search \in searches : SearchFails(search)
           \/ \E id \in Protocols : spawn_discovery(id) \/ spawn_browse(id)
           \/ NewEntry
    PROVE  EditorInv' /\ UNCHANGED entries
<1>1. picked \in Protocols /\ BrowsedOk /\ FieldsOk
  BY DEF EditorInv
<1>2. ASSUME NEW i \in DOMAIN entries, LoadEntry(i)
      PROVE  EditorInv' /\ UNCHANGED entries
  <2>1. /\ at' = i /\ fields' = Shown(AddressSpecs(picked), entries[i].addressing)
        /\ UNCHANGED <<entries, picked, browsed, late>>
    BY <1>2 DEF LoadEntry, lists, addressing_fields, AddressSpecs
  <2>2. FieldsOk'
    BY <1>2, <2>1, ShownDomain DEF FieldsOk, AddressSpecs
  <2> QED
    BY <1>1, <2>1, <2>2, UntouchedEntries DEF EditorInv, BrowsedOk
<1>3. ASSUME NEW key \in DOMAIN fields, NEW t, TypeAddress(key, t)
      PROVE  EditorInv' /\ UNCHANGED entries
  <2>1. /\ fields' = [fields EXCEPT ![key] = t] /\ touched' = TRUE
        /\ UNCHANGED <<entries, picked, browsed, late, at>>
    BY <1>3 DEF TypeAddress, lists
  <2>2. FieldsOk'
    BY <1>1, <2>1 DEF FieldsOk, AddressSpecs
  <2> QED
    BY <1>1, <2>1, <2>2, UntouchedEntries DEF EditorInv, BrowsedOk
<1>4. CASE start_discovery \/ start_browse
  <2>1. /\ UNCHANGED <<entries, picked, late, fields, at, touched>>
        /\ browsed' = browsed \/ browsed' = {}
    BY <1>4 DEF start_discovery, start_browse, Begin
  <2>2. FieldsOk' /\ EntriesOk'
    BY <2>1, UntouchedEntries
  <2> QED
    BY <1>1, <2>1, <2>2 DEF EditorInv, BrowsedOk
<1>5. ASSUME NEW search, SearchFails(search)
      PROVE  EditorInv' /\ UNCHANGED entries
  <2>1. UNCHANGED <<entries, picked, late, browsed, fields, at, touched>>
    BY <1>5 DEF SearchFails, Ends
  <2> QED
    BY <1>1, <2>1, UntouchedEntries DEF EditorInv, BrowsedOk
<1>6. ASSUME NEW id \in Protocols, spawn_discovery(id)
      PROVE  EditorInv' /\ UNCHANGED entries
  <2>1. /\ UNCHANGED <<entries, picked, browsed, fields, at, touched>>
        /\ late' = (late \/ id # picked)
    BY <1>6 DEF spawn_discovery, Ends
  <2> QED
    BY <1>1, <2>1, UntouchedEntries DEF EditorInv, BrowsedOk
<1>7. ASSUME NEW id \in Protocols, spawn_browse(id)
      PROVE  EditorInv' /\ UNCHANGED entries
  <2>1. PICK some \in {{}, Found[id]} :
            browsed' = {[home |-> id, addressing |-> addressing] : addressing \in some}
    BY <1>7 DEF spawn_browse
  <2>2. /\ UNCHANGED <<entries, picked, fields, at, touched>>
        /\ late' = (late \/ id # picked)
    BY <1>7 DEF spawn_browse, Ends
  <2>3. \A found \in browsed' : HasValues(found.addressing) /\ found.home = id
    BY <2>1, EntriesAssumption
  <2>4. BrowsedOk'
    BY <2>2, <2>3 DEF BrowsedOk
  <2> QED
    BY <1>1, <2>2, <2>4, UntouchedEntries DEF EditorInv
<1>8. CASE NewEntry
  <2>1. EditorStartsOver(picked) /\ UNCHANGED <<entries, picked, browsed, late>>
    BY <1>8 DEF NewEntry, lists
  <2> QED
    BY <1>1, <2>1, UntouchedEntries, StartsOver DEF EditorInv, BrowsedOk
<1> QED
  BY <1>2, <1>3, <1>4, <1>5, <1>6, <1>7, <1>8

-----------------------------------------------------------------------------
(* What the steps do to the points. *)

\* A point that was loaded and not touched.
LEMMA UntouchedStored ==
    ASSUME EditorInv, at # 0,
           entries'[at].addressing = build_addressing(AddressSpecs(picked), fields)
    PROVE  UntouchedIsKept
<1> DEFINE old == entries[at].addressing
           new == entries'[at].addressing
<1>1. ASSUME ~touched
      PROVE  /\ Required[picked] \subseteq DOMAIN old => Target(picked, new) = Target(picked, old)
             /\ (DOMAIN old = DOMAIN addressing_fields
                 /\ \A key \in DOMAIN old :
                       addressing_fields[key].kind = "u32" => old[key][1] = "number") =>
                    Identity(new) = Identity(old)
  <2>1. /\ picked \in Protocols /\ HasValues(old)
        /\ fields = Shown(AddressSpecs(picked), old)
    BY <1>1 DEF EditorInv, EntriesOk, FieldsOk
  <2>2. new = Restored(picked, old)
    BY <2>1 DEF Restored
  <2>3. addressing_fields = AddressSpecs(picked)
    BY DEF addressing_fields, AddressSpecs
  <2> HIDE DEF old, new
  <2> QED
    BY <2>1, <2>2, <2>3, TargetKept, IdentityKept
<1> QED
  BY <1>1 DEF UntouchedIsKept

LEMMA TypedStored ==
    ASSUME EditorInv, at # 0,
           entries'[at].addressing = build_addressing(AddressSpecs(picked), fields)
    PROVE  ShownIsStored
<1> DEFINE new == entries'[at].addressing
           shown_as(key) == IF addressing_fields[key].kind = "u32"
                            THEN Decimal(parse(fields[key])) ELSE fields[key]
<1>1. /\ picked \in Protocols /\ DOMAIN fields = DOMAIN AddressSpecs(picked)
      /\ addressing_fields = AddressSpecs(picked)
      /\ new = build_addressing(AddressSpecs(picked), fields)
  BY DEF EditorInv, FieldsOk, addressing_fields, AddressSpecs
<1> SUFFICES ASSUME \A key \in DOMAIN fields :
                       PlainAddress(key, AddressSpecs(picked)[key], fields[key])
             PROVE  /\ picked = "bacnet" =>
                          Target(picked, new) =
                              <<shown_as("device_instance"), shown_as("object_type"),
                                shown_as("object_instance"), shown_as("property")>>
                    /\ picked = "modbus" =>
                          Target(picked, new) =
                              <<shown_as("table"), shown_as("address"), shown_as("datatype"),
                                shown_as("word_order"), shown_as("scale")>>
                    /\ picked = "opcua" => Target(picked, new) = <<shown_as("node_id")>>
  BY <1>1, ProtocolNames DEF ShownIsStored
<1>2. CASE picked = "bacnet"
  <2>1. Target(picked, new) =
            <<Decimal(parse(fields["device_instance"])), fields["object_type"],
              Decimal(parse(fields["object_instance"])), fields["property"]>>
    BY <1>1, <1>2, PlainBacnet DEF Target
  <2>2. /\ shown_as("device_instance") = Decimal(parse(fields["device_instance"]))
        /\ shown_as("object_instance") = Decimal(parse(fields["object_instance"]))
    BY <1>1, <1>2, BacnetAddress, NumberSpec
  <2>3. shown_as("object_type") = fields["object_type"]
    BY <1>1, <1>2, BacnetAddress, ChoiceSpec
  <2>4. shown_as("property") = fields["property"]
    BY <1>1, <1>2, BacnetAddress, TextSpec
  <2> HIDE DEF new, shown_as
  <2> QED
    BY <1>2, <2>1, <2>2, <2>3, <2>4
<1>3. CASE picked = "modbus"
  <2>1. Target(picked, new) =
            <<fields["table"], Decimal(parse(fields["address"])), fields["datatype"],
              fields["word_order"], fields["scale"]>>
    BY <1>1, <1>3, PlainModbus DEF Target
  <2>2. shown_as("address") = Decimal(parse(fields["address"]))
    BY <1>1, <1>3, ModbusAddress, NumberSpec
  <2>3. \A key \in {"table", "datatype", "word_order"} : shown_as(key) = fields[key]
    BY <1>1, <1>3, ModbusAddress, ChoiceSpec
  <2>4. shown_as("scale") = fields["scale"]
    BY <1>1, <1>3, ModbusAddress, TextSpec
  <2> HIDE DEF new, shown_as
  <2> QED
    BY <1>3, <2>1, <2>2, <2>3, <2>4
<1>4. CASE picked = "opcua"
  BY <1>1, <1>4, PlainOpcua, OpcuaAddress, TextSpec DEF Target
<1> QED
  BY <1>2, <1>3, <1>4

EditorStepIsTrue == (Stored => UntouchedIsKept /\ ShownIsStored) /\ AddedInKind

LEMMA NothingStored ==
    ASSUME UNCHANGED entries
    PROVE  EditorStepIsTrue
  BY DEF EditorStepIsTrue, UntouchedIsKept, ShownIsStored, AddedInKind

LEMMA PointFormsStep ==
    ASSUME EditorInv, PointFormsNext
    PROVE  EditorInv' /\ EditorStepIsTrue
<1>1. CASE \E id \in Protocols : SelectProtocol(id)
  <2>1. UNCHANGED entries
    BY <1>1 DEF SelectProtocol
  <2> QED
    BY <1>1, <2>1, SelectKeeps, NothingStored
<1>2. ASSUME NEW found \in browsed, AddFound(found)
      PROVE  EditorInv' /\ EditorStepIsTrue
  <2>1. /\ EditorInv'
        /\ \A i \in DOMAIN entries' :
              (i \in DOMAIN entries /\ entries'[i] = entries[i]) \/ entries'[i] = found
    BY <1>2, FoundKeeps
  <2>2. ~Stored
    BY <1>2 DEF AddFound, Stored
  <2>3. late \/ found.home = picked
    BY DEF EditorInv, BrowsedOk
  <2> QED
    BY <2>1, <2>2, <2>3 DEF EditorStepIsTrue, AddedInKind
<1>3. CASE StoreEntry
  <2> DEFINE new == [home |-> picked,
                     addressing |-> build_addressing(AddressSpecs(picked), fields)]
  <2>1. /\ EditorInv'
        /\ \A i \in DOMAIN entries' :
              (i \in DOMAIN entries /\ entries'[i] = entries[i]) \/ entries'[i] = new
        /\ at # 0 => entries'[at] = new
    BY <1>3, StoreKeeps
  <2>2. new.home = picked /\ new.addressing = build_addressing(AddressSpecs(picked), fields)
    OBVIOUS
  <2> HIDE DEF new
  <2>3. at # 0 => UntouchedIsKept /\ ShownIsStored
    BY <2>1, <2>2, UntouchedStored, TypedStored
  <2>4. AddedInKind
    BY <2>1, <2>2 DEF AddedInKind
  <2> QED
    BY <2>1, <2>3, <2>4 DEF EditorStepIsTrue, Stored
<1> QED
  BY <1>1, <1>2, <1>3, OtherKeeps, NothingStored DEF PointFormsNext

\* The editor stores what it shows.  Whatever is typed, selected, searched,
\* added and loaded before, and however the searches answer: storing a point
\* that was loaded and not touched leaves what its adapter reads, and its
\* identity where the form holds all of it; what is typed plainly is what the
\* adapter will read; and a point only comes in under another protocol than the
\* selected one if a search answered after the selection.
THEOREM EditorAlways == GuiSpec => GuiEditorIsTrue
<1>1. GuiInit => EditorInv
  BY EditorStart DEF GuiInit
<1>2. EditorInv /\ [GuiNext]_gui => EditorInv' /\ EditorStepIsTrue
  <2> SUFFICES ASSUME EditorInv, [GuiNext]_gui
               PROVE  EditorInv' /\ EditorStepIsTrue
    OBVIOUS
  <2>1. CASE PointFormsNext
    BY <2>1, PointFormsStep
  <2>2. CASE UNCHANGED pointForms
    <3>1. UNCHANGED <<entries, picked, browsed, late, fields, at, touched>>
      BY <2>2 DEF pointForms, lists
    <3>2. EditorInv'
      BY <3>1, UntouchedEntries DEF EditorInv, BrowsedOk
    <3> QED
      BY <3>1, <3>2, NothingStored
  <2> QED
    BY <2>1, <2>2 DEF GuiNext, gui
<1>3. EditorStepIsTrue => (part = "forms" => (Stored => UntouchedIsKept /\ ShownIsStored)
                                             /\ AddedInKind)
  BY DEF EditorStepIsTrue
<1> QED
  BY <1>1, <1>2, <1>3, PTL DEF GuiSpec, GuiEditorIsTrue
=============================================================================
