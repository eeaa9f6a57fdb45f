------------------------- MODULE RegionImages_proofs --------------------------
(* Theorems of RegionImages, for any number of regions and handlers.       *)
EXTENDS RegionImages, TLAPS

(* A name is a file's, of the region it was made for.                      *)
LEMMA NameIsFile ==
    ASSUME TypeOK, NEW q \in Request
    PROVE  NewName(q) \in File /\ NewName(q)[1] = task[q].region
BY DEF TypeOK, Task, NewName, File

LEMMA BlankIsTask == Blank \in Task
BY NonEmptyAssumption DEF Blank, Task, Step

LEMMA BlankFields == Blank.pc = "idle" /\ Blank.old = None /\ Blank.new = None
BY DEF Blank

(* A handler that starts, as its fields.                                   *)
LEMMA Started ==
    ASSUME TypeOK, NEW q \in Request, NEW r \in Region, Upload(q, r) \/ Remove(q, r)
    PROVE  /\ r \in live /\ task[q].pc = "idle"
           /\ task'[q].pc \in {"save", "unlink", "delete"} /\ task'[q].region = r
           /\ task'[q].old = image[r] /\ task'[q].new = None
           /\ task'[q].pc = "delete" => image[r] = None
           /\ task' \in [Request -> Task]
           /\ \A p \in Request \ {q} : task'[p] = task[p]
           /\ littered' = littered \cup {x \in {r} : \E p \in Request : Working(p, x)}
           /\ UNCHANGED <<now, used, live, image, disk, given, twice, broken>>
<1>1. PICK pc \in {"save", "unlink", "delete"} :
          Start(q, r, pc) /\ (pc = "delete" => image[r] = None)
    BY DEF Upload, Remove
<1> DEFINE t == [pc |-> pc, region |-> r, old |-> image[r], new |-> None]
<1>2. t \in Task
    BY DEF TypeOK, Task, Step
<1>3. t.pc = pc /\ t.region = r /\ t.old = image[r] /\ t.new = None
    OBVIOUS
<1>4. task' = [task EXCEPT ![q] = t]
    BY <1>1 DEF Start
<1> HIDE DEF t
<1> QED BY <1>1, <1>2, <1>3, <1>4 DEF TypeOK, Start, At, row, names

(* A saved file, as the handler's fields.                                  *)
LEMMA Saved ==
    ASSUME TypeOK, NEW q \in Request, Save(q)
    PROVE  /\ task[q].pc = "save" /\ task'[q].pc \in {"clean", "write"}
           /\ task'[q].pc = "write" => task[q].old = None
           /\ task'[q].region = task[q].region /\ task'[q].old = task[q].old
           /\ task'[q].new = NewName(q)
           /\ task' \in [Request -> Task]
           /\ \A p \in Request \ {q} : task'[p] = task[p]
           /\ disk' = disk \cup {NewName(q)} /\ given' = given \cup {NewName(q)}
           /\ twice' = twice \cup ({NewName(q)} \cap given)
           /\ UNCHANGED <<now, used, live, image, broken, littered>>
BY NameIsFile DEF Save, Named, NewNames, TypeOK, Task, Step, At, row

(* A handler past the deletion of its old file.                            *)
LEMMA Discarded ==
    ASSUME TypeOK, NEW q \in Request, Clean(q) \/ Unlink(q)
    PROVE  /\ \/ task[q].pc = "clean" /\ task'[q].pc = "write"
              \/ task[q].pc = "unlink" /\ task'[q].pc = "delete"
           /\ task'[q].region = task[q].region
           /\ task'[q].old = task[q].old /\ task'[q].new = task[q].new
           /\ task' \in [Request -> Task]
           /\ \A p \in Request \ {q} : task'[p] = task[p]
           /\ \/ disk' = disk \ {task[q].old} /\ littered' = littered
              \/ disk' = disk /\ littered' = littered \cup {task[q].region}
           /\ UNCHANGED <<now, used, live, image, given, twice, broken>>
<1>1. ASSUME NEW pc \in Step, GoTo(q, pc)
      PROVE  /\ task'[q].pc = pc /\ task'[q].region = task[q].region
             /\ task'[q].old = task[q].old /\ task'[q].new = task[q].new
             /\ task' \in [Request -> Task]
             /\ \A p \in Request \ {q} : task'[p] = task[p]
    BY <1>1 DEF GoTo, TypeOK, Task
<1>2. /\ \/ At(q, "clean") /\ GoTo(q, "write")
         \/ At(q, "unlink") /\ GoTo(q, "delete")
      /\ Discard(q)
      /\ UNCHANGED <<now, used, live, image, given, twice, broken>>
    BY DEF Clean, Unlink, row, names
<1> QED BY <1>1, <1>2 DEF Discard, At, Step

(* A handler that has ended, and nobody else.                              *)
LEMMA Ended ==
    ASSUME TypeOK, NEW q \in Request, Finish(q)
    PROVE  /\ task' \in [Request -> Task] /\ task'[q] = Blank
           /\ \A p \in Request \ {q} : task'[p] = task[p]
BY BlankIsTask DEF Finish, TypeOK

(* A crash, file by file: what it adds to the disk was being saved.        *)
LEMMA Crashed ==
    ASSUME TypeOK, Crash
    PROVE  /\ task' = [q \in Request |-> Blank]
           /\ UNCHANGED <<now, used, live, image>>
           /\ disk \subseteq disk' /\ given \subseteq given' /\ twice \subseteq twice'
           /\ broken' = broken \cup UNION {Breaks(q) : q \in Request}
           /\ \A q \in Request : Litters(q) \subseteq littered'
           /\ littered \subseteq littered'
           /\ \A f \in disk' : f \in disk \/ (f \in File /\ f[1] \in littered')
           /\ given' \subseteq File /\ twice' \subseteq File /\ littered' \subseteq Region
<1>1. PICK saving \in SUBSET {q \in Request : At(q, "save")} :
        /\ NewNames(saving)
        /\ disk' = disk \cup {NewName(q) : q \in saving}
        /\ littered' = littered \cup {task[q].region : q \in saving}
                                \cup UNION {Litters(q) : q \in Request}
    BY DEF Crash
<1>2. /\ task' = [q \in Request |-> Blank] /\ UNCHANGED <<now, used, live, image>>
      /\ broken' = broken \cup UNION {Breaks(q) : q \in Request}
    BY DEF Crash, row
<1>3. given' = given \cup {NewName(q) : q \in saving} /\ twice \subseteq twice'
      /\ twice' \subseteq twice \cup given
    BY <1>1 DEF NewNames
<1>4. \A q \in Request : task[q].region \in Region /\ Litters(q) \subseteq Region
    BY DEF TypeOK, Task, Litters
<1>5. \A q \in Request : NewName(q) \in File /\ NewName(q)[1] = task[q].region
    BY NameIsFile
<1>6. \A f \in disk' : f \in disk \/ (f \in File /\ f[1] \in littered')
  <2>1. ASSUME NEW q \in saving PROVE NewName(q) \in File /\ NewName(q)[1] \in littered'
    <3>1. q \in Request /\ task[q].region \in littered'
        BY <1>1
    <3> QED BY <1>5, <3>1
  <2> QED BY <1>1, <2>1
<1>7. given' \subseteq File /\ twice' \subseteq File
    BY <1>3, <1>5 DEF TypeOK
<1>8. littered' \subseteq Region
    BY <1>1, <1>4 DEF TypeOK
<1>9. /\ disk \subseteq disk' /\ given \subseteq given' /\ littered \subseteq littered'
      /\ \A q \in Request : Litters(q) \subseteq littered'
    BY <1>1, <1>3
<1> QED BY <1>2, <1>3, <1>6, <1>7, <1>8, <1>9

------------------------------------------------------------------------------
LEMMA TypeStep == TypeOK /\ [Next]_vars => TypeOK'
<1> SUFFICES ASSUME TypeOK, [Next]_vars PROVE TypeOK'
    OBVIOUS
<1>1. CASE \E r \in Region : Create(r)
    BY <1>1 DEF Create, TypeOK, names
<1>2. ASSUME NEW q \in Request, NEW r \in Region, Upload(q, r) \/ Remove(q, r) PROVE TypeOK'
    BY <1>2, Started DEF TypeOK
<1>3. ASSUME NEW q \in Request, Save(q) PROVE TypeOK'
    BY <1>3, Saved, NameIsFile DEF TypeOK
<1>4. ASSUME NEW q \in Request, SaveFails(q) PROVE TypeOK'
    BY <1>4, Ended, NameIsFile DEF TypeOK, SaveFails, Named, NewNames, Task, row, names
<1>5. ASSUME NEW q \in Request, Clean(q) \/ Unlink(q) PROVE TypeOK'
    BY <1>5, Discarded DEF TypeOK, Task
<1>6. ASSUME NEW q \in Request, Write(q) PROVE TypeOK'
    BY <1>6, Ended DEF TypeOK, Write, Task, names
<1>7. ASSUME NEW q \in Request, Delete(q) PROVE TypeOK'
    BY <1>7, Ended DEF TypeOK, Delete, names
<1>8. ASSUME NEW q \in Request, WriteFails(q) PROVE TypeOK'
    BY <1>8, Ended DEF TypeOK, WriteFails, Breaks, Litters, Task, row, names
<1>9. CASE Crash
  <2>1. disk' \subseteq File /\ broken' \subseteq Region
      BY <1>9, Crashed DEF TypeOK, Breaks, Task
  <2> QED BY <1>9, <2>1, Crashed, BlankIsTask DEF TypeOK
<1>10. CASE Tick
    BY <1>10, MaxMsAssumption DEF TypeOK, Tick, row, names
<1>11. CASE UNCHANGED vars
    BY <1>11 DEF TypeOK, vars, row, names
<1> QED BY <1>1, <1>2, <1>3, <1>4, <1>5, <1>6, <1>7, <1>8, <1>9, <1>10, <1>11 DEF Next

(* Rows and handlers name files that were given, of their own region.      *)
LEMMA GivenStep == TypeOK /\ Given /\ [Next]_vars => Given'
<1> SUFFICES ASSUME TypeOK, Given, [Next]_vars PROVE Given'
    OBVIOUS
<1> USE DEF Given
<1>1. CASE \E r \in Region : Create(r)
    BY <1>1 DEF Create, names
<1>2. ASSUME NEW q \in Request, NEW r \in Region, Upload(q, r) \/ Remove(q, r) PROVE Given'
    BY <1>2, Started
<1>3. ASSUME NEW q \in Request, Save(q) PROVE Given'
    BY <1>3, Saved, NameIsFile, NoneAssumption
<1>4. ASSUME NEW q \in Request, SaveFails(q) PROVE Given'
    BY <1>4, Ended, BlankFields DEF SaveFails, Named, NewNames, row, names
<1>5. ASSUME NEW q \in Request, Clean(q) \/ Unlink(q) PROVE Given'
    BY <1>5, Discarded
<1>6. ASSUME NEW q \in Request, Write(q) PROVE Given'
    BY <1>6, Ended, BlankFields DEF Write, names, TypeOK, Task
<1>7. ASSUME NEW q \in Request, Delete(q) PROVE Given'
    BY <1>7, Ended, BlankFields DEF Delete, names
<1>8. ASSUME NEW q \in Request, WriteFails(q) PROVE Given'
    BY <1>8, Ended, BlankFields DEF WriteFails, row, names
<1>9. CASE Crash
    BY <1>9, BlankFields, Crashed
<1>10. CASE Tick \/ UNCHANGED vars
    BY <1>10 DEF Tick, vars, row, names
<1> QED BY <1>1, <1>2, <1>3, <1>4, <1>5, <1>6, <1>7, <1>8, <1>9, <1>10 DEF Next

(* What is saved and not in a row yet stays on disk, known to its handler  *)
(* alone: a new name was never given, so nobody has it.                    *)
LEMMA FreshStep == TypeOK /\ Given /\ Fresh /\ [Next]_vars => Fresh'
<1> SUFFICES ASSUME TypeOK, Given, Fresh, [Next]_vars PROVE Fresh'
    OBVIOUS
<1> USE DEF Fresh
<1>1. CASE \E r \in Region : Create(r)
    BY <1>1 DEF Create, names
<1>2. ASSUME NEW q \in Request, NEW r \in Region, Upload(q, r) \/ Remove(q, r) PROVE Fresh'
    BY <1>2, Started DEF Given
<1>3. ASSUME NEW q \in Request, Save(q) PROVE Fresh'
  <2>1. ASSUME NEW p \in Request, task'[p].pc \in {"clean", "write"}, task'[p].new \notin twice'
        PROVE  /\ task'[p].new \in disk' /\ \A r \in Region : image'[r] # task'[p].new
               /\ \A o \in Request : /\ task'[o].old # task'[p].new
                                     /\ o # p => task'[o].new # task'[p].new
    <3>1. CASE p = q
      <4>1. NewName(q) \notin given /\ NewName(q) # None
          BY <1>3, <2>1, <3>1, Saved, NameIsFile, NoneAssumption
      <4> QED BY <1>3, <3>1, <4>1, Saved DEF Given
    <3>2. CASE p # q
      <4>1. task[p].new \in given /\ task[p].new \notin twice
          BY <1>3, <2>1, <3>2, Saved DEF Given
      <4>2. task[p].new # NewName(q)
          BY <1>3, <2>1, <3>2, <4>1, Saved
      <4> QED BY <1>3, <2>1, <3>2, <4>1, <4>2, Saved
    <3> QED BY <3>1, <3>2
  <2> QED BY <2>1
<1>4. ASSUME NEW q \in Request, SaveFails(q) PROVE Fresh'
    BY <1>4, Ended, BlankFields DEF SaveFails, Named, NewNames, row, names, Given
<1>5. ASSUME NEW q \in Request, Clean(q) \/ Unlink(q) PROVE Fresh'
    BY <1>5, Discarded
<1>6. ASSUME NEW q \in Request, Write(q) PROVE Fresh'
    BY <1>6, Ended, BlankFields DEF Write, names, At, TypeOK, Given
<1>7. ASSUME NEW q \in Request, Delete(q) PROVE Fresh'
    BY <1>7, Ended, BlankFields DEF Delete, names, Given
<1>8. ASSUME NEW q \in Request, WriteFails(q) PROVE Fresh'
    BY <1>8, Ended, BlankFields DEF WriteFails, row, names, Given
<1>9. CASE Crash
    BY <1>9, BlankFields, Crashed
<1>10. CASE Tick \/ UNCHANGED vars
    BY <1>10 DEF Tick, vars, row, names
<1> QED BY <1>1, <1>2, <1>3, <1>4, <1>5, <1>6, <1>7, <1>8, <1>9, <1>10 DEF Next

(* No row names a file that is gone, but for the moment between an         *)
(* upload's delete and its write.                                          *)
LEMMA ThereStep == ImageInv /\ [Next]_vars => ImageIsThere'
<1> SUFFICES ASSUME ImageInv, [Next]_vars PROVE ImageIsThere'
    OBVIOUS
<1> USE DEF ImageInv, ImageIsThere, Replacing
<1>0. \A r \in live : r \in Region
    BY DEF TypeOK
<1>1. CASE \E r \in Region : Create(r)
    BY <1>1 DEF Create, names, TypeOK, Given
<1>2. ASSUME NEW q \in Request, NEW r \in Region, Upload(q, r) \/ Remove(q, r)
      PROVE  ImageIsThere'
    BY <1>2, Started
<1>3. ASSUME NEW q \in Request, Save(q) PROVE ImageIsThere'
    BY <1>3, Saved
<1>4. ASSUME NEW q \in Request, SaveFails(q) PROVE ImageIsThere'
    BY <1>4, Ended DEF SaveFails, Named, NewNames, At, row, names
<1>5. ASSUME NEW q \in Request, Clean(q) \/ Unlink(q) PROVE ImageIsThere'
    BY <1>5, Discarded
\* A worker that ends was replacing the image of its own region only.
<1>6. ASSUME NEW q \in Request, Finish(q), NEW r \in live, r # task[q].region,
             image[r] # None, Replacing(image[r])
      PROVE  \E p \in Request : task'[p].pc \in {"write", "delete"} /\ task'[p].old = image[r]
  <2>1. PICK p \in Request : task[p].pc \in {"write", "delete"} /\ task[p].old = image[r]
      BY <1>6
  <2>2. p # q
      BY <1>0, <1>6, <2>1 DEF Given
  <2> QED BY <1>6, <2>1, <2>2, Ended
<1>7. ASSUME NEW q \in Request, Write(q) PROVE ImageIsThere'
    BY <1>0, <1>6, <1>7 DEF Write, names, At, Fresh, TypeOK
<1>8. ASSUME NEW q \in Request, Delete(q) PROVE ImageIsThere'
    BY <1>0, <1>6, <1>8 DEF Delete, names
<1>9. ASSUME NEW q \in Request, WriteFails(q) PROVE ImageIsThere'
  <2>1. ASSUME NEW r \in live' \ broken', image'[r] \notin disk' \cup twice' \cup {None}
        PROVE  \E p \in Request : task'[p].pc \in {"write", "delete"} /\ task'[p].old = image'[r]
    <3>1. image' = image /\ r \in live \ broken /\ image[r] \notin disk \cup twice \cup {None} /\ Finish(q)
        BY <1>9, <2>1 DEF WriteFails, row, names
    <3>2. PICK p \in Request : task[p].pc \in {"write", "delete"} /\ task[p].old = image[r]
        BY <3>1
    <3>3. task[p].region = r
        BY <1>0, <3>1, <3>2 DEF Given
    <3>4. p # q
        BY <1>9, <2>1, <3>1, <3>2, <3>3 DEF WriteFails, Breaks
    <3> QED BY <3>1, <3>2, <3>4, Ended
  <2> QED BY <2>1
<1>10. CASE Crash
    BY <1>0, <1>10, Crashed DEF Breaks, Given
<1>11. CASE Tick \/ UNCHANGED vars
    BY <1>11 DEF Tick, vars, row, names
<1> QED BY <1>1, <1>2, <1>3, <1>4, <1>5, <1>7, <1>8, <1>9, <1>10, <1>11 DEF Next

(* A handler that shares its region with no other: two can only be at work *)
(* on a region once it counts as littered.                                 *)
LEMMA TidyStep == ImageInv /\ [Next]_vars => Tidy'
<1> SUFFICES ASSUME ImageInv, [Next]_vars PROVE Tidy'
    OBVIOUS
<1> USE DEF ImageInv, Tidy, At, Working
<1>0. None \notin disk
    BY NoneAssumption DEF TypeOK
<1>1. CASE \E r \in Region : Create(r)
    BY <1>1 DEF Create, names
<1>2. ASSUME NEW q \in Request, NEW r \in Region, Upload(q, r) \/ Remove(q, r) PROVE Tidy'
    BY <1>0, <1>2, Started
\* Only the handler's own region gets a file.
<1>3. ASSUME NEW q \in Request, NEW p \in Request, task[p].region # task[q].region
      PROVE  task[p].old # NewName(q)
    BY <1>3, NameIsFile, NoneAssumption DEF Given
<1>4. ASSUME NEW q \in Request, Save(q) PROVE Tidy'
    BY <1>0, <1>3, <1>4, Saved, NameIsFile, NoneAssumption
<1>5. ASSUME NEW q \in Request, SaveFails(q) PROVE Tidy'
  <2>1. Finish(q) /\ UNCHANGED <<live, image>>
      BY <1>5 DEF SaveFails, row
  <2>2. \/ UNCHANGED <<disk, littered>>
        \/ disk' = disk \cup {NewName(q)} /\ littered' = littered \cup {task[q].region}
      BY <1>5 DEF SaveFails, names
  <2> QED BY <1>3, <2>1, <2>2, Ended, BlankFields
<1>6. ASSUME NEW q \in Request, Clean(q) \/ Unlink(q) PROVE Tidy'
    BY <1>6, Discarded
<1>7. ASSUME NEW q \in Request, Write(q) PROVE Tidy'
    BY <1>7, Ended, BlankFields DEF Write, names, TypeOK
<1>8. ASSUME NEW q \in Request, Delete(q) PROVE Tidy'
    BY <1>8, Ended, BlankFields DEF Delete, names
<1>9. ASSUME NEW q \in Request, WriteFails(q) PROVE Tidy'
    BY <1>9, Ended, BlankFields DEF WriteFails, row, names
<1>10. CASE Crash
    BY <1>10, BlankFields, Crashed
<1>11. CASE Tick \/ UNCHANGED vars
    BY <1>11 DEF Tick, vars, row, names
<1> QED BY <1>1, <1>2, <1>4, <1>5, <1>6, <1>7, <1>8, <1>9, <1>10, <1>11 DEF Next

(* The last write puts the new file in the row in place of one that is     *)
(* gone, or takes the row away when its file is.                           *)
LEMMA LitterStep == ImageInv /\ [Next]_vars => NothingLeftBehind'
<1> SUFFICES ASSUME ImageInv, [Next]_vars PROVE NothingLeftBehind'
    OBVIOUS
<1> USE DEF ImageInv, NothingLeftBehind
<1>0. /\ \A f \in disk : f \in File /\ f # None
      /\ \A q \in Request : task[q].new # None => task[q].new[1] = task[q].region
    BY NoneAssumption DEF TypeOK, Given
<1>1. CASE \E r \in Region : Create(r)
    BY <1>1 DEF Create, names
<1>2. ASSUME NEW q \in Request, NEW r \in Region, Upload(q, r) \/ Remove(q, r)
      PROVE  NothingLeftBehind'
    BY <1>2, Started
<1>3. ASSUME NEW q \in Request, Save(q) PROVE NothingLeftBehind'
    BY <1>3, Saved
<1>4. ASSUME NEW q \in Request, SaveFails(q) PROVE NothingLeftBehind'
  <2>1. Finish(q) /\ UNCHANGED <<live, image>> /\ task[q].pc = "save"
      BY <1>4 DEF SaveFails, row, At
  <2>2. \/ UNCHANGED <<disk, littered>>
        \/ disk' = disk \cup {NewName(q)} /\ littered' = littered \cup {task[q].region}
      BY <1>4 DEF SaveFails, names
  <2> QED BY <2>1, <2>2, Ended, NameIsFile
<1>5. ASSUME NEW q \in Request, Clean(q) \/ Unlink(q) PROVE NothingLeftBehind'
    BY <1>5, Discarded
<1>6. ASSUME NEW q \in Request, Write(q) \/ Delete(q), NEW f \in disk, f[1] \notin littered
      PROVE  \/ f[1] \in live' /\ image'[f[1]] = f
             \/ \E p \in Request : task'[p].pc \in {"clean", "write"} /\ task'[p].new = f
  <2>0. /\ Finish(q) /\ task[q].pc \in {"write", "delete"}
        /\ Write(q) => task[q].pc = "write" /\ UNCHANGED live
                       /\ image' = [image EXCEPT ![task[q].region] = task[q].new]
        /\ Delete(q) => task[q].pc = "delete" /\ UNCHANGED image
                        /\ live' = live \ {task[q].region}
      BY <1>6 DEF Write, Delete, At
  <2>1. CASE f[1] # task[q].region
    <3>1. CASE f[1] \in live /\ image[f[1]] = f
        BY <1>6, <2>0, <2>1, <3>1 DEF TypeOK, Task
    <3>2. CASE \E p \in Request : task[p].pc \in {"clean", "write"} /\ task[p].new = f
        BY <1>0, <2>0, <2>1, <3>2, Ended
    <3> QED BY <1>6, <3>1, <3>2
  <2>2. CASE f[1] = task[q].region
    \* No other handler has it, and the image of before is not on disk.
    <3>1. /\ \A p \in Request \ {q} : task[p].pc = "idle" \/ task[p].region # task[q].region
          /\ task[q].region \in live /\ image[task[q].region] \notin disk
        BY <1>6, <2>0, <2>2 DEF Tidy, At, Working
    <3>2. PICK p \in Request : task[p].pc \in {"clean", "write"} /\ task[p].new = f
        BY <1>6, <2>2, <3>1
    <3>3. p = q
        BY <1>0, <2>2, <3>1, <3>2
    <3> QED BY <1>6, <2>0, <2>2, <3>1, <3>2, <3>3 DEF TypeOK
  <2> QED BY <2>1, <2>2
<1>7. ASSUME NEW q \in Request, Write(q) \/ Delete(q) PROVE NothingLeftBehind'
    BY <1>6, <1>7 DEF Write, Delete
<1>8. ASSUME NEW q \in Request, WriteFails(q) PROVE NothingLeftBehind'
    BY <1>0, <1>8, Ended DEF WriteFails, Litters, row
<1>9. CASE Crash
    BY <1>0, <1>9, Crashed DEF Litters
<1>10. CASE Tick \/ UNCHANGED vars
    BY <1>10 DEF Tick, vars, row
<1> QED BY <1>1, <1>2, <1>3, <1>4, <1>5, <1>7, <1>8, <1>9, <1>10 DEF Next

------------------------------------------------------------------------------
(* The inductive invariant of regions, their image files and the handlers  *)
(* of uploadImage and deleteImage: which files a handler may still remove. *)
THEOREM ImageInvariance == Spec => []ImageInv
<1>1. Init => ImageInv
  <2>1. Init => TypeOK
      BY BlankIsTask, MaxMsAssumption DEF Init, TypeOK
  <2>2. Init => Given /\ Fresh /\ ImageIsThere
      BY BlankFields DEF Init, Given, Fresh, ImageIsThere
  <2>3. Init => Tidy /\ NothingLeftBehind
      BY BlankFields DEF Init, Tidy, NothingLeftBehind, At
  <2> QED BY <2>1, <2>2, <2>3 DEF ImageInv
<1>2. ImageInv /\ [Next]_vars => ImageInv'
    BY TypeStep, GivenStep, FreshStep, ThereStep, TidyStep, LitterStep DEF ImageInv
<1> QED BY <1>1, <1>2, PTL DEF Spec

(* However uploads and removals overlap, and fail to save or to delete, a  *)
(* region's image is on disk; see ImageIsThere for what takes it away.     *)
THEOREM ImagesExist == Spec => []ImageIsThere
<1>1. ImageInv => ImageIsThere
    BY DEF ImageInv
<1> QED BY <1>1, ImageInvariance, PTL

(* Uploads and removals of a region that never overlap, and that neither   *)
(* fail nor die, leave no file on disk but the one its row names.          *)
THEOREM UploadsLeaveNoLitter == Spec => []NothingLeftBehind
<1>1. ImageInv => NothingLeftBehind
    BY DEF ImageInv
<1> QED BY <1>1, ImageInvariance, PTL
==============================================================================
