----------------------------- MODULE RegionImages -----------------------------
(***************************************************************************)
(* The image of a region is a file on disk and its name in the region's    *)
(* row.  RegionsService, RegionsImageService and LocalStorageService write *)
(* the two one after the other, an await apart, and no transaction spans   *)
(* both: handlers may overlap, and fail or die, between any two steps.     *)
(***************************************************************************)
EXTENDS Naturals

CONSTANTS
    Region,     \* region ids; autoincrement, so an id is given out once
    Request,    \* slots for concurrent HTTP handlers
    MaxMs,      \* bounds the clock, in milliseconds
    None        \* no image

ASSUME MaxMsAssumption == MaxMs \in Nat
ASSUME NonEmptyAssumption == Region # {}

File == Region \X (0 .. MaxMs)

ASSUME NoneAssumption == None \notin File

VARIABLES
    now,        \* Date.now()
    used, live, \* region ids given out, and those whose row exists
    image,      \* the rows' imagePath
    disk,       \* files under uploads/regions
    task,       \* the handler in each slot
    given,      \* history: names given to files
    twice,      \* history: names given to two uploads
    broken,     \* history: regions left with the name of a deleted file
    littered    \* history: regions that may have left a file behind

row == <<used, live, image>>
names == <<given, twice>>
vars == <<now, row, disk, task, names, broken, littered>>

(* The old file of an upload is deleted at "clean", that of a removal at   *)
(* "unlink".                                                               *)
Step == {"idle", "save", "clean", "write", "unlink", "delete"}
Task == [pc: Step, region: Region, old: File \cup {None}, new: File \cup {None}]
Blank == [pc |-> "idle", region |-> CHOOSE r \in Region : TRUE, old |-> None, new |-> None]

TypeOK ==
    /\ now \in 0 .. MaxMs
    /\ used \subseteq Region
    /\ live \subseteq used
    /\ image \in [Region -> File \cup {None}]
    /\ disk \subseteq File
    /\ task \in [Request -> Task]
    /\ given \subseteq File
    /\ twice \subseteq File
    /\ broken \subseteq Region
    /\ littered \subseteq Region

Init ==
    /\ now = 0
    /\ used = {}
    /\ live = {}
    /\ image = [r \in Region |-> None]
    /\ disk = {}
    /\ task = [q \in Request |-> Blank]
    /\ given = {}
    /\ twice = {}
    /\ broken = {}
    /\ littered = {}

At(q, pc) == task[q].pc = pc
GoTo(q, pc) == task' = [task EXCEPT ![q].pc = pc]
Finish(q) == task' = [task EXCEPT ![q] = Blank]

Working(q, r) == ~At(q, "idle") /\ task[q].region = r

(* A handler reads the row of r; from here on it may overlap with others.  *)
Start(q, r, pc) ==
    /\ At(q, "idle")
    /\ r \in live
    /\ task' = [task EXCEPT ![q] = [pc |-> pc, region |-> r, old |-> image[r], new |-> None]]
    /\ littered' = littered \cup {x \in {r} : \E p \in Request : Working(p, x)}
    /\ UNCHANGED <<now, row, disk, names, broken>>

(* What is left when the handler in slot q ends without its last write:    *)
(* the row has lost its file, or the new file has no row.                  *)
Breaks(q) == {r \in {task[q].region} : task[q].pc \in {"write", "delete"} /\ task[q].old # None}
Litters(q) == {r \in {task[q].region} : task[q].pc \in {"clean", "write"}}

------------------------------------------------------------------------------
Create(r) ==
    /\ r \notin used
    /\ used' = used \cup {r}
    /\ live' = live \cup {r}
    /\ UNCHANGED <<now, image, disk, task, names, broken, littered>>

Upload(q, r) == Start(q, r, "save")

(* The name is made of the region, the time and the extension of what was  *)
(* uploaded; the worst case is that the extensions are the same.           *)
NewName(q) == <<task[q].region, now>>

NewNames(qs) ==
    /\ given' = given \cup {NewName(q) : q \in qs}
    /\ twice' = twice \cup ({NewName(q) : q \in qs} \cap given)

Named(q) == NewNames({q})

Save(q) ==
    /\ At(q, "save")
    /\ Named(q)
    /\ disk' = disk \cup {NewName(q)}
    /\ task' = [task EXCEPT ![q].new = NewName(q),
                            ![q].pc = IF task[q].old = None THEN "write" ELSE "clean"]
    /\ UNCHANGED <<now, row, broken, littered>>

(* Mutant of SaveFails: the error is logged and the handler goes on.       *)
SaveFailsGoesOn(q) ==
    /\ At(q, "save")
    /\ Named(q)
    /\ task' = [task EXCEPT ![q].new = NewName(q), ![q].pc = "write"]
    /\ UNCHANGED <<now, row, disk, broken, littered>>

(* UPLOAD_FAILED.  A part of the file may have been written.               *)
SaveFails(q) ==
    /\ At(q, "save")
    /\ \/ UNCHANGED <<disk, names, littered>>
       \/ /\ Named(q)
          /\ disk' = disk \cup {NewName(q)}
          /\ littered' = littered \cup {task[q].region}
    /\ Finish(q)
    /\ UNCHANGED <<now, row, broken>>

(* Mutant of Discard: only uploads delete the old file.                    *)
DiscardReplaced(q) ==
    /\ disk' = IF At(q, "clean") THEN disk \ {task[q].old} ELSE disk
    /\ UNCHANGED littered

(* LocalStorageService.delete: a file that is not there, and every other   *)
(* error, is ignored.                                                      *)
Discard(q) ==
    \/ disk' = disk \ {task[q].old} /\ UNCHANGED littered
    \/ disk' = disk /\ littered' = littered \cup {task[q].region}

Clean(q) ==
    /\ At(q, "clean")
    /\ Discard(q)
    /\ GoTo(q, "write")
    /\ UNCHANGED <<now, row, names, broken>>

(* The row is written; whatever it had lost, it names a file again.        *)
Write(q) ==
    /\ At(q, "write")
    /\ task[q].region \in live
    /\ image' = [image EXCEPT ![task[q].region] = task[q].new]
    /\ broken' = broken \ {task[q].region}
    /\ Finish(q)
    /\ UNCHANGED <<now, used, live, disk, names, littered>>

------------------------------------------------------------------------------
Remove(q, r) == Start(q, r, IF image[r] = None THEN "delete" ELSE "unlink")

Unlink(q) ==
    /\ At(q, "unlink")
    /\ Discard(q)
    /\ GoTo(q, "delete")
    /\ UNCHANGED <<now, row, names, broken>>

Delete(q) ==
    /\ At(q, "delete")
    /\ task[q].region \in live
    /\ live' = live \ {task[q].region}
    /\ Finish(q)
    /\ UNCHANGED <<now, used, image, disk, names, broken, littered>>

------------------------------------------------------------------------------
(* The last write of a handler fails: the row is gone (P2025), or the      *)
(* database is.                                                            *)
WriteFails(q) ==
    /\ At(q, "write") \/ At(q, "delete")
    /\ Finish(q)
    /\ broken' = broken \cup Breaks(q)
    /\ littered' = littered \cup Litters(q)
    /\ UNCHANGED <<now, row, disk, names>>

(* The process dies, and all handlers with it; of those that are saving,   *)
(* some have written a part.                                               *)
Crash ==
    /\ \E q \in Request : ~At(q, "idle")
    /\ \E saving \in SUBSET {q \in Request : At(q, "save")} :
        /\ NewNames(saving)
        /\ disk' = disk \cup {NewName(q) : q \in saving}
        /\ littered' = littered \cup {task[q].region : q \in saving}
                                \cup UNION {Litters(q) : q \in Request}
    /\ task' = [q \in Request |-> Blank]
    /\ broken' = broken \cup UNION {Breaks(q) : q \in Request}
    /\ UNCHANGED <<now, row>>

Tick ==
    /\ now < MaxMs
    /\ now' = now + 1
    /\ UNCHANGED <<row, disk, task, names, broken, littered>>

Next ==
    \/ \E r \in Region : Create(r)
    \/ \E q \in Request, r \in Region : Upload(q, r) \/ Remove(q, r)
    \/ \E q \in Request :
        Save(q) \/ SaveFails(q) \/ Clean(q) \/ Write(q) \/ Unlink(q) \/ Delete(q) \/ WriteFails(q)
    \/ Crash
    \/ Tick

Spec == Init /\ [][Next]_vars

------------------------------------------------------------------------------
(* A handler that has deleted the file f and is about to write the row.    *)
Replacing(f) == \E q \in Request : task[q].pc \in {"write", "delete"} /\ task[q].old = f

(* A row names a file that is there, or else a handler that deleted it is  *)
(* about to write the row, however many uploads and removals overlap.      *)
(* What can leave a region without its image is a handler cut short after  *)
(* the delete, until the next upload, or two uploads in one millisecond.   *)
ImageIsThere ==
    \A r \in live \ broken :
        image[r] \in disk \cup twice \cup {None} \/ Replacing(image[r])

(* What makes it so: a file that was saved and is not in a row yet is on   *)
(* disk, and nobody else knows its name.                                   *)
Fresh ==
    \A q \in Request : task[q].pc \in {"clean", "write"} /\ task[q].new \notin twice =>
        /\ task[q].new \in disk
        /\ \A r \in Region : image[r] # task[q].new
        /\ \A p \in Request : /\ task[p].old # task[q].new
                              /\ p # q => task[p].new # task[q].new

(* Names in use were given.  The files of a region are its own.            *)
Given ==
    /\ \A r \in Region \ used : image[r] = None
    /\ \A r \in Region : image[r] # None => image[r] \in given /\ image[r][1] = r
    /\ \A q \in Request : \A f \in {task[q].old, task[q].new} \ {None} :
           f \in given /\ f[1] = task[q].region
    /\ \A q \in Request : task[q].pc \in {"clean", "write"} => task[q].new # None

(* A file on disk is a row's, or some handler has it in hand, or something *)
(* was left behind: where handlers of a region do not overlap, and none is *)
(* cut short or fails to delete, uploads and removals leave no litter.     *)
NothingLeftBehind ==
    \A f \in disk : f[1] \notin littered =>
        \/ f[1] \in live /\ image[f[1]] = f
        \/ \E q \in Request : task[q].pc \in {"clean", "write"} /\ task[q].new = f

(* What makes it so: such a region has one handler at most, which knows    *)
(* the row's image, and has deleted it by the time it writes the row.      *)
Tidy ==
    \A q \in Request : ~At(q, "idle") /\ task[q].region \notin littered =>
        /\ \A p \in Request \ {q} : ~Working(p, task[q].region)
        /\ task[q].region \in live
        /\ task[q].old = image[task[q].region]
        /\ task[q].pc \in {"write", "delete"} => task[q].old \notin disk

ImageInv == TypeOK /\ Given /\ Fresh /\ ImageIsThere /\ Tidy /\ NothingLeftBehind
==============================================================================
