----------------------------- MODULE ScheduleRows -----------------------------
(***************************************************************************)
(* The schedule rows and SchedulesService.  update and toggle read the row *)
(* and write it in a later database call; what they read decides whether   *)
(* they write (update) or what they write (toggle).                        *)
(***************************************************************************)
EXTENDS Naturals, FiniteSets

CONSTANTS
    Schedule,   \* schedule ids; autoincrement, given out once
    Device,
    DeviceOf,   \* the device a schedule is created for; it never changes
    Time,       \* times of day, HH:MM
    Request,    \* slots for concurrent HTTP handlers
    Null,       \* SQL NULL
    Keep        \* a field that is not in the request body

ASSUME DeviceOfAssumption == DeviceOf \in [Schedule -> Device]
ASSUME ValueAssumption ==
    /\ Null \notin Time /\ Keep \notin Time /\ Null # Keep
    /\ Keep \notin {"yes", "no"}
ASSUME NonEmptyAssumption == Schedule # {}

VARIABLES
    devices,    \* devices that exist
    used, live, \* schedule ids given out, and those whose row exists
    sched,      \* the rows
    asked,      \* history: per field, the value last asked for and answered
    task,       \* the handler in each slot
    stale       \* history: the fields of its row that others have written
                \* since the handler in a slot read it

vars == <<devices, used, live, sched, asked, task, stale>>

YesNo == {"yes", "no"}
Row == [onTime: Time \cup {Null}, offTime: Time \cup {Null}, enabled: YesNo]
Field == {"onTime", "offTime", "enabled"}

(* A request body; the web client's toggle has an empty one.               *)
Dto == [onTime: Time \cup {Null, Keep}, offTime: Time \cup {Null, Keep},
        enabled: YesNo \cup {Keep}]

NoDto == [onTime |-> Keep, offTime |-> Keep, enabled |-> Keep]

Task == [pc: {"idle", "write"}, kind: {"update", "toggle"}, id: Schedule,
         dto: Dto,      \* what the request asks for
         data: Dto]     \* what it sends to the database

Blank == [pc |-> "idle", kind |-> "update", id |-> CHOOSE s \in Schedule : TRUE,
          dto |-> NoDto, data |-> NoDto]

TypeOK ==
    /\ devices \subseteq Device
    /\ used \subseteq Schedule
    /\ live \subseteq used
    /\ sched \in [Schedule -> Row]
    /\ asked \in [Schedule -> Row]
    /\ task \in [Request -> Task]
    /\ stale \in [Request -> SUBSET Field]

Init ==
    /\ devices = Device
    /\ used = {}
    /\ live = {}
    /\ sched = [s \in Schedule |-> [onTime |-> Null, offTime |-> Null, enabled |-> "yes"]]
    /\ asked = sched
    /\ task = [q \in Request |-> Blank]
    /\ stale = [q \in Request |-> {}]

Busy(q, s) == task[q].pc = "write" /\ task[q].id = s

(* A handler has read the row of s.                                        *)
Start(q, s, kind, dto, data) ==
    /\ task' = [task EXCEPT ![q] = [pc |-> "write", kind |-> kind, id |-> s,
                                    dto |-> dto, data |-> data]]
    /\ UNCHANGED <<devices, used, live, sched, asked, stale>>

Finish(q) == task' = [task EXCEPT ![q] = Blank]

(* What the others that have read the row of s know of it goes stale.      *)
Overtakes(q, s, data) ==
    stale' = [p \in Request |->
                 IF p = q THEN {}
                 ELSE stale[p] \cup {f \in Field : Busy(p, s) /\ data[f] # Keep}]

(* A row as a partial update leaves it.                                    *)
Patched(r, data) ==
    [f \in Field |-> IF data[f] = Keep THEN r[f] ELSE data[f]]

HasTime(r) == r.onTime # Null \/ r.offTime # Null

(* Mutant of Flip: toggle only switches on.                                *)
SwitchOn(b) == "yes"

Flip(b) == IF b = "yes" THEN "no" ELSE "yes"

------------------------------------------------------------------------------
(* assertTimeProvided looks at the body only; the foreign key refuses a    *)
(* device deleted since assertDeviceAccess.                                *)
Create(s, r) ==
    /\ s \notin used
    /\ DeviceOf[s] \in devices
    /\ HasTime(r)
    /\ used' = used \cup {s}
    /\ live' = live \cup {s}
    /\ sched' = [sched EXCEPT ![s] = r]
    /\ asked' = [asked EXCEPT ![s] = r]
    /\ UNCHANGED <<devices, task, stale>>

(* Mutant of WillHaveTime: each field is judged as if the other were set.  *)
WillHaveOne(r, dto) == dto.onTime # Null \/ dto.offTime # Null

(* The final values the update would leave, judged on the row as read.     *)
WillHaveTime(r, dto) == HasTime(Patched(r, dto))

(* Mutant of Data: the whole row is sent, as it was read.                  *)
WholeRow(r, dto) == Patched(r, dto)

(* Only the fields in the body are sent.                                   *)
Data(r, dto) == dto

Update(q, s, dto) ==
    /\ task[q].pc = "idle"
    /\ s \in live
    /\ WillHaveTime(sched[s], dto)
    /\ Start(q, s, "update", dto, Data(sched[s], dto))

Toggle(q, s) ==
    /\ task[q].pc = "idle"
    /\ s \in live
    /\ LET dto == [NoDto EXCEPT !.enabled = Flip(sched[s].enabled)]
       IN  Start(q, s, "toggle", dto, Data(sched[s], dto))

(* repo.update.                                                            *)
Write(q) ==
    /\ task[q].pc = "write"
    /\ task[q].id \in live
    /\ sched' = [sched EXCEPT ![task[q].id] = Patched(@, task[q].data)]
    /\ asked' = [asked EXCEPT ![task[q].id] = Patched(@, task[q].dto)]
    /\ Finish(q)
    /\ Overtakes(q, task[q].id, task[q].data)
    /\ UNCHANGED <<devices, used, live>>

(* The row is gone (P2025), the database fails, or the process dies.       *)
Abort(q) ==
    /\ task[q].pc = "write"
    /\ Finish(q)
    /\ stale' = [stale EXCEPT ![q] = {}]
    /\ UNCHANGED <<devices, used, live, sched, asked>>

Remove(s) ==
    /\ s \in live
    /\ live' = live \ {s}
    /\ UNCHANGED <<devices, used, sched, asked, task, stale>>

(* onDelete: Cascade from the device (and from its region).                *)
DropDevice(d) ==
    /\ d \in devices
    /\ devices' = devices \ {d}
    /\ live' = {s \in live : DeviceOf[s] # d}
    /\ UNCHANGED <<used, sched, asked, task, stale>>

------------------------------------------------------------------------------
Next ==
    \/ \E s \in Schedule, r \in Row : Create(s, r)
    \/ \E q \in Request, s \in Schedule, dto \in Dto : Update(q, s, dto)
    \/ \E q \in Request, s \in Schedule : Toggle(q, s)
    \/ \E q \in Request : Write(q) \/ Abort(q)
    \/ \E s \in Schedule : Remove(s)
    \/ \E d \in Device : DropDevice(d)

Spec == Init /\ [][Next]_vars

------------------------------------------------------------------------------
(* No update is lost field by field: whatever overlaps, a field holds the  *)
(* value asked for by the last answered request that had it in its body.   *)
(* (update sends a partial row, never the row it read.)                    *)
LastAskedWins == \A s \in live : sched[s] = asked[s]

(* What makes it so: a handler sends just what it was asked for.           *)
FieldInv == TypeOK /\ LastAskedWins /\ \A q \in Request : task[q].data = task[q].dto

(* The schema: one of onTime and offTime at least.  update checks it on    *)
(* the row as read.  A schedule is without only if it was before, or by an *)
(* update under which another has written one of the two times; overlap    *)
(* with a toggle, or with an edit of something else, takes none away.      *)
NoTimeLost ==
    \A s \in live' : ~HasTime(sched'[s]) =>
        \/ s \in live /\ ~HasTime(sched[s])
        \/ \E q \in Request :
               /\ Write(q) /\ task[q].id = s /\ task[q].kind = "update"
               /\ stale[q] \cap {"onTime", "offTime"} # {}

TimeRequired == [][NoTimeLost]_vars

(* A toggle turns the schedule the other way from what it is when the      *)
(* toggle is answered, however many handlers overlap, unless enabled was   *)
(* written under it: of two toggles that overlap the first still turns.    *)
ToggleTurns ==
    \A q \in Request :
        Write(q) /\ task[q].kind = "toggle" /\ "enabled" \notin stale[q]
            => sched'[task[q].id].enabled # sched[task[q].id].enabled

TogglesTurn == [][ToggleTurns]_vars

(* What makes it so: the check update made, and the value toggle read, are *)
(* still true when it writes, but for the fields written meanwhile.        *)
CheckStillHolds ==
    \A q \in Request : task[q].pc = "write" =>
        /\ task[q].id \in used
        /\ IF task[q].kind = "toggle"
           THEN /\ task[q].data.onTime = Keep /\ task[q].data.offTime = Keep
                /\ task[q].id \in live /\ "enabled" \notin stale[q] =>
                       task[q].data.enabled = Flip(sched[task[q].id].enabled)
           ELSE task[q].id \in live /\ stale[q] \cap {"onTime", "offTime"} = {} =>
                    HasTime(Patched(sched[task[q].id], task[q].data))

CheckInv == TypeOK /\ CheckStillHolds
==============================================================================
