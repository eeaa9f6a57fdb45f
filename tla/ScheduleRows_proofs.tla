------------------------- MODULE ScheduleRows_proofs -------------------------
(* Theorems of ScheduleRows, for any number of schedules, devices, times   *)
(* and concurrent handlers.                                                *)
EXTENDS ScheduleRows, TLAPS

(* A partial update of a row is a row.                                     *)
LEMMA PatchedIsRow ==
    ASSUME NEW r \in Row, NEW data \in Dto
    PROVE  Patched(r, data) \in Row
<1> DEFINE p == [onTime  |-> IF data.onTime = Keep THEN r.onTime ELSE data.onTime,
                 offTime |-> IF data.offTime = Keep THEN r.offTime ELSE data.offTime,
                 enabled |-> IF data.enabled = Keep THEN r.enabled ELSE data.enabled]
<1>1. Patched(r, data) = p
    BY DEF Patched, Field
<1>2. p \in Row
    BY DEF Row, Dto, YesNo
<1> QED BY <1>1, <1>2

(* The fields of an updated row.                                           *)
LEMMA PatchedFields ==
    ASSUME NEW r, NEW data
    PROVE  /\ Patched(r, data).onTime = IF data.onTime = Keep THEN r.onTime ELSE data.onTime
           /\ Patched(r, data).offTime = IF data.offTime = Keep THEN r.offTime ELSE data.offTime
           /\ Patched(r, data).enabled = IF data.enabled = Keep THEN r.enabled ELSE data.enabled
BY DEF Patched, Field

(* The blank task and a toggle's body have their types.                    *)
LEMMA BlankIsTask == Blank \in Task /\ NoDto \in Dto
BY NonEmptyAssumption DEF Blank, Task, NoDto, Dto

(* A toggle's body has the type of a body.                                 *)
LEMMA FlipIsDto ==
    ASSUME NEW b \in YesNo
    PROVE  [NoDto EXCEPT !.enabled = Flip(b)] \in Dto
BY DEF NoDto, Dto, Flip, YesNo

(* The invariant of the checks holds of an empty table.                    *)
LEMMA CheckInit == Init => CheckInv
<1> SUFFICES ASSUME Init PROVE CheckInv
    OBVIOUS
<1>1. [onTime |-> Null, offTime |-> Null, enabled |-> "yes"] \in Row
    BY DEF Row, YesNo
<1>2. TypeOK
    BY <1>1, BlankIsTask DEF Init, TypeOK
<1>3. CheckStillHolds
    BY DEF Init, CheckStillHolds, Blank
<1> QED BY <1>2, <1>3 DEF CheckInv

(* Creating a schedule disturbs no handler: the id is new.                 *)
LEMMA CreateCheck ==
    ASSUME CheckInv, NEW s \in Schedule, NEW r \in Row, Create(s, r)
    PROVE  CheckInv'
<1> USE DEF CheckInv, Create
<1>1. TypeOK'
    BY DEF TypeOK
<1>2. \A q \in Request : task[q].pc = "write" => task[q].id # s /\ task[q].id \in Schedule
    BY DEF CheckStillHolds, TypeOK, Task
<1>3. \A x \in Schedule : x # s => sched'[x] = sched[x] /\ (x \in live' <=> x \in live)
    BY DEF TypeOK
<1>4. UNCHANGED <<task, stale>> /\ used \subseteq used'
    OBVIOUS
<1>5. CheckStillHolds'
    BY <1>2, <1>3, <1>4 DEF CheckStillHolds
<1> QED BY <1>1, <1>5

(* What is known of one handler.                                           *)
Holds(t, st) ==
    t.pc = "write" =>
        /\ t.id \in used
        /\ IF t.kind = "toggle"
           THEN /\ t.data.onTime = Keep /\ t.data.offTime = Keep
                /\ t.id \in live /\ "enabled" \notin st =>
                       t.data.enabled = Flip(sched[t.id].enabled)
           ELSE t.id \in live /\ st \cap {"onTime", "offTime"} = {} =>
                    HasTime(Patched(sched[t.id], t.data))

LEMMA HoldsOfAll == CheckStillHolds <=> \A q \in Request : Holds(task[q], stale[q])
BY DEF CheckStillHolds, Holds

(* A handler moves, from or to idle, and the rows stay.                    *)
LEMMA HandlerMoves ==
    ASSUME CheckInv, NEW q \in Request, NEW t \in Task, NEW st \in SUBSET Field,
           task' = [task EXCEPT ![q] = t], stale' = [stale EXCEPT ![q] = st],
           UNCHANGED <<devices, used, live, sched, asked>>, Holds(t, st)
    PROVE  CheckInv'
<1> USE DEF CheckInv
<1>1. TypeOK'
    BY DEF TypeOK
<1>2. \A p \in Request : /\ task'[p] = IF p = q THEN t ELSE task[p]
                         /\ stale'[p] = IF p = q THEN st ELSE stale[p]
    BY DEF TypeOK
<1>3. \A p \in Request : Holds(task'[p], stale'[p])
    BY <1>2, HoldsOfAll
<1>4. CheckStillHolds'
    BY <1>3 DEF CheckStillHolds, Holds
<1> QED BY <1>1, <1>4

(* An update has just checked the row it will write.                       *)
LEMMA UpdateCheck ==
    ASSUME CheckInv, NEW q \in Request, NEW s \in Schedule, NEW dto \in Dto, Update(q, s, dto)
    PROVE  CheckInv'
<1> DEFINE t == [pc |-> "write", kind |-> "update", id |-> s, dto |-> dto, data |-> dto]
<1>1. /\ task' = [task EXCEPT ![q] = t] /\ UNCHANGED <<devices, used, live, sched, asked, stale>>
      /\ s \in live /\ HasTime(Patched(sched[s], dto))
    BY DEF Update, Start, Data, WillHaveTime
<1>2. t \in Task /\ s \in used /\ stale[q] \in SUBSET Field /\ stale' = [stale EXCEPT ![q] = stale[q]]
    BY <1>1 DEF Task, CheckInv, TypeOK
<1>3. Holds(t, stale[q])
    BY <1>1, <1>2 DEF Holds
<1> HIDE DEF t
<1> QED BY <1>1, <1>2, <1>3, HandlerMoves

(* A toggle has just read the value it will turn, and leaves the times as  *)
(* they are.                                                               *)
LEMMA ToggleCheck ==
    ASSUME CheckInv, NEW q \in Request, NEW s \in Schedule, Toggle(q, s)
    PROVE  CheckInv'
<1> DEFINE dto == [NoDto EXCEPT !.enabled = Flip(sched[s].enabled)]
           t == [pc |-> "write", kind |-> "toggle", id |-> s, dto |-> dto, data |-> dto]
<1>1. /\ task' = [task EXCEPT ![q] = t] /\ UNCHANGED <<devices, used, live, sched, asked, stale>>
      /\ s \in live
    BY DEF Toggle, Start, Data
<1>2. dto \in Dto
    BY FlipIsDto DEF CheckInv, TypeOK, Row
<1>3. dto.onTime = Keep /\ dto.offTime = Keep /\ dto.enabled = Flip(sched[s].enabled)
    BY DEF NoDto
<1> HIDE DEF dto
<1>4. t \in Task /\ s \in used /\ stale[q] \in SUBSET Field /\ stale' = [stale EXCEPT ![q] = stale[q]]
    BY <1>1, <1>2 DEF Task, CheckInv, TypeOK
<1>5. Holds(t, stale[q])
    BY <1>3, <1>4 DEF Holds
<1> HIDE DEF t
<1> QED BY <1>1, <1>4, <1>5, HandlerMoves

(* A write leaves the others what they know of the fields it leaves alone. *)
LEMMA WriteCheck ==
    ASSUME CheckInv, NEW q \in Request, Write(q)
    PROVE  CheckInv'
<1> DEFINE s == task[q].id
           data == task[q].data
           r == Patched(sched[s], data)
           a == Patched(asked[s], task[q].dto)
<1> USE DEF CheckInv
<1>1. /\ s \in live /\ s \in Schedule /\ data \in Dto /\ sched[s] \in Row
      /\ r \in Row /\ a \in Row
    BY PatchedIsRow DEF Write, TypeOK, Task
<1>2. /\ sched' = [sched EXCEPT ![s] = r] /\ asked' = [asked EXCEPT ![s] = a]
      /\ task' = [task EXCEPT ![q] = Blank] /\ UNCHANGED <<devices, used, live>>
      /\ Overtakes(q, s, data)
    BY DEF Write, Finish
<1>3. TypeOK'
    BY <1>1, <1>2, BlankIsTask DEF TypeOK, Overtakes
<1>4. /\ r.onTime = IF data.onTime = Keep THEN sched[s].onTime ELSE data.onTime
      /\ r.offTime = IF data.offTime = Keep THEN sched[s].offTime ELSE data.offTime
      /\ r.enabled = IF data.enabled = Keep THEN sched[s].enabled ELSE data.enabled
    BY PatchedFields
<1> HIDE DEF s, data, r, a
<1>5. ASSUME NEW p \in Request PROVE Holds(task[p], stale[p])'
  <2>1. CASE p = q
      BY <1>2, <2>1 DEF TypeOK, Holds, Blank
  <2>2. CASE p # q /\ ~Busy(p, s)
    <3>1. task'[p] = task[p] /\ stale'[p] = stale[p]
        BY <1>2, <1>3, <2>2 DEF TypeOK, Overtakes
    <3>2. task[p].pc = "write" => task[p].id # s /\ sched'[task[p].id] = sched[task[p].id]
        BY <1>2, <2>2 DEF TypeOK, Task, Busy
    <3> QED BY <1>2, <3>1, <3>2, HoldsOfAll DEF Holds
  <2>3. CASE p # q /\ Busy(p, s)
    <3>1. task'[p] = task[p] /\ task[p].pc = "write" /\ task[p].id = s
        BY <1>2, <2>3 DEF TypeOK, Busy
    <3>2. stale'[p] = stale[p] \cup {f \in Field : data[f] # Keep}
        BY <1>2, <2>3 DEF Overtakes
    <3>3. sched'[s] = r /\ Holds(task[p], stale[p])
        BY <1>1, <1>2, HoldsOfAll DEF TypeOK
    <3>4. CASE task[p].kind = "toggle"
      <4>1. "enabled" \notin stale'[p] => r.enabled = sched[s].enabled /\ "enabled" \notin stale[p]
          BY <1>4, <3>2 DEF Field
      <4> QED BY <1>2, <3>1, <3>3, <3>4, <4>1 DEF Holds
    <3>5. CASE task[p].kind # "toggle"
      <4>1. stale'[p] \cap {"onTime", "offTime"} = {} =>
                /\ r.onTime = sched[s].onTime /\ r.offTime = sched[s].offTime
                /\ stale[p] \cap {"onTime", "offTime"} = {}
          BY <1>4, <3>2 DEF Field
      <4>2. stale'[p] \cap {"onTime", "offTime"} = {} =>
                (HasTime(Patched(sched[s], task[p].data)) => HasTime(Patched(r, task[p].data)))
          BY <4>1, PatchedFields DEF HasTime
      <4> QED BY <1>2, <3>1, <3>3, <3>5, <4>1, <4>2 DEF Holds
    <3> QED BY <3>4, <3>5
  <2> QED BY <2>1, <2>2, <2>3
<1>6. CheckStillHolds'
    BY <1>5 DEF CheckStillHolds, Holds
<1> QED BY <1>3, <1>6

(* A handler that ends in an error writes nothing.                           *)
LEMMA AbortCheck ==
    ASSUME CheckInv, NEW q \in Request, Abort(q)
    PROVE  CheckInv'
<1>1. /\ task' = [task EXCEPT ![q] = Blank] /\ stale' = [stale EXCEPT ![q] = {}]
      /\ UNCHANGED <<devices, used, live, sched, asked>>
    BY DEF Abort, Finish
<1>2. Blank.pc = "idle"
    BY DEF Blank
<1>3. Holds(Blank, {})
    BY <1>2 DEF Holds
<1> QED BY <1>1, <1>3, BlankIsTask, HandlerMoves

(* Rows that are deleted, of one schedule or of all of a device, disturb   *)
(* nobody.                                                                 *)
LEMMA DeletionCheck ==
    ASSUME CheckInv, live' \subseteq live, devices' \subseteq devices,
           UNCHANGED <<used, sched, asked, task, stale>>
    PROVE  CheckInv'
<1> USE DEF CheckInv
<1>1. TypeOK'
    BY DEF TypeOK
<1>2. CheckStillHolds'
    BY DEF CheckStillHolds
<1> QED BY <1>1, <1>2

(* Every step keeps the invariant.                                         *)
LEMMA CheckStep == CheckInv /\ [Next]_vars => CheckInv'
<1> SUFFICES ASSUME CheckInv, [Next]_vars PROVE CheckInv'
    OBVIOUS
<1>1. CASE \E s \in Schedule : Remove(s)
    BY <1>1, DeletionCheck DEF Remove
<1>2. CASE \E d \in Device : DropDevice(d)
    BY <1>2, DeletionCheck DEF DropDevice
<1>3. CASE UNCHANGED vars
    BY <1>3, DeletionCheck DEF vars
<1> QED BY <1>1, <1>2, <1>3, CreateCheck, UpdateCheck, ToggleCheck, WriteCheck, AbortCheck
        DEF Next

(* The inductive invariant of the checks: what update and toggle found out *)
(* about the row they read still holds of it, but for the fields written   *)
(* under them.                                                             *)
THEOREM CheckInvariance == Spec => []CheckInv
<1> QED BY CheckInit, CheckStep, PTL DEF Spec

(* update's check on the row it read is enough: a schedule is left without *)
(* an on or an off time only by an update under which another has written  *)
(* one of them, whatever else overlaps with it.                            *)
THEOREM CheckKeepsATime == Spec => TimeRequired
<1>1. CheckInv /\ [Next]_vars => [NoTimeLost]_vars
  <2> SUFFICES ASSUME CheckInv, Next, NEW s \in live', ~HasTime(sched'[s]),
                      ~(s \in live /\ ~HasTime(sched[s]))
               PROVE  \E q \in Request :
                          /\ Write(q) /\ task[q].id = s /\ task[q].kind = "update"
                          /\ stale[q] \cap {"onTime", "offTime"} # {}
    BY DEF NoTimeLost
  <2>1. ASSUME NEW x \in Schedule, NEW r \in Row, Create(x, r) PROVE FALSE
      BY <2>1 DEF Create, CheckInv, TypeOK
  <2>2. CASE live' \subseteq live /\ UNCHANGED sched
      BY <2>2
  <2>3. ASSUME NEW q \in Request, Write(q)
        PROVE  /\ task[q].id = s /\ task[q].kind = "update"
               /\ stale[q] \cap {"onTime", "offTime"} # {}
    <3> DEFINE data == task[q].data
    <3>1. /\ task[q].id \in live /\ live \subseteq Schedule /\ UNCHANGED live
          /\ task[q].pc = "write" /\ task[q].kind \in {"update", "toggle"}
          /\ \A x \in live : sched'[x] = IF x = task[q].id THEN Patched(sched[x], data)
                                         ELSE sched[x]
        BY <2>3 DEF Write, CheckInv, TypeOK, Task
    <3>2. task[q].id = s /\ HasTime(sched[s]) /\ ~HasTime(Patched(sched[s], data))
        BY <3>1
    <3>3. task[q].kind = "update"
      <4>1. SUFFICES ASSUME task[q].kind = "toggle" PROVE FALSE
          BY <3>1
      <4>2. data.onTime = Keep /\ data.offTime = Keep
          BY <3>1, <4>1 DEF CheckInv, CheckStillHolds
      <4> QED BY <3>2, <4>2, PatchedFields DEF HasTime
    <3> QED BY <3>1, <3>2, <3>3 DEF CheckInv, CheckStillHolds
  <2>4. CASE \E q \in Request : Write(q)
      BY <2>3, <2>4
  <2>5. ASSUME NEW q \in Request, Abort(q) PROVE live' \subseteq live /\ UNCHANGED sched
      BY <2>5 DEF Abort
  <2>6. ASSUME NEW q \in Request, NEW x \in Schedule,
               Toggle(q, x) \/ \E dto \in Dto : Update(q, x, dto)
        PROVE  live' \subseteq live /\ UNCHANGED sched
      BY <2>6 DEF Toggle, Update, Start
  <2>7. ASSUME (\E x \in Schedule : Remove(x)) \/ (\E d \in Device : DropDevice(d))
        PROVE  live' \subseteq live /\ UNCHANGED sched
      BY <2>7 DEF Remove, DropDevice
  <2> QED BY <2>1, <2>2, <2>4, <2>5, <2>6, <2>7 DEF Next
<1> QED BY <1>1, CheckInvariance, PTL DEF Spec, TimeRequired

(* A toggle turns the schedule the other way from what it is when the      *)
(* toggle is answered, unless enabled was written under it.                *)
THEOREM UndisturbedTogglesTurn == Spec => TogglesTurn
<1>1. CheckInv /\ [Next]_vars => [ToggleTurns]_vars
  <2> SUFFICES ASSUME CheckInv, NEW q \in Request, Write(q), task[q].kind = "toggle",
                      "enabled" \notin stale[q]
               PROVE  sched'[task[q].id].enabled # sched[task[q].id].enabled
    BY DEF ToggleTurns
  <2> DEFINE r == sched[task[q].id]
             data == task[q].data
  <2>1. /\ task[q].id \in live /\ task[q].id \in Schedule /\ r \in Row
        /\ data.enabled = Flip(r.enabled)
    BY DEF CheckInv, Write, TypeOK, Task, CheckStillHolds
  <2>2. sched' = [sched EXCEPT ![task[q].id] = Patched(r, data)]
    BY DEF Write
  <2> HIDE DEF r, data
  <2>3. data.enabled \in {"yes", "no"} /\ data.enabled # r.enabled
    BY <2>1 DEF Flip, Row, YesNo
  <2>4. Patched(r, data).enabled = data.enabled
    BY <2>3, PatchedFields, ValueAssumption
  <2>5. sched'[task[q].id].enabled = data.enabled
    BY <2>1, <2>2, <2>4 DEF CheckInv, TypeOK
  <2> QED BY <2>3, <2>5 DEF r
<1> QED BY <1>1, CheckInvariance, PTL DEF Spec, TogglesTurn

(* Whatever overlaps, each step sends and keeps just what was asked.       *)
LEMMA FieldStep == FieldInv /\ [Next]_vars => FieldInv'
<1> SUFFICES ASSUME FieldInv, [Next]_vars PROVE FieldInv'
    OBVIOUS
<1> USE DEF FieldInv
<1>1. CASE \E s \in Schedule, r \in Row : Create(s, r)
    BY <1>1 DEF Create, TypeOK, LastAskedWins
<1>2. ASSUME NEW q \in Request, Write(q) PROVE FieldInv'
  <2> DEFINE s == task[q].id
             r == Patched(sched[s], task[q].data)
  <2>1. s \in live /\ s \in Schedule /\ r \in Row
      BY <1>2, PatchedIsRow DEF Write, TypeOK, Task
  <2>2. /\ sched' = [sched EXCEPT ![s] = r] /\ asked' = [asked EXCEPT ![s] = r]
        /\ task' = [task EXCEPT ![q] = Blank] /\ UNCHANGED <<devices, used, live>>
        /\ Overtakes(q, s, task[q].data)
      BY <1>2, <2>1 DEF Write, Finish, LastAskedWins
  <2> HIDE DEF s, r
  <2>3. TypeOK'
      BY <2>1, <2>2, BlankIsTask DEF TypeOK, Overtakes
  <2> QED BY <2>1, <2>2, <2>3, BlankIsTask DEF TypeOK, LastAskedWins, Blank
<1>3. ASSUME NEW q \in Request, Abort(q) PROVE FieldInv'
    BY <1>3, BlankIsTask DEF Abort, Finish, TypeOK, LastAskedWins, Blank
<1>4. CASE \E s \in Schedule : Remove(s)
    BY <1>4 DEF Remove, TypeOK, LastAskedWins
<1>5. CASE \E d \in Device : DropDevice(d)
    BY <1>5 DEF DropDevice, TypeOK, LastAskedWins
<1>6. ASSUME NEW q \in Request, NEW s \in Schedule, NEW kind \in {"update", "toggle"},
             NEW dto \in Dto, Start(q, s, kind, dto, dto)
      PROVE  FieldInv'
  <2> DEFINE t == [pc |-> "write", kind |-> kind, id |-> s, dto |-> dto, data |-> dto]
  <2>1. /\ t \in Task /\ t.data = t.dto /\ task' = [task EXCEPT ![q] = t]
        /\ UNCHANGED <<devices, used, live, sched, asked, stale>>
      BY <1>6 DEF Task, Start
  <2> HIDE DEF t
  <2> QED BY <2>1 DEF TypeOK, LastAskedWins
<1>7. ASSUME NEW q \in Request, NEW s \in Schedule, NEW dto \in Dto, Update(q, s, dto)
      PROVE  FieldInv'
    BY <1>6, <1>7 DEF Update, Data
<1>8. ASSUME NEW q \in Request, NEW s \in Schedule, Toggle(q, s) PROVE FieldInv'
  <2> DEFINE dto == [NoDto EXCEPT !.enabled = Flip(sched[s].enabled)]
  <2>1. sched[s].enabled \in YesNo
      BY DEF TypeOK, Row
  <2>2. dto \in Dto
      BY <2>1, FlipIsDto
  <2>3. Start(q, s, "toggle", dto, dto)
      BY <1>8 DEF Toggle, Data
  <2> HIDE DEF dto
  <2> QED BY <2>2, <2>3, <1>6
<1>9. CASE UNCHANGED vars
    BY <1>9 DEF vars, TypeOK, LastAskedWins
<1> QED BY <1>1, <1>2, <1>3, <1>4, <1>5, <1>7, <1>8, <1>9 DEF Next

(* The inductive invariant of the fields: a handler writes what it was     *)
(* asked (update, toggle), and the row holds what was last asked of it.    *)
THEOREM FieldInvariance == Spec => []FieldInv
<1>1. Init => FieldInv
  <2>1. [onTime |-> Null, offTime |-> Null, enabled |-> "yes"] \in Row
      BY DEF Row, YesNo
  <2>2. Init => TypeOK
      BY <2>1, BlankIsTask DEF Init, TypeOK
  <2>3. Init => LastAskedWins
      BY DEF Init, LastAskedWins
  <2>4. Blank.data = Blank.dto
      BY DEF Blank
  <2>5. Init => \A q \in Request : task[q].data = task[q].dto
      BY <2>4 DEF Init
  <2> QED BY <2>2, <2>3, <2>5 DEF FieldInv
<1> QED BY <1>1, FieldStep, PTL DEF Spec

(* No update is lost field by field, however many requests overlap.        *)
THEOREM NoFieldIsLost == Spec => []LastAskedWins
<1>1. FieldInv => LastAskedWins
    BY DEF FieldInv
<1> QED BY <1>1, FieldInvariance, PTL
==============================================================================
