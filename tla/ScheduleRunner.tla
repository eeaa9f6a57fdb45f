---------------------------- MODULE ScheduleRunner ----------------------------
(***************************************************************************)
(* ScheduleRunnerJob: every minute it reads the enabled schedules around   *)
(* today, keeps those due by the server's wall clock, and commands their   *)
(* devices in parallel.  The database query is by UTC date, the schedules  *)
(* are in local time.  What a command does on the wire is in DeviceRelay.  *)
(***************************************************************************)
EXTENDS Naturals

CONSTANTS
    Schedule, Device,
    DeviceOf,   \* the device of a schedule
    Day,        \* minutes in a day
    OFFSET,     \* minutes the server's wall clock is ahead of UTC
    LastDay,    \* bound on the clock
    Rows,       \* what users may store in a schedule
    Null,       \* SQL NULL, and no row
    Run         \* bounds the runs in flight at once

Minute == 0 .. Day - 1
Row == [onTime: Minute \cup {Null}, offTime: Minute \cup {Null},
        dateFrom: Nat, dateTo: Nat, enabled: BOOLEAN]

ASSUME ClockAssumption == Day \in Nat \ {0} /\ OFFSET \in 0 .. Day /\ LastDay \in Nat
ASSUME RowsAssumption == Rows \subseteq Row /\ Null \notin Rows /\ Null \notin Minute
ASSUME DeviceOfAssumption == DeviceOf \in [Schedule -> Device]

VARIABLES
    clock,      \* the UTC minute
    up,         \* the API process runs
    sched,      \* the schedule rows
    devices,    \* devices that exist
    isOn,       \* Device.isOn
    run         \* the calls of run() in flight

vars == <<clock, up, sched, devices, isOn, run>>

Time == [day: 0 .. LastDay, min: Minute]
Action == {"on", "off"}

RunState == [pc: {"idle", "read", "act"}, at: Time,
             act: [Device -> Action \cup {"none"}],           \* still to do
             step: [Device -> {"command", "write", "emit"}]]  \* and how far

Idle == [pc |-> "idle", at |-> [day |-> 0, min |-> 0],
         act |-> [d \in Device |-> "none"], step |-> [d \in Device |-> "command"]]

TypeOK ==
    /\ clock \in Time
    /\ up \in BOOLEAN
    /\ sched \in [Schedule -> Rows \cup {Null}]
    /\ devices \subseteq Device
    /\ isOn \in [Device -> BOOLEAN]
    /\ run \in [Run -> RunState]

Init ==
    /\ clock = [day |-> 0, min |-> 0]
    /\ up = TRUE
    /\ sched = [s \in Schedule |-> Null]
    /\ devices = Device
    /\ isOn = [d \in Device |-> FALSE]
    /\ run = [n \in Run |-> Idle]

------------------------------------------------------------------------------
(* getHours, getMinutes and the local date of a UTC minute.                *)
Local(t) ==
    IF t.min + OFFSET < Day
        THEN [day |-> t.day, min |-> t.min + OFFSET]
        ELSE [day |-> t.day + 1, min |-> t.min + OFFSET - Day]

Enabled(s) == sched[s] # Null /\ sched[s].enabled

(* Mutant of FindActiveToday: not a day further than the UTC date.         *)
FindActiveUtc(t) ==
    {s \in Schedule : Enabled(s) /\ sched[s].dateFrom <= t.day /\ sched[s].dateTo >= t.day}

(* The query: from today to tomorrow, by the UTC date.                     *)
FindActiveToday(t) ==
    {s \in Schedule : Enabled(s) /\ sched[s].dateFrom <= t.day + 1 /\ sched[s].dateTo >= t.day}

(* What run() checks again on each row: the local date, and the minute.    *)
InRange(r, t) == r.dateFrom <= Local(t).day /\ r.dateTo >= Local(t).day
Matches(r, t) == Local(t).min \in {r.onTime, r.offTime}

(* Mutant of Chosen: the query is trusted for the date.                    *)
ChosenByQuery(d, t) ==
    {s \in FindActiveToday(t) : DeviceOf[s] = d /\ Matches(sched[s], t)}

Chosen(d, t) ==
    {s \in FindActiveToday(t) :
        DeviceOf[s] = d /\ InRange(sched[s], t) /\ Matches(sched[s], t)}

(* Mutant of Wanted: the on time is looked at last.                        *)
WantedOn(r, t) == IF r.onTime = Local(t).min THEN "on" ELSE "off"

(* Off is looked at after on.                                              *)
Wanted(r, t) == IF r.offTime = Local(t).min THEN "off" ELSE "on"

(* A run with nothing left to do is over.                                  *)
Settled(r, d) ==
    LET act == [r.act EXCEPT ![d] = "none"]
    IN  IF \A e \in Device : act[e] = "none"
            THEN Idle
            ELSE [r EXCEPT !.act = act, !.step[d] = "command"]

At(n, d, step) == run[n].pc = "act" /\ run[n].act[d] # "none" /\ run[n].step[d] = step

Advance(n, d, step) == run' = [run EXCEPT ![n].step[d] = step]
Settle(n, d) == run' = [run EXCEPT ![n] = Settled(@, d)]

------------------------------------------------------------------------------
NextMinute(t) ==
    IF t.min + 1 < Day THEN [t EXCEPT !.min = @ + 1] ELSE [day |-> t.day + 1, min |-> 0]

(* The minute turns and cron calls run(), unless the process is down: a    *)
(* minute that is missed is not made up for.                               *)
Tick ==
    /\ NextMinute(clock) \in Time
    /\ clock' = NextMinute(clock)
    /\ IF up
       THEN \E n \in Run :
                /\ run[n].pc = "idle"
                /\ run' = [run EXCEPT ![n] = [Idle EXCEPT !.pc = "read", !.at = clock']]
       ELSE run' = run
    /\ UNCHANGED <<up, sched, devices, isOn>>

(* findActiveToday answers, in any order of rows, and the last row of a    *)
(* device wins.                                                            *)
Read(n) ==
    /\ run[n].pc = "read"
    /\ \E act \in [Device -> Action \cup {"none"}] :
        /\ \A d \in Device :
            IF Chosen(d, run[n].at) = {}
                THEN act[d] = "none"
                ELSE \E s \in Chosen(d, run[n].at) : act[d] = Wanted(sched[s], run[n].at)
        /\ run' = [run EXCEPT ![n] =
                      IF \A d \in Device : act[d] = "none"
                          THEN Idle
                          ELSE [@ EXCEPT !.pc = "act", !.act = act]]
    /\ UNCHANGED <<clock, up, sched, devices, isOn>>

(* The query fails and the run is given up.                                *)
ReadFails(n) ==
    /\ run[n].pc = "read"
    /\ run' = [run EXCEPT ![n] = Idle]
    /\ UNCHANGED <<clock, up, sched, devices, isOn>>

(* setRelay is answered.                                                   *)
Command(n, d) ==
    /\ At(n, d, "command")
    /\ Advance(n, d, "write")
    /\ UNCHANGED <<clock, up, sched, devices, isOn>>

(* Mutant of Write: the device is done once its row is written.            *)
WriteUntold(n, d) ==
    /\ At(n, d, "write")
    /\ d \in devices
    /\ isOn' = [isOn EXCEPT ![d] = (run[n].act[d] = "on")]
    /\ Settle(n, d)
    /\ UNCHANGED <<clock, up, sched, devices>>

Write(n, d) ==
    /\ At(n, d, "write")
    /\ d \in devices
    /\ isOn' = [isOn EXCEPT ![d] = (run[n].act[d] = "on")]
    /\ Advance(n, d, "emit")
    /\ UNCHANGED <<clock, up, sched, devices>>

(* setRelay or the update throws; other devices are not held up.           *)
Fails(n, d) ==
    /\ At(n, d, "command") \/ At(n, d, "write")
    /\ Settle(n, d)
    /\ UNCHANGED <<clock, up, sched, devices, isOn>>

Emit(n, d) ==
    /\ At(n, d, "emit")
    /\ Settle(n, d)
    /\ UNCHANGED <<clock, up, sched, devices, isOn>>

------------------------------------------------------------------------------
(* The services write: a schedule stored or removed, a device deleted.     *)
Store(s, r) ==
    /\ DeviceOf[s] \in devices
    /\ sched' = [sched EXCEPT ![s] = r]
    /\ UNCHANGED <<clock, up, devices, isOn, run>>

DropDevice(d) ==
    /\ d \in devices
    /\ devices' = devices \ {d}
    /\ sched' = [s \in Schedule |-> IF DeviceOf[s] = d THEN Null ELSE sched[s]]
    /\ UNCHANGED <<clock, up, isOn, run>>

Crash ==
    /\ up
    /\ up' = FALSE
    /\ run' = [n \in Run |-> Idle]
    /\ UNCHANGED <<clock, sched, devices, isOn>>

Start ==
    /\ ~up
    /\ up' = TRUE
    /\ UNCHANGED <<clock, sched, devices, isOn, run>>

Edits ==
    \/ \E s \in Schedule, r \in Rows \cup {Null} : Store(s, r)
    \/ \E d \in Device : DropDevice(d)

RunStep ==
    \/ \E n \in Run : Read(n) \/ ReadFails(n)
    \/ \E n \in Run, d \in Device : Command(n, d) \/ Write(n, d) \/ Fails(n, d)

Next ==
    \/ Tick \/ RunStep \/ Edits \/ Crash \/ Start
    \/ \E n \in Run, d \in Device : Emit(n, d)

Spec == Init /\ [][Next]_vars

------------------------------------------------------------------------------
(* What the user asked for, in the wall clock's terms alone: the enabled   *)
(* schedules of a device that have this date and this minute.              *)
Due(d, t) ==
    {s \in Schedule :
        /\ DeviceOf[s] = d /\ Enabled(s)
        /\ Local(t).day \in sched[s].dateFrom .. sched[s].dateTo
        /\ Local(t).min = sched[s].onTime \/ Local(t).min = sched[s].offTime}

(* A run takes on exactly the devices with a schedule due at the minute it *)
(* was called for, whatever the server's offset from UTC; it switches a    *)
(* device on only if no schedule's off time is to win: one with both       *)
(* times at this minute switches off.                                      *)
ReadTakesWhatIsDue ==
    \A n \in Run, d \in Device :
        LET t == run[n].at
        IN  Read(n) =>
                /\ run'[n].act[d] = "none" <=> Due(d, t) = {}
                /\ run'[n].act[d] = "on" =>
                       \E s \in Due(d, t) : sched[s].offTime # Local(t).min
                /\ run'[n].act[d] = "off" =>
                       \E s \in Due(d, t) : sched[s].offTime = Local(t).min

TakesWhatIsDue == [][ReadTakesWhatIsDue]_vars
==============================================================================
