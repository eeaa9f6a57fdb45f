----------------------------- MODULE DeviceRelay -----------------------------
(***************************************************************************)
(* The device rows of the database, the physical relays behind the TCP     *)
(* gateways, and everything in apps/api that carries state between them:   *)
(* DevicesService (control, sync, create, edit, delete), the relay stage   *)
(* of ScheduleRunnerJob, DeviceOnlineJob, and RelayService underneath.     *)
(*                                                                         *)
(* A handler is cut at its awaits: every database call and every socket    *)
(* operation is a step, and any other handler may run between two steps.   *)
(* The row a handler read at its start (its snapshot) is what it uses to   *)
(* the end.                                                                *)
(***************************************************************************)
EXTENDS Naturals, FiniteSets

CONSTANTS
    Device,     \* device ids; autoincrement, so an id is given out once
    Relay,      \* relay positions: an (ip, port, address) triple
    Gateway,    \* the (ip, port) boxes that carry the relays
    GatewayOf,  \* the gateway of each relay position
    Request,    \* slots for concurrent HTTP handlers and schedule tasks
    Installed   \* devices registered, and in agreement, at the start

ASSUME GatewayAssumption == GatewayOf \in [Relay -> Gateway]
ASSUME InstalledAssumption == Installed \subseteq Device
ASSUME SlotAssumption == Request \cap Device = {}
ASSUME NonEmptyAssumption == Device # {} /\ Relay # {}

VARIABLES
    used,       \* device ids the database has given out
    live,       \* ids whose row exists
    endpoint,   \* row: the relay position the device is wired to
    isOn,       \* row: the state shown for the relay
    online,     \* ids whose row has isOnline = true
    relay,      \* the real position of each physical relay
    reachable,  \* gateways that accept TCP connections
    task,       \* one handler, or one check of the online job, per worker
    wire,       \* set-commands written to a socket and not yet settled
    witnessed   \* history: states a worker's relay had since its evidence

row == <<used, live, endpoint, isOn, online>>
vars == <<used, live, endpoint, isOn, online, relay, reachable, task, wire, witnessed>>

Switch == {"on", "off"}

(* The online job checks its devices in parallel: device d's check is      *)
(* worker d.                                                               *)
Worker == Request \cup Device

Step == {"idle", "send", "await", "acked", "probe", "read", "join", "write"}

Task == [pc: Step, kind: {"command", "check"}, dev: Device, rel: Relay,
         val: Switch \cup {"unknown"}, up: BOOLEAN]

(* A command on the network outlives the handler that sent it.             *)
Command == [by: Worker, rel: Relay, val: Switch]

Blank == [pc |-> "idle", kind |-> "check", dev |-> CHOOSE d \in Device : TRUE,
          rel |-> CHOOSE r \in Relay : TRUE, val |-> "unknown", up |-> FALSE]

TypeOK ==
    /\ used \subseteq Device
    /\ live \subseteq used
    /\ endpoint \in [Device -> Relay]
    /\ isOn \in [Device -> Switch]
    /\ online \subseteq Device
    /\ relay \in [Relay -> Switch]
    /\ reachable \subseteq Gateway
    /\ task \in [Worker -> Task]
    /\ wire \subseteq Command
    /\ witnessed \in [Worker -> SUBSET Switch]

Init ==
    /\ used = Installed
    /\ live = Installed
    /\ endpoint \in [Device -> Relay]
    /\ relay \in [Relay -> Switch]
    /\ isOn = [d \in Device |-> IF d \in Installed THEN relay[endpoint[d]] ELSE "off"]
    /\ online = Installed
    /\ reachable = Gateway
    /\ task = [w \in Worker |-> Blank]
    /\ wire = {}
    /\ witnessed = [w \in Worker |-> {}]

Active(w) == task[w].pc # "idle"

(* A slot is free when its handler has returned and what it sent is        *)
(* settled: a slot therefore names its command.                            *)
Free(w) == ~Active(w) /\ \A c \in wire : c.by # w

At(w, step) == task[w].pc = step

GoTo(w, step) == task' = [task EXCEPT ![w].pc = step]

Finish(w) ==
    /\ task' = [task EXCEPT ![w] = Blank]
    /\ witnessed' = [witnessed EXCEPT ![w] = {}]

(* Every worker that already holds evidence about relay r sees it become v. *)
Witness(r, v) ==
    [w \in Worker |-> IF witnessed[w] # {} /\ task[w].rel = r
                      THEN witnessed[w] \cup {v} ELSE witnessed[w]]

(* A check's result is written at once by a handler; in the online job it  *)
(* waits for the other checks of the run.                                  *)
AfterCheck(w) == IF w \in Device THEN "join" ELSE "write"

------------------------------------------------------------------------------
(* The start of a handler: read the row and keep it.                       *)
Snapshot(kind, pc, d, v) ==
    [pc |-> pc, kind |-> kind, dev |-> d, rel |-> endpoint[d], val |-> v, up |-> FALSE]

Control(w, d, v) ==
    /\ Free(w)
    /\ d \in live
    /\ task' = [task EXCEPT ![w] = Snapshot("command", "send", d, v)]
    /\ UNCHANGED <<row, relay, reachable, wire, witnessed>>

Sync(w, d) ==
    /\ Free(w)
    /\ d \in live
    /\ task' = [task EXCEPT ![w] = Snapshot("check", "probe", d, "unknown")]
    /\ UNCHANGED <<row, relay, reachable, wire, witnessed>>

(* The row is inserted with the schema's defaults, then checked.           *)
Create(w, d, r) ==
    /\ Free(w)
    /\ d \notin used
    /\ used' = used \cup {d}
    /\ live' = live \cup {d}
    /\ endpoint' = [endpoint EXCEPT ![d] = r]
    /\ isOn' = [isOn EXCEPT ![d] = "off"]
    /\ online' = online \ {d}
    /\ task' = [task EXCEPT ![w] = [Snapshot("check", "probe", d, "unknown") EXCEPT !.rel = r]]
    /\ UNCHANGED <<relay, reachable, wire, witnessed>>

(* assertDevice and the write that follows it find the row or not alike,   *)
(* since an id never comes back: one step.                                 *)
Update(d, r) ==
    /\ d \in live
    /\ endpoint' = [endpoint EXCEPT ![d] = r]
    /\ UNCHANGED <<used, live, isOn, online, relay, reachable, task, wire, witnessed>>

Remove(d) ==
    /\ d \in live
    /\ live' = live \ {d}
    /\ UNCHANGED <<used, endpoint, isOn, online, relay, reachable, task, wire, witnessed>>

------------------------------------------------------------------------------
(* Mutant of Send: the row is read again and its endpoint used.            *)
SendToCurrentEndpoint(w) ==
    /\ At(w, "send")
    /\ GatewayOf[task[w].rel] \in reachable
    /\ wire' = wire \cup {[by |-> w, rel |-> endpoint[task[w].dev], val |-> task[w].val]}
    /\ GoTo(w, "await")
    /\ UNCHANGED <<row, relay, reachable, witnessed>>

(* RelayService.setRelay: connect and write the command.                   *)
Send(w) ==
    /\ At(w, "send")
    /\ GatewayOf[task[w].rel] \in reachable
    /\ wire' = wire \cup {[by |-> w, rel |-> task[w].rel, val |-> task[w].val]}
    /\ GoTo(w, "await")
    /\ UNCHANGED <<row, relay, reachable, witnessed>>

(* The gateway carries out a command.  Its O answer finds the handler      *)
(* waiting, or a socket already destroyed by the timeout.                  *)
Execute(c) ==
    /\ c \in wire
    /\ wire' = wire \ {c}
    /\ relay' = [relay EXCEPT ![c.rel] = c.val]
    /\ IF At(c.by, "await")
       THEN /\ GoTo(c.by, "acked")
            /\ witnessed' = [Witness(c.rel, c.val) EXCEPT ![c.by] = {c.val}]
       ELSE /\ witnessed' = Witness(c.rel, c.val)
            /\ UNCHANGED task
    /\ UNCHANGED <<row, reachable>>

(* The command is lost, or the gateway answers E.                          *)
Lose(c) ==
    /\ c \in wire
    /\ wire' = wire \ {c}
    /\ UNCHANGED <<row, relay, reachable, task, witnessed>>

Answer(w) ==
    /\ At(w, "acked")
    /\ GoTo(w, "write")
    /\ UNCHANGED <<row, relay, reachable, wire, witnessed>>

(* Mutant of Fail: a timeout is taken for a success.                       *)
FailGoesOn(w) ==
    /\ task[w].pc \in {"send", "await", "acked"}
    /\ GoTo(w, "write")
    /\ UNCHANGED <<row, relay, reachable, wire, witnessed>>

(* Mutant of Fail: no READ_TIMEOUT.                                        *)
FailOnErrorOnly(w) ==
    /\ task[w].pc \in {"send", "acked"}
    /\ Finish(w)
    /\ UNCHANGED <<row, relay, reachable, wire>>

(* Timeout, socket error, close or a wrong answer: RELAY_ERROR, nothing is *)
(* written.  The command itself may be on the network or carried out.      *)
Fail(w) ==
    /\ task[w].pc \in {"send", "await", "acked"}
    /\ Finish(w)
    /\ UNCHANGED <<row, relay, reachable, wire>>

------------------------------------------------------------------------------
(* RelayService.checkOnlineAndRead, the two stages and their failures.     *)
Connect(w) ==
    /\ At(w, "probe")
    /\ GatewayOf[task[w].rel] \in reachable
    /\ task' = [task EXCEPT ![w].pc = "read", ![w].up = TRUE]
    /\ UNCHANGED <<row, relay, reachable, wire, witnessed>>

ConnectFails(w) ==
    /\ At(w, "probe")
    /\ GoTo(w, AfterCheck(w))
    /\ UNCHANGED <<row, relay, reachable, wire, witnessed>>

(* The instant the gateway reads the contact; the answer is acted on later. *)
Read(w) ==
    /\ At(w, "read")
    /\ GatewayOf[task[w].rel] \in reachable
    /\ task' = [task EXCEPT ![w].pc = AfterCheck(w), ![w].val = relay[task[w].rel]]
    /\ witnessed' = [witnessed EXCEPT ![w] = {relay[task[w].rel]}]
    /\ UNCHANGED <<row, relay, reachable, wire>>

(* Mutant of ReadFails: an unreadable contact is reported as off.          *)
ReadFailsAsOff(w) ==
    /\ At(w, "read")
    /\ task' = [task EXCEPT ![w].pc = AfterCheck(w), ![w].val = "off"]
    /\ UNCHANGED <<row, relay, reachable, wire, witnessed>>

ReadFails(w) ==
    /\ At(w, "read")
    /\ GoTo(w, AfterCheck(w))
    /\ UNCHANGED <<row, relay, reachable, wire, witnessed>>

------------------------------------------------------------------------------
(* repo.update: a command writes isOn; a check writes isOnline, and isOn   *)
(* when it could be read.                                                  *)
WriteRow(w) ==
    /\ At(w, "write")
    /\ task[w].dev \in live
    /\ isOn' = IF task[w].val = "unknown" THEN isOn
               ELSE [isOn EXCEPT ![task[w].dev] = task[w].val]
    /\ online' = CASE task[w].kind = "command" -> online
                   [] task[w].kind = "check" /\ task[w].up -> online \cup {task[w].dev}
                   [] OTHER -> online \ {task[w].dev}
    /\ Finish(w)
    /\ UNCHANGED <<used, live, endpoint, relay, reachable, wire>>

(* Mutant of RowGone: the update inserts the row again.                    *)
RowUpserted(w) ==
    /\ At(w, "write")
    /\ task[w].dev \notin live
    /\ live' = live \cup {task[w].dev}
    /\ Finish(w)
    /\ UNCHANGED <<used, endpoint, isOn, online, relay, reachable, wire>>

(* Prisma P2025: the row was deleted while the handler was on the network. *)
RowGone(w) ==
    /\ At(w, "write")
    /\ task[w].dev \notin live
    /\ Finish(w)
    /\ UNCHANGED <<row, relay, reachable, wire>>

DatabaseError(w) ==
    /\ At(w, "write")
    /\ Finish(w)
    /\ UNCHANGED <<row, relay, reachable, wire>>

------------------------------------------------------------------------------
(* Mutant of JobStart: only devices shown online are checked.              *)
JobStartOnline ==
    /\ \A d \in Device : ~Active(d)
    /\ live # {}
    /\ task' = [w \in Worker |-> IF w \in live \cap online
                                 THEN Snapshot("check", "probe", w, "unknown") ELSE task[w]]
    /\ UNCHANGED <<row, relay, reachable, wire, witnessed>>

(* DeviceOnlineJob.run: findAll, the checks in parallel, allSettled, and   *)
(* one independent update per device.  Bound: one run at a time.           *)
JobStart ==
    /\ \A d \in Device : ~Active(d)
    /\ live # {}
    /\ task' = [w \in Worker |-> IF w \in live THEN Snapshot("check", "probe", w, "unknown")
                                 ELSE task[w]]
    /\ UNCHANGED <<row, relay, reachable, wire, witnessed>>

JobJoin ==
    /\ \E d \in Device : At(d, "join")
    /\ \A d \in Device : At(d, "join") \/ At(d, "idle")
    /\ task' = [w \in Worker |-> IF w \in Device /\ At(w, "join")
                                 THEN [task[w] EXCEPT !.pc = "write"] ELSE task[w]]
    /\ UNCHANGED <<row, relay, reachable, wire, witnessed>>

------------------------------------------------------------------------------
(* The API process dies and starts again: every handler and the run are    *)
(* gone, what is on the network is not.                                    *)
Crash ==
    /\ \E w \in Worker : Active(w)
    /\ task' = [w \in Worker |-> Blank]
    /\ witnessed' = [w \in Worker |-> {}]
    /\ UNCHANGED <<row, relay, reachable, wire>>

(* The relay is moved by something else than this system.                  *)
Drift(r, v) ==
    /\ relay[r] # v
    /\ relay' = [relay EXCEPT ![r] = v]
    /\ witnessed' = Witness(r, v)
    /\ UNCHANGED <<row, reachable, task, wire>>

Unplug(g) ==
    /\ g \in reachable
    /\ reachable' = reachable \ {g}
    /\ UNCHANGED <<row, relay, task, wire, witnessed>>

Plug(g) ==
    /\ g \in Gateway \ reachable
    /\ reachable' = reachable \cup {g}
    /\ UNCHANGED <<row, relay, task, wire, witnessed>>

------------------------------------------------------------------------------
(* What people ask for.                                                    *)
Orders ==
    \/ \E w \in Request, d \in Device, v \in Switch : Control(w, d, v)
    \/ \E d \in Device, r \in Relay : Update(d, r)

Upkeep ==
    \/ \E w \in Request, d \in Device : Sync(w, d)
    \/ \E w \in Request, d \in Device, r \in Relay : Create(w, d, r)
    \/ \E d \in Device : Remove(d)

(* What the service and a healthy network do by themselves.                *)
Progress(w) ==
    \/ Send(w) \/ Answer(w) \/ Connect(w) \/ Read(w) \/ WriteRow(w) \/ RowGone(w)

Service ==
    \/ \E w \in Worker : Progress(w)
    \/ \E c \in wire : Execute(c)
    \/ JobStart
    \/ JobJoin

GiveUp(w) == Fail(w) \/ ConnectFails(w) \/ ReadFails(w) \/ DatabaseError(w)

Faults ==
    \/ \E w \in Worker : GiveUp(w)
    \/ \E c \in wire : Lose(c)
    \/ \E r \in Relay, v \in Switch : Drift(r, v)
    \/ \E g \in Gateway : Unplug(g)
    \/ Crash

Next ==
    \/ Orders
    \/ Upkeep
    \/ Service
    \/ Faults
    \/ \E g \in Gateway : Plug(g)

Spec == Init /\ [][Next]_vars

(* A handler is driven to its end by Node's event loop and by its timers   *)
(* (CONNECT_TIMEOUT, READ_TIMEOUT); cron starts a run every minute; a      *)
(* command that reached the network is settled.                            *)
Fairness ==
    /\ \A w \in Worker : WF_vars(Progress(w) \/ GiveUp(w))
    /\ WF_vars(JobStart)
    /\ WF_vars(JobJoin)
    /\ WF_vars(\E c \in wire : Execute(c) \/ Lose(c))

FairSpec == Spec /\ Fairness

------------------------------------------------------------------------------
(* What a handler is about to write comes from the relay itself: the value *)
(* was the relay's state at or after the command was carried out or the    *)
(* contact was read, and so was the state the relay has now.  (setRelay    *)
(* answers only for an O, readRelay only for 0 or 1.)                      *)
Evidence ==
    \A w \in Worker :
        task[w].pc \in {"acked", "join", "write"} /\ task[w].val # "unknown"
            => {task[w].val, relay[task[w].rel]} \subseteq witnessed[w]

(* A set-command belongs to one slot, and is what that slot's handler      *)
(* asked for as long as the handler still waits: the answer a handler gets *)
(* is the answer to its own command.                                       *)
CommandOfItsSlot ==
    /\ \A c \in wire : /\ c.by \in Request
                       /\ task[c.by].pc \in {"idle", "await"}
                       /\ At(c.by, "await") => /\ task[c.by].rel = c.rel
                                               /\ task[c.by].val = c.val
    /\ \A c1, c2 \in wire : c1.by = c2.by => c1 = c2

(* What a handler holds at each of its steps: a command knows its value    *)
(* and runs in a request slot, a check does not know the state yet.        *)
HeldAtStep ==
    \A w \in Worker :
        /\ task[w].pc \in {"send", "await", "acked"} =>
               w \in Request /\ task[w].val # "unknown"
        /\ task[w].pc \in {"probe", "read"} => task[w].val = "unknown"

IInv == TypeOK /\ HeldAtStep /\ CommandOfItsSlot /\ Evidence

(* A shown state changes only to a state some handler of that device saw   *)
(* the relay in: no timeout, refusal, failed read or crash ever changes    *)
(* what is shown, and if the relay never moved again the new state is true. *)
ShowsWhatWasObserved ==
    \A d \in live : isOn'[d] # isOn[d] =>
        \E w \in Worker : /\ task[w].dev = d /\ task[w].pc = "write"
                          /\ {isOn'[d], relay[task[w].rel]} \subseteq witnessed[w]

ObservedBeforeShown == [][ShowsWhatWasObserved]_vars

(* A deleted device never comes back, however late a handler or the job    *)
(* writes to it, and nothing is shown for it any more.                     *)
LeavesTheDeadAlone ==
    \A d \in used \ live : /\ d \in used' \ live'
                           /\ isOn'[d] = isOn[d]
                           /\ (d \in online') = (d \in online)

GoneForGood == [][LeavesTheDeadAlone]_vars

(* Every handler and every run of the job comes to an end, whatever the    *)
(* gateways do: the timers in RelayService and allSettled in the job.      *)
HandlersReturn == \A w \in Worker : Active(w) ~> ~Active(w)

Synced == \A d \in live : isOn[d] = relay[endpoint[d]] /\ d \in online

(* Once the orders and the faults stop and the gateways can be reached,    *)
(* the minute job makes every shown state true and keeps it true, whatever *)
(* was shown before.                                                       *)
EventuallySynced ==
    <>[](reachable = Gateway) /\ <>[][~(Orders \/ Faults)]_vars => <>[]Synced

(* A handler's job for the mirror: the device and relay of its snapshot,   *)
(* and the state it has evidence for, if any.                              *)
JobOf(w) ==
    [dev |-> task[w].dev, rel |-> task[w].rel,
     val |-> IF task[w].pc \in {"acked", "join", "write"} THEN task[w].val ELSE "unknown"]

jobs == [w \in Worker |-> IF Active(w) THEN JobOf(w) ELSE Blank]

Promise == INSTANCE Mirror WITH NoJob <- Blank, shown <- isOn, job <- jobs

(* The handlers, the job, the sockets and their failures implement the     *)
(* mirror: a shown state is one that a holder of a job for that device saw *)
(* at the relay its row named when the job began.                          *)
ImplementsMirror == Promise!Spec
==============================================================================
