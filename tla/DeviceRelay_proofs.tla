-------------------------- MODULE DeviceRelay_proofs --------------------------
(* Theorems of DeviceRelay, for any number of devices, relays, gateways    *)
(* and concurrent handlers.                                                *)
EXTENDS DeviceRelay, TLAPS

(* The record of a worker that does nothing is a record of a worker.       *)
LEMMA BlankIsTask == Blank \in Task
BY NonEmptyAssumption DEF Blank, Task, Step

(* A snapshot of a row is a record of a worker.                            *)
LEMMA SnapshotIsTask ==
    ASSUME endpoint \in [Device -> Relay], NEW d \in Device,
           NEW kind \in {"command", "check"}, NEW pc \in Step,
           NEW v \in Switch \cup {"unknown"}
    PROVE  Snapshot(kind, pc, d, v) \in Task
BY DEF Snapshot, Task

(* So is a worker's record moved to another step.                           *)
LEMMA MovedIsTask ==
    ASSUME NEW t \in Task, NEW pc \in Step
    PROVE  [t EXCEPT !.pc = pc] \in Task
BY DEF Task

(* The invariant holds of a freshly started system.                        *)
LEMMA InitInvariant == Init => IInv
<1> SUFFICES ASSUME Init PROVE IInv
    OBVIOUS
<1> USE DEF Init
<1>1. TypeOK
    BY BlankIsTask, InstalledAssumption DEF TypeOK, Switch, Worker, Task
<1>2. HeldAtStep
    BY DEF HeldAtStep, Blank
<1>3. CommandOfItsSlot
    BY DEF CommandOfItsSlot
<1>4. Evidence
    BY DEF Evidence, Blank
<1> QED BY <1>1, <1>2, <1>3, <1>4 DEF IInv

(* Starting a handler keeps the invariant.                                 *)
LEMMA ControlInvariant ==
    ASSUME IInv, NEW w \in Request, NEW d \in Device, NEW v \in Switch, Control(w, d, v)
    PROVE  IInv'
<1> DEFINE t == Snapshot("command", "send", d, v)
<1> USE DEF IInv
<1>0. t \in Task /\ w \in Worker
    BY SnapshotIsTask DEF TypeOK, Step, Worker
<1>1. task' = [task EXCEPT ![w] = t] /\ UNCHANGED <<row, relay, reachable, wire, witnessed>>
    BY DEF Control
<1>2. t.pc = "send" /\ t.val = v /\ v # "unknown"
    BY DEF Snapshot, Switch
<1>3. \A c \in wire : c.by # w
    BY DEF Control, Free
<1> HIDE DEF t
<1>4. TypeOK'
    BY <1>0, <1>1 DEF TypeOK, row
<1>5. HeldAtStep'
    BY <1>0, <1>1, <1>2 DEF TypeOK, HeldAtStep
<1>6. CommandOfItsSlot'
    BY <1>0, <1>1, <1>3 DEF TypeOK, CommandOfItsSlot, At, Command
<1>7. Evidence'
    BY <1>0, <1>1, <1>2 DEF TypeOK, Evidence
<1> QED BY <1>4, <1>5, <1>6, <1>7

(* Starting a sync keeps the invariant. *)
LEMMA SyncInvariant ==
    ASSUME IInv, NEW w \in Request, NEW d \in Device, Sync(w, d)
    PROVE  IInv'
<1> USE DEF IInv
<1>4. TypeOK'
    BY DEF Sync, Snapshot, Free, Active, At, Worker, TypeOK, row, Task, Step
<1>5. HeldAtStep'
    BY DEF Sync, Snapshot, Free, Active, At, Worker, TypeOK, HeldAtStep, Task
<1>6. CommandOfItsSlot'
    BY DEF Sync, Snapshot, Free, Active, At, Worker, TypeOK, CommandOfItsSlot, Command, Task
<1>7. Evidence'
    BY DEF Sync, Snapshot, Free, Active, At, Worker, TypeOK, HeldAtStep, Evidence, Task
<1> QED BY <1>4, <1>5, <1>6, <1>7 DEF IInv

(* Inserting a device and starting its first check keeps the invariant. *)
LEMMA CreateInvariant ==
    ASSUME IInv, NEW w \in Request, NEW d \in Device, NEW r \in Relay, Create(w, d, r)
    PROVE  IInv'
<1> USE DEF IInv
<1>4. TypeOK'
    BY DEF Create, Snapshot, Free, Active, At, Worker, Switch, TypeOK, row, Task, Step
<1>5. HeldAtStep'
    BY DEF Create, Snapshot, Free, Active, At, Worker, Switch, TypeOK, HeldAtStep, Task
<1>6. CommandOfItsSlot'
    BY DEF Create, Snapshot, Free, Active, At, Worker, Switch, TypeOK, CommandOfItsSlot, Command, Task
<1>7. Evidence'
    BY DEF Create, Snapshot, Free, Active, At, Worker, Switch, TypeOK, HeldAtStep, Evidence, Task
<1> QED BY <1>4, <1>5, <1>6, <1>7 DEF IInv

(* Rewiring a device keeps the invariant. *)
LEMMA UpdateInvariant ==
    ASSUME IInv, NEW d \in Device, NEW r \in Relay, Update(d, r)
    PROVE  IInv'
<1> USE DEF IInv
<1>4. TypeOK'
    BY DEF Update, At, TypeOK, row, Task, Step
<1>5. HeldAtStep'
    BY DEF Update, At, TypeOK, HeldAtStep, Task
<1>6. CommandOfItsSlot'
    BY DEF Update, At, TypeOK, CommandOfItsSlot, Command, Task
<1>7. Evidence'
    BY DEF Update, At, TypeOK, HeldAtStep, Evidence, Task
<1> QED BY <1>4, <1>5, <1>6, <1>7 DEF IInv

(* Deleting a device keeps the invariant. *)
LEMMA RemoveInvariant ==
    ASSUME IInv, NEW d \in Device, Remove(d)
    PROVE  IInv'
<1> USE DEF IInv
<1>4. TypeOK'
    BY DEF Remove, At, TypeOK, row, Task, Step
<1>5. HeldAtStep'
    BY DEF Remove, At, TypeOK, HeldAtStep, Task
<1>6. CommandOfItsSlot'
    BY DEF Remove, At, TypeOK, CommandOfItsSlot, Command, Task
<1>7. Evidence'
    BY DEF Remove, At, TypeOK, HeldAtStep, Evidence, Task
<1> QED BY <1>4, <1>5, <1>6, <1>7 DEF IInv

(* Writing a command to the socket keeps the invariant. *)
LEMMA SendInvariant ==
    ASSUME IInv, NEW w \in Worker, Send(w)
    PROVE  IInv'
<1> USE DEF IInv
<1>4. TypeOK'
    BY DEF Send, At, GoTo, Command, Switch, HeldAtStep, TypeOK, row, Task, Step
<1>5. HeldAtStep'
    BY DEF Send, At, GoTo, Command, Switch, HeldAtStep, TypeOK, HeldAtStep, Task
<1>6. CommandOfItsSlot'
    BY DEF Send, At, GoTo, Command, Switch, HeldAtStep, TypeOK, CommandOfItsSlot, Command, Task
<1>7. Evidence'
    BY DEF Send, At, GoTo, Command, Switch, HeldAtStep, TypeOK, HeldAtStep, Evidence, Task
<1> QED BY <1>4, <1>5, <1>6, <1>7 DEF IInv

(* The gateway carrying out a command keeps the invariant: the handler that
   still waits for it gets its first evidence, all others see the relay move. *)
LEMMA ExecuteInvariant ==
    ASSUME IInv, NEW c \in wire, Execute(c)
    PROVE  IInv'
<1> USE DEF IInv
<1>1. c.by \in Worker /\ c.rel \in Relay /\ c.val \in Switch
    BY DEF TypeOK, Command
<1>2. Witness(c.rel, c.val) \in [Worker -> SUBSET Switch]
    BY <1>1 DEF Witness, TypeOK
<1>3. relay' = [relay EXCEPT ![c.rel] = c.val]
    BY DEF Execute
<1>4. CASE At(c.by, "await")
  <2>1. /\ task' = [task EXCEPT ![c.by].pc = "acked"]
        /\ witnessed' = [Witness(c.rel, c.val) EXCEPT ![c.by] = {c.val}]
    BY <1>4 DEF Execute, GoTo
  <2>2. task' \in [Worker -> Task]
    BY <1>1, <2>1 DEF TypeOK, Task, Step
  <2>3. witnessed' \in [Worker -> SUBSET Switch]
    BY <1>1, <1>2, <2>1
  <2>4. TypeOK'
    BY <1>1, <2>2, <2>3 DEF Execute, TypeOK, row
  <2>5. HeldAtStep'
    BY <1>1, <1>4, <2>1 DEF TypeOK, HeldAtStep, Task, At
  <2>6. CommandOfItsSlot'
    BY <1>1, <1>4, <2>1 DEF Execute, TypeOK, CommandOfItsSlot, Command, Task, At
  <2>7. Evidence'
    <3>1. task'[c.by].val = c.val /\ task'[c.by].rel = c.rel
      BY <1>1, <1>4, <2>1 DEF TypeOK, CommandOfItsSlot, At, Task
    <3>2. {c.val, relay'[c.rel]} \subseteq witnessed'[c.by]
      BY <1>1, <1>2, <1>3, <2>1 DEF TypeOK
    <3>3. ASSUME NEW w \in Worker, w # c.by,
                 task'[w].pc \in {"acked", "join", "write"}, task'[w].val # "unknown"
          PROVE  {task'[w].val, relay'[task'[w].rel]} \subseteq witnessed'[w]
      <4>1. task'[w] = task[w] /\ witnessed'[w] = Witness(c.rel, c.val)[w]
        BY <1>1, <1>2, <2>1, <3>3 DEF TypeOK
      <4>2. {task[w].val, relay[task[w].rel]} \subseteq witnessed[w]
        BY <3>3, <4>1 DEF Evidence
      <4> QED BY <1>1, <1>3, <4>1, <4>2 DEF Witness, TypeOK, Task
    <3> QED BY <3>1, <3>2, <3>3 DEF Evidence
  <2> QED BY <2>4, <2>5, <2>6, <2>7
<1>5. CASE ~At(c.by, "await")
  <2>1. task' = task /\ witnessed' = Witness(c.rel, c.val)
    BY <1>5 DEF Execute
  <2>2. TypeOK'
    BY <1>1, <1>2, <2>1 DEF Execute, TypeOK, row
  <2>3. HeldAtStep' /\ CommandOfItsSlot'
    BY <2>1 DEF Execute, HeldAtStep, CommandOfItsSlot, At
  <2>4. Evidence'
    BY <1>1, <1>3, <2>1 DEF Evidence, Witness, TypeOK, Task
  <2> QED BY <2>2, <2>3, <2>4
<1> QED BY <1>4, <1>5

(* Losing a command keeps the invariant. *)
LEMMA LoseInvariant ==
    ASSUME IInv, NEW c \in wire, Lose(c)
    PROVE  IInv'
<1> USE DEF IInv
<1>4. TypeOK'
    BY DEF Lose, At, TypeOK, row, Task, Step
<1>5. HeldAtStep'
    BY DEF Lose, At, TypeOK, HeldAtStep, Task
<1>6. CommandOfItsSlot'
    BY DEF Lose, At, TypeOK, CommandOfItsSlot, Command, Task
<1>7. Evidence'
    BY DEF Lose, At, TypeOK, HeldAtStep, Evidence, Task
<1> QED BY <1>4, <1>5, <1>6, <1>7 DEF IInv

(* Receiving the answer keeps the invariant. *)
LEMMA AnswerInvariant ==
    ASSUME IInv, NEW w \in Worker, Answer(w)
    PROVE  IInv'
<1> USE DEF IInv
<1>4. TypeOK'
    BY DEF Answer, At, GoTo, TypeOK, row, Task, Step
<1>5. HeldAtStep'
    BY DEF Answer, At, GoTo, TypeOK, HeldAtStep, Task
<1>6. CommandOfItsSlot'
    BY DEF Answer, At, GoTo, TypeOK, CommandOfItsSlot, Command, Task
<1>7. Evidence'
    BY DEF Answer, At, GoTo, TypeOK, HeldAtStep, Evidence, Task
<1> QED BY <1>4, <1>5, <1>6, <1>7 DEF IInv

(* Giving a command up keeps the invariant. *)
LEMMA FailInvariant ==
    ASSUME IInv, NEW w \in Worker, Fail(w)
    PROVE  IInv'
<1> USE DEF IInv
<1>4. TypeOK'
    BY BlankIsTask DEF Fail, At, Finish, Blank, TypeOK, row, Task, Step
<1>5. HeldAtStep'
    BY BlankIsTask DEF Fail, At, Finish, Blank, TypeOK, HeldAtStep, Task
<1>6. CommandOfItsSlot'
    BY BlankIsTask DEF Fail, At, Finish, Blank, TypeOK, CommandOfItsSlot, Command, Task
<1>7. Evidence'
    BY BlankIsTask DEF Fail, At, Finish, Blank, TypeOK, HeldAtStep, Evidence, Task
<1> QED BY <1>4, <1>5, <1>6, <1>7 DEF IInv

(* A connection made keeps the invariant. *)
LEMMA ConnectInvariant ==
    ASSUME IInv, NEW w \in Worker, Connect(w)
    PROVE  IInv'
<1> USE DEF IInv
<1>4. TypeOK'
  <2> DEFINE t == [task[w] EXCEPT !.pc = "read", !.up = TRUE]
  <2>1. t \in Task
    BY DEF TypeOK, Task, Step
  <2>2. task' = [task EXCEPT ![w] = t]
    BY DEF Connect, TypeOK, Task
  <2> HIDE DEF t
  <2>3. task' \in [Worker -> Task]
    BY <2>1, <2>2 DEF TypeOK
  <2> QED BY <2>3 DEF Connect, TypeOK, row
<1>5. HeldAtStep'
    BY DEF Connect, At, TypeOK, HeldAtStep, Task
<1>6. CommandOfItsSlot'
    BY DEF Connect, At, TypeOK, CommandOfItsSlot, Command, Task
<1>7. Evidence'
    BY DEF Connect, At, TypeOK, HeldAtStep, Evidence, Task
<1> QED BY <1>4, <1>5, <1>6, <1>7 DEF IInv

(* A connection refused keeps the invariant. *)
LEMMA ConnectFailsInvariant ==
    ASSUME IInv, NEW w \in Worker, ConnectFails(w)
    PROVE  IInv'
<1> USE DEF IInv
<1>4. TypeOK'
    BY DEF ConnectFails, At, GoTo, AfterCheck, TypeOK, row, Task, Step
<1>5. HeldAtStep'
    BY DEF ConnectFails, At, GoTo, AfterCheck, TypeOK, HeldAtStep, Task
<1>6. CommandOfItsSlot'
    BY DEF ConnectFails, At, GoTo, AfterCheck, TypeOK, CommandOfItsSlot, Command, Task
<1>7. Evidence'
    BY DEF ConnectFails, At, GoTo, AfterCheck, TypeOK, HeldAtStep, Evidence, Task
<1> QED BY <1>4, <1>5, <1>6, <1>7 DEF IInv

(* Reading the contact keeps the invariant: the read is the evidence. *)
LEMMA ReadInvariant ==
    ASSUME IInv, NEW w \in Worker, Read(w)
    PROVE  IInv'
<1> USE DEF IInv
<1>4. TypeOK'
  <2> DEFINE v == relay[task[w].rel]
             t == [task[w] EXCEPT !.pc = AfterCheck(w), !.val = v]
  <2>1. v \in Switch
    BY DEF TypeOK, Task
  <2>2. t \in Task
    BY <2>1 DEF TypeOK, Task, Step, AfterCheck
  <2>3. task' = [task EXCEPT ![w] = t]
    BY DEF Read, TypeOK, Task
  <2> HIDE DEF t, v
  <2>4. task' \in [Worker -> Task]
    BY <2>2, <2>3 DEF TypeOK
  <2>5. witnessed' = [witnessed EXCEPT ![w] = {v}]
    BY DEF Read, v
  <2>6. witnessed' \in [Worker -> SUBSET Switch]
    BY <2>1, <2>5 DEF TypeOK
  <2> QED BY <2>4, <2>6 DEF Read, TypeOK, row
<1>5. HeldAtStep'
    BY DEF Read, At, AfterCheck, Switch, TypeOK, HeldAtStep, Task
<1>6. CommandOfItsSlot'
    BY DEF Read, At, AfterCheck, Switch, TypeOK, CommandOfItsSlot, Command, Task
<1>7. Evidence'
    BY DEF Read, At, AfterCheck, Switch, TypeOK, HeldAtStep, Evidence, Task
<1> QED BY <1>4, <1>5, <1>6, <1>7 DEF IInv

(* A failed read keeps the invariant. *)
LEMMA ReadFailsInvariant ==
    ASSUME IInv, NEW w \in Worker, ReadFails(w)
    PROVE  IInv'
<1> USE DEF IInv
<1>4. TypeOK'
    BY DEF ReadFails, At, GoTo, AfterCheck, TypeOK, row, Task, Step
<1>5. HeldAtStep'
    BY DEF ReadFails, At, GoTo, AfterCheck, TypeOK, HeldAtStep, Task
<1>6. CommandOfItsSlot'
    BY DEF ReadFails, At, GoTo, AfterCheck, TypeOK, CommandOfItsSlot, Command, Task
<1>7. Evidence'
    BY DEF ReadFails, At, GoTo, AfterCheck, TypeOK, HeldAtStep, Evidence, Task
<1> QED BY <1>4, <1>5, <1>6, <1>7 DEF IInv

(* Writing the row keeps the invariant. *)
LEMMA WriteRowInvariant ==
    ASSUME IInv, NEW w \in Worker, WriteRow(w)
    PROVE  IInv'
<1> USE DEF IInv
<1>4. TypeOK'
    BY BlankIsTask DEF WriteRow, At, Finish, Blank, Switch, TypeOK, row, Task, Step
<1>5. HeldAtStep'
    BY BlankIsTask DEF WriteRow, At, Finish, Blank, Switch, TypeOK, HeldAtStep, Task
<1>6. CommandOfItsSlot'
    BY BlankIsTask DEF WriteRow, At, Finish, Blank, Switch, TypeOK, CommandOfItsSlot, Command, Task
<1>7. Evidence'
    BY BlankIsTask DEF WriteRow, At, Finish, Blank, Switch, TypeOK, HeldAtStep, Evidence, Task
<1> QED BY <1>4, <1>5, <1>6, <1>7 DEF IInv

(* A write to a deleted row keeps the invariant. *)
LEMMA RowGoneInvariant ==
    ASSUME IInv, NEW w \in Worker, RowGone(w)
    PROVE  IInv'
<1> USE DEF IInv
<1>4. TypeOK'
    BY BlankIsTask DEF RowGone, At, Finish, Blank, TypeOK, row, Task, Step
<1>5. HeldAtStep'
    BY BlankIsTask DEF RowGone, At, Finish, Blank, TypeOK, HeldAtStep, Task
<1>6. CommandOfItsSlot'
    BY BlankIsTask DEF RowGone, At, Finish, Blank, TypeOK, CommandOfItsSlot, Command, Task
<1>7. Evidence'
    BY BlankIsTask DEF RowGone, At, Finish, Blank, TypeOK, HeldAtStep, Evidence, Task
<1> QED BY <1>4, <1>5, <1>6, <1>7 DEF IInv

(* A failed write keeps the invariant. *)
LEMMA DatabaseErrorInvariant ==
    ASSUME IInv, NEW w \in Worker, DatabaseError(w)
    PROVE  IInv'
<1> USE DEF IInv
<1>4. TypeOK'
    BY BlankIsTask DEF DatabaseError, At, Finish, Blank, TypeOK, row, Task, Step
<1>5. HeldAtStep'
    BY BlankIsTask DEF DatabaseError, At, Finish, Blank, TypeOK, HeldAtStep, Task
<1>6. CommandOfItsSlot'
    BY BlankIsTask DEF DatabaseError, At, Finish, Blank, TypeOK, CommandOfItsSlot, Command, Task
<1>7. Evidence'
    BY BlankIsTask DEF DatabaseError, At, Finish, Blank, TypeOK, HeldAtStep, Evidence, Task
<1> QED BY <1>4, <1>5, <1>6, <1>7 DEF IInv

(* Starting the job's checks keeps the invariant. *)
LEMMA JobStartInvariant ==
    ASSUME IInv, JobStart
    PROVE  IInv'
<1> USE DEF IInv
<1>4. TypeOK'
    BY SlotAssumption DEF JobStart, Snapshot, Active, At, Worker, TypeOK, row, Task, Step
<1>5. HeldAtStep'
    BY SlotAssumption DEF JobStart, Snapshot, Active, At, Worker, TypeOK, HeldAtStep, Task
<1>6. CommandOfItsSlot'
    BY SlotAssumption DEF JobStart, Snapshot, Active, At, Worker, TypeOK, CommandOfItsSlot, Command, Task
<1>7. Evidence'
    BY SlotAssumption DEF JobStart, Snapshot, Active, At, Worker, TypeOK, HeldAtStep, Evidence, Task
<1> QED BY <1>4, <1>5, <1>6, <1>7 DEF IInv

(* The job's barrier keeps the invariant. *)
LEMMA JobJoinInvariant ==
    ASSUME IInv, JobJoin
    PROVE  IInv'
<1> USE DEF IInv
<1>4. TypeOK'
  <2>1. \A w \in Worker : [task[w] EXCEPT !.pc = "write"] \in Task
    BY MovedIsTask DEF TypeOK, Step
  <2>2. task' \in [Worker -> Task]
    BY <2>1 DEF JobJoin, TypeOK
  <2> QED BY <2>2 DEF JobJoin, TypeOK, row
<1>5. HeldAtStep'
    BY DEF JobJoin, At, Worker, TypeOK, HeldAtStep, Task
<1>6. CommandOfItsSlot'
    BY DEF JobJoin, At, Worker, TypeOK, CommandOfItsSlot, Command, Task
<1>7. Evidence'
    BY DEF JobJoin, At, Worker, TypeOK, HeldAtStep, Evidence, Task
<1> QED BY <1>4, <1>5, <1>6, <1>7 DEF IInv

(* A crash keeps the invariant. *)
LEMMA CrashInvariant ==
    ASSUME IInv, Crash
    PROVE  IInv'
<1> USE DEF IInv
<1>4. TypeOK'
    BY BlankIsTask DEF Crash, At, Blank, TypeOK, row, Task, Step
<1>5. HeldAtStep'
    BY BlankIsTask DEF Crash, At, Blank, TypeOK, HeldAtStep, Task
<1>6. CommandOfItsSlot'
    BY BlankIsTask DEF Crash, At, Blank, TypeOK, CommandOfItsSlot, Command, Task
<1>7. Evidence'
    BY BlankIsTask DEF Crash, At, Blank, TypeOK, HeldAtStep, Evidence, Task
<1> QED BY <1>4, <1>5, <1>6, <1>7 DEF IInv

(* A relay moved by something else keeps the invariant. *)
LEMMA DriftInvariant ==
    ASSUME IInv, NEW r \in Relay, NEW v \in Switch, Drift(r, v)
    PROVE  IInv'
<1> USE DEF IInv
<1>4. TypeOK'
    BY DEF Drift, At, Witness, TypeOK, row, Task, Step
<1>5. HeldAtStep'
    BY DEF Drift, At, Witness, TypeOK, HeldAtStep, Task
<1>6. CommandOfItsSlot'
    BY DEF Drift, At, Witness, TypeOK, CommandOfItsSlot, Command, Task
<1>7. Evidence'
    BY DEF Drift, At, Witness, TypeOK, HeldAtStep, Evidence, Task
<1> QED BY <1>4, <1>5, <1>6, <1>7 DEF IInv

(* A gateway going away keeps the invariant. *)
LEMMA UnplugInvariant ==
    ASSUME IInv, NEW g \in Gateway, Unplug(g)
    PROVE  IInv'
<1> USE DEF IInv
<1>4. TypeOK'
    BY DEF Unplug, At, TypeOK, row, Task, Step
<1>5. HeldAtStep'
    BY DEF Unplug, At, TypeOK, HeldAtStep, Task
<1>6. CommandOfItsSlot'
    BY DEF Unplug, At, TypeOK, CommandOfItsSlot, Command, Task
<1>7. Evidence'
    BY DEF Unplug, At, TypeOK, HeldAtStep, Evidence, Task
<1> QED BY <1>4, <1>5, <1>6, <1>7 DEF IInv

(* A gateway coming back keeps the invariant. *)
LEMMA PlugInvariant ==
    ASSUME IInv, NEW g \in Gateway, Plug(g)
    PROVE  IInv'
<1> USE DEF IInv
<1>4. TypeOK'
    BY DEF Plug, At, TypeOK, row, Task, Step
<1>5. HeldAtStep'
    BY DEF Plug, At, TypeOK, HeldAtStep, Task
<1>6. CommandOfItsSlot'
    BY DEF Plug, At, TypeOK, CommandOfItsSlot, Command, Task
<1>7. Evidence'
    BY DEF Plug, At, TypeOK, HeldAtStep, Evidence, Task
<1> QED BY <1>4, <1>5, <1>6, <1>7 DEF IInv

(* Every step keeps the invariant.                                         *)
LEMMA NextInvariant == IInv /\ [Next]_vars => IInv'
<1> SUFFICES ASSUME IInv, [Next]_vars PROVE IInv'
    OBVIOUS
<1>1. CASE Orders
    BY <1>1, ControlInvariant, UpdateInvariant DEF Orders
<1>2. CASE Upkeep
    BY <1>2, SyncInvariant, CreateInvariant, RemoveInvariant DEF Upkeep
<1>3. CASE Service
    BY <1>3, SendInvariant, AnswerInvariant, ConnectInvariant, ReadInvariant,
       WriteRowInvariant, RowGoneInvariant, ExecuteInvariant, JobStartInvariant,
       JobJoinInvariant DEF Service, Progress
<1>4. CASE Faults
    BY <1>4, FailInvariant, ConnectFailsInvariant, ReadFailsInvariant,
       DatabaseErrorInvariant, LoseInvariant, DriftInvariant, UnplugInvariant,
       CrashInvariant DEF Faults, GiveUp
<1>5. CASE \E g \in Gateway : Plug(g)
    BY <1>5, PlugInvariant
<1>6. CASE UNCHANGED vars
    BY <1>6 DEF vars, row, IInv, TypeOK, HeldAtStep, CommandOfItsSlot, Evidence, At
<1> QED BY <1>1, <1>2, <1>3, <1>4, <1>5, <1>6 DEF Next

(* Every reachable state satisfies the inductive invariant: in particular  *)
(* every variable has its type.                                            *)
THEOREM Invariance == Spec => []IInv
<1> QED BY InitInvariant, NextInvariant, PTL DEF Spec

(* Type correctness of the device rows, the relays and the handlers.       *)
THEOREM TypeCorrect == Spec => []TypeOK
<1>1. IInv => TypeOK
    BY DEF IInv
<1> QED BY <1>1, Invariance, PTL

(* What a handler is about to write is a state the relay really had since  *)
(* the handler's evidence, however commands, timeouts, crashes and other   *)
(* handlers interleave: setRelay's O and readRelay's 0 or 1 are sound.     *)
THEOREM WritesRestOnEvidence == Spec => []Evidence
<1>1. IInv => Evidence
    BY DEF IInv
<1> QED BY <1>1, Invariance, PTL

(* The state shown for a device changes only to a state a handler of that  *)
(* device has evidence for (repo.update after setRelay or after a check).  *)
THEOREM ShownOnlyIfObserved == Spec => ObservedBeforeShown
<1>1. ASSUME IInv, Next PROVE ShowsWhatWasObserved
  <2>1. ASSUME NEW w \in Worker, WriteRow(w) PROVE ShowsWhatWasObserved
      BY <1>1, <2>1 DEF ShowsWhatWasObserved, WriteRow, At, IInv, TypeOK, Evidence, Task
  <2>2. ASSUME NEW w \in Request, NEW d \in Device, NEW r \in Relay, Create(w, d, r) PROVE ShowsWhatWasObserved
      BY <1>1, <2>2 DEF ShowsWhatWasObserved, Create, IInv, TypeOK
  <2>3. isOn' = isOn \/ (\E w \in Worker : WriteRow(w))
                    \/ (\E w \in Request, d \in Device, r \in Relay : Create(w, d, r))
      BY <1>1 DEF Next, Orders, Upkeep, Service, Faults, Progress, GiveUp, Control, Sync,
         Update, Remove, Send, Execute, Lose, Answer, Fail, Connect, ConnectFails, Read,
         ReadFails, RowGone, DatabaseError, JobStart, JobJoin, Crash, Drift, Unplug, Plug, row
  <2> QED BY <2>1, <2>2, <2>3 DEF ShowsWhatWasObserved
<1>2. IInv /\ [Next]_vars => [ShowsWhatWasObserved]_vars
    BY <1>1
<1> QED BY <1>2, Invariance, PTL DEF Spec, ObservedBeforeShown

(* A deleted device stays deleted, and no late write of a handler or of    *)
(* the job changes what its row last said.                                 *)
THEOREM DeletionIsFinal == Spec => GoneForGood
<1>1. ASSUME IInv, Next PROVE LeavesTheDeadAlone
  <2>1. ASSUME NEW w \in Worker, WriteRow(w) PROVE LeavesTheDeadAlone
      BY <1>1, <2>1 DEF LeavesTheDeadAlone, WriteRow, IInv, TypeOK, Task
  <2>2. ASSUME NEW w \in Request, NEW d \in Device, NEW r \in Relay, Create(w, d, r) PROVE LeavesTheDeadAlone
      BY <1>1, <2>2 DEF LeavesTheDeadAlone, Create, IInv, TypeOK
  <2>3. ASSUME NEW d \in Device, Remove(d) PROVE LeavesTheDeadAlone
      BY <1>1, <2>3 DEF LeavesTheDeadAlone, Remove, IInv, TypeOK
  <2>4. ASSUME NEW d \in Device, NEW r \in Relay, Update(d, r) PROVE LeavesTheDeadAlone
      BY <2>4 DEF LeavesTheDeadAlone, Update
  <2>5. \/ UNCHANGED row
        \/ \E w \in Worker : WriteRow(w)
        \/ \E w \in Request, d \in Device, r \in Relay : Create(w, d, r)
        \/ \E d \in Device : Remove(d)
        \/ \E d \in Device, r \in Relay : Update(d, r)
      BY <1>1 DEF Next, Orders, Upkeep, Service, Faults, Progress, GiveUp, Control, Sync,
         Send, Execute, Lose, Answer, Fail, Connect, ConnectFails, Read, ReadFails, RowGone,
         DatabaseError, JobStart, JobJoin, Crash, Drift, Unplug, Plug
  <2> QED BY <2>1, <2>2, <2>3, <2>4, <2>5 DEF LeavesTheDeadAlone, row
<1>2. IInv /\ [Next]_vars => [LeavesTheDeadAlone]_vars
    BY <1>1
<1> QED BY <1>2, Invariance, PTL DEF Spec, GoneForGood

------------------------------------------------------------------------------
(* The handlers implement the mirror (DeviceRelay, Promise).  First, what  *)
(* a step does to the jobs: a step that leaves every worker its device,    *)
(* relay and evidence is not seen by the mirror.                           *)
LEMMA SameJobs ==
    ASSUME \A w \in Worker : /\ Active(w)' = Active(w)
                             /\ Active(w) => JobOf(w)' = JobOf(w)
    PROVE  jobs' = jobs
BY DEF jobs

(* A worker's move from one step to the next that brings no evidence.      *)
LEMMA MoveKeepsJobs ==
    ASSUME task \in [Worker -> Task], NEW w \in Worker, NEW pc \in Step, GoTo(w, pc),
           Active(w), pc # "idle",
           task[w].val = "unknown" \/ (task[w].pc \in {"acked", "join", "write"}
                                          <=> pc \in {"acked", "join", "write"})
    PROVE  jobs' = jobs
<1>1. task' = [task EXCEPT ![w] = [task[w] EXCEPT !.pc = pc]]
    BY DEF GoTo
<1>2. ASSUME NEW x \in Worker
      PROVE  Active(x)' = Active(x) /\ (Active(x) => JobOf(x)' = JobOf(x))
    BY <1>1, <1>2 DEF Active, JobOf, Task
<1> QED BY <1>2, SameJobs

(* The jobs of the workers in S are dropped, the others untouched.         *)
LEMMA DropJobs ==
    ASSUME NEW S \in SUBSET Worker,
           \A w \in Worker : task'[w] = IF w \in S THEN Blank ELSE task[w],
           UNCHANGED <<used, live, endpoint, isOn, relay>>
    PROVE  Promise!Next
<1>1. jobs' = [w \in Worker |-> IF w \in S THEN Blank ELSE jobs[w]]
    BY DEF jobs, Active, JobOf, Blank
<1>2. Promise!Drop(S)
    BY <1>1 DEF Promise!Drop
<1> QED BY <1>2 DEF Promise!Next

LEMMA FinishDrops ==
    ASSUME task \in [Worker -> Task], NEW w \in Worker, Finish(w),
           UNCHANGED <<used, live, endpoint, isOn, relay>>
    PROVE  Promise!Next
<1>1. \A x \in Worker : task'[x] = IF x \in {w} THEN Blank ELSE task[x]
    BY DEF Finish
<1> QED BY <1>1, DropJobs

(* Orders and upkeep begin jobs, rewire, register and forget.              *)
LEMMA ControlTakes ==
    ASSUME IInv, NEW w \in Request, NEW d \in Device, NEW v \in Switch, Control(w, d, v)
    PROVE  Promise!Next
<1> DEFINE of == [x \in {w} |-> d]
<1>1. w \in Worker /\ ~Active(w) /\ jobs[w] = Blank
    BY DEF Control, Free, Worker, jobs
<1>2. task' = [task EXCEPT ![w] = Snapshot("command", "send", d, v)] /\ task \in [Worker -> Task]
    BY DEF Control, IInv, TypeOK
<1>3. JobOf(w)' = Promise!For(d, endpoint[d]) /\ Active(w)'
    BY <1>1, <1>2 DEF JobOf, Active, Snapshot, Promise!For
<1>4. \A x \in Worker \ {w} : task'[x] = task[x]
    BY <1>1, <1>2
<1>5. jobs' = [x \in Worker |-> IF x \in {w} THEN Promise!For(of[x], endpoint[of[x]]) ELSE jobs[x]]
    BY <1>1, <1>3, <1>4 DEF jobs, JobOf, Active
<1>6. Promise!Take({w}, of)
    BY <1>1, <1>5 DEF Promise!Take, Control, row
<1>7. {w} \in SUBSET Worker /\ of \in [{w} -> Device]
    BY <1>1
<1> HIDE DEF of
<1> QED BY <1>6, <1>7 DEF Promise!Next

LEMMA SyncTakes ==
    ASSUME IInv, NEW w \in Request, NEW d \in Device, Sync(w, d)
    PROVE  Promise!Next
<1> DEFINE of == [x \in {w} |-> d]
<1>1. w \in Worker /\ ~Active(w) /\ jobs[w] = Blank
    BY DEF Sync, Free, Worker, jobs
<1>2. task' = [task EXCEPT ![w] = Snapshot("check", "probe", d, "unknown")] /\ task \in [Worker -> Task]
    BY DEF Sync, IInv, TypeOK
<1>3. JobOf(w)' = Promise!For(d, endpoint[d]) /\ Active(w)'
    BY <1>1, <1>2 DEF JobOf, Active, Snapshot, Promise!For
<1>4. \A x \in Worker \ {w} : task'[x] = task[x]
    BY <1>1, <1>2
<1>5. jobs' = [x \in Worker |-> IF x \in {w} THEN Promise!For(of[x], endpoint[of[x]]) ELSE jobs[x]]
    BY <1>1, <1>3, <1>4 DEF jobs, JobOf, Active
<1>6. Promise!Take({w}, of)
    BY <1>1, <1>5 DEF Promise!Take, Sync, row
<1>7. {w} \in SUBSET Worker /\ of \in [{w} -> Device]
    BY <1>1
<1> HIDE DEF of
<1> QED BY <1>6, <1>7 DEF Promise!Next

LEMMA CreateRegisters ==
    ASSUME IInv, NEW w \in Request, NEW d \in Device, NEW r \in Relay, Create(w, d, r)
    PROVE  Promise!Next
<1> DEFINE t == [Snapshot("check", "probe", d, "unknown") EXCEPT !.rel = r]
<1>1. w \in Worker /\ ~Active(w) /\ jobs[w] = Blank
    BY DEF Create, Free, Worker, jobs
<1>2. task' = [task EXCEPT ![w] = t] /\ task \in [Worker -> Task]
    BY DEF Create, IInv, TypeOK
<1>3. t.pc = "probe" /\ t.dev = d /\ t.rel = r
    BY DEF Snapshot
<1> HIDE DEF t
<1>4. JobOf(w)' = Promise!For(d, r) /\ Active(w)'
    BY <1>1, <1>2, <1>3 DEF JobOf, Active, Promise!For
<1>5. \A x \in Worker \ {w} : task'[x] = task[x]
    BY <1>1, <1>2
<1>6. jobs' = [jobs EXCEPT ![w] = Promise!For(d, r)]
    BY <1>1, <1>4, <1>5 DEF jobs, JobOf, Active
<1>7. Promise!Register(w, d, r)
    BY <1>1, <1>6 DEF Promise!Register, Create
<1> QED BY <1>1, <1>7 DEF Promise!Next

LEMMA JobStartTakes ==
    ASSUME IInv, JobStart
    PROVE  Promise!Next
<1> DEFINE of == [x \in live |-> x]
<1>1. live \subseteq Device /\ live \subseteq Worker /\ task \in [Worker -> Task]
    BY DEF IInv, TypeOK, Worker
<1>2. \A x \in Worker : task'[x] = IF x \in live THEN Snapshot("check", "probe", x, "unknown")
                                   ELSE task[x]
    BY DEF JobStart
<1>3. \A x \in live : ~Active(x) /\ jobs[x] = Blank
    BY <1>1 DEF JobStart, jobs
<1>4. ASSUME NEW x \in live PROVE Active(x)' /\ JobOf(x)' = Promise!For(x, endpoint[x])
  <2>1. task'[x] = Snapshot("check", "probe", x, "unknown")
      BY <1>1, <1>2
  <2> QED BY <2>1 DEF Active, JobOf, Snapshot, Promise!For
<1>5. \A x \in Worker \ live : Active(x)' = Active(x) /\ JobOf(x)' = JobOf(x)
    BY <1>2 DEF Active, JobOf
<1>6. jobs' = [x \in Worker |-> IF x \in live THEN Promise!For(of[x], endpoint[of[x]]) ELSE jobs[x]]
    BY <1>1, <1>4, <1>5 DEF jobs
<1>7. Promise!Take(live, of)
    BY <1>3, <1>6 DEF Promise!Take, JobStart, row
<1>8. live \in SUBSET Worker /\ of \in [live -> Device]
    BY <1>1
<1> HIDE DEF of
<1> QED BY <1>7, <1>8 DEF Promise!Next

(* The evidence: a command is carried out, a contact is read.              *)
LEMMA ExecuteSees ==
    ASSUME IInv, NEW c \in wire, Execute(c)
    PROVE  Promise!Next
<1>1. c.by \in Worker /\ c.rel \in Relay /\ c.val \in Switch /\ task \in [Worker -> Task]
    BY DEF IInv, TypeOK, Command
<1>2. CASE At(c.by, "await")
  <2>1. task[c.by].rel = c.rel /\ task[c.by].val = c.val
      BY <1>2 DEF IInv, CommandOfItsSlot
  <2>2. task' = [task EXCEPT ![c.by] = [task[c.by] EXCEPT !.pc = "acked"]]
      BY <1>2 DEF Execute, GoTo
  <2>3. Active(c.by) /\ Active(c.by)' /\ jobs[c.by] = JobOf(c.by) /\ JobOf(c.by).val = "unknown"
      BY <1>1, <1>2, <2>2 DEF Active, At, jobs, JobOf
  <2>4. JobOf(c.by)' = [JobOf(c.by) EXCEPT !.val = c.val]
      BY <1>1, <2>1, <2>2 DEF JobOf, Task
  <2>5. \A x \in Worker \ {c.by} : Active(x)' = Active(x) /\ JobOf(x)' = JobOf(x)
      BY <1>1, <2>2 DEF Active, JobOf
  <2>6. jobs' = [jobs EXCEPT ![c.by] = [jobs[c.by] EXCEPT !.val = c.val]]
      BY <1>1, <2>3, <2>4, <2>5 DEF jobs
  <2>7. jobs[c.by] \in Promise!Job /\ jobs[c.by].rel = c.rel
      BY <1>1, <2>1, <2>3 DEF JobOf, Task, Promise!Job, Promise!Switch
  <2>8. Promise!See(c.by, c.val)
      BY <2>3, <2>6, <2>7 DEF Promise!See, Execute, row
  <2> QED BY <1>1, <2>8 DEF Promise!Next, Promise!Switch, Switch
<1>3. CASE ~At(c.by, "await")
  <2>1. jobs' = jobs
      BY <1>3, SameJobs DEF Execute, Active, JobOf
  <2>2. Promise!Move(c.rel, c.val)
      BY <2>1 DEF Promise!Move, Execute, row
  <2> QED BY <1>1, <2>2 DEF Promise!Next, Promise!Switch, Switch
<1> QED BY <1>2, <1>3

LEMMA ReadLooks ==
    ASSUME IInv, NEW w \in Worker, Read(w)
    PROVE  Promise!Next
<1> DEFINE v == relay[task[w].rel]
           t == [task[w] EXCEPT !.pc = AfterCheck(w), !.val = v]
<1>1. task \in [Worker -> Task] /\ task[w] \in Task /\ relay \in [Relay -> Switch]
    BY DEF IInv, TypeOK
<1>2. v \in Switch /\ AfterCheck(w) \in {"join", "write"}
    BY <1>1 DEF Task, AfterCheck
<1>3. t.pc \in {"join", "write"} /\ t.val = v /\ t.dev = task[w].dev /\ t.rel = task[w].rel
    BY <1>1, <1>2 DEF Task
<1>4. task' = [task EXCEPT ![w] = t] /\ task[w].pc = "read"
    BY DEF Read, At
<1> HIDE DEF t
<1>5. Active(w) /\ Active(w)' /\ jobs[w] = JobOf(w) /\ JobOf(w).val = "unknown"
    BY <1>1, <1>3, <1>4 DEF Active, jobs, JobOf
<1>6. JobOf(w)' = [JobOf(w) EXCEPT !.val = v]
    BY <1>1, <1>3, <1>4 DEF JobOf
<1>7. \A x \in Worker \ {w} : Active(x)' = Active(x) /\ JobOf(x)' = JobOf(x)
    BY <1>1, <1>4 DEF Active, JobOf
<1>8. jobs' = [jobs EXCEPT ![w] = [jobs[w] EXCEPT !.val = v]]
    BY <1>5, <1>6, <1>7 DEF jobs
<1>9. jobs[w] \in Promise!Job /\ jobs[w].rel = task[w].rel
    BY <1>1, <1>5 DEF JobOf, Task, Promise!Job, Promise!Switch
<1>10. relay' = [relay EXCEPT ![task[w].rel] = v]
    BY <1>1 DEF Read, Task
<1>11. Promise!See(w, v)
    BY <1>5, <1>8, <1>9, <1>10 DEF Promise!See, Read, row
<1>12. Promise!Look(w)
    BY <1>9, <1>11 DEF Promise!Look
<1> QED BY <1>12 DEF Promise!Next

LEMMA WriteReports ==
    ASSUME IInv, NEW w \in Worker, WriteRow(w)
    PROVE  Promise!Next
<1>1. task \in [Worker -> Task] /\ task[w] \in Task /\ task[w].pc = "write"
    BY DEF IInv, TypeOK, WriteRow, At
<1>2. Finish(w) /\ UNCHANGED <<used, live, endpoint, relay>> /\ task[w].dev \in live
    BY DEF WriteRow
<1>3. CASE task[w].val = "unknown"
  <2>1. isOn' = isOn
      BY <1>3 DEF WriteRow
  <2> QED BY <1>1, <1>2, <2>1, FinishDrops
<1>4. CASE task[w].val # "unknown"
  <2>1. Active(w) /\ jobs[w] = JobOf(w) /\ jobs[w].val = task[w].val /\ jobs[w].dev = task[w].dev
      BY <1>1 DEF Active, jobs, JobOf
  <2>2. jobs[w] \in Promise!Job
      BY <1>1, <2>1 DEF JobOf, Task, Promise!Job, Promise!Switch, Switch
  <2>3. task' = [task EXCEPT ![w] = Blank]
      BY <1>2 DEF Finish
  <2>4. ~Active(w)' /\ \A x \in Worker \ {w} : Active(x)' = Active(x) /\ JobOf(x)' = JobOf(x)
      BY <1>1, <2>3 DEF Active, JobOf, Blank
  <2>5. jobs' = [jobs EXCEPT ![w] = Blank]
      BY <2>4 DEF jobs
  <2>6. isOn' = [isOn EXCEPT ![jobs[w].dev] = jobs[w].val]
      BY <1>4, <2>1 DEF WriteRow
  <2>7. Promise!Report(w)
      BY <1>2, <1>4, <2>1, <2>2, <2>5, <2>6 DEF Promise!Report
  <2> QED BY <2>7 DEF Promise!Next
<1> QED BY <1>3, <1>4

(* The initial states are initial states of the mirror, and every step is  *)
(* a step of the mirror or leaves it alone.                                *)
LEMMA InitMirrors == Init => Promise!Init
<1> SUFFICES ASSUME Init PROVE Promise!Init
    OBVIOUS
<1>1. \A w \in Worker : ~Active(w)
    BY DEF Init, Active, Blank
<1>2. jobs = [w \in Worker |-> Blank]
    BY <1>1 DEF jobs
<1>3. live = used /\ used \subseteq Device
    BY InstalledAssumption DEF Init
<1> QED BY <1>2, <1>3 DEF Init, Promise!Init, Promise!Switch, Switch

LEMMA StepMirrors == IInv /\ [Next]_vars => [Promise!Next]_(Promise!mvars)
<1> SUFFICES ASSUME IInv, [Next]_vars PROVE Promise!Next \/ UNCHANGED Promise!mvars
    OBVIOUS
<1> USE DEF Promise!mvars
<1>0. task \in [Worker -> Task] /\ Request \subseteq Worker
    BY DEF IInv, TypeOK, Worker
<1>1. CASE Orders
  <2>1. ASSUME NEW d \in Device, NEW r \in Relay, Update(d, r) PROVE Promise!Next
    <3>1. jobs' = jobs
        BY <2>1, SameJobs DEF Update, Active, JobOf
    <3>2. Promise!Rewire(d, r)
        BY <2>1, <3>1 DEF Promise!Rewire, Update
    <3> QED BY <3>2 DEF Promise!Next
  <2> QED BY <1>1, <2>1, ControlTakes DEF Orders
<1>2. CASE Upkeep
  <2>1. ASSUME NEW d \in Device, Remove(d) PROVE Promise!Next
    <3>1. jobs' = jobs
        BY <2>1, SameJobs DEF Remove, Active, JobOf
    <3>2. Promise!Forget(d)
        BY <2>1, <3>1 DEF Promise!Forget, Remove
    <3> QED BY <3>2 DEF Promise!Next
  <2> QED BY <1>2, <2>1, SyncTakes, CreateRegisters DEF Upkeep
<1>3. CASE Service
  <2>1. ASSUME NEW w \in Worker, Send(w) PROVE UNCHANGED Promise!mvars
    <3>1. jobs' = jobs
        BY <1>0, <2>1, MoveKeepsJobs DEF Send, At, Active, Step
    <3> QED BY <2>1, <3>1 DEF Send, row
  <2>2. ASSUME NEW w \in Worker, Answer(w) PROVE UNCHANGED Promise!mvars
    <3>1. jobs' = jobs
        BY <1>0, <2>2, MoveKeepsJobs DEF Answer, At, Active, Step
    <3> QED BY <2>2, <3>1 DEF Answer, row
  <2>3. ASSUME NEW w \in Worker, Connect(w) PROVE UNCHANGED Promise!mvars
    <3> DEFINE t == [task[w] EXCEPT !.pc = "read", !.up = TRUE]
    <3>1. t.pc = "read" /\ t.dev = task[w].dev /\ t.rel = task[w].rel /\ t.val = task[w].val
        BY <1>0 DEF Task
    <3>2. task' = [task EXCEPT ![w] = t] /\ task[w].pc = "probe"
        BY <2>3 DEF Connect, At
    <3> HIDE DEF t
    <3>3. jobs' = jobs
        BY <1>0, <3>1, <3>2, SameJobs DEF Active, JobOf
    <3> QED BY <2>3, <3>3 DEF Connect, row
  <2>4. ASSUME NEW w \in Worker, RowGone(w) PROVE Promise!Next
      BY <1>0, <2>4, FinishDrops DEF RowGone, row
  <2>5. ASSUME JobJoin PROVE UNCHANGED Promise!mvars
    <3>1. ASSUME NEW x \in Worker
          PROVE  Active(x)' = Active(x) /\ (Active(x) => JobOf(x)' = JobOf(x))
      <4> DEFINE t == [task[x] EXCEPT !.pc = "write"]
      <4>1. t.pc = "write" /\ t.dev = task[x].dev /\ t.rel = task[x].rel /\ t.val = task[x].val
          BY <1>0 DEF Task
      <4>2. task'[x] = IF x \in Device /\ At(x, "join") THEN t ELSE task[x]
          BY <2>5 DEF JobJoin
      <4> HIDE DEF t
      <4> QED BY <4>1, <4>2 DEF Active, JobOf, At
    <3>2. jobs' = jobs
        BY <3>1, SameJobs
    <3> QED BY <2>5, <3>2 DEF JobJoin, row
  <2> QED BY <1>3, <2>1, <2>2, <2>3, <2>4, <2>5, ReadLooks, WriteReports, ExecuteSees, JobStartTakes
          DEF Service, Progress
<1>4. CASE Faults
  <2>1. ASSUME NEW w \in Worker, Fail(w) \/ DatabaseError(w) PROVE Promise!Next
      BY <1>0, <2>1, FinishDrops DEF Fail, DatabaseError, row
  <2>2. ASSUME NEW w \in Worker, ConnectFails(w) \/ ReadFails(w) PROVE UNCHANGED Promise!mvars
    <3>1. task[w].pc \in {"probe", "read"} /\ GoTo(w, AfterCheck(w)) /\ AfterCheck(w) \in {"join", "write"}
        BY <2>2 DEF ConnectFails, ReadFails, At, AfterCheck
    <3>2. task[w].val = "unknown"
        BY <3>1 DEF IInv, HeldAtStep
    <3>3. jobs' = jobs
        BY <1>0, <3>1, <3>2, MoveKeepsJobs DEF Active, Step
    <3> QED BY <2>2, <3>3 DEF ConnectFails, ReadFails, row
  <2>3. ASSUME NEW c \in wire, Lose(c) PROVE UNCHANGED Promise!mvars
    <3>1. jobs' = jobs
        BY <2>3, SameJobs DEF Lose, Active, JobOf
    <3> QED BY <2>3, <3>1 DEF Lose, row
  <2>4. ASSUME NEW r \in Relay, NEW v \in Switch, Drift(r, v) PROVE Promise!Next
    <3>1. jobs' = jobs
        BY <2>4, SameJobs DEF Drift, Active, JobOf
    <3>2. Promise!Move(r, v)
        BY <2>4, <3>1 DEF Promise!Move, Drift, row
    <3> QED BY <3>2 DEF Promise!Next, Promise!Switch, Switch
  <2>5. ASSUME NEW g \in Gateway, Unplug(g) PROVE UNCHANGED Promise!mvars
    <3>1. jobs' = jobs
        BY <2>5, SameJobs DEF Unplug, Active, JobOf
    <3> QED BY <2>5, <3>1 DEF Unplug, row
  <2>6. ASSUME Crash PROVE Promise!Next
      BY <2>6, DropJobs DEF Crash, row
  <2> QED BY <1>4, <2>1, <2>2, <2>3, <2>4, <2>5, <2>6 DEF Faults, GiveUp
<1>5. ASSUME NEW g \in Gateway, Plug(g) PROVE UNCHANGED Promise!mvars
  <2>1. jobs' = jobs
      BY <1>5, SameJobs DEF Plug, Active, JobOf
  <2> QED BY <1>5, <2>1 DEF Plug, row
<1>6. CASE UNCHANGED vars
  <2>1. jobs' = jobs
      BY <1>6, SameJobs DEF vars, Active, JobOf
  <2> QED BY <1>6, <2>1 DEF vars, row
<1> QED BY <1>1, <1>2, <1>3, <1>4, <1>5, <1>6 DEF Next

(* Everything DeviceRelay models, at any number of devices, relays,        *)
(* gateways and handlers, implements the mirror.                           *)
THEOREM RefinesMirror == Spec => ImplementsMirror
<1> QED BY InitMirrors, StepMirrors, Invariance, PTL DEF Spec, ImplementsMirror, Promise!Spec
==============================================================================
