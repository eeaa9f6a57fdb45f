------------------------------- MODULE Mirror -------------------------------
(***************************************************************************)
(* What the service promises about the state it shows for a device, with   *)
(* no handlers, sockets, timers or crashes: somebody takes a job for a     *)
(* device and notes the relay its row names at that moment, sees the state *)
(* that relay has, and reports it.  Jobs may be dropped at any time.       *)
(* DeviceRelay is shown to implement this.                                 *)
(***************************************************************************)
CONSTANTS
    Device,   \* device ids
    Relay,    \* relay positions
    Worker,   \* who may hold a job
    NoJob     \* what a worker without a job holds

VARIABLES
    used,     \* device ids given out
    live,     \* devices that exist
    endpoint, \* the relay a device is wired to
    shown,    \* the state shown for a device
    relay,    \* the state of each relay
    job       \* what each worker is at

mvars == <<used, live, endpoint, shown, relay, job>>

Switch == {"on", "off"}

Job == [dev: Device, rel: Relay, val: Switch \cup {"unknown"}]

Init ==
    /\ used \subseteq Device
    /\ live = used
    /\ endpoint \in [Device -> Relay]
    /\ relay \in [Relay -> Switch]
    /\ shown = [d \in Device |-> IF d \in live THEN relay[endpoint[d]] ELSE "off"]
    /\ job = [w \in Worker |-> NoJob]

(* A job for d, of which the relay it is about is known and nothing else.  *)
For(d, r) == [dev |-> d, rel |-> r, val |-> "unknown"]

Register(w, d, r) ==
    /\ d \notin used
    /\ job[w] = NoJob
    /\ used' = used \cup {d}
    /\ live' = live \cup {d}
    /\ endpoint' = [endpoint EXCEPT ![d] = r]
    /\ shown' = [shown EXCEPT ![d] = "off"]
    /\ job' = [job EXCEPT ![w] = For(d, r)]
    /\ UNCHANGED relay

Rewire(d, r) ==
    /\ d \in live
    /\ endpoint' = [endpoint EXCEPT ![d] = r]
    /\ UNCHANGED <<used, live, shown, relay, job>>

Forget(d) ==
    /\ d \in live
    /\ live' = live \ {d}
    /\ UNCHANGED <<used, endpoint, shown, relay, job>>

(* Some workers take jobs for devices that exist.                          *)
Take(S, of) ==
    /\ \A w \in S : job[w] = NoJob /\ of[w] \in live
    /\ job' = [w \in Worker |-> IF w \in S THEN For(of[w], endpoint[of[w]]) ELSE job[w]]
    /\ UNCHANGED <<used, live, endpoint, shown, relay>>

Move(r, v) ==
    /\ relay' = [relay EXCEPT ![r] = v]
    /\ UNCHANGED <<used, live, endpoint, shown, job>>

(* The holder of a job sees its relay, having moved it or not.             *)
See(w, v) ==
    /\ job[w] \in Job /\ job[w].val = "unknown"
    /\ job' = [job EXCEPT ![w] = [job[w] EXCEPT !.val = v]]
    /\ relay' = [relay EXCEPT ![job[w].rel] = v]
    /\ UNCHANGED <<used, live, endpoint, shown>>

Look(w) == job[w] \in Job /\ See(w, relay[job[w].rel])

(* What was seen is shown, if the device still exists.                     *)
Report(w) ==
    /\ job[w] \in Job /\ job[w].val # "unknown" /\ job[w].dev \in live
    /\ shown' = [shown EXCEPT ![job[w].dev] = job[w].val]
    /\ job' = [job EXCEPT ![w] = NoJob]
    /\ UNCHANGED <<used, live, endpoint, relay>>

Drop(S) ==
    /\ job' = [w \in Worker |-> IF w \in S THEN NoJob ELSE job[w]]
    /\ UNCHANGED <<used, live, endpoint, shown, relay>>

Next ==
    \/ \E w \in Worker, d \in Device, r \in Relay : Register(w, d, r)
    \/ \E d \in Device, r \in Relay : Rewire(d, r)
    \/ \E d \in Device : Forget(d)
    \/ \E S \in SUBSET Worker : \E of \in [S -> Device] : Take(S, of)
    \/ \E r \in Relay, v \in Switch : Move(r, v)
    \/ \E w \in Worker, v \in Switch : See(w, v)
    \/ \E w \in Worker : Look(w) \/ Report(w)
    \/ \E S \in SUBSET Worker : Drop(S)

Spec == Init /\ [][Next]_mvars
==============================================================================
