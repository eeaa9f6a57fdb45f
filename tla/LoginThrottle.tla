---------------------------- MODULE LoginThrottle ----------------------------
(***************************************************************************)
(* AuthService.login and AuthAttemptService: the failed logins of one      *)
(* address are rows in auth_attempt_logs, and a login is refused while     *)
(* enough of them are recent.  The count, the check of the password and    *)
(* the insert are separate awaits.                                         *)
(***************************************************************************)
EXTENDS Naturals, FiniteSets

CONSTANTS
    Attempt,        \* ids of log rows; bounds the logins of a behaviour
    Request,        \* slots for concurrent logins from the address
    LIMIT, WINDOW,  \* IP_BLOCK_LIMIT, IP_BLOCK_WINDOW_MIN
    MaxTime         \* bound on the clock, in minutes

ASSUME SizeAssumption == IsFiniteSet(Attempt) /\ IsFiniteSet(Request)
ASSUME LimitAssumption == LIMIT \in Nat \ {0} /\ WINDOW \in Nat /\ MaxTime \in Nat

VARIABLES
    now,        \* the clock of the API and of the database
    rows,       \* failure rows inserted so far
    log,        \* what each row says
    task        \* how far the login in each slot is

throttleVars == <<now, rows, log, task>>

Reason == {"INVALID_CREDENTIALS", "IP_BLOCKED"}

ThrottleTypeOK ==
    /\ now \in 0..MaxTime
    /\ rows \subseteq Attempt
    /\ log \in [Attempt -> [at: 0..MaxTime, reason: Reason]]
    /\ task \in [Request -> {"idle", "admitted", "blocked"}]

ThrottleInit ==
    /\ now = 0
    /\ rows = {}
    /\ log = [a \in Attempt |-> [at |-> 0, reason |-> "IP_BLOCKED"]]
    /\ task = [q \in Request |-> "idle"]

(* Mutant of Since: what is just as old as the window is left out.         *)
SinceOpen(t) == {a \in rows : log[a].at <= t /\ log[a].at + WINDOW > t}

(* The failures a count at minute t would find.                            *)
Since(t) == {a \in rows : log[a].at <= t /\ log[a].at + WINDOW >= t}

(* Mutant of IsBlocked: the limit itself is still let through.             *)
IsPastLimit(t) == Cardinality(Since(t)) > LIMIT

IsBlocked(t) == Cardinality(Since(t)) >= LIMIT

------------------------------------------------------------------------------
Login(q) ==
    /\ task[q] = "idle"
    /\ task' = [task EXCEPT ![q] = IF IsBlocked(now) THEN "blocked" ELSE "admitted"]
    /\ UNCHANGED <<now, rows, log>>

(* A failure row, stamped when it is inserted.                             *)
RecordFailure(q, reason) ==
    /\ \E a \in Attempt \ rows :
           /\ rows' = rows \cup {a}
           /\ log' = [log EXCEPT ![a] = [at |-> now, reason |-> reason]]
    /\ task' = [task EXCEPT ![q] = "idle"]
    /\ UNCHANGED now

(* A refusal is a failure like any other, and counts.                      *)
Refuse(q) == task[q] = "blocked" /\ RecordFailure(q, "IP_BLOCKED")

(* No such user, or not their password.                                    *)
Reject(q) == task[q] = "admitted" /\ RecordFailure(q, "INVALID_CREDENTIALS")

(* A success row is not counted and resets nothing; and a login that dies  *)
(* before its insert leaves no row.                                        *)
LoginEnds(q) ==
    /\ task[q] # "idle"
    /\ task' = [task EXCEPT ![q] = "idle"]
    /\ UNCHANGED <<now, rows, log>>

Tick ==
    /\ now < MaxTime
    /\ now' = now + 1
    /\ UNCHANGED <<rows, log, task>>

ThrottleNext ==
    \/ \E q \in Request : Login(q) \/ Refuse(q) \/ Reject(q) \/ LoginEnds(q)
    \/ Tick

ThrottleSpec == ThrottleInit /\ [][ThrottleNext]_throttleVars

------------------------------------------------------------------------------
(* The wrong logins that are WINDOW minutes old at minute t, or younger.   *)
Guesses(t) == {a \in rows : /\ t \in log[a].at..(log[a].at + WINDOW)
                            /\ log[a].reason = "INVALID_CREDENTIALS"}

Admitted == {q \in Request : task[q] = "admitted"}

(* In every window the limit is passed by the logins in flight at most:    *)
(* rows plus logins past the check never exceed the LIMIT - 1 a check lets *)
(* through and one login per slot, with a guess of just now and one just   *)
(* as old as the window among them.                                        *)
GuessesBounded ==
    Cardinality(Guesses(now)) + Cardinality(Admitted) <= LIMIT - 1 + Cardinality(Request)

(* With the clock's part: no row is stamped ahead of it.                   *)
ThrottleInv == ThrottleTypeOK /\ GuessesBounded /\ \A a \in rows : log[a].at <= now
==============================================================================
