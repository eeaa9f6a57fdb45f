------------------------------ MODULE AuthTokens ------------------------------
(***************************************************************************)
(* The refresh-token rows and the handlers that read and write them:       *)
(* AuthTokensService (issueTokenPair, rotate, revokeOne), the token part   *)
(* of AuthService.login, TokenCleanupJob, and the cascade of deleting a    *)
(* user.  rotate reads the row, revokes it and inserts the next one in     *)
(* three separate database calls, without a transaction: any other handler *)
(* may run between them.                                                   *)
(*                                                                         *)
(* A session is what one login starts: the token it issued and every token *)
(* rotated from it.  It is named by its first token.                       *)
(***************************************************************************)
EXTENDS Naturals, FiniteSets

CONSTANTS
    Token,      \* refresh tokens; each carries a random jti, so all differ
    User,       \* login ids; a deleted id may be registered again
    Request,    \* slots for concurrent HTTP handlers
    None

ASSUME NoneAssumption == None \notin Token /\ None \notin User

VARIABLES
    users,      \* ids with a row in users
    st,         \* the row of a token: not yet issued, live, revoked, deleted
    owner,      \* its userId (and the sub of its JWT)
    expired,    \* tokens past their expiry, in the JWT and in the row alike
    session,    \* history: the session a token belongs to
    flushed,    \* history: sessions there were when reuse detection fired
    task        \* the handler in each slot

tokens == <<st, owner, session>>
vars == <<users, st, owner, expired, session, flushed, task>>

Step == {"idle", "loginIssue", "rotateRevoke", "rotateIssue", "revokeAll", "logoutRevoke"}
Task == [pc: Step, tok: Token \cup {None}, user: User \cup {None}]
Blank == [pc |-> "idle", tok |-> None, user |-> None]

TypeOK ==
    /\ users \subseteq User
    /\ st \in [Token -> {"unborn", "live", "revoked", "gone"}]
    /\ owner \in [Token -> User \cup {None}]
    /\ expired \subseteq Token
    /\ session \in [Token -> Token \cup {None}]
    /\ flushed \subseteq Token
    /\ task \in [Request -> Task]

Init ==
    /\ users = User
    /\ st = [t \in Token |-> "unborn"]
    /\ owner = [t \in Token |-> None]
    /\ expired = {}
    /\ session = [t \in Token |-> None]
    /\ flushed = {}
    /\ task = [q \in Request |-> Blank]

Idle(q) == task[q].pc = "idle"
Start(q, pc, t, u) == task' = [task EXCEPT ![q] = [pc |-> pc, tok |-> t, user |-> u]]
GoTo(q, pc) == task' = [task EXCEPT ![q].pc = pc]
Finish(q) == task' = [task EXCEPT ![q] = Blank]

(* The session whose rotation is under way in slot q, past the read of its *)
(* token.                                                                  *)
Rotating(q, s) ==
    /\ task[q].pc \in {"rotateRevoke", "rotateIssue"}
    /\ session[task[q].tok] = s

------------------------------------------------------------------------------
(* login: the user is found and the password right; the attempt is logged  *)
(* before the tokens are issued.                                           *)
Login(q, u) ==
    /\ Idle(q)
    /\ u \in users
    /\ Start(q, "loginIssue", None, u)
    /\ UNCHANGED <<users, tokens, expired, flushed>>

(* Mutant of Rotate: no reuse detection.                                   *)
RotateUnchecked(q, t) ==
    /\ Idle(q)
    /\ st[t] \in {"live", "revoked"}
    /\ t \notin expired
    /\ Start(q, "rotateRevoke", t, owner[t])
    /\ UNCHANGED <<users, tokens, expired, flushed>>

(* rotate, to the end of its read: the JWT verifies (so is not expired),   *)
(* the row is there, and it is live.                                       *)
Rotate(q, t) ==
    /\ Idle(q)
    /\ st[t] = "live"
    /\ t \notin expired
    /\ Start(q, "rotateRevoke", t, owner[t])
    /\ UNCHANGED <<users, tokens, expired, flushed>>

(* ... and it is revoked: the token is being used a second time.  A row    *)
(* that is gone is TOKEN_INVALID and changes nothing.                      *)
RotateReused(q, t) ==
    /\ Idle(q)
    /\ st[t] = "revoked"
    /\ t \notin expired
    /\ Start(q, "revokeAll", t, owner[t])
    /\ UNCHANGED <<users, tokens, expired, flushed>>

(* Mutant of RotateRevoke: the next token is issued first.                 *)
RotateRevokeLater(q) ==
    /\ task[q].pc = "rotateRevoke"
    /\ st[task[q].tok] # "gone"
    /\ GoTo(q, "rotateIssue")
    /\ UNCHANGED <<users, tokens, expired, flushed>>

(* revokeRefreshToken does not look at revokedAt again; it fails (P2025)   *)
(* only when the row has been deleted.                                     *)
RotateRevoke(q) ==
    /\ task[q].pc = "rotateRevoke"
    /\ st[task[q].tok] # "gone"
    /\ st' = [st EXCEPT ![task[q].tok] = "revoked"]
    /\ GoTo(q, "rotateIssue")
    /\ UNCHANGED <<users, owner, expired, session, flushed>>

(* issueTokenPair for the session s: the user must still exist (P2003).    *)
Issue(q, t, s) ==
    /\ task[q].user \in users
    /\ st[t] = "unborn"
    /\ st' = [st EXCEPT ![t] = "live"]
    /\ owner' = [owner EXCEPT ![t] = task[q].user]
    /\ session' = [session EXCEPT ![t] = s]
    /\ Finish(q)
    /\ UNCHANGED <<users, expired, flushed>>

LoginIssue(q, t) == task[q].pc = "loginIssue" /\ Issue(q, t, t)

RotateIssue(q, t) ==
    task[q].pc = "rotateIssue" /\ Issue(q, t, session[task[q].tok])

(* Reuse detection: updateMany on the user's tokens not yet revoked.       *)
RevokeAll(q) ==
    /\ task[q].pc = "revokeAll"
    /\ st' = [t \in Token |-> IF st[t] = "live" /\ owner[t] = task[q].user
                              THEN "revoked" ELSE st[t]]
    /\ flushed' = flushed \cup {session[t] : t \in {x \in Token :
                                    st[x] # "unborn" /\ owner[x] = task[q].user}}
    /\ Finish(q)
    /\ UNCHANGED <<users, owner, expired, session>>

(* logout: revokeOne finds the row live, then revokes it.                  *)
Logout(q, t) ==
    /\ Idle(q)
    /\ st[t] = "live"
    /\ Start(q, "logoutRevoke", t, None)
    /\ UNCHANGED <<users, tokens, expired, flushed>>

LogoutRevoke(q) ==
    /\ task[q].pc = "logoutRevoke"
    /\ st[task[q].tok] # "gone"
    /\ st' = [st EXCEPT ![task[q].tok] = "revoked"]
    /\ Finish(q)
    /\ UNCHANGED <<users, owner, expired, session, flushed>>

(* The handler ends in an error: the row it updates is gone, the user it   *)
(* issues for is gone, the database fails, or the process dies.            *)
Abort(q) ==
    /\ ~Idle(q)
    /\ Finish(q)
    /\ UNCHANGED <<users, tokens, expired, flushed>>

------------------------------------------------------------------------------
Expire(t) ==
    /\ st[t] \in {"live", "revoked"}
    /\ t \notin expired
    /\ expired' = expired \cup {t}
    /\ UNCHANGED <<users, tokens, flushed, task>>

(* purgeExpiredTokens: one deleteMany, revoked or past expiry.             *)
Purge ==
    /\ \E t \in Token : st[t] = "revoked" \/ (st[t] = "live" /\ t \in expired)
    /\ st' = [t \in Token |-> IF st[t] = "revoked" \/ (st[t] = "live" /\ t \in expired)
                              THEN "gone" ELSE st[t]]
    /\ UNCHANGED <<users, owner, expired, session, flushed, task>>

(* Mutant of DeleteUser: the token rows are kept.                          *)
DeleteUserOnly(u) ==
    /\ u \in users
    /\ users' = users \ {u}
    /\ UNCHANGED <<tokens, expired, flushed, task>>

(* onDelete: Cascade.                                                      *)
DeleteUser(u) ==
    /\ u \in users
    /\ users' = users \ {u}
    /\ st' = [t \in Token |-> IF owner[t] = u THEN "gone" ELSE st[t]]
    /\ UNCHANGED <<owner, expired, session, flushed, task>>

CreateUser(u) ==
    /\ u \in User \ users
    /\ users' = users \cup {u}
    /\ UNCHANGED <<tokens, expired, flushed, task>>

------------------------------------------------------------------------------
(* Everything but the first step of a rotation.                            *)
Others ==
    \/ \E q \in Request, u \in User : Login(q, u)
    \/ \E q \in Request, t \in Token : RotateReused(q, t) \/ Logout(q, t)
    \/ \E q \in Request, t \in Token : LoginIssue(q, t) \/ RotateIssue(q, t)
    \/ \E q \in Request : RotateRevoke(q) \/ RevokeAll(q) \/ LogoutRevoke(q) \/ Abort(q)
    \/ \E t \in Token : Expire(t)
    \/ Purge
    \/ \E u \in User : DeleteUser(u) \/ CreateUser(u)

Next == Others \/ \E q \in Request, t \in Token : Rotate(q, t)

Spec == Init /\ [][Next]_vars

(* A client that refreshes a session once at a time, as the refreshPromise *)
(* of the web client's fetcher.ts means to.                                *)
SingleFlight(q, t) ==
    /\ \A p \in Request : ~Rotating(p, session[t])
    /\ Rotate(q, t)

SerialNext == Others \/ \E q \in Request, t \in Token : SingleFlight(q, t)

SerialSpec == Init /\ [][SerialNext]_vars

------------------------------------------------------------------------------
NoneLive(s) == \A t \in Token : session[t] = s => st[t] # "live"

(* A session that has no live token and no rotation past its read is over. *)
Over(s) == NoneLive(s) /\ \A q \in Request : ~Rotating(q, s)

(* Logout, reuse detection and cleanup are final for a session that has no *)
(* live token left, whatever is done later with its old ones, but for the  *)
(* rotations that were past their read by then: no other begins, and each  *)
(* of those brings back one token at most.                                 *)
StaysOver ==
    \A s \in Token : st[s] # "unborn" /\ NoneLive(s) =>
        /\ \A q \in Request : Rotating(q, s)' => Rotating(q, s)
        /\ \A t \in Token : session'[t] = s /\ st'[t] = "live" =>
               /\ \E q \in Request : Rotating(q, s) /\ ~Rotating(q, s)'
               /\ \A x \in Token : session'[x] = s /\ st'[x] = "live" => x = t

OverIsFinal == [][StaysOver]_vars

(* rotate spends the old token before it issues the next one: a crash or   *)
(* an error between the two costs the user the session, it never leaves    *)
(* both tokens usable.                                                     *)
SpentBeforeIssue ==
    \A q \in Request : task[q].pc = "rotateIssue" => st[task[q].tok] \in {"revoked", "gone"}

(* Every issued token belongs to a session whose first token was issued.   *)
KnownSessions ==
    \A t \in Token : IF st[t] = "unborn" THEN session[t] = None /\ owner[t] = None
                     ELSE session[t] \in Token /\ st[session[t]] # "unborn"

(* A handler that works on a token works on one that was issued.           *)
KnownTokens ==
    \A q \in Request :
        task[q].pc \in {"rotateRevoke", "rotateIssue", "revokeAll", "logoutRevoke"}
            => task[q].tok \in Token /\ st[task[q].tok] # "unborn"

(* No live token outlives its user: the cascade and the foreign key leave  *)
(* no gap, even for a token issued while the user is being deleted.        *)
LiveHasUser == \A t \in Token : st[t] = "live" => owner[t] \in users

IInv == TypeOK /\ KnownSessions /\ KnownTokens /\ SpentBeforeIssue /\ LiveHasUser

(* README: rotation discards the old token and issues a new one.  A        *)
(* session then has one live token at most.                                *)
OneLivePerSession ==
    \A t1, t2 \in Token :
        st[t1] = "live" /\ st[t2] = "live" /\ session[t1] = session[t2] => t1 = t2

(* A rotation under way is the only one of its session, and from its read  *)
(* on no other token of the session is live.                               *)
RotationOwnsSession ==
    /\ \A p, q \in Request, s \in Token : Rotating(p, s) /\ Rotating(q, s) => p = q
    /\ \A q \in Request, t \in Token :
           Rotating(q, session[t]) /\ st[t] = "live"
               => task[q].pc = "rotateRevoke" /\ t = task[q].tok

SerialInv == IInv /\ OneLivePerSession /\ RotationOwnsSession
==============================================================================
