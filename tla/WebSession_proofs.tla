-------------------------- MODULE WebSession_proofs --------------------------
(* Theorems of AuthTokens, for any number of users, tokens and concurrent  *)
(* handlers, and of WebSession, for any number of pages.                   *)
EXTENDS WebSession, TLAPS

(* The empty task has the type of a task.                                  *)
LEMMA BlankIsTask == Blank \in Task
BY DEF Blank, Task, Step

(* The invariant holds when the database has no tokens.                    *)
LEMMA InitInvariant == Init => IInv
BY BlankIsTask, NoneAssumption
   DEF Init, IInv, TypeOK, KnownSessions, KnownTokens, SpentBeforeIssue,
       LiveHasUser, Blank

(* IInv is kept by a login past its checks.                                *)
LEMMA LoginInvariant ==
    ASSUME IInv, NEW q \in Request, NEW u \in User, Login(q, u)
    PROVE  IInv'
<1> USE NoneAssumption DEF IInv, Login, Idle, Start, GoTo, Finish, Blank, Issue, tokens
<1>1. TypeOK'
    BY BlankIsTask DEF TypeOK, Task, Step
<1>2. KnownSessions'
    BY DEF TypeOK, KnownSessions, KnownTokens, Task
<1>3. KnownTokens'
    BY DEF TypeOK, KnownTokens, Task
<1>4. SpentBeforeIssue'
    BY DEF TypeOK, KnownTokens, SpentBeforeIssue, Task
<1>5. LiveHasUser'
    BY DEF TypeOK, KnownTokens, LiveHasUser, Task
<1> QED BY <1>1, <1>2, <1>3, <1>4, <1>5

(* IInv is kept by a reuse detected.                                       *)
LEMMA RotateReusedInvariant ==
    ASSUME IInv, NEW q \in Request, NEW t \in Token, RotateReused(q, t)
    PROVE  IInv'
<1> USE NoneAssumption DEF IInv, RotateReused, Idle, Start, GoTo, Finish, Blank, Issue, tokens
<1>1. TypeOK'
    BY BlankIsTask DEF TypeOK, Task, Step, KnownSessions, KnownTokens
<1>2. KnownSessions'
    BY DEF TypeOK, KnownSessions, KnownTokens, Task
<1>3. KnownTokens'
    BY DEF TypeOK, KnownTokens, Task
<1>4. SpentBeforeIssue'
    BY DEF TypeOK, KnownTokens, SpentBeforeIssue, Task
<1>5. LiveHasUser'
    BY DEF TypeOK, KnownTokens, LiveHasUser, Task
<1> QED BY <1>1, <1>2, <1>3, <1>4, <1>5

(* IInv is kept by a rotation past its read.                               *)
LEMMA RotateInvariant ==
    ASSUME IInv, NEW q \in Request, NEW t \in Token, Rotate(q, t)
    PROVE  IInv'
<1> USE NoneAssumption DEF IInv, Rotate, Idle, Start, GoTo, Finish, Blank, Issue, tokens
<1>1. TypeOK'
    BY BlankIsTask DEF TypeOK, Task, Step, KnownSessions, KnownTokens
<1>2. KnownSessions'
    BY DEF TypeOK, KnownSessions, KnownTokens, Task
<1>3. KnownTokens'
    BY DEF TypeOK, KnownTokens, Task
<1>4. SpentBeforeIssue'
    BY DEF TypeOK, KnownTokens, SpentBeforeIssue, Task
<1>5. LiveHasUser'
    BY DEF TypeOK, KnownTokens, LiveHasUser, Task
<1> QED BY <1>1, <1>2, <1>3, <1>4, <1>5

(* IInv is kept by revoking the rotated token.                             *)
LEMMA RotateRevokeInvariant ==
    ASSUME IInv, NEW q \in Request, RotateRevoke(q)
    PROVE  IInv'
<1> USE NoneAssumption DEF IInv, RotateRevoke, Idle, Start, GoTo, Finish, Blank, Issue, tokens
<1>1. TypeOK'
    BY BlankIsTask DEF TypeOK, Task, Step
<1>2. KnownSessions'
    BY DEF TypeOK, KnownSessions, KnownTokens, Task
<1>3. KnownTokens'
    BY DEF TypeOK, KnownTokens, Task
<1>4. SpentBeforeIssue'
    BY DEF TypeOK, KnownTokens, SpentBeforeIssue, Task
<1>5. LiveHasUser'
    BY DEF TypeOK, KnownTokens, LiveHasUser, Task
<1> QED BY <1>1, <1>2, <1>3, <1>4, <1>5

(* IInv is kept by issuing a login's token.                                *)
LEMMA LoginIssueInvariant ==
    ASSUME IInv, NEW q \in Request, NEW t \in Token, LoginIssue(q, t)
    PROVE  IInv'
<1> USE NoneAssumption DEF IInv, LoginIssue, Idle, Start, GoTo, Finish, Blank, Issue, tokens
<1>1. TypeOK'
    BY BlankIsTask DEF TypeOK, Task, Step
<1>2. KnownSessions'
    BY DEF TypeOK, KnownSessions, KnownTokens, Task
<1>3. KnownTokens'
    BY DEF TypeOK, KnownTokens, Task
<1>4. SpentBeforeIssue'
    BY DEF TypeOK, KnownTokens, SpentBeforeIssue, Task
<1>5. LiveHasUser'
    BY DEF TypeOK, KnownTokens, LiveHasUser, Task
<1> QED BY <1>1, <1>2, <1>3, <1>4, <1>5

(* IInv is kept by issuing the next token.                                 *)
LEMMA RotateIssueInvariant ==
    ASSUME IInv, NEW q \in Request, NEW t \in Token, RotateIssue(q, t)
    PROVE  IInv'
<1> USE NoneAssumption DEF IInv, RotateIssue, Idle, Start, GoTo, Finish, Blank, Issue, tokens
<1>1. TypeOK'
    BY BlankIsTask DEF TypeOK, Task, Step, KnownSessions, KnownTokens
<1>2. KnownSessions'
    BY DEF TypeOK, KnownSessions, KnownTokens, Task
<1>3. KnownTokens'
    BY DEF TypeOK, KnownTokens, Task
<1>4. SpentBeforeIssue'
    BY DEF TypeOK, KnownTokens, SpentBeforeIssue, Task
<1>5. LiveHasUser'
    BY DEF TypeOK, KnownTokens, LiveHasUser, Task
<1> QED BY <1>1, <1>2, <1>3, <1>4, <1>5

(* IInv is kept by revoking all tokens of a user.                          *)
LEMMA RevokeAllInvariant ==
    ASSUME IInv, NEW q \in Request, RevokeAll(q)
    PROVE  IInv'
<1> USE NoneAssumption DEF IInv, RevokeAll, Idle, Start, GoTo, Finish, Blank, Issue, tokens
<1>1. TypeOK'
    BY BlankIsTask DEF TypeOK, Task, Step, KnownSessions, KnownTokens
<1>2. KnownSessions'
    BY DEF TypeOK, KnownSessions, KnownTokens, Task
<1>3. KnownTokens'
    BY DEF TypeOK, KnownTokens, Task
<1>4. SpentBeforeIssue'
    BY DEF TypeOK, KnownTokens, SpentBeforeIssue, Task
<1>5. LiveHasUser'
    BY DEF TypeOK, KnownTokens, LiveHasUser, Task
<1> QED BY <1>1, <1>2, <1>3, <1>4, <1>5

(* IInv is kept by a logout past its read.                                 *)
LEMMA LogoutInvariant ==
    ASSUME IInv, NEW q \in Request, NEW t \in Token, Logout(q, t)
    PROVE  IInv'
<1> USE NoneAssumption DEF IInv, Logout, Idle, Start, GoTo, Finish, Blank, Issue, tokens
<1>1. TypeOK'
    BY BlankIsTask DEF TypeOK, Task, Step
<1>2. KnownSessions'
    BY DEF TypeOK, KnownSessions, KnownTokens, Task
<1>3. KnownTokens'
    BY DEF TypeOK, KnownTokens, Task
<1>4. SpentBeforeIssue'
    BY DEF TypeOK, KnownTokens, SpentBeforeIssue, Task
<1>5. LiveHasUser'
    BY DEF TypeOK, KnownTokens, LiveHasUser, Task
<1> QED BY <1>1, <1>2, <1>3, <1>4, <1>5

(* IInv is kept by revoking the logged-out token.                          *)
LEMMA LogoutRevokeInvariant ==
    ASSUME IInv, NEW q \in Request, LogoutRevoke(q)
    PROVE  IInv'
<1> USE NoneAssumption DEF IInv, LogoutRevoke, Idle, Start, GoTo, Finish, Blank, Issue, tokens
<1>1. TypeOK'
    BY BlankIsTask DEF TypeOK, Task, Step
<1>2. KnownSessions'
    BY DEF TypeOK, KnownSessions, KnownTokens, Task
<1>3. KnownTokens'
    BY DEF TypeOK, KnownTokens, Task
<1>4. SpentBeforeIssue'
    BY DEF TypeOK, KnownTokens, SpentBeforeIssue, Task
<1>5. LiveHasUser'
    BY DEF TypeOK, KnownTokens, LiveHasUser, Task
<1> QED BY <1>1, <1>2, <1>3, <1>4, <1>5

(* IInv is kept by a handler ending in an error.                           *)
LEMMA AbortInvariant ==
    ASSUME IInv, NEW q \in Request, Abort(q)
    PROVE  IInv'
<1> USE NoneAssumption DEF IInv, Abort, Idle, Start, GoTo, Finish, Blank, Issue, tokens
<1>1. TypeOK'
    BY BlankIsTask DEF TypeOK, Task, Step
<1>2. KnownSessions'
    BY DEF TypeOK, KnownSessions, KnownTokens, Task
<1>3. KnownTokens'
    BY DEF TypeOK, KnownTokens, Task
<1>4. SpentBeforeIssue'
    BY DEF TypeOK, KnownTokens, SpentBeforeIssue, Task
<1>5. LiveHasUser'
    BY DEF TypeOK, KnownTokens, LiveHasUser, Task
<1> QED BY <1>1, <1>2, <1>3, <1>4, <1>5

(* IInv is kept by time passing.                                           *)
LEMMA ExpireInvariant ==
    ASSUME IInv, NEW t \in Token, Expire(t)
    PROVE  IInv'
<1> USE NoneAssumption DEF IInv, Expire, Idle, Start, GoTo, Finish, Blank, Issue, tokens
<1>1. TypeOK'
    BY BlankIsTask DEF TypeOK, Task, Step
<1>2. KnownSessions'
    BY DEF TypeOK, KnownSessions, KnownTokens, Task
<1>3. KnownTokens'
    BY DEF TypeOK, KnownTokens, Task
<1>4. SpentBeforeIssue'
    BY DEF TypeOK, KnownTokens, SpentBeforeIssue, Task
<1>5. LiveHasUser'
    BY DEF TypeOK, KnownTokens, LiveHasUser, Task
<1> QED BY <1>1, <1>2, <1>3, <1>4, <1>5

(* IInv is kept by the nightly cleanup.                                    *)
LEMMA PurgeInvariant ==
    ASSUME IInv, Purge
    PROVE  IInv'
<1> USE NoneAssumption DEF IInv, Purge, Idle, Start, GoTo, Finish, Blank, Issue, tokens
<1>1. TypeOK'
    BY BlankIsTask DEF TypeOK, Task, Step
<1>2. KnownSessions'
    BY DEF TypeOK, KnownSessions, KnownTokens, Task
<1>3. KnownTokens'
    BY DEF TypeOK, KnownTokens, Task
<1>4. SpentBeforeIssue'
    BY DEF TypeOK, KnownTokens, SpentBeforeIssue, Task
<1>5. LiveHasUser'
    BY DEF TypeOK, KnownTokens, LiveHasUser, Task
<1> QED BY <1>1, <1>2, <1>3, <1>4, <1>5

(* IInv is kept by deleting a user.                                        *)
LEMMA DeleteUserInvariant ==
    ASSUME IInv, NEW u \in User, DeleteUser(u)
    PROVE  IInv'
<1> USE NoneAssumption DEF IInv, DeleteUser, Idle, Start, GoTo, Finish, Blank, Issue, tokens
<1>1. TypeOK'
    BY BlankIsTask DEF TypeOK, Task, Step
<1>2. KnownSessions'
    BY DEF TypeOK, KnownSessions, KnownTokens, Task
<1>3. KnownTokens'
    BY DEF TypeOK, KnownTokens, Task
<1>4. SpentBeforeIssue'
    BY DEF TypeOK, KnownTokens, SpentBeforeIssue, Task
<1>5. LiveHasUser'
    BY DEF TypeOK, KnownTokens, LiveHasUser, Task
<1> QED BY <1>1, <1>2, <1>3, <1>4, <1>5

(* IInv is kept by creating a user.                                        *)
LEMMA CreateUserInvariant ==
    ASSUME IInv, NEW u \in User, CreateUser(u)
    PROVE  IInv'
<1> USE NoneAssumption DEF IInv, CreateUser, Idle, Start, GoTo, Finish, Blank, Issue, tokens
<1>1. TypeOK'
    BY BlankIsTask DEF TypeOK, Task, Step
<1>2. KnownSessions'
    BY DEF TypeOK, KnownSessions, KnownTokens, Task
<1>3. KnownTokens'
    BY DEF TypeOK, KnownTokens, Task
<1>4. SpentBeforeIssue'
    BY DEF TypeOK, KnownTokens, SpentBeforeIssue, Task
<1>5. LiveHasUser'
    BY DEF TypeOK, KnownTokens, LiveHasUser, Task
<1> QED BY <1>1, <1>2, <1>3, <1>4, <1>5

(* Every step but a rotation's first keeps the invariant.                  *)
LEMMA OthersInvariant == IInv /\ Others => IInv'
BY LoginInvariant, RotateReusedInvariant, RotateRevokeInvariant, LoginIssueInvariant,
   RotateIssueInvariant, RevokeAllInvariant, LogoutInvariant, LogoutRevokeInvariant,
   AbortInvariant, ExpireInvariant, PurgeInvariant, DeleteUserInvariant,
   CreateUserInvariant DEF Others

(* Every step keeps the invariant.                                         *)
LEMMA NextInvariant == IInv /\ [Next]_vars => IInv'
<1> SUFFICES ASSUME IInv, [Next]_vars PROVE IInv'
    OBVIOUS
<1>1. CASE Others
    BY <1>1, OthersInvariant
<1>2. CASE \E q \in Request, t \in Token : Rotate(q, t)
    BY <1>2, RotateInvariant
<1>3. CASE UNCHANGED vars
    BY <1>3 DEF vars, tokens, IInv, TypeOK, KnownSessions, KnownTokens, SpentBeforeIssue,
       LiveHasUser
<1> QED BY <1>1, <1>2, <1>3 DEF Next

(* The inductive invariant; it contains type correctness, and that rotate  *)
(* spends the old token before it issues the next one.                     *)
THEOREM Invariance == Spec => []IInv
<1> QED BY InitInvariant, NextInvariant, PTL DEF Spec

(* No token outlives its user.                                             *)
THEOREM NoOrphanSessions == Spec => []LiveHasUser
<1>1. IInv => LiveHasUser
    BY DEF IInv
<1> QED BY <1>1, Invariance, PTL

(* A crash, an error or any other handler between rotate's two writes      *)
(* never leaves the old token usable beside the next one.                  *)
THEOREM RotationSpendsFirst == Spec => []SpentBeforeIssue
<1>1. IInv => SpentBeforeIssue
    BY DEF IInv
<1> QED BY <1>1, Invariance, PTL

(* A session without a live token gets neither a new rotation nor a token  *)
(* but from a rotation that is under way: logout, reuse detection, expiry  *)
(* cleanup and deleting the user are final for all else.                   *)
LEMMA OverStep == IInv /\ Next => StaysOver
<1> SUFFICES ASSUME IInv, Next, NEW s \in Token, st[s] # "unborn", NoneLive(s)
             PROVE  /\ \A q \in Request : Rotating(q, s)' => Rotating(q, s)
                    /\ \A t \in Token : session'[t] = s /\ st'[t] = "live" =>
                           /\ \E q \in Request : Rotating(q, s) /\ ~Rotating(q, s)'
                           /\ \A x \in Token : session'[x] = s /\ st'[x] = "live" => x = t
    BY DEF StaysOver
<1> DEFINE NoNew == \A q \in Request : Rotating(q, s)' => Rotating(q, s)
           Dead == \A t \in Token : session'[t] = s => st'[t] # "live"
<1> USE NoneAssumption DEF IInv, TypeOK, NoneLive, Rotating, KnownTokens, Idle, Start, GoTo,
        Finish, Blank, tokens, Task
<1>1. ASSUME \E q \in Request, u \in User : Login(q, u)
      PROVE  NoNew /\ Dead
  <2>1. NoNew BY <1>1 DEF Login
  <2>2. Dead BY <1>1 DEF Login
  <2> QED BY <2>1, <2>2
<1>2. ASSUME \E q \in Request, t \in Token : RotateReused(q, t) \/ Logout(q, t)
      PROVE  NoNew /\ Dead
  <2>1. NoNew BY <1>2 DEF RotateReused, Logout
  <2>2. Dead BY <1>2 DEF RotateReused, Logout
  <2> QED BY <2>1, <2>2
<1>3. ASSUME NEW q \in Request, NEW t \in Token, LoginIssue(q, t) PROVE NoNew /\ Dead
  <2>1. NoNew BY <1>3 DEF LoginIssue, Issue
  <2>2. Dead BY <1>3 DEF LoginIssue, Issue
  <2> QED BY <2>1, <2>2
<1>4. ASSUME NEW q \in Request, NEW t \in Token, RotateIssue(q, t)
      PROVE  /\ NoNew
             /\ \/ Dead
                \/ /\ Rotating(q, s) /\ ~Rotating(q, s)'
                   /\ \A x \in Token : session'[x] = s /\ st'[x] = "live" => x = t
  <2>1. NoNew BY <1>4 DEF RotateIssue, Issue
  <2>2. CASE session[task[q].tok] = s
    <3>1. Rotating(q, s) /\ ~Rotating(q, s)' BY <1>4, <2>2 DEF RotateIssue, Issue
    <3>2. \A x \in Token : session'[x] = s /\ st'[x] = "live" => x = t
        BY <1>4 DEF RotateIssue, Issue
    <3> QED BY <2>1, <3>1, <3>2
  <2>3. CASE session[task[q].tok] # s
    <3>1. Dead BY <1>4, <2>3 DEF RotateIssue, Issue
    <3> QED BY <2>1, <3>1
  <2> QED BY <2>2, <2>3
<1>5. ASSUME \E q \in Request : RotateRevoke(q)
      PROVE  NoNew /\ Dead
  <2>1. NoNew BY <1>5 DEF RotateRevoke
  <2>2. Dead BY <1>5 DEF RotateRevoke
  <2> QED BY <2>1, <2>2
<1>6. ASSUME \E q \in Request : RevokeAll(q)
      PROVE  NoNew /\ Dead
  <2>1. NoNew BY <1>6 DEF RevokeAll
  <2>2. Dead BY <1>6 DEF RevokeAll
  <2> QED BY <2>1, <2>2
<1>7. ASSUME \E q \in Request : LogoutRevoke(q) \/ Abort(q)
      PROVE  NoNew /\ Dead
  <2>1. NoNew BY <1>7 DEF LogoutRevoke, Abort
  <2>2. Dead BY <1>7 DEF LogoutRevoke, Abort
  <2> QED BY <2>1, <2>2
<1>8. ASSUME \/ \E t \in Token : Expire(t)
           \/ Purge
           \/ \E u \in User : DeleteUser(u) \/ CreateUser(u)
      PROVE  NoNew /\ Dead
  <2>1. NoNew BY <1>8 DEF Expire, Purge, DeleteUser, CreateUser
  <2>2. Dead BY <1>8 DEF Expire, Purge, DeleteUser, CreateUser
  <2> QED BY <2>1, <2>2
<1>9. ASSUME \E q \in Request, t \in Token : Rotate(q, t)
      PROVE  NoNew /\ Dead
  <2>1. NoNew BY <1>9 DEF Rotate
  <2>2. Dead BY <1>9 DEF Rotate
  <2> QED BY <2>1, <2>2
<1>10. (NoNew /\ Dead) \/ \E q \in Request, t \in Token : RotateIssue(q, t)
  <2> HIDE DEF NoNew, Dead
  <2> QED BY <1>1, <1>2, <1>3, <1>5, <1>6, <1>7, <1>8, <1>9 DEF Next, Others
<1>11. CASE NoNew /\ Dead
    BY <1>11
<1>12. CASE \E q \in Request, t \in Token : RotateIssue(q, t)
  <2>1. PICK q \in Request, t \in Token : RotateIssue(q, t)
      BY <1>12
  <2>2. CASE Dead
      BY <1>4, <2>1, <2>2
  <2>3. CASE ~Dead
    <3>1. /\ NoNew /\ Rotating(q, s) /\ ~Rotating(q, s)'
          /\ \A x \in Token : session'[x] = s /\ st'[x] = "live" => x = t
        BY <1>4, <2>1, <2>3
    <3> QED BY <3>1
  <2> QED BY <2>2, <2>3
<1> QED BY <1>10, <1>11, <1>12

(* Once a session has no live token, no rotation of it begins, and what    *)
(* was under way brings back one token each.                               *)
THEOREM SessionsEndForGood == Spec => OverIsFinal
<1>1. IInv /\ [Next]_vars => [StaysOver]_vars
    BY OverStep
<1> QED BY <1>1, Invariance, PTL DEF Spec, OverIsFinal

------------------------------------------------------------------------------
(* The serial invariant holds when there are no tokens.                    *)
LEMMA SerialInit == Init => SerialInv
<1> SUFFICES ASSUME Init PROVE SerialInv
    OBVIOUS
<1>1. IInv
    BY InitInvariant
<1>2. OneLivePerSession /\ RotationOwnsSession
    BY DEF Init, OneLivePerSession, RotationOwnsSession, Rotating, Blank
<1> QED BY <1>1, <1>2 DEF SerialInv

(* When a session is refreshed once at a time, every step keeps the        *)
(* session's live token or its rotation unique.                            *)
LEMMA SerialStep == SerialInv /\ [SerialNext]_vars => SerialInv'
<1> SUFFICES ASSUME SerialInv, [SerialNext]_vars PROVE SerialInv'
    OBVIOUS
<1>0. IInv'
    BY NextInvariant DEF SerialInv, SerialNext, SingleFlight, Next
<1> SUFFICES OneLivePerSession' /\ RotationOwnsSession'
    BY <1>0 DEF SerialInv
<1> USE NoneAssumption DEF SerialInv, OneLivePerSession, RotationOwnsSession, IInv, TypeOK,
        Rotating, KnownTokens, KnownSessions, Idle, Start, GoTo, Finish, Blank, tokens, Task
<1>1. CASE \E q \in Request, u \in User : Login(q, u)
    BY <1>1 DEF Login
<1>2. CASE \E q \in Request, t \in Token : RotateReused(q, t) \/ Logout(q, t)
    BY <1>2 DEF RotateReused, Logout
<1>3. CASE \E q \in Request, t \in Token : LoginIssue(q, t)
    BY <1>3 DEF LoginIssue, Issue
<1>4. CASE \E q \in Request, t \in Token : RotateIssue(q, t)
    BY <1>4 DEF RotateIssue, Issue
<1>5. CASE \E q \in Request : RotateRevoke(q)
    BY <1>5 DEF RotateRevoke
<1>6. CASE \E q \in Request : RevokeAll(q)
    BY <1>6 DEF RevokeAll
<1>7. CASE \E q \in Request : LogoutRevoke(q)
    BY <1>7 DEF LogoutRevoke
<1>13. CASE \E q \in Request : Abort(q)
    BY <1>13 DEF Abort
<1>8. CASE \E t \in Token : Expire(t)
    BY <1>8 DEF Expire
<1>9. CASE Purge
    BY <1>9 DEF Purge
<1>10. CASE \E u \in User : DeleteUser(u) \/ CreateUser(u)
    BY <1>10 DEF DeleteUser, CreateUser
<1>11. CASE \E q \in Request, t \in Token : SingleFlight(q, t)
    BY <1>11 DEF SingleFlight, Rotate
<1>12. CASE UNCHANGED vars
    BY <1>12 DEF vars
<1> QED BY <1>1, <1>2, <1>3, <1>4, <1>5, <1>6, <1>7, <1>8, <1>9, <1>10, <1>11, <1>12,
        <1>13         DEF SerialNext, Others

(* A client that refreshes each session once at a time gets what README    *)
(* promises of rotation: one live token per session, through crashes,      *)
(* logouts, reuse detection, cleanup and user deletion.                    *)
THEOREM SingleFlightSuffices == SerialSpec => []OneLivePerSession
<1>1. SerialInv => OneLivePerSession
    BY DEF SerialInv
<1> QED BY <1>1, SerialInit, SerialStep, PTL DEF SerialSpec

------------------------------------------------------------------------------
(* A page and a caller are a slot.                                         *)
LEMMA Slots == \A x \in Page, c \in Caller : <<x, c>> \in Request
BY SlotsAssumption

(* The pages and the API take only steps of AuthTokens.                    *)
LEMMA WebStepIsStep == WebTypeOK /\ CallsAreServed /\ WebNext => Next \/ UNCHANGED vars
<1> SUFFICES ASSUME WebTypeOK, CallsAreServed, WebNext PROVE Next \/ UNCHANGED vars
    OBVIOUS
<1> USE SlotsAssumption DEF Caller, Refresher, WebTypeOK, CallsAreServed, At
<1>1. CASE \E p \in Page : PageStep(p)
    <2> PICK p \in Page : PageStep(p)
        BY <1>1
    <2>1. CASE ArriveLogout(p)
        BY <2>1 DEF ArriveLogout, Next, Others
    <2>2. CASE ~ArriveLogout(p)
        BY <2>2 DEF PageStep, FetcherRefresh, FetcherLeaves, NotifyRefresh, Refreshed,
               FetcherFails, NotifyFails, RestoreFails, Restored, LoggedIn, LoginFails,
               LoggedOut, Leave, Reload, Load
    <2> QED BY <2>1, <2>2
<1>2. CASE \E p \in Page, u \in User : SubmitLogin(p, u)
    BY <1>2 DEF SubmitLogin, Next, Others
<1>3. CASE \E p \in Page : StartLogout(p) \/ Reload(p) \/ Reopen(p) \/ AccessExpires(p)
    BY <1>3 DEF StartLogout, Reload, Reopen, AccessExpires, Load
<1>4. CASE \E q \in Request : Arrive(q)
    BY <1>4 DEF Arrive, Next, Others
<1>5. CASE \E q \in Request : Serve(q)
    BY <1>5 DEF Serve, Next, Others
<1>6. CASE \E q \in Request : Lose(q)
    BY <1>6 DEF Lose
<1>7. CASE SessionEnds
    BY <1>7 DEF SessionEnds, Next, Others
<1> QED BY <1>1, <1>2, <1>3, <1>4, <1>5, <1>6, <1>7 DEF WebNext, CallStep

(* Every step keeps the types.                                             *)
LEMMA TypeStep ==
    ASSUME WebTypeOK, TypeOK', CallsAreServed, WebNext
    PROVE  WebTypeOK'
<1> USE DEF WebTypeOK
<1>0. UNCHANGED <<store, user, clean>>
          /\ call' \in [Request -> [pc: CallState, tok: Token \cup {None}]] => WebTypeOK'
    BY DEF store
<1>1. ASSUME NEW p \in Page, FetcherRefresh(p)
      PROVE  WebTypeOK'
    <2>1. <<p, "fetcher">> \in Request
        BY Slots DEF Caller, Refresher
    <2> QED BY <1>1, <2>1, NoneAssumption DEF FetcherRefresh, Send, store, Comes, CallState
<1>2. ASSUME NEW p \in Page, NotifyRefresh(p)
      PROVE  WebTypeOK'
    <2>1. <<p, "notify">> \in Request
        BY Slots DEF Caller, Refresher
    <2> QED BY <1>2, <2>1, NoneAssumption DEF NotifyRefresh, Send, store, Comes, CallState
<1>3. ASSUME NEW p \in Page, StartLogout(p)
      PROVE  WebTypeOK'
    <2>1. <<p, "logout">> \in Request
        BY Slots DEF Caller, Refresher
    <2> QED BY <1>3, <2>1, NoneAssumption DEF StartLogout, Send, store, Comes, CallState
<1>4. ASSUME NEW p \in Page, NEW s \in Token \cup {None}, NEW l \in Token \cup {None},
             Load(p, s, l)
      PROVE  WebTypeOK'
    <2>1. <<p, "restore">> \in Request
        BY Slots DEF Caller, Refresher
    <2> QED BY <1>4, <2>1, NoneAssumption DEF Load, NoCall, Comes, CallState
<1>5. ASSUME NEW p \in Page, NEW c \in Refresher, Refreshed(p, c)
      PROVE  WebTypeOK'
    <2>1. <<p, c>> \in Request
        BY Slots DEF Caller
    <2>2. call' \in [Request -> [pc: CallState, tok: Token \cup {None}]]
        BY <1>5, <2>1, SMTT(30) DEF Refreshed, Comes, Returns, NoCall, CallState
    <2>3. /\ mem' \in [Page -> Token \cup {None}] /\ fresh' \subseteq Page
          /\ sess' \in [Page -> Token \cup {None}] /\ local' \in Token \cup {None}
        BY <1>5, <2>1 DEF Refreshed, Set
    <2>4. user' \subseteq Page /\ clean' \subseteq Page
        BY <1>5 DEF Refreshed, CleanAfterSet
    <2> QED BY <2>2, <2>3, <2>4
<1>6. ASSUME NEW p \in Page, NotifyFails(p)
      PROVE  WebTypeOK'
    <2>1. <<p, "notify">> \in Request
        BY Slots DEF Caller, Refresher
    <2> QED BY <1>6, <2>1, NoneAssumption DEF NotifyFails, Clear, Returns, NoCall, Comes,
                                              CallState, CleanAfterClear
<1>7. ASSUME NEW p \in Page, RestoreFails(p)
      PROVE  WebTypeOK'
    <2>1. <<p, "restore">> \in Request
        BY Slots DEF Caller, Refresher
    <2> QED BY <1>7, <2>1, NoneAssumption DEF RestoreFails, Clear, Returns, NoCall, Comes,
                                              CallState, CleanAfterClear
<1>8. ASSUME NEW p \in Page, LoggedOut(p)
      PROVE  WebTypeOK'
    <2>1. <<p, "logout">> \in Request
        BY Slots DEF Caller, Refresher
    <2> QED BY <1>8, <2>1, NoneAssumption DEF LoggedOut, Clear, Returns, NoCall, Comes,
                                              CallState, CleanAfterClear
<1>9. ASSUME NEW p \in Page, Restored(p)
      PROVE  WebTypeOK'
    <2>1. <<p, "restore">> \in Request
        BY Slots DEF Caller, Refresher
    <2> QED BY <1>9, <2>1, NoneAssumption DEF Restored, Returns, NoCall, store, Comes, CallState
<1>10. ASSUME NEW p \in Page, LoginFails(p)
      PROVE  WebTypeOK'
    <2>1. <<p, "login">> \in Request
        BY Slots DEF Caller, Refresher
    <2> QED BY <1>10, <2>1, NoneAssumption DEF LoginFails, Returns, NoCall, store, Comes,
                                               CallState
<1>11. ASSUME NEW p \in Page, AccessExpires(p)
      PROVE  WebTypeOK'
    BY <1>11, NoneAssumption DEF AccessExpires, Comes, CallState
<1>12. ASSUME NEW p \in Page, NEW keep \in BOOLEAN, LoggedIn(p, keep)
      PROVE  WebTypeOK'
    <2>1. <<p, "login">> \in Request
        BY Slots DEF Caller, Refresher
    <2> QED BY <1>12, <2>1, NoneAssumption DEF LoggedIn, Returns, NoCall, Comes, CallState
<1>13. ASSUME NEW p \in Page, NEW u \in User, SubmitLogin(p, u)
      PROVE  WebTypeOK'
    <2>1. <<p, "login">> \in Request
        BY Slots DEF Caller
    <2> QED BY <1>13, <2>1, <1>0 DEF SubmitLogin, Comes, CallState
<1>14. ASSUME NEW p \in Page, ArriveLogout(p)
      PROVE  WebTypeOK'
    <2>1. <<p, "logout">> \in Request
        BY Slots DEF Caller
    <2> QED BY <1>14, <2>1, <1>0, SMTT(30) DEF ArriveLogout, Comes, CallState
<1>15. ASSUME NEW q \in Request, Arrive(q)
      PROVE  WebTypeOK'
    BY <1>15, <1>0 DEF Arrive, Comes, CallState
<1>16. ASSUME NEW q \in Request, Serve(q)
      PROVE  WebTypeOK'
    BY <1>16, <1>0 DEF Serve, Reply, Comes, CallState
<1>17. ASSUME NEW q \in Request, Lose(q)
      PROVE  WebTypeOK'
    BY <1>17, <1>0 DEF Lose, Comes, CallState
<1>18. ASSUME SessionEnds
      PROVE  WebTypeOK'
    BY <1>18, <1>0 DEF SessionEnds
<1> QED BY <1>1, <1>2, <1>3, <1>4, <1>5, <1>6, <1>7, <1>8, <1>9, <1>10, <1>11, <1>12,
        <1>13, <1>14, <1>15, <1>16, <1>17, <1>18
        DEF WebNext, PageStep, CallStep, FetcherLeaves, FetcherFails, Leave, Reload, Reopen

(* The API takes a call up.                                                *)
LEMMA TakenUpServed ==
    ASSUME WebTypeOK, CallsAreServed, NEW q \in Request, At(q, "sent"),
           NEW t, t = call[q].tok, Comes(q, "served", t),
           \/ q[2] = "logout" /\ Logout(q, t)
           \/ q[2] \in Refresher /\ (Rotate(q, t) \/ RotateReused(q, t))
    PROVE  CallsAreServed'
<1>1. /\ \A r \in Request \ {q} : call'[r] = call[r] /\ task'[r] = task[r]
      /\ call'[q] = [pc |-> "served", tok |-> t] /\ task'[q].tok = t
      /\ Serves(q[2], task[q])' /\ ~Idle(q)'
    BY DEF Logout, Rotate, RotateReused, Start, Comes, Serves, Refresher, Idle, WebTypeOK,
           TypeOK, Task
<1> QED BY <1>1 DEF CallsAreServed, Idle, At, Serves

(* A call is answered at once, fails or is lost.                           *)
LEMMA SettledServed ==
    ASSUME WebTypeOK, CallsAreServed, NEW q \in Request, Idle(q), UNCHANGED vars,
           NEW pc \in {"answered", "failed", "lost"}, pc = "answered" => call[q].tok # None,
           Comes(q, pc, call[q].tok)
    PROVE  CallsAreServed'
BY DEF Comes, CallsAreServed, Idle, At, WebTypeOK, vars

(* Every step keeps calls and handlers in step with each other.            *)
LEMMA ServedStep ==
    ASSUME WebTypeOK, IInv, CallsAreServed, WebNext
    PROVE  CallsAreServed'
<1>1. ASSUME NEW p \in Page, FetcherRefresh(p)
      PROVE  CallsAreServed'
    <2>1. <<p, "fetcher">> \in Request /\ <<p, "fetcher">>[2] = "fetcher"
        BY Slots DEF Caller, Refresher
    <2> QED BY <1>1, <2>1 DEF WebTypeOK, FetcherRefresh, Send, store, Comes, At, Idle, vars,
                              TypeOK, Task, CallsAreServed, Serves, Caller, Refresher
<1>2. ASSUME NEW p \in Page, NotifyRefresh(p)
      PROVE  CallsAreServed'
    <2>1. <<p, "notify">> \in Request /\ <<p, "notify">>[2] = "notify"
        BY Slots DEF Caller, Refresher
    <2> QED BY <1>2, <2>1 DEF WebTypeOK, NotifyRefresh, Send, store, Comes, At, Idle, vars,
                              TypeOK, Task, CallsAreServed, Serves, Caller, Refresher
<1>3. ASSUME NEW p \in Page, StartLogout(p)
      PROVE  CallsAreServed'
    <2>1. <<p, "logout">> \in Request /\ <<p, "logout">>[2] = "logout"
        BY Slots DEF Caller, Refresher
    <2> QED BY <1>3, <2>1 DEF WebTypeOK, StartLogout, Send, store, Comes, At, Idle, vars,
                              TypeOK, Task, CallsAreServed, Serves, Caller, Refresher
<1>4. ASSUME NEW p \in Page, NEW s \in Token \cup {None}, NEW l \in Token \cup {None},
             Load(p, s, l)
      PROVE  CallsAreServed'
    <2>1. /\ task' = task
          /\ \A q \in Request :
                 IF q[1] # p THEN call'[q] = call[q]
                 ELSE \/ call'[q] = NoCall
                      \/ /\ q = <<p, "restore">> /\ Idle(q)
                         /\ call'[q].pc = "sent" /\ call'[q].tok # None
        BY <1>4, SlotsAssumption DEF Load, vars, Caller, WebTypeOK
    <2> QED BY <2>1 DEF CallsAreServed, Idle, At, NoCall
<1>5. ASSUME NEW p \in Page, NEW c \in Refresher, Refreshed(p, c)
      PROVE  CallsAreServed'
    <2>1. <<p, c>> \in Request
        BY Slots DEF Caller
    <2>2. /\ task' = task /\ \A q \in Request \ {<<p, c>>} : call'[q] = call[q]
          /\ call'[<<p, c>>].pc \in {"idle", "me"} /\ Idle(<<p, c>>)
        BY <1>5, <2>1 DEF Refreshed, Comes, Returns, NoCall, vars, WebTypeOK, CallsAreServed, At
    <2> QED BY <2>2 DEF CallsAreServed, Idle, At
<1>6. ASSUME NEW p \in Page, NotifyFails(p)
      PROVE  CallsAreServed'
    <2>1. <<p, "notify">> \in Request /\ <<p, "notify">>[2] = "notify"
        BY Slots DEF Caller, Refresher
    <2> QED BY <1>6, <2>1 DEF WebTypeOK, NotifyFails, Clear, Returns, NoCall, Comes, At, Idle,
                              vars, TypeOK, Task, CallsAreServed, Serves, Caller, Refresher
<1>7. ASSUME NEW p \in Page, RestoreFails(p)
      PROVE  CallsAreServed'
    <2>1. <<p, "restore">> \in Request /\ <<p, "restore">>[2] = "restore"
        BY Slots DEF Caller, Refresher
    <2> QED BY <1>7, <2>1 DEF WebTypeOK, RestoreFails, Clear, Returns, NoCall, Comes, At, Idle,
                              vars, TypeOK, Task, CallsAreServed, Serves, Caller, Refresher
<1>8. ASSUME NEW p \in Page, LoggedOut(p)
      PROVE  CallsAreServed'
    <2>1. <<p, "logout">> \in Request /\ <<p, "logout">>[2] = "logout"
        BY Slots DEF Caller, Refresher
    <2> QED BY <1>8, <2>1 DEF WebTypeOK, LoggedOut, Clear, Returns, NoCall, Comes, At, Idle,
                              vars, TypeOK, Task, CallsAreServed, Serves, Caller, Refresher
<1>9. ASSUME NEW p \in Page, Restored(p)
      PROVE  CallsAreServed'
    <2>1. <<p, "restore">> \in Request /\ <<p, "restore">>[2] = "restore"
        BY Slots DEF Caller, Refresher
    <2> QED BY <1>9, <2>1 DEF WebTypeOK, Restored, Returns, NoCall, store, Comes, At, Idle,
                              vars, TypeOK, Task, CallsAreServed, Serves, Caller, Refresher
<1>10. ASSUME NEW p \in Page, LoginFails(p)
      PROVE  CallsAreServed'
    <2>1. <<p, "login">> \in Request /\ <<p, "login">>[2] = "login"
        BY Slots DEF Caller, Refresher
    <2> QED BY <1>10, <2>1 DEF WebTypeOK, LoginFails, Returns, NoCall, store, Comes, At, Idle,
                               vars, TypeOK, Task, CallsAreServed, Serves, Caller, Refresher
<1>11. ASSUME NEW p \in Page, AccessExpires(p)
      PROVE  CallsAreServed'
    BY <1>11 DEF WebTypeOK, AccessExpires, Comes, At, Idle, vars, TypeOK, Task, CallsAreServed,
                 Serves, Caller, Refresher
<1>12. ASSUME NEW p \in Page, NEW keep \in BOOLEAN, LoggedIn(p, keep)
      PROVE  CallsAreServed'
    <2>1. <<p, "login">> \in Request /\ <<p, "login">>[2] = "login"
        BY Slots DEF Caller, Refresher
    <2> QED BY <1>12, <2>1 DEF WebTypeOK, LoggedIn, Returns, NoCall, Comes, At, Idle, vars,
                               TypeOK, Task, CallsAreServed, Serves, Caller, Refresher
<1>13. ASSUME NEW p \in Page, NEW u \in User, SubmitLogin(p, u)
      PROVE  CallsAreServed'
    <2>1. <<p, "login">> \in Request /\ <<p, "login">>[2] = "login"
        BY Slots DEF Caller, Refresher
    <2> QED BY <1>13, <2>1 DEF WebTypeOK, SubmitLogin, Login, Start, store, Comes, At, Idle,
                               vars, TypeOK, Task, CallsAreServed, Serves, Caller, Refresher
<1>14. ASSUME NEW p \in Page, ArriveLogout(p)
      PROVE  CallsAreServed'
    <2>1. <<p, "logout">> \in Request /\ <<p, "logout">>[2] = "logout"
        BY Slots DEF Caller
    <2>2. Idle(<<p, "logout">>) /\ call[<<p, "logout">>].tok # None
        BY <1>14, <2>1 DEF ArriveLogout, CallsAreServed, At
    <2> QED BY <1>14, <2>1, <2>2, TakenUpServed, SettledServed DEF ArriveLogout
<1>15. ASSUME NEW q \in Request, Arrive(q)
      PROVE  CallsAreServed'
    <2>1. Idle(q) /\ call[q].tok # None
        BY <1>15 DEF Arrive, CallsAreServed, At
    <2> QED BY <1>15, <2>1, TakenUpServed, SettledServed DEF Arrive
<1>16. ASSUME NEW q \in Request, Serve(q)
      PROVE  CallsAreServed'
    <2>1. CASE RotateRevoke(q) /\ UNCHANGED call
        BY <2>1 DEF RotateRevoke, GoTo, CallsAreServed, Idle, At, Serves, WebTypeOK, TypeOK,
                    Task
    <2>2. ASSUME NEW pc \in {"answered", "failed"}, NEW t \in Token \cup {None},
                 pc = "answered" /\ At(q, "served") => t # None,
                 Finish(q), Reply(q, pc, t), ~Idle(q)
          PROVE  CallsAreServed'
        BY <2>2 DEF Finish, Blank, Reply, Comes, CallsAreServed, Idle, At, WebTypeOK,
               TypeOK, Task
    <2>3. CASE \E t \in Token : (LoginIssue(q, t) \/ RotateIssue(q, t)) /\ Reply(q, "answered", t)
        BY <2>2, <2>3, NoneAssumption DEF LoginIssue, RotateIssue, Issue, Idle
    <2>4. CASE LogoutRevoke(q) /\ Reply(q, "answered", call[q].tok)
        BY <2>2, <2>4, NoneAssumption
           DEF IInv, KnownTokens, LogoutRevoke, Idle, CallsAreServed, Reply, At
    <2>5. CASE (RevokeAll(q) \/ Abort(q)) /\ Reply(q, "failed", call[q].tok)
        BY <2>2, <2>5 DEF RevokeAll, Abort, Idle, WebTypeOK
    <2> QED BY <1>16, <2>1, <2>3, <2>4, <2>5 DEF Serve
<1>17. ASSUME NEW q \in Request, Lose(q)
      PROVE  CallsAreServed'
    <2>1. Idle(q)
        BY <1>17 DEF Lose, CallsAreServed
    <2> QED BY <1>17, <2>1, SettledServed DEF Lose
<1>18. ASSUME SessionEnds
      PROVE  CallsAreServed'
    BY <1>18 DEF WebTypeOK, SessionEnds, Purge, DeleteUser, store, Comes, At, Idle, vars,
                 TypeOK, Task, CallsAreServed, Serves, Caller, Refresher
<1> QED BY <1>1, <1>2, <1>3, <1>4, <1>5, <1>6, <1>7, <1>8, <1>9, <1>10, <1>11, <1>12,
        <1>13, <1>14, <1>15, <1>16, <1>17, <1>18
        DEF WebNext, PageStep, CallStep, FetcherLeaves, FetcherFails, Leave, Reload, Reopen,
            WebTypeOK

(* Every step keeps pages in step with their calls.                        *)
LEMMA InStepStep ==
    ASSUME WebTypeOK, CallsAreServed, PageInStep, WebNext
    PROVE  PageInStep'
<1>0. ASSUME UNCHANGED user, \A q \in Request : At(q, "idle")' <=> At(q, "idle")
      PROVE  PageInStep'
    BY <1>0, Slots DEF PageInStep, Caller, Refresher, LoggingOut
<1>1. ASSUME NEW p \in Page, FetcherRefresh(p)
      PROVE  PageInStep'
    BY <1>1, Slots DEF WebTypeOK, FetcherRefresh, Send, store, Comes, At, Idle, vars, TypeOK,
                       Task, PageInStep, LoggingOut, Caller, Refresher
<1>2. ASSUME NEW p \in Page, NotifyRefresh(p)
      PROVE  PageInStep'
    BY <1>2, Slots DEF WebTypeOK, NotifyRefresh, Send, store, Comes, At, Idle, vars, TypeOK,
                       Task, PageInStep, LoggingOut, Caller, Refresher
<1>3. ASSUME NEW p \in Page, StartLogout(p)
      PROVE  PageInStep'
    BY <1>3, Slots DEF WebTypeOK, StartLogout, Send, store, Comes, At, Idle, vars, TypeOK,
                       Task, PageInStep, LoggingOut, Caller, Refresher
<1>4. ASSUME NEW p \in Page, NEW s \in Token \cup {None}, NEW l \in Token \cup {None},
             Load(p, s, l)
      PROVE  PageInStep'
    BY <1>4, Slots DEF WebTypeOK, Load, NoCall, Comes, At, Idle, vars, TypeOK, Task,
                       PageInStep, LoggingOut, Caller, Refresher
<1>5. ASSUME NEW p \in Page, NEW c \in Refresher, Refreshed(p, c)
      PROVE  PageInStep'
    BY <1>5, Slots, ZenonT(60)
       DEF WebTypeOK, Refreshed, Set, Returns, NoCall, Comes, At, Idle, vars,
           TypeOK, Task, PageInStep, LoggingOut, Caller, Refresher
<1>6. ASSUME NEW p \in Page, NotifyFails(p)
      PROVE  PageInStep'
    BY <1>6, Slots DEF WebTypeOK, NotifyFails, Clear, Returns, NoCall, Comes, At, Idle, vars,
                       TypeOK, Task, PageInStep, LoggingOut, Caller, Refresher
<1>7. ASSUME NEW p \in Page, RestoreFails(p)
      PROVE  PageInStep'
    BY <1>7, Slots DEF WebTypeOK, RestoreFails, Clear, Returns, NoCall, Comes, At, Idle, vars,
                       TypeOK, Task, PageInStep, LoggingOut, Caller, Refresher
<1>8. ASSUME NEW p \in Page, LoggedOut(p)
      PROVE  PageInStep'
    BY <1>8, Slots DEF WebTypeOK, LoggedOut, Clear, Returns, NoCall, Comes, At, Idle, vars,
                       TypeOK, Task, PageInStep, LoggingOut, Caller, Refresher
<1>9. ASSUME NEW p \in Page, Restored(p)
      PROVE  PageInStep'
    BY <1>9, Slots DEF WebTypeOK, Restored, Returns, NoCall, store, Comes, At, Idle, vars,
                       TypeOK, Task, PageInStep, LoggingOut, Caller, Refresher
<1>10. ASSUME NEW p \in Page, LoginFails(p)
      PROVE  PageInStep'
    BY <1>10, Slots DEF WebTypeOK, LoginFails, Returns, NoCall, store, Comes, At, Idle, vars,
                        TypeOK, Task, PageInStep, LoggingOut, Caller, Refresher
<1>11. ASSUME NEW p \in Page, AccessExpires(p)
      PROVE  PageInStep'
    BY <1>11, Slots DEF WebTypeOK, AccessExpires, Comes, At, Idle, vars, TypeOK, Task,
                        PageInStep, LoggingOut, Caller, Refresher
<1>12. ASSUME NEW p \in Page, NEW keep \in BOOLEAN, LoggedIn(p, keep)
      PROVE  PageInStep'
    BY <1>12, Slots DEF WebTypeOK, LoggedIn, Returns, NoCall, Comes, At, Idle, vars, TypeOK,
                        Task, PageInStep, LoggingOut, Caller, Refresher
<1>13. ASSUME NEW p \in Page, NEW u \in User, SubmitLogin(p, u)
      PROVE  PageInStep'
    BY <1>13, Slots DEF WebTypeOK, SubmitLogin, Login, Start, store, Comes, At, Idle, vars,
                        TypeOK, Task, PageInStep, LoggingOut, Caller, Refresher
<1>14. ASSUME NEW p \in Page, ArriveLogout(p)
      PROVE  PageInStep'
    BY <1>14, Slots, ZenonT(60)
       DEF WebTypeOK, ArriveLogout, Logout, Start, store, Comes, At, Idle, vars, TypeOK, Task,
           PageInStep, LoggingOut, Caller, Refresher
<1>15. ASSUME NEW q \in Request, Arrive(q)
      PROVE  PageInStep'
    BY <1>15, <1>0 DEF Arrive, Comes, At, WebTypeOK
<1>16. ASSUME NEW q \in Request, Serve(q)
      PROVE  PageInStep'
    BY <1>16, <1>0 DEF Serve, Reply, Comes, At, WebTypeOK
<1>17. ASSUME NEW q \in Request, Lose(q)
      PROVE  PageInStep'
    BY <1>17, <1>0 DEF Lose, Comes, At, WebTypeOK
<1>18. ASSUME SessionEnds
      PROVE  PageInStep'
    BY <1>18, <1>0 DEF SessionEnds, At
<1> QED BY <1>1, <1>2, <1>3, <1>4, <1>5, <1>6, <1>7, <1>8, <1>9, <1>10, <1>11, <1>12,
        <1>13, <1>14, <1>15, <1>16, <1>17, <1>18
        DEF WebNext, PageStep, CallStep, FetcherLeaves, FetcherFails, Leave, Reload, Reopen,
            WebTypeOK

------------------------------------------------------------------------------
(* What a page does leaves the other pages alone, ...                      *)
OnlyPage(x) ==
    \A y \in Page \ {x} :
        /\ mem'[y] = mem[y] /\ sess'[y] = sess[y]
        /\ \A c \in Caller : call'[<<y, c>>] = call[<<y, c>>]

(* ... brings it no tokens but its own and that of localStorage, ...       *)
Keeps(x, C) ==
    \A s \in Token : ~OfSession(local, s) /\ Away(x, C, s) =>
                     ~OfSession(local, s)' /\ Away(x, C, s)'

(* ... and is no mishap for the pages that stay clean.                     *)
Spares(x) ==
    \A y \in clean' \ {x} :
        /\ y \in clean
        /\ local' = local \/ local = None
        /\ Away(x, Caller, session[mem[y]]) => Away(x, Caller, session[mem[y]])'

(* All a page does by itself: nothing to the server, nothing to the other  *)
(* pages, and its login, answered, is the only caller that brings tokens.  *)
PageEffect(x) ==
    /\ UNCHANGED vars /\ OnlyPage(x) /\ Keeps(x, Caller) /\ Spares(x)
    /\ At(<<x, "login">>, "answered")' =>
           call'[<<x, "login">>] = call[<<x, "login">>] /\ Keeps(x, Caller \ {"login"})

(* A page that does nothing keeps its own tokens.                          *)
LEMMA AwayKept ==
    ASSUME UNCHANGED vars, NEW x, OnlyPage(x), NEW y \in Page \ {x}, NEW C \in SUBSET Caller,
           NEW s, Away(y, C, s)
    PROVE  Away(y, C, s)'
BY DEF Away, OfSession, OnlyPage, vars

(* What CleanInv says of one clean page.                                   *)
Safe(p) == Stored(p) /\ Alone(p) /\ Refreshes(p)

(* The pages that stay clean are as safe as they were.                     *)
LEMMA OthersStaySafe ==
    ASSUME WebTypeOK, HeldIsIssued, KnownSessions, CleanInv, NEW x \in Page, PageEffect(x),
           NEW p \in clean' \ {x}
    PROVE  Safe(p)'
<1>1. p \in Page /\ p \in clean /\ p # x /\ Safe(p)
    BY DEF WebTypeOK, PageEffect, Spares, CleanInv, Safe
<1>2. /\ mem'[p] = mem[p] /\ sess'[p] = sess[p] /\ session' = session
      /\ st' = st /\ flushed' = flushed /\ task' = task
      /\ \A c \in Caller : call'[<<p, c>>] = call[<<p, c>>]
    BY <1>1 DEF PageEffect, OnlyPage, vars
<1>3. Stored(p)'
    BY <1>1, <1>2 DEF Safe, Stored, PageEffect, Spares
<1>4. Refreshes(p)'
    BY <1>1, <1>2 DEF Safe, Refreshes, Intact, Sole, LoggingOut, At, Caller
<1>5. \A y \in Page \ {p} : Away(y, Caller, session[mem[p]])'
    <2> TAKE y \in Page \ {p}
    <2>1. Away(y, Caller, session[mem[p]])
        BY <1>1 DEF Safe, Alone
    <2>2. CASE y = x
        BY <1>1, <2>1, <2>2 DEF PageEffect, Spares
    <2>3. CASE y # x
        BY <1>2, <2>1, <2>3, AwayKept DEF PageEffect
    <2> QED BY <2>2, <2>3
<1>6. Alone(p)'
    BY <1>1, <1>2, <1>5 DEF Safe, Alone, At, Caller, OfSession
<1> QED BY <1>3, <1>4, <1>6 DEF Safe

(* A login that has come back is as new as it was.                         *)
LEMMA LoginStaysNew ==
    ASSUME WebTypeOK, HeldIsIssued, KnownSessions, CallsAreServed, LoginIsNew, NEW x \in Page,
           PageEffect(x)
    PROVE  LoginIsNew'
<1> SUFFICES ASSUME NEW p \in Page, At(<<p, "login">>, "answered")',
                    NEW t, t = call'[<<p, "login">>].tok
             PROVE  IsNew(p, t)'
    BY DEF LoginIsNew
<1>1. call'[<<p, "login">>] = call[<<p, "login">>]
    BY DEF PageEffect, OnlyPage, Caller
<1>2. At(<<p, "login">>, "answered")
    BY <1>1 DEF At
<1>3. t \in Token /\ t = call[<<p, "login">>].tok
    BY <1>1, <1>2, SlotsAssumption DEF WebTypeOK, CallsAreServed, At, Caller
<1>4. /\ Intact(t, t) /\ ~OfSession(local, t)
      /\ Away(p, Caller \ {"login"}, t)
      /\ \A y \in Page \ {p} : Away(y, Caller, t)
    BY <1>2, <1>3 DEF LoginIsNew, IsNew
<1>5. Intact(t, t)'
    BY <1>1, <1>4 DEF Intact, Sole, PageEffect, vars
<1>6. ~OfSession(local, t)'
    BY <1>1, <1>2, <1>3, <1>4 DEF PageEffect, Keeps
<1>7. Away(p, Caller \ {"login"}, t)'
    BY <1>1, <1>2, <1>3, <1>4, AwayKept DEF PageEffect, Keeps
<1>8. ASSUME NEW y \in Page \ {p} PROVE Away(y, Caller, t)'
    BY <1>1, <1>3, <1>4, AwayKept DEF PageEffect, Keeps
<1> QED BY <1>5, <1>6, <1>7, <1>8 DEF IsNew

(* FetcherRefresh has no other effect than what a page may do by itself.   *)
LEMMA FetcherRefreshEffect ==
    ASSUME WebTypeOK, CallsAreServed, PageInStep, HeldIsIssued, KnownSessions, NEW p \in Page,
           FetcherRefresh(p)
    PROVE  PageEffect(p)
<1>1. /\ \A y \in Page, d \in Caller : y # p \/ d # "fetcher" => call'[<<y, d>>] = call[<<y, d>>]
      /\ call'[<<p, "fetcher">>] \in [pc: CallState, tok: {None, mem[p], call[<<p, "fetcher">>].tok}]
    BY SlotsAssumption DEF FetcherRefresh, Send, Comes, store, WebTypeOK, Caller, Refresher,
                           CallState
<1>2. UNCHANGED vars
    BY DEF FetcherRefresh, Send, Comes, store
<1>3. OnlyPage(p)
    BY <1>1 DEF OnlyPage, WebTypeOK, FetcherRefresh, Send, Comes, store
<1>4. Keeps(p, Caller)
    BY <1>1, <1>2 DEF Keeps, Away, OfSession, WebTypeOK, vars, FetcherRefresh, Send, Comes,
                      store
<1>5. Spares(p)
    BY <1>1, <1>2 DEF Spares, Away, OfSession, WebTypeOK, vars, FetcherRefresh, Send, Comes,
                      store
<1>6. At(<<p, "login">>, "answered")' =>
          call'[<<p, "login">>] = call[<<p, "login">>] /\ Keeps(p, Caller \ {"login"})
    BY <1>1, <1>2 DEF Keeps, Away, OfSession, WebTypeOK, vars, FetcherRefresh, Send, Comes,
                      store, At, Caller, Refresher, PageInStep
<1> QED BY <1>2, <1>3, <1>4, <1>5, <1>6 DEF PageEffect

(* NotifyRefresh has no other effect than what a page may do by itself.    *)
LEMMA NotifyRefreshEffect ==
    ASSUME WebTypeOK, CallsAreServed, PageInStep, HeldIsIssued, KnownSessions, NEW p \in Page,
           NotifyRefresh(p)
    PROVE  PageEffect(p)
<1>1. /\ \A y \in Page, d \in Caller : y # p \/ d # "notify" => call'[<<y, d>>] = call[<<y, d>>]
      /\ call'[<<p, "notify">>] \in [pc: CallState, tok: {None, mem[p], call[<<p, "notify">>].tok}]
    BY SlotsAssumption DEF NotifyRefresh, Send, Comes, store, WebTypeOK, Caller, Refresher,
                           CallState
<1>2. UNCHANGED vars
    BY DEF NotifyRefresh, Send, Comes, store
<1>3. OnlyPage(p)
    BY <1>1 DEF OnlyPage, WebTypeOK, NotifyRefresh, Send, Comes, store
<1>4. Keeps(p, Caller)
    BY <1>1, <1>2 DEF Keeps, Away, OfSession, WebTypeOK, vars, NotifyRefresh, Send, Comes, store
<1>5. Spares(p)
    BY <1>1, <1>2 DEF Spares, Away, OfSession, WebTypeOK, vars, NotifyRefresh, Send, Comes,
                      store
<1>6. At(<<p, "login">>, "answered")' =>
          call'[<<p, "login">>] = call[<<p, "login">>] /\ Keeps(p, Caller \ {"login"})
    BY <1>1, <1>2 DEF Keeps, Away, OfSession, WebTypeOK, vars, NotifyRefresh, Send, Comes,
                      store, At, Caller, Refresher, PageInStep
<1> QED BY <1>2, <1>3, <1>4, <1>5, <1>6 DEF PageEffect

(* StartLogout has no other effect than what a page may do by itself.      *)
LEMMA StartLogoutEffect ==
    ASSUME WebTypeOK, CallsAreServed, PageInStep, HeldIsIssued, KnownSessions, NEW p \in Page,
           StartLogout(p)
    PROVE  PageEffect(p)
<1>1. /\ \A y \in Page, d \in Caller : y # p \/ d # "logout" => call'[<<y, d>>] = call[<<y, d>>]
      /\ call'[<<p, "logout">>] \in [pc: CallState, tok: {None, mem[p], call[<<p, "logout">>].tok}]
    BY SlotsAssumption DEF StartLogout, Send, Comes, store, WebTypeOK, Caller, Refresher,
                           CallState
<1>2. UNCHANGED vars
    BY DEF StartLogout, Send, Comes, store
<1>3. OnlyPage(p)
    BY <1>1 DEF OnlyPage, WebTypeOK, StartLogout, Send, Comes, store
<1>4. Keeps(p, Caller)
    BY <1>1, <1>2 DEF Keeps, Away, OfSession, WebTypeOK, vars, StartLogout, Send, Comes, store
<1>5. Spares(p)
    BY <1>1, <1>2 DEF Spares, Away, OfSession, WebTypeOK, vars, StartLogout, Send, Comes, store
<1>6. At(<<p, "login">>, "answered")' =>
          call'[<<p, "login">>] = call[<<p, "login">>] /\ Keeps(p, Caller \ {"login"})
    BY <1>1, <1>2 DEF Keeps, Away, OfSession, WebTypeOK, vars, StartLogout, Send, Comes, store,
                      At, Caller, Refresher, PageInStep
<1> QED BY <1>2, <1>3, <1>4, <1>5, <1>6 DEF PageEffect

(* NotifyFails has no other effect than what a page may do by itself.      *)
LEMMA NotifyFailsEffect ==
    ASSUME WebTypeOK, CallsAreServed, PageInStep, HeldIsIssued, KnownSessions, NEW p \in Page,
           NotifyFails(p)
    PROVE  PageEffect(p)
<1>1. /\ \A y \in Page, d \in Caller : y # p \/ d # "notify" => call'[<<y, d>>] = call[<<y, d>>]
      /\ call'[<<p, "notify">>] \in [pc: CallState, tok: {None, mem[p], call[<<p, "notify">>].tok}]
    BY SlotsAssumption DEF NotifyFails, Clear, Returns, NoCall, CleanAfterClear, WebTypeOK,
                           Caller, Refresher, CallState
<1>2. UNCHANGED vars
    BY DEF NotifyFails, Clear, Returns, NoCall, CleanAfterClear
<1>3. OnlyPage(p)
    BY <1>1 DEF OnlyPage, WebTypeOK, NotifyFails, Clear, Returns, NoCall, CleanAfterClear
<1>4. Keeps(p, Caller)
    BY <1>1, <1>2 DEF Keeps, Away, OfSession, WebTypeOK, vars, NotifyFails, Clear, Returns,
                      NoCall, CleanAfterClear
<1>5. Spares(p)
    BY <1>1, <1>2 DEF Spares, Away, OfSession, WebTypeOK, vars, NotifyFails, Clear, Returns,
                      NoCall, CleanAfterClear
<1>6. At(<<p, "login">>, "answered")' =>
          call'[<<p, "login">>] = call[<<p, "login">>] /\ Keeps(p, Caller \ {"login"})
    BY <1>1, <1>2 DEF Keeps, Away, OfSession, WebTypeOK, vars, NotifyFails, Clear, Returns,
                      NoCall, CleanAfterClear, At, Caller, Refresher, PageInStep
<1> QED BY <1>2, <1>3, <1>4, <1>5, <1>6 DEF PageEffect

(* RestoreFails has no other effect than what a page may do by itself.     *)
LEMMA RestoreFailsEffect ==
    ASSUME WebTypeOK, CallsAreServed, PageInStep, HeldIsIssued, KnownSessions, NEW p \in Page,
           RestoreFails(p)
    PROVE  PageEffect(p)
<1>1. /\ \A y \in Page, d \in Caller : y # p \/ d # "restore" => call'[<<y, d>>] = call[<<y, d>>]
      /\ call'[<<p, "restore">>] \in [pc: CallState, tok: {None, mem[p], call[<<p, "restore">>].tok}]
    BY SlotsAssumption DEF RestoreFails, Clear, Returns, NoCall, CleanAfterClear, WebTypeOK,
                           Caller, Refresher, CallState
<1>2. UNCHANGED vars
    BY DEF RestoreFails, Clear, Returns, NoCall, CleanAfterClear
<1>3. OnlyPage(p)
    BY <1>1 DEF OnlyPage, WebTypeOK, RestoreFails, Clear, Returns, NoCall, CleanAfterClear
<1>4. Keeps(p, Caller)
    BY <1>1, <1>2 DEF Keeps, Away, OfSession, WebTypeOK, vars, RestoreFails, Clear, Returns,
                      NoCall, CleanAfterClear
<1>5. Spares(p)
    BY <1>1, <1>2 DEF Spares, Away, OfSession, WebTypeOK, vars, RestoreFails, Clear, Returns,
                      NoCall, CleanAfterClear
<1>6. At(<<p, "login">>, "answered")' =>
          call'[<<p, "login">>] = call[<<p, "login">>] /\ Keeps(p, Caller \ {"login"})
    BY <1>1, <1>2 DEF Keeps, Away, OfSession, WebTypeOK, vars, RestoreFails, Clear, Returns,
                      NoCall, CleanAfterClear, At, Caller, Refresher, PageInStep
<1> QED BY <1>2, <1>3, <1>4, <1>5, <1>6 DEF PageEffect

(* LoggedOut has no other effect than what a page may do by itself.        *)
LEMMA LoggedOutEffect ==
    ASSUME WebTypeOK, CallsAreServed, PageInStep, HeldIsIssued, KnownSessions, NEW p \in Page,
           LoggedOut(p)
    PROVE  PageEffect(p)
<1>1. /\ \A y \in Page, d \in Caller : y # p \/ d # "logout" => call'[<<y, d>>] = call[<<y, d>>]
      /\ call'[<<p, "logout">>] \in [pc: CallState, tok: {None, mem[p], call[<<p, "logout">>].tok}]
    BY SlotsAssumption DEF LoggedOut, Clear, Returns, NoCall, CleanAfterClear, WebTypeOK,
                           Caller, Refresher, CallState
<1>2. UNCHANGED vars
    BY DEF LoggedOut, Clear, Returns, NoCall, CleanAfterClear
<1>3. OnlyPage(p)
    BY <1>1 DEF OnlyPage, WebTypeOK, LoggedOut, Clear, Returns, NoCall, CleanAfterClear
<1>4. Keeps(p, Caller)
    BY <1>1, <1>2 DEF Keeps, Away, OfSession, WebTypeOK, vars, LoggedOut, Clear, Returns,
                      NoCall, CleanAfterClear
<1>5. Spares(p)
    BY <1>1, <1>2 DEF Spares, Away, OfSession, WebTypeOK, vars, LoggedOut, Clear, Returns,
                      NoCall, CleanAfterClear
<1>6. At(<<p, "login">>, "answered")' =>
          call'[<<p, "login">>] = call[<<p, "login">>] /\ Keeps(p, Caller \ {"login"})
    BY <1>1, <1>2 DEF Keeps, Away, OfSession, WebTypeOK, vars, LoggedOut, Clear, Returns,
                      NoCall, CleanAfterClear, At, Caller, Refresher, PageInStep
<1> QED BY <1>2, <1>3, <1>4, <1>5, <1>6 DEF PageEffect

(* Restored has no other effect than what a page may do by itself.         *)
LEMMA RestoredEffect ==
    ASSUME WebTypeOK, CallsAreServed, PageInStep, HeldIsIssued, KnownSessions, NEW p \in Page,
           Restored(p)
    PROVE  PageEffect(p)
<1>1. /\ \A y \in Page, d \in Caller : y # p \/ d # "restore" => call'[<<y, d>>] = call[<<y, d>>]
      /\ call'[<<p, "restore">>] \in [pc: CallState, tok: {None, mem[p], call[<<p, "restore">>].tok}]
    BY SlotsAssumption DEF Restored, Returns, NoCall, store, WebTypeOK, Caller, Refresher,
                           CallState
<1>2. UNCHANGED vars
    BY DEF Restored, Returns, NoCall, store
<1>3. OnlyPage(p)
    BY <1>1 DEF OnlyPage, WebTypeOK, Restored, Returns, NoCall, store
<1>4. Keeps(p, Caller)
    BY <1>1, <1>2 DEF Keeps, Away, OfSession, WebTypeOK, vars, Restored, Returns, NoCall, store
<1>5. Spares(p)
    BY <1>1, <1>2 DEF Spares, Away, OfSession, WebTypeOK, vars, Restored, Returns, NoCall, store
<1>6. At(<<p, "login">>, "answered")' =>
          call'[<<p, "login">>] = call[<<p, "login">>] /\ Keeps(p, Caller \ {"login"})
    BY <1>1, <1>2 DEF Keeps, Away, OfSession, WebTypeOK, vars, Restored, Returns, NoCall,
                      store, At, Caller, Refresher, PageInStep
<1> QED BY <1>2, <1>3, <1>4, <1>5, <1>6 DEF PageEffect

(* LoginFails has no other effect than what a page may do by itself.       *)
LEMMA LoginFailsEffect ==
    ASSUME WebTypeOK, CallsAreServed, PageInStep, HeldIsIssued, KnownSessions, NEW p \in Page,
           LoginFails(p)
    PROVE  PageEffect(p)
<1>1. /\ \A y \in Page, d \in Caller : y # p \/ d # "login" => call'[<<y, d>>] = call[<<y, d>>]
      /\ call'[<<p, "login">>] \in [pc: CallState, tok: {None, mem[p], call[<<p, "login">>].tok}]
    BY SlotsAssumption DEF LoginFails, Returns, NoCall, store, WebTypeOK, Caller, Refresher,
                           CallState
<1>2. UNCHANGED vars
    BY DEF LoginFails, Returns, NoCall, store
<1>3. OnlyPage(p)
    BY <1>1 DEF OnlyPage, WebTypeOK, LoginFails, Returns, NoCall, store
<1>4. Keeps(p, Caller)
    BY <1>1, <1>2 DEF Keeps, Away, OfSession, WebTypeOK, vars, LoginFails, Returns, NoCall,
                      store
<1>5. Spares(p)
    BY <1>1, <1>2 DEF Spares, Away, OfSession, WebTypeOK, vars, LoginFails, Returns, NoCall,
                      store
<1>6. At(<<p, "login">>, "answered")' =>
          call'[<<p, "login">>] = call[<<p, "login">>] /\ Keeps(p, Caller \ {"login"})
    BY <1>1, <1>2 DEF Keeps, Away, OfSession, WebTypeOK, vars, LoginFails, Returns, NoCall,
                      store, At, Caller, Refresher, PageInStep
<1> QED BY <1>2, <1>3, <1>4, <1>5, <1>6 DEF PageEffect

(* AccessExpires has no other effect than what a page may do by itself.    *)
LEMMA AccessExpiresEffect ==
    ASSUME WebTypeOK, CallsAreServed, PageInStep, HeldIsIssued, KnownSessions, NEW p \in Page,
           AccessExpires(p)
    PROVE  PageEffect(p)
<1>1. UNCHANGED call
    BY DEF AccessExpires
<1>2. UNCHANGED vars
    BY DEF AccessExpires
<1>3. OnlyPage(p)
    BY <1>1 DEF OnlyPage, WebTypeOK, AccessExpires
<1>4. Keeps(p, Caller)
    BY <1>1, <1>2 DEF Keeps, Away, OfSession, WebTypeOK, vars, AccessExpires
<1>5. Spares(p)
    BY <1>1, <1>2 DEF Spares, Away, OfSession, WebTypeOK, vars, AccessExpires
<1>6. At(<<p, "login">>, "answered")' =>
          call'[<<p, "login">>] = call[<<p, "login">>] /\ Keeps(p, Caller \ {"login"})
    BY <1>1, <1>2 DEF Keeps, Away, OfSession, WebTypeOK, vars, AccessExpires, At, Caller,
                      Refresher, PageInStep
<1> QED BY <1>2, <1>3, <1>4, <1>5, <1>6 DEF PageEffect

(* Load has no other effect than what a page may do by itself.             *)
LEMMA LoadEffect ==
    ASSUME WebTypeOK, CallsAreServed, PageInStep, HeldIsIssued, KnownSessions, NEW p \in Page,
           NEW s \in {None, sess[p]}, NEW l \in {None, local}, Load(p, s, l)
    PROVE  PageEffect(p)
<1>1. /\ \A y \in Page \ {p}, d \in Caller : call'[<<y, d>>] = call[<<y, d>>]
      /\ \A d \in Caller : call'[<<p, d>>].tok \in {None, mem'[p]} /\ ~At(<<p, "login">>, "answered")'
    BY SlotsAssumption DEF Load, NoCall, WebTypeOK, Caller, Refresher, CallState, At
<1>2. UNCHANGED vars
    BY DEF Load, NoCall
<1>3. OnlyPage(p)
    BY <1>1 DEF OnlyPage, WebTypeOK, Load, NoCall
<1>4. Keeps(p, Caller)
    BY <1>1, <1>2 DEF Keeps, Away, OfSession, WebTypeOK, vars, Load, NoCall
<1>5. Spares(p)
    BY <1>1, <1>2 DEF Spares, Away, OfSession, WebTypeOK, vars, Load, NoCall
<1>6. At(<<p, "login">>, "answered")' =>
          call'[<<p, "login">>] = call[<<p, "login">>] /\ Keeps(p, Caller \ {"login"})
    BY <1>1, <1>2 DEF Keeps, Away, OfSession, WebTypeOK, vars, Load, NoCall, At, Caller,
                      Refresher, PageInStep
<1> QED BY <1>2, <1>3, <1>4, <1>5, <1>6 DEF PageEffect

(* Refreshed has no other effect than what a page may do by itself.        *)
LEMMA RefreshedEffect ==
    ASSUME WebTypeOK, CallsAreServed, PageInStep, HeldIsIssued, KnownSessions, NEW p \in Page,
           NEW c \in Refresher, Refreshed(p, c)
    PROVE  PageEffect(p)
<1> DEFINE t == call[<<p, c>>].tok
<1>0. c \in Caller /\ c # "login"
    BY DEF Caller, Refresher
<1>1. /\ \A y \in Page, d \in Caller : y # p \/ d # c => call'[<<y, d>>] = call[<<y, d>>]
      /\ call'[<<p, c>>].tok = None
    BY <1>0, SlotsAssumption DEF Refreshed, Comes, Returns, NoCall, WebTypeOK
<1>2. /\ UNCHANGED vars /\ session' = session /\ task' = task
      /\ mem'[p] = t /\ sess'[p] \in {t, sess[p]} /\ local' \in {local, t}
      /\ local = None => local' = local
      /\ clean' \subseteq clean /\ (local # None => clean' \subseteq {p})
    BY DEF Refreshed, Set, CleanAfterSet, vars, WebTypeOK
<1>3. OnlyPage(p)
    BY <1>1 DEF OnlyPage, WebTypeOK, Refreshed, Set
<1>4. ASSUME NEW C \in SUBSET Caller, c \in C, NEW s, Away(p, C, s)
      PROVE  ~OfSession(t, s) /\ Away(p, C, s)'
    <2>1. ~OfSession(t, s) /\ ~OfSession(mem[p], s) /\ ~OfSession(sess[p], s)
        BY <1>4 DEF Away
    <2>2. ~OfSession(mem[p], s)' /\ ~OfSession(sess[p], s)'
        BY <1>2, <2>1 DEF OfSession
    <2>3. \A d \in Caller : ~OfSession(task[<<p, d>>].tok, s)'
        BY <1>2, <1>4 DEF Away, OfSession
    <2>4. \A d \in C : ~OfSession(call[<<p, d>>].tok, s)'
        BY <1>1, <1>2, <1>4 DEF Away, OfSession
    <2> QED BY <2>1, <2>2, <2>3, <2>4 DEF Away
<1>5. ASSUME NEW C \in SUBSET Caller, c \in C PROVE Keeps(p, C)
    BY <1>2, <1>4, <1>5 DEF Keeps, OfSession
<1>6. Spares(p)
    <2> SUFFICES ASSUME NEW y \in clean' \ {p}, Away(p, Caller, session[mem[y]])
                 PROVE  Away(p, Caller, session[mem[y]])'
        BY <1>2 DEF Spares
    <2>1. session'[mem'[y]] = session[mem[y]]
        BY <1>2, <1>3 DEF OnlyPage, WebTypeOK
    <2> QED BY <1>0, <1>4, <2>1 DEF Away
<1>7. At(<<p, "login">>, "answered")' => call'[<<p, "login">>] = call[<<p, "login">>]
    BY <1>0, <1>1 DEF Caller
<1> QED BY <1>0, <1>2, <1>3, <1>5, <1>6, <1>7 DEF PageEffect

(* LoggedIn has no other effect than what a page may do by itself.         *)
LEMMA LoggedInEffect ==
    ASSUME WebTypeOK, CallsAreServed, PageInStep, HeldIsIssued, KnownSessions, NEW p \in Page,
           NEW keep \in BOOLEAN, LoggedIn(p, keep)
    PROVE  PageEffect(p)
<1> DEFINE c == "login"
           t == call[<<p, c>>].tok
<1>0. c \in Caller
    BY DEF Caller
<1>1. /\ \A y \in Page, d \in Caller : y # p \/ d # c => call'[<<y, d>>] = call[<<y, d>>]
      /\ call'[<<p, c>>] = NoCall
    BY <1>0, SlotsAssumption DEF LoggedIn, Returns, NoCall, WebTypeOK
<1>2. /\ UNCHANGED vars /\ session' = session /\ task' = task
      /\ mem'[p] = t /\ sess'[p] \in {t, None} /\ local' \in {None, t}
      /\ local' = local \/ local = None \/ clean' \subseteq {p}
      /\ clean' \subseteq clean \cup {p}
    BY DEF LoggedIn, vars, WebTypeOK
<1>3. OnlyPage(p)
    BY <1>1 DEF OnlyPage, WebTypeOK, LoggedIn
<1>4. ASSUME NEW s, Away(p, Caller, s)
      PROVE  ~OfSession(t, s) /\ Away(p, Caller, s)'
    <2>1. ~OfSession(t, s) /\ ~OfSession(mem[p], s) /\ ~OfSession(sess[p], s)
        BY <1>0, <1>4 DEF Away
    <2>2. ~OfSession(mem[p], s)' /\ ~OfSession(sess[p], s)'
        BY <1>2, <2>1 DEF OfSession
    <2>3. \A d \in Caller : ~OfSession(task[<<p, d>>].tok, s)'
        BY <1>2, <1>4 DEF Away, OfSession
    <2>4. \A d \in Caller : ~OfSession(call[<<p, d>>].tok, s)'
        BY <1>1, <1>2, <1>4 DEF Away, OfSession, NoCall
    <2> QED BY <2>1, <2>2, <2>3, <2>4 DEF Away
<1>5. Keeps(p, Caller)
    BY <1>2, <1>4 DEF Keeps, OfSession
<1>6. Spares(p)
    <2> SUFFICES ASSUME NEW y \in clean' \ {p}, Away(p, Caller, session[mem[y]])
                 PROVE  Away(p, Caller, session[mem[y]])'
        BY <1>2 DEF Spares
    <2>1. session'[mem'[y]] = session[mem[y]]
        BY <1>2, <1>3 DEF OnlyPage, WebTypeOK
    <2> QED BY <1>4, <2>1 DEF Away
<1>7. ~At(<<p, "login">>, "answered")'
    BY <1>1 DEF NoCall, At
<1> QED BY <1>2, <1>3, <1>5, <1>6, <1>7 DEF PageEffect

(* What a page does without the API.                                       *)
PageOnly(p) ==
    \/ FetcherRefresh(p) \/ FetcherLeaves(p) \/ NotifyRefresh(p) \/ FetcherFails(p)
    \/ \E c \in Refresher : Refreshed(p, c)
    \/ NotifyFails(p) \/ RestoreFails(p) \/ Restored(p)
    \/ \E keep \in BOOLEAN : LoggedIn(p, keep)
    \/ LoginFails(p) \/ LoggedOut(p) \/ StartLogout(p)
    \/ Reload(p) \/ Reopen(p) \/ AccessExpires(p)

(* A page gets its tokens from those that were issued.                     *)
LEMMA PageIssued ==
    ASSUME WebTypeOK, HeldIsIssued, NEW p \in Page, PageOnly(p)
    PROVE  HeldIsIssued'
<1> USE DEF WebTypeOK, HeldIsIssued, Issued, vars
<1>1. ASSUME FetcherRefresh(p)
      PROVE  HeldIsIssued'
    <2>1. <<p, "fetcher">> \in Request
        BY Slots DEF Caller, Refresher
    <2> QED BY <1>1, <2>1 DEF FetcherRefresh, Send, store, Comes
<1>2. ASSUME NotifyRefresh(p)
      PROVE  HeldIsIssued'
    <2>1. <<p, "notify">> \in Request
        BY Slots DEF Caller, Refresher
    <2> QED BY <1>2, <2>1 DEF NotifyRefresh, Send, store, Comes
<1>3. ASSUME StartLogout(p)
      PROVE  HeldIsIssued'
    <2>1. <<p, "logout">> \in Request
        BY Slots DEF Caller, Refresher
    <2> QED BY <1>3, <2>1 DEF StartLogout, Send, store, Comes
<1>4. ASSUME NEW s \in {None, sess[p]}, NEW l \in {None, local}, Load(p, s, l)
      PROVE  HeldIsIssued'
    BY <1>4 DEF Load, NoCall, Comes
<1>5. ASSUME NEW c \in Refresher, Refreshed(p, c)
      PROVE  HeldIsIssued'
    <2>1. <<p, c>> \in Request
        BY Slots DEF Caller
    <2> DEFINE t == call[<<p, c>>].tok
    <2>2. /\ Issued(t) /\ t \in Token \cup {None} /\ st' = st /\ task' = task
          /\ \A q \in Request : call'[q] = call[q] \/ call'[q].tok = None
        BY <1>5, <2>1, SMTT(30) DEF Refreshed, Comes, Returns, NoCall
    <2>3. /\ local' \in {local, t} /\ mem' = [mem EXCEPT ![p] = t]
          /\ \A x \in Page : sess'[x] \in {sess[x], t}
        BY <1>5 DEF Refreshed, Set
    <2> QED BY <2>2, <2>3
<1>6. ASSUME NotifyFails(p)
      PROVE  HeldIsIssued'
    <2>1. <<p, "notify">> \in Request
        BY Slots DEF Caller, Refresher
    <2> QED BY <1>6, <2>1 DEF NotifyFails, Clear, Returns, NoCall, Comes
<1>7. ASSUME RestoreFails(p)
      PROVE  HeldIsIssued'
    <2>1. <<p, "restore">> \in Request
        BY Slots DEF Caller, Refresher
    <2> QED BY <1>7, <2>1 DEF RestoreFails, Clear, Returns, NoCall, Comes
<1>8. ASSUME LoggedOut(p)
      PROVE  HeldIsIssued'
    <2>1. <<p, "logout">> \in Request
        BY Slots DEF Caller, Refresher
    <2> QED BY <1>8, <2>1 DEF LoggedOut, Clear, Returns, NoCall, Comes
<1>9. ASSUME Restored(p)
      PROVE  HeldIsIssued'
    <2>1. <<p, "restore">> \in Request
        BY Slots DEF Caller, Refresher
    <2> QED BY <1>9, <2>1 DEF Restored, Returns, NoCall, store, Comes
<1>10. ASSUME LoginFails(p)
      PROVE  HeldIsIssued'
    <2>1. <<p, "login">> \in Request
        BY Slots DEF Caller, Refresher
    <2> QED BY <1>10, <2>1 DEF LoginFails, Returns, NoCall, store, Comes
<1>11. ASSUME AccessExpires(p)
      PROVE  HeldIsIssued'
    BY <1>11 DEF AccessExpires, Comes
<1>12. ASSUME NEW keep \in BOOLEAN, LoggedIn(p, keep)
      PROVE  HeldIsIssued'
    <2>1. <<p, "login">> \in Request
        BY Slots DEF Caller, Refresher
    <2> QED BY <1>12, <2>1 DEF LoggedIn, Returns, NoCall, Comes
<1> QED BY <1>1, <1>2, <1>3, <1>4, <1>5, <1>6, <1>7, <1>8, <1>9, <1>10, <1>11, <1>12
        DEF PageOnly, FetcherLeaves, FetcherFails, Leave, Reload, Reopen

(* A clean page that refreshes is safe.                                    *)
LEMMA RefreshIsSafe ==
    ASSUME WebTypeOK, CallsAreServed, PageInStep, CleanInv, NEW p \in Page, NEW c \in Refresher,
           mem[p] # None, Send(p, c, mem[p]), UNCHANGED <<vars, store, user>>,
           clean' = IF Refreshing(p) THEN clean \ {p} ELSE clean, p \in clean'
    PROVE  Safe(p)'
<1> DEFINE t == mem[p]
<1>0. c \in Caller /\ c # "logout" /\ p \in clean /\ Safe(p)
    BY DEF Caller, Refresher, CleanInv, Safe
<1>1. /\ \A y \in Page, d \in Caller : y # p \/ d # c => call'[<<y, d>>] = call[<<y, d>>]
      /\ call'[<<p, c>>] = [pc |-> "sent", tok |-> t]
    BY <1>0, SlotsAssumption DEF Send, Comes, WebTypeOK
<1>2. /\ mem' = mem /\ sess' = sess /\ local' = local /\ session' = session
      /\ st' = st /\ flushed' = flushed /\ task' = task
    BY DEF vars, store
<1>3. \A d \in Refresher : At(<<p, d>>, "idle")
    BY <1>0 DEF Refreshing
<1>4. Stored(p)'
    BY <1>0, <1>2 DEF Safe, Stored
<1>5. \A y \in Page \ {p} : Away(y, Caller, session[t])'
    BY <1>0, <1>1, <1>2 DEF Safe, Alone, Away, OfSession
<1>6. \A d \in Caller : OfSession(task[<<p, d>>].tok, session[t]) =>
                            d # "login" /\ At(<<p, d>>, "served")'
    BY <1>0, <1>1, <1>3 DEF Safe, Alone, At
<1>7. \A d, e \in Refresher : ~At(<<p, d>>, "idle")' /\ ~At(<<p, e>>, "idle")' => d = e
    BY <1>1, <1>3 DEF At, Caller
<1>8. Alone(p)'
    BY <1>2, <1>5, <1>6, <1>7 DEF Alone, OfSession
<1>9. Refreshes(p)'
    BY <1>0, <1>1, <1>2, <1>3 DEF Safe, Refreshes, LoggingOut, At, Caller, Sole
<1> QED BY <1>4, <1>8, <1>9 DEF Safe

(* A clean page that is loaded again is safe.                              *)
LEMMA LoadIsSafe ==
    ASSUME WebTypeOK, CallsAreServed, PageInStep, CleanInv, NEW p \in Page,
           NEW s \in {None, sess[p]}, NEW l \in {None, local},
           Load(p, s, l), p \in clean'
    PROVE  Safe(p)'
<1> DEFINE t == mem[p]
<1>1. /\ p \in clean /\ ~Refreshing(p) /\ ~LoggingOut(p) /\ s = sess[p] /\ l = local
    BY DEF Load
<1>2. Stored(p) /\ Alone(p) /\ Refreshes(p)
    BY <1>1 DEF CleanInv
<1>3. /\ mem' = mem /\ sess' = sess /\ local' = local /\ session' = session
      /\ st' = st /\ flushed' = flushed /\ task' = task
    BY <1>1, <1>2 DEF Load, vars, WebTypeOK, Stored
<1>4. /\ \A y \in Page \ {p}, d \in Caller : call'[<<y, d>>] = call[<<y, d>>]
      /\ \A d \in Caller \ {"restore"} : call'[<<p, d>>] = NoCall
      /\ call'[<<p, "restore">>] = [pc |-> "sent", tok |-> t]
    BY <1>1, <1>2, SlotsAssumption DEF Load, WebTypeOK, Stored, Caller, Refresher
<1>5. Stored(p)'
    BY <1>2, <1>3 DEF Stored
<1>6. \A y \in Page \ {p} : Away(y, Caller, session[t])'
    BY <1>2, <1>3, <1>4 DEF Alone, Away, OfSession
<1>7. \A d \in Caller : ~OfSession(task[<<p, d>>].tok, session[t])
    BY <1>1, <1>2 DEF Alone, At, Refreshing, LoggingOut, Caller
<1>8. \A d, e \in Refresher : ~At(<<p, d>>, "idle")' /\ ~At(<<p, e>>, "idle")' => d = e
    BY <1>4 DEF At, Caller, NoCall
<1>9. Alone(p)'
    BY <1>3, <1>6, <1>7, <1>8 DEF Alone, OfSession
<1>10. Refreshes(p)'
    BY <1>1, <1>2, <1>3, <1>4 DEF Refreshes, Refreshing, LoggingOut, At, Caller, Sole, NoCall
<1> QED BY <1>5, <1>9, <1>10 DEF Safe

(* A clean page that takes up the token of its refresh is safe.            *)
LEMMA RefreshedIsSafe ==
    ASSUME WebTypeOK, CallsAreServed, PageInStep, CleanInv, NEW p \in Page, NEW c \in Refresher,
           Refreshed(p, c), p \in clean'
    PROVE  Safe(p)'
<1> PICK t, s : t = call[<<p, c>>].tok /\ s = session[t]
    OBVIOUS
<1>0. c \in Caller /\ c # "logout" /\ p \in clean /\ Safe(p) /\ t # None
    BY SlotsAssumption DEF Caller, Refresher, CleanInv, Safe, Refreshed, CleanAfterSet,
                           CallsAreServed, At
<1>1. /\ \A y \in Page, d \in Caller : y # p \/ d # c => call'[<<y, d>>] = call[<<y, d>>]
      /\ call'[<<p, c>>].pc \in {"idle", "me"} /\ call'[<<p, c>>].tok = None
    BY <1>0, SlotsAssumption DEF Refreshed, Comes, Returns, NoCall, WebTypeOK
<1>2. /\ session' = session /\ st' = st /\ flushed' = flushed /\ task' = task
    BY DEF vars, Refreshed
<1>3. /\ mem'[p] = t /\ s = session[t] /\ s = session[mem[p]]
      /\ Sole(t, s) /\ (LoggingOut(p) \/ Intact(t, s))
      /\ \A y \in Page \ {p} : mem'[y] = mem[y] /\ sess'[y] = sess[y]
    BY <1>0 DEF Safe, Refreshed, Set, WebTypeOK, Refreshes, Sole
<1>4. Stored(p)'
    BY <1>0, <1>3 DEF Safe, Stored, Refreshed, Set, CleanAfterSet, WebTypeOK
<1>5. \A y \in Page \ {p} : Away(y, Caller, s)'
    BY <1>0, <1>1, <1>2, <1>3 DEF Safe, Alone, Away, OfSession
<1>6. \A d \in Refresher \ {c} : At(<<p, d>>, "idle")
    BY <1>0 DEF Safe, Alone, Refreshed, At
<1>7. \A d \in Caller : OfSession(task[<<p, d>>].tok, s) =>
                            d # "login" /\ At(<<p, d>>, "served")'
    BY <1>0, <1>1, <1>3 DEF Safe, Alone, At, Refreshed
<1>8. \A d, e \in Refresher : ~At(<<p, d>>, "idle")' /\ ~At(<<p, e>>, "idle")' => d = e
    BY <1>1, <1>6 DEF At, Caller
<1>9. Alone(p)'
    BY <1>2, <1>3, <1>5, <1>7, <1>8 DEF Alone, OfSession
<1>10. Refreshes(p)'
    BY <1>0, <1>1, <1>2, <1>3, <1>6 DEF Refreshes, LoggingOut, At, Caller, Intact, Sole
<1> QED BY <1>4, <1>9, <1>10 DEF Safe

(* A page that has logged in without a mishap is safe.                     *)
LEMMA LoggedInIsSafe ==
    ASSUME WebTypeOK, CallsAreServed, PageInStep, CleanInv, LoginIsNew, NEW p \in Page,
           NEW keep \in BOOLEAN,
           LoggedIn(p, keep), p \in clean'
    PROVE  Safe(p)'
<1> PICK t : t = call[<<p, "login">>].tok
    OBVIOUS
<1>0. t # None /\ ~Refreshing(p) /\ (keep \/ local = None)
    BY SlotsAssumption DEF Caller, Refresher, LoggedIn, CallsAreServed, At, WebTypeOK
<1>1. /\ \A y \in Page, d \in Caller : y # p \/ d # "login" => call'[<<y, d>>] = call[<<y, d>>]
      /\ call'[<<p, "login">>].tok = None
    BY SlotsAssumption DEF LoggedIn, Returns, NoCall, WebTypeOK, Caller
<1>2. /\ session' = session /\ st' = st /\ flushed' = flushed /\ task' = task
    BY DEF vars, LoggedIn
<1>3. /\ mem'[p] = t /\ session[t] = t /\ Intact(t, t)
      /\ Away(p, Caller \ {"login"}, t) /\ \A y \in Page \ {p} : Away(y, Caller, t)
      /\ \A y \in Page \ {p} : mem'[y] = mem[y] /\ sess'[y] = sess[y]
    BY DEF LoggedIn, WebTypeOK, LoginIsNew, IsNew, Intact, Sole
<1>4. Stored(p)'
    BY <1>0, <1>3 DEF Stored, LoggedIn, WebTypeOK
<1>5. \A y \in Page \ {p} : Away(y, Caller, t)'
    BY <1>1, <1>2, <1>3 DEF Away, OfSession
<1>6. \A d \in Refresher : At(<<p, d>>, "idle")'
    BY <1>0, <1>1 DEF Refreshing, At, Caller, Refresher
<1>7. Alone(p)'
    BY <1>2, <1>3, <1>5, <1>6 DEF Alone, OfSession, Away
<1>8. Refreshes(p)'
    BY <1>2, <1>3, <1>6 DEF Refreshes, At, Intact, Sole
<1> QED BY <1>4, <1>7, <1>8 DEF Safe

(* A clean page whose own holdings stay the same is safe, even if it gives *)
(* up the call for the user of a refresh it has done.                      *)
LEMMA QuietIsSafe ==
    ASSUME WebTypeOK, CallsAreServed, PageInStep, CleanInv, NEW p \in Page, p \in clean,
           UNCHANGED <<vars, mem, sess, local>>, OnlyPage(p),
           call'[<<p, "logout">>] = call[<<p, "logout">>],
           \A c \in Refresher : \/ call'[<<p, c>>] = call[<<p, c>>]
                                \/ At(<<p, c>>, "me") /\ call'[<<p, c>>] = NoCall
    PROVE  Safe(p)'
<1>1. Stored(p) /\ Alone(p) /\ Refreshes(p)
    BY DEF CleanInv
<1>2. /\ session' = session /\ st' = st /\ flushed' = flushed /\ task' = task
    BY DEF vars
<1>3. Stored(p)'
    BY <1>1 DEF Stored
<1>4. \A y \in Page \ {p} : Away(y, Caller, session[mem[p]])'
    BY <1>1, <1>2 DEF Alone, Away, OfSession, OnlyPage
<1>5. \A c \in Refresher : At(<<p, c>>, "served")' <=> At(<<p, c>>, "served")
    BY DEF At, NoCall
<1>6. \A c \in Caller : OfSession(task[<<p, c>>].tok, session[mem[p]])' =>
                            c # "login" /\ At(<<p, c>>, "served")'
    BY <1>1, <1>2, <1>5 DEF Alone, OfSession, At, Caller
<1>7. \A c \in Refresher : At(<<p, c>>, "idle") => At(<<p, c>>, "idle")'
    BY DEF At, NoCall
<1>8. Alone(p)'
    BY <1>1, <1>2, <1>4, <1>6, <1>7 DEF Alone
<1>9. Refreshes(p)'
    BY <1>1, <1>2 DEF Refreshes, Intact, Sole, LoggingOut, At, NoCall
<1> QED BY <1>3, <1>8, <1>9 DEF Safe

(* A clean page is safe whatever a step does for its logout, if it makes   *)
(* no token live.                                                          *)
LEMMA LogoutStepIsSafe ==
    ASSUME WebTypeOK, NEW p \in Page, Safe(p), UNCHANGED <<mem, sess, local, session>>,
           \A t \in Token : st'[t] = "live" => st[t] = "live",
           \A y \in Page, d \in Caller : y # p \/ d # "logout" =>
               call'[<<y, d>>] = call[<<y, d>>] /\ task'[<<y, d>>] = task[<<y, d>>],
           LoggingOut(p)',
           OfSession(task[<<p, "logout">>].tok, session[mem[p]])' => At(<<p, "logout">>, "served")'
    PROVE  Safe(p)'
<1>1. Stored(p)'
    BY DEF Safe, Stored
<1>2. \A y \in Page \ {p} : Away(y, Caller, session[mem[p]])'
    BY DEF Safe, Alone, Away, OfSession
<1>3. \A d \in Refresher : d \in Caller /\ d # "logout" /\ call'[<<p, d>>] = call[<<p, d>>]
    BY DEF Caller, Refresher
<1>4. \A d \in Caller : OfSession(task[<<p, d>>].tok, session[mem[p]])' =>
                            d # "login" /\ At(<<p, d>>, "served")'
    BY DEF Safe, Alone, At, OfSession
<1>5. Alone(p)'
    BY <1>2, <1>3, <1>4 DEF Safe, Alone, At
<1>6. \A t, s : Sole(t, s) => Sole(t, s)'
    BY DEF Sole
<1>7. Refreshes(p)'
    BY <1>3, <1>6 DEF Safe, Refreshes, At
<1> QED BY <1>1, <1>5, <1>7 DEF Safe

(* Pages keep logins new and clean pages safe.                             *)
LEMMA PageSafe ==
    ASSUME WebTypeOK, IInv, HeldIsIssued, CallsAreServed, PageInStep, LoginIsNew, CleanInv,
           NEW p \in Page, PageOnly(p)
    PROVE  LoginIsNew' /\ CleanInv'
<1>0. ASSUME PageEffect(p), p \in clean' => Safe(p)'
      PROVE  LoginIsNew' /\ CleanInv'
    <2>1. LoginIsNew'
        BY <1>0, LoginStaysNew DEF IInv
    <2>2. \A x \in clean' : Safe(x)'
        BY <1>0, OthersStaySafe DEF IInv
    <2> QED BY <2>1, <2>2 DEF CleanInv, Safe
<1> USE DEF IInv
<1>1. ASSUME FetcherRefresh(p)
      PROVE  LoginIsNew' /\ CleanInv'
    <2>1. p \in clean' => Safe(p)'
        BY <1>1, RefreshIsSafe DEF FetcherRefresh, Refresher
    <2> QED BY <1>1, <1>0, <2>1, FetcherRefreshEffect
<1>2. ASSUME NotifyRefresh(p)
      PROVE  LoginIsNew' /\ CleanInv'
    <2>1. p \in clean' => Safe(p)'
        BY <1>2, RefreshIsSafe DEF NotifyRefresh, Refresher
    <2> QED BY <1>2, <1>0, <2>1, NotifyRefreshEffect
<1>3. ASSUME StartLogout(p)
      PROVE  LoginIsNew' /\ CleanInv'
    <2>1. <<p, "logout">> \in Request /\ UNCHANGED <<vars, mem, sess, local, clean>>
        BY <1>3, Slots DEF StartLogout, Caller, store
    <2>2. /\ LoggingOut(p)' /\ task[<<p, "logout">>].tok = None
          /\ \A r \in Request \ {<<p, "logout">>} : call'[r] = call[r]
        BY <1>3, <2>1 DEF StartLogout, Send, Comes, LoggingOut, At, WebTypeOK, CallsAreServed
    <2>3. p \in clean' => Safe(p)'
        BY <2>1, <2>2, Slots, LogoutStepIsSafe DEF CleanInv, Safe, vars, tokens, OfSession
    <2> QED BY <1>3, <1>0, <2>3, StartLogoutEffect
<1>4. ASSUME NEW s \in {None, sess[p]}, NEW l \in {None, local}, Load(p, s, l)
      PROVE  LoginIsNew' /\ CleanInv'
    BY <1>4, <1>0, LoadEffect, LoadIsSafe
<1>5. ASSUME NEW c \in Refresher, Refreshed(p, c)
      PROVE  LoginIsNew' /\ CleanInv'
    BY <1>5, <1>0, RefreshedEffect, RefreshedIsSafe
<1>6. ASSUME NotifyFails(p)
      PROVE  LoginIsNew' /\ CleanInv'
    BY <1>6, <1>0, NotifyFailsEffect DEF NotifyFails, CleanAfterClear
<1>7. ASSUME RestoreFails(p)
      PROVE  LoginIsNew' /\ CleanInv'
    BY <1>7, <1>0, RestoreFailsEffect DEF RestoreFails, CleanAfterClear
<1>8. ASSUME LoggedOut(p)
      PROVE  LoginIsNew' /\ CleanInv'
    BY <1>8, <1>0, LoggedOutEffect DEF LoggedOut, CleanAfterClear
<1>9. ASSUME Restored(p)
      PROVE  LoginIsNew' /\ CleanInv'
    <2>1. PageEffect(p)
        BY <1>9, RestoredEffect
    <2>2. /\ \A c \in Caller \ {"restore"} : call'[<<p, c>>] = call[<<p, c>>]
          /\ At(<<p, "restore">>, "me") /\ call'[<<p, "restore">>] = NoCall
          /\ UNCHANGED <<mem, sess, local, clean>>
        BY <1>9, Slots DEF Restored, Returns, Caller, Refresher, store, WebTypeOK
    <2>3. call'[<<p, "logout">>] = call[<<p, "logout">>]
        BY <2>2 DEF Caller
    <2>4. \A c \in Refresher :
              call'[<<p, c>>] = call[<<p, c>>] \/ (At(<<p, c>>, "me") /\ call'[<<p, c>>] = NoCall)
        BY <2>2 DEF Caller, At
    <2> USE <2>3, <2>4
    <2> QED BY <1>0, <2>1, <2>2, QuietIsSafe DEF PageEffect
<1>10. ASSUME LoginFails(p)
      PROVE  LoginIsNew' /\ CleanInv'
    <2>1. PageEffect(p)
        BY <1>10, LoginFailsEffect
    <2>2. /\ UNCHANGED <<mem, sess, local, clean>>
          /\ \A c \in Refresher \cup {"logout"} : call'[<<p, c>>] = call[<<p, c>>]
        BY <1>10, Slots DEF LoginFails, Returns, Caller, Refresher, store, WebTypeOK
    <2> QED BY <1>0, <2>1, <2>2, QuietIsSafe DEF PageEffect
<1>11. ASSUME AccessExpires(p)
      PROVE  LoginIsNew' /\ CleanInv'
    <2>1. PageEffect(p)
        BY <1>11, AccessExpiresEffect
    <2> QED BY <1>11, <1>0, <2>1, QuietIsSafe DEF PageEffect, AccessExpires
<1>12. ASSUME NEW keep \in BOOLEAN, LoggedIn(p, keep)
      PROVE  LoginIsNew' /\ CleanInv'
    BY <1>12, <1>0, LoggedInEffect, LoggedInIsSafe
<1> QED BY <1>1, <1>2, <1>3, <1>4, <1>5, <1>6, <1>7, <1>8, <1>9, <1>10, <1>11, <1>12
        DEF PageOnly, FetcherLeaves, FetcherFails, Leave, Reload, Reopen

------------------------------------------------------------------------------
(* A step that works on no token of session s does nothing to s.           *)
Untouched(s) ==
    /\ flushed \subseteq flushed'
    /\ \A t \in Token :
           /\ session'[t] = s <=> session[t] = s
           /\ session[t] = s =>
                  /\ st'[t] = "live" => st[t] = "live"
                  /\ st'[t] = "revoked" /\ s \notin flushed' => st[t] = "revoked"

(* What the API does for slot q.                                           *)
ServerEffect(q) ==
    /\ UNCHANGED <<store, user, clean>>
    /\ \A r \in Request \ {q} : call'[r] = call[r] /\ task'[r] = task[r]
    /\ At(q, "idle")' => At(q, "idle")
    /\ \A t \in Token : st[t] # "unborn" => st'[t] # "unborn" /\ session'[t] = session[t]
    /\ \A s \in Token : st[s] # "unborn" /\ ~OfSession(task[q].tok, s) =>
           /\ Untouched(s)
           /\ q[2] = "login" \/ At(q, "idle") \/ ~OfSession(call[q].tok, s) =>
                  ~OfSession(task[q].tok, s)'
           /\ ~OfSession(call[q].tok, s) => ~OfSession(call[q].tok, s)'
    /\ Issued(call[q].tok)' /\ Issued(task[q].tok)'
    /\ q[2] = "login" /\ At(q, "answered")' => ~At(q, "answered")

(* Each step of the API, with the call it serves, disturbs only the        *)
(* session of that call.  A login, when it arrives, disturbs none: ...     *)
LEMMA SubmitLoginEffect ==
    ASSUME WebTypeOK, TypeOK', IInv, CallsAreServed, HeldIsIssued, NEW p \in Page,
           NEW u \in User, NEW q \in Request, q = <<p, "login">>, SubmitLogin(p, u)
    PROVE  ServerEffect(q)
<1> USE NoneAssumption DEF WebTypeOK, TypeOK, Task, OfSession, Untouched, Idle, At, store,
                           vars, tokens, Issued, SubmitLogin, Login, Start, Comes
<1>1. /\ UNCHANGED <<store, user, clean>>
      /\ \A r \in Request \ {q} : call'[r] = call[r] /\ task'[r] = task[r]
      /\ At(q, "idle")' => At(q, "idle")
      /\ q[2] = "login" /\ At(q, "answered")' => ~At(q, "answered")
    BY DEF CallsAreServed
<1>2. \A t1 \in Token : st[t1] # "unborn" => st'[t1] # "unborn" /\ session'[t1] = session[t1]
    BY DEF IInv, KnownTokens
<1>3. Issued(call[q].tok)' /\ Issued(task[q].tok)'
    BY <1>2 DEF HeldIsIssued
<1>4. ASSUME NEW s \in Token, st[s] # "unborn", ~OfSession(task[q].tok, s)
      PROVE  Untouched(s)
    BY <1>4 DEF IInv, KnownTokens, KnownSessions
<1>5. ASSUME NEW s \in Token, st[s] # "unborn", ~OfSession(task[q].tok, s)
      PROVE  q[2] = "login" \/ At(q, "idle") \/ ~OfSession(call[q].tok, s) =>
                 ~OfSession(task[q].tok, s)'
    BY <1>2, <1>5 DEF HeldIsIssued
<1>6. ASSUME NEW s \in Token, st[s] # "unborn", ~OfSession(task[q].tok, s)
      PROVE  ~OfSession(call[q].tok, s) => ~OfSession(call[q].tok, s)'
    BY <1>2, <1>6 DEF HeldIsIssued, IInv, KnownTokens, KnownSessions
<1> QED BY <1>1, <1>2, <1>3, <1>4, <1>5, <1>6 DEF ServerEffect

(* ... nor does a refresh or a logout when it arrives: the handler takes   *)
(* the token that the call carries, ...                                    *)
LEMMA ArrivedEffect ==
    ASSUME WebTypeOK, TypeOK', IInv, CallsAreServed, HeldIsIssued, NEW q \in Request,
           q[2] # "login", At(q, "sent"), NEW t \in Token, t = call[q].tok,
           Rotate(q, t) \/ RotateReused(q, t) \/ Logout(q, t), Comes(q, "served", t),
           UNCHANGED <<store, user, clean>>
    PROVE  ServerEffect(q)
<1> USE NoneAssumption DEF WebTypeOK, TypeOK, Task, OfSession, Untouched, Idle, At, store,
                           vars, tokens, Issued, Rotate, RotateReused, Logout, Start, Comes
<1>1. /\ UNCHANGED <<store, user, clean>>
      /\ \A r \in Request \ {q} : call'[r] = call[r] /\ task'[r] = task[r]
      /\ At(q, "idle")' => At(q, "idle")
      /\ q[2] = "login" /\ At(q, "answered")' => ~At(q, "answered")
    BY DEF CallsAreServed
<1>2. \A t1 \in Token : st[t1] # "unborn" => st'[t1] # "unborn" /\ session'[t1] = session[t1]
    BY DEF IInv, KnownTokens
<1>3. Issued(call[q].tok)' /\ Issued(task[q].tok)'
    BY <1>2 DEF HeldIsIssued
<1>4. ASSUME NEW s \in Token, st[s] # "unborn", ~OfSession(task[q].tok, s)
      PROVE  Untouched(s)
    BY <1>4 DEF IInv, KnownTokens, KnownSessions
<1>5. ASSUME NEW s \in Token, st[s] # "unborn", ~OfSession(task[q].tok, s)
      PROVE  q[2] = "login" \/ At(q, "idle") \/ ~OfSession(call[q].tok, s) =>
                 ~OfSession(task[q].tok, s)'
    BY <1>2, <1>5 DEF HeldIsIssued
<1>6. ASSUME NEW s \in Token, st[s] # "unborn", ~OfSession(task[q].tok, s)
      PROVE  ~OfSession(call[q].tok, s) => ~OfSession(call[q].tok, s)'
    BY <1>2, <1>6 DEF HeldIsIssued, IInv, KnownTokens, KnownSessions
<1> QED BY <1>1, <1>2, <1>3, <1>4, <1>5, <1>6 DEF ServerEffect

(* ... nor a call that is answered at once, fails or is lost, ...          *)
LEMMA SettledEffect ==
    ASSUME WebTypeOK, TypeOK', IInv, CallsAreServed, HeldIsIssued, NEW q \in Request,
           NEW pc \in CallState \ {"idle"}, q[2] = "login" => pc # "answered",
           Comes(q, pc, call[q].tok), UNCHANGED <<vars, store, user, clean>>
    PROVE  ServerEffect(q)
<1> USE NoneAssumption DEF WebTypeOK, TypeOK, Task, OfSession, Untouched, Idle, At, store,
                           vars, tokens, Issued, Comes
<1>1. /\ UNCHANGED <<store, user, clean>>
      /\ \A r \in Request \ {q} : call'[r] = call[r] /\ task'[r] = task[r]
      /\ At(q, "idle")' => At(q, "idle")
      /\ q[2] = "login" /\ At(q, "answered")' => ~At(q, "answered")
    BY DEF CallsAreServed
<1>2. \A t1 \in Token : st[t1] # "unborn" => st'[t1] # "unborn" /\ session'[t1] = session[t1]
    BY DEF IInv, KnownTokens
<1>3. Issued(call[q].tok)' /\ Issued(task[q].tok)'
    BY <1>2 DEF HeldIsIssued
<1>4. ASSUME NEW s \in Token, st[s] # "unborn", ~OfSession(task[q].tok, s)
      PROVE  Untouched(s)
    BY <1>4 DEF IInv, KnownTokens, KnownSessions
<1>5. ASSUME NEW s \in Token, st[s] # "unborn", ~OfSession(task[q].tok, s)
      PROVE  q[2] = "login" \/ At(q, "idle") \/ ~OfSession(call[q].tok, s) =>
                 ~OfSession(task[q].tok, s)'
    BY <1>2, <1>5 DEF HeldIsIssued
<1>6. ASSUME NEW s \in Token, st[s] # "unborn", ~OfSession(task[q].tok, s)
      PROVE  ~OfSession(call[q].tok, s) => ~OfSession(call[q].tok, s)'
    BY <1>2, <1>6 DEF HeldIsIssued, IInv, KnownTokens, KnownSessions
<1> QED BY <1>1, <1>2, <1>3, <1>4, <1>5, <1>6 DEF ServerEffect

(* ... the first update of rotate spends a token of that session, ...      *)
LEMMA RotateRevokeEffect ==
    ASSUME WebTypeOK, TypeOK', IInv, CallsAreServed, HeldIsIssued, NEW q \in Request,
           RotateRevoke(q), UNCHANGED <<call, store, user, clean>>
    PROVE  ServerEffect(q)
<1> USE NoneAssumption DEF WebTypeOK, TypeOK, Task, OfSession, Untouched, Idle, At, store,
                           vars, tokens, Issued, RotateRevoke, GoTo
<1>1. /\ UNCHANGED <<store, user, clean>>
      /\ \A r \in Request \ {q} : call'[r] = call[r] /\ task'[r] = task[r]
      /\ At(q, "idle")' => At(q, "idle")
      /\ q[2] = "login" /\ At(q, "answered")' => ~At(q, "answered")
    BY DEF CallsAreServed
<1>2. \A t1 \in Token : st[t1] # "unborn" => st'[t1] # "unborn" /\ session'[t1] = session[t1]
    BY DEF IInv, KnownTokens
<1>3. Issued(call[q].tok)' /\ Issued(task[q].tok)'
    BY <1>2 DEF HeldIsIssued
<1>4. ASSUME NEW s \in Token, st[s] # "unborn", ~OfSession(task[q].tok, s)
      PROVE  Untouched(s)
    BY <1>4 DEF IInv, KnownTokens, KnownSessions
<1>5. ASSUME NEW s \in Token, st[s] # "unborn", ~OfSession(task[q].tok, s)
      PROVE  q[2] = "login" \/ At(q, "idle") \/ ~OfSession(call[q].tok, s) =>
                 ~OfSession(task[q].tok, s)'
    BY <1>2, <1>5 DEF HeldIsIssued
<1>6. ASSUME NEW s \in Token, st[s] # "unborn", ~OfSession(task[q].tok, s)
      PROVE  ~OfSession(call[q].tok, s) => ~OfSession(call[q].tok, s)'
    BY <1>2, <1>6 DEF HeldIsIssued, IInv, KnownTokens, KnownSessions
<1> QED BY <1>1, <1>2, <1>3, <1>4, <1>5, <1>6 DEF ServerEffect

(* ... logout revokes the token it names, ...                              *)
LEMMA LogoutRevokeEffect ==
    ASSUME WebTypeOK, TypeOK', IInv, CallsAreServed, HeldIsIssued, NEW q \in Request,
           q[2] # "login", LogoutRevoke(q), Reply(q, "answered", call[q].tok),
           UNCHANGED <<store, user, clean>>
    PROVE  ServerEffect(q)
<1> USE NoneAssumption DEF WebTypeOK, TypeOK, Task, OfSession, Untouched, Idle, At, store,
                           vars, tokens, Issued, LogoutRevoke, Finish, Blank, Reply, Comes
<1>1. /\ UNCHANGED <<store, user, clean>>
      /\ \A r \in Request \ {q} : call'[r] = call[r] /\ task'[r] = task[r]
      /\ At(q, "idle")' => At(q, "idle")
      /\ q[2] = "login" /\ At(q, "answered")' => ~At(q, "answered")
    BY DEF CallsAreServed
<1>2. \A t1 \in Token : st[t1] # "unborn" => st'[t1] # "unborn" /\ session'[t1] = session[t1]
    BY DEF IInv, KnownTokens
<1>3. Issued(call[q].tok)' /\ Issued(task[q].tok)'
    BY <1>2 DEF HeldIsIssued
<1>4. ASSUME NEW s \in Token, st[s] # "unborn", ~OfSession(task[q].tok, s)
      PROVE  Untouched(s)
    BY <1>4 DEF IInv, KnownTokens, KnownSessions
<1>5. ASSUME NEW s \in Token, st[s] # "unborn", ~OfSession(task[q].tok, s)
      PROVE  q[2] = "login" \/ At(q, "idle") \/ ~OfSession(call[q].tok, s) =>
                 ~OfSession(task[q].tok, s)'
    BY <1>2, <1>5 DEF HeldIsIssued
<1>6. ASSUME NEW s \in Token, st[s] # "unborn", ~OfSession(task[q].tok, s)
      PROVE  ~OfSession(call[q].tok, s) => ~OfSession(call[q].tok, s)'
    BY <1>2, <1>6 DEF HeldIsIssued, IInv, KnownTokens, KnownSessions
<1> QED BY <1>1, <1>2, <1>3, <1>4, <1>5, <1>6 DEF ServerEffect

(* ... a reuse revokes the whole session, ...                              *)
LEMMA RevokeAllEffect ==
    ASSUME WebTypeOK, TypeOK', IInv, CallsAreServed, HeldIsIssued, NEW q \in Request,
           RevokeAll(q), Reply(q, "failed", call[q].tok), UNCHANGED <<store, user, clean>>
    PROVE  ServerEffect(q)
<1> USE NoneAssumption DEF WebTypeOK, TypeOK, Task, OfSession, Untouched, Idle, At, store,
                           vars, tokens, Issued, RevokeAll, Finish, Blank, Reply, Comes
<1>1. /\ UNCHANGED <<store, user, clean>>
      /\ \A r \in Request \ {q} : call'[r] = call[r] /\ task'[r] = task[r]
      /\ At(q, "idle")' => At(q, "idle")
      /\ q[2] = "login" /\ At(q, "answered")' => ~At(q, "answered")
    BY DEF CallsAreServed
<1>2. \A t1 \in Token : st[t1] # "unborn" => st'[t1] # "unborn" /\ session'[t1] = session[t1]
    BY DEF IInv, KnownTokens
<1>3. Issued(call[q].tok)' /\ Issued(task[q].tok)'
    BY <1>2 DEF HeldIsIssued
<1>4. ASSUME NEW s \in Token, st[s] # "unborn", ~OfSession(task[q].tok, s)
      PROVE  Untouched(s)
    BY <1>4 DEF IInv, KnownTokens, KnownSessions
<1>5. ASSUME NEW s \in Token, st[s] # "unborn", ~OfSession(task[q].tok, s)
      PROVE  q[2] = "login" \/ At(q, "idle") \/ ~OfSession(call[q].tok, s) =>
                 ~OfSession(task[q].tok, s)'
    BY <1>2, <1>5 DEF HeldIsIssued
<1>6. ASSUME NEW s \in Token, st[s] # "unborn", ~OfSession(task[q].tok, s)
      PROVE  ~OfSession(call[q].tok, s) => ~OfSession(call[q].tok, s)'
    BY <1>2, <1>6 DEF HeldIsIssued, IInv, KnownTokens, KnownSessions
<1> QED BY <1>1, <1>2, <1>3, <1>4, <1>5, <1>6 DEF ServerEffect

(* ... a handler that dies leaves the tokens as they are, ...              *)
LEMMA AbortEffect ==
    ASSUME WebTypeOK, TypeOK', IInv, CallsAreServed, HeldIsIssued, NEW q \in Request, Abort(q),
           Reply(q, "failed", call[q].tok), UNCHANGED <<store, user, clean>>
    PROVE  ServerEffect(q)
<1> USE NoneAssumption DEF WebTypeOK, TypeOK, Task, OfSession, Untouched, Idle, At, store,
                           vars, tokens, Issued, Abort, Finish, Blank, Reply, Comes
<1>1. /\ UNCHANGED <<store, user, clean>>
      /\ \A r \in Request \ {q} : call'[r] = call[r] /\ task'[r] = task[r]
      /\ At(q, "idle")' => At(q, "idle")
      /\ q[2] = "login" /\ At(q, "answered")' => ~At(q, "answered")
    BY DEF CallsAreServed
<1>2. \A t1 \in Token : st[t1] # "unborn" => st'[t1] # "unborn" /\ session'[t1] = session[t1]
    BY DEF IInv, KnownTokens
<1>3. Issued(call[q].tok)' /\ Issued(task[q].tok)'
    BY <1>2 DEF HeldIsIssued
<1>4. ASSUME NEW s \in Token, st[s] # "unborn", ~OfSession(task[q].tok, s)
      PROVE  Untouched(s)
    BY <1>4 DEF IInv, KnownTokens, KnownSessions
<1>5. ASSUME NEW s \in Token, st[s] # "unborn", ~OfSession(task[q].tok, s)
      PROVE  q[2] = "login" \/ At(q, "idle") \/ ~OfSession(call[q].tok, s) =>
                 ~OfSession(task[q].tok, s)'
    BY <1>2, <1>5 DEF HeldIsIssued
<1>6. ASSUME NEW s \in Token, st[s] # "unborn", ~OfSession(task[q].tok, s)
      PROVE  ~OfSession(call[q].tok, s) => ~OfSession(call[q].tok, s)'
    BY <1>2, <1>6 DEF HeldIsIssued, IInv, KnownTokens, KnownSessions
<1> QED BY <1>1, <1>2, <1>3, <1>4, <1>5, <1>6 DEF ServerEffect

(* ... login issues the first token of a session that was nobody's, ...    *)
LEMMA LoginIssueEffect ==
    ASSUME WebTypeOK, TypeOK', IInv, CallsAreServed, HeldIsIssued, NEW q \in Request,
           NEW t \in Token, LoginIssue(q, t), Reply(q, "answered", t),
           UNCHANGED <<store, user, clean>>
    PROVE  ServerEffect(q)
<1> USE NoneAssumption DEF WebTypeOK, TypeOK, Task, OfSession, Untouched, Idle, At, store,
                           vars, tokens, Issued, LoginIssue, Issue, Finish, Blank, Reply, Comes
<1>1. /\ UNCHANGED <<store, user, clean>>
      /\ \A r \in Request \ {q} : call'[r] = call[r] /\ task'[r] = task[r]
      /\ At(q, "idle")' => At(q, "idle")
      /\ q[2] = "login" /\ At(q, "answered")' => ~At(q, "answered")
    BY DEF CallsAreServed
<1>2. \A t1 \in Token : st[t1] # "unborn" => st'[t1] # "unborn" /\ session'[t1] = session[t1]
    BY DEF IInv, KnownTokens
<1>3. Issued(call[q].tok)' /\ Issued(task[q].tok)'
    BY <1>2 DEF HeldIsIssued
<1>4. ASSUME NEW s \in Token, st[s] # "unborn", ~OfSession(task[q].tok, s)
      PROVE  Untouched(s)
    BY <1>4 DEF IInv, KnownTokens, KnownSessions
<1>5. ASSUME NEW s \in Token, st[s] # "unborn", ~OfSession(task[q].tok, s)
      PROVE  q[2] = "login" \/ At(q, "idle") \/ ~OfSession(call[q].tok, s) =>
                 ~OfSession(task[q].tok, s)'
    BY <1>2, <1>5 DEF HeldIsIssued
<1>6. ASSUME NEW s \in Token, st[s] # "unborn", ~OfSession(task[q].tok, s)
      PROVE  ~OfSession(call[q].tok, s) => ~OfSession(call[q].tok, s)'
    BY <1>2, <1>6 DEF HeldIsIssued, IInv, KnownTokens, KnownSessions
<1> QED BY <1>1, <1>2, <1>3, <1>4, <1>5, <1>6 DEF ServerEffect

(* ... the cleanup and the deletion of a user disturb only sessions that   *)
(* are over or end with it, ...                                            *)
LEMMA SessionEndsEffect ==
    ASSUME WebTypeOK, TypeOK', IInv, CallsAreServed, HeldIsIssued, NEW q \in Request,
           q[2] = "logout", SessionEnds
    PROVE  ServerEffect(q)
<1> USE NoneAssumption DEF WebTypeOK, TypeOK, Task, OfSession, Untouched, Idle, At, store,
                           vars, tokens, Issued, SessionEnds, Purge, DeleteUser
<1>1. /\ UNCHANGED <<store, user, clean>>
      /\ \A r \in Request \ {q} : call'[r] = call[r] /\ task'[r] = task[r]
      /\ At(q, "idle")' => At(q, "idle")
      /\ q[2] = "login" /\ At(q, "answered")' => ~At(q, "answered")
    BY DEF CallsAreServed
<1>2. \A t1 \in Token : st[t1] # "unborn" => st'[t1] # "unborn" /\ session'[t1] = session[t1]
    BY DEF IInv, KnownTokens
<1>3. Issued(call[q].tok)' /\ Issued(task[q].tok)'
    BY <1>2 DEF HeldIsIssued
<1>4. ASSUME NEW s \in Token, st[s] # "unborn", ~OfSession(task[q].tok, s)
      PROVE  Untouched(s)
    BY <1>4 DEF IInv, KnownTokens, KnownSessions
<1>5. ASSUME NEW s \in Token, st[s] # "unborn", ~OfSession(task[q].tok, s)
      PROVE  q[2] = "login" \/ At(q, "idle") \/ ~OfSession(call[q].tok, s) =>
                 ~OfSession(task[q].tok, s)'
    BY <1>2, <1>5 DEF HeldIsIssued
<1>6. ASSUME NEW s \in Token, st[s] # "unborn", ~OfSession(task[q].tok, s)
      PROVE  ~OfSession(call[q].tok, s) => ~OfSession(call[q].tok, s)'
    BY <1>2, <1>6 DEF HeldIsIssued, IInv, KnownTokens, KnownSessions
<1> QED BY <1>1, <1>2, <1>3, <1>4, <1>5, <1>6 DEF ServerEffect

(* ... and the second write of rotate issues in the session it has spent.  *)
LEMMA RotateIssueEffect ==
    ASSUME WebTypeOK, TypeOK', IInv, CallsAreServed, HeldIsIssued, NEW q \in Request,
           q[2] # "login", NEW t \in Token, RotateIssue(q, t), Reply(q, "answered", t),
           UNCHANGED <<store, user, clean>>
    PROVE  ServerEffect(q)
<1> USE NoneAssumption DEF WebTypeOK, TypeOK, Task, OfSession, Untouched, Idle, At, store,
                           vars, tokens, Issued, RotateIssue, Issue, Finish, Blank, Reply, Comes
<1>1. /\ UNCHANGED <<store, user, clean>>
      /\ \A r \in Request \ {q} : call'[r] = call[r] /\ task'[r] = task[r]
      /\ At(q, "idle")' => At(q, "idle")
      /\ q[2] = "login" /\ At(q, "answered")' => ~At(q, "answered")
    BY DEF CallsAreServed
<1>2. \A t1 \in Token : st[t1] # "unborn" => st'[t1] # "unborn" /\ session'[t1] = session[t1]
    BY DEF IInv, KnownTokens
<1>3. Issued(call[q].tok)' /\ Issued(task[q].tok)'
    BY <1>2 DEF HeldIsIssued
<1>4. ASSUME NEW s \in Token, st[s] # "unborn", ~OfSession(task[q].tok, s)
      PROVE  Untouched(s)
    BY <1>4 DEF IInv, KnownTokens, KnownSessions
<1>5. ASSUME NEW s \in Token, st[s] # "unborn", ~OfSession(task[q].tok, s)
      PROVE  q[2] = "login" \/ At(q, "idle") \/ ~OfSession(call[q].tok, s) =>
                 ~OfSession(task[q].tok, s)'
    BY <1>2, <1>5 DEF HeldIsIssued
<1>6. ASSUME NEW s \in Token, st[s] # "unborn", ~OfSession(task[q].tok, s)
      PROVE  ~OfSession(call[q].tok, s) => ~OfSession(call[q].tok, s)'
    BY <1>2, <1>6 DEF HeldIsIssued, IInv, KnownTokens, KnownSessions
<1> QED BY <1>1, <1>2, <1>3, <1>4, <1>5, <1>6 DEF ServerEffect

(* What is held stays issued.                                              *)
LEMMA ServerHeldIsIssued ==
    ASSUME WebTypeOK, HeldIsIssued, NEW q \in Request, ServerEffect(q)
    PROVE  HeldIsIssued'
BY NoneAssumption DEF ServerEffect, HeldIsIssued, Issued, WebTypeOK, store, TypeOK, Task

(* Where a session is not at work, it stays so.                            *)
LEMMA ServerAwayKept ==
    ASSUME WebTypeOK, HeldIsIssued, NEW x \in Page, NEW c \in Caller, ServerEffect(<<x, c>>),
           NEW y \in Page, NEW C \in SUBSET Caller, x = y => c \in C \/ c = "login",
           NEW s \in Token, st[s] # "unborn", ~OfSession(task[<<x, c>>].tok, s), Away(y, C, s)
    PROVE  Away(y, C, s)'
<1>1. /\ mem' = mem /\ sess' = sess
      /\ \A d \in Caller : d # c \/ x # y =>
             call'[<<y, d>>] = call[<<y, d>>] /\ task'[<<y, d>>] = task[<<y, d>>]
    BY SlotsAssumption DEF ServerEffect, store
<1>2. \A t \in Token \cup {None} : Issued(t) /\ ~OfSession(t, s) => ~OfSession(t, s)'
    BY DEF ServerEffect, Issued, OfSession
<1>3. ~OfSession(mem[y], s)' /\ ~OfSession(sess[y], s)'
    BY <1>1, <1>2 DEF Away, HeldIsIssued, WebTypeOK, OfSession
<1>4. ASSUME NEW d \in Caller PROVE ~OfSession(task[<<y, d>>].tok, s)'
    <2>0. <<y, d>> \in Request /\ ~OfSession(task[<<y, d>>].tok, s)
        BY SlotsAssumption DEF Away
    <2>1. CASE d # c \/ x # y
        <3>1. task'[<<y, d>>] = task[<<y, d>>] /\ task[<<y, d>>].tok \in Token \cup {None}
            BY <1>1, <2>0, <2>1 DEF WebTypeOK, TypeOK, Task
        <3> QED BY <1>2, <2>0, <3>1 DEF HeldIsIssued, OfSession
    <2>2. CASE d = c /\ x = y
        BY <2>2, SlotsAssumption DEF ServerEffect, Away
    <2> QED BY <2>1, <2>2
<1>5. ASSUME NEW d \in C PROVE ~OfSession(call[<<y, d>>].tok, s)'
    <2>0. <<y, d>> \in Request /\ d \in Caller /\ ~OfSession(call[<<y, d>>].tok, s)
        BY SlotsAssumption DEF Away
    <2>1. CASE d # c \/ x # y
        <3>1. call'[<<y, d>>] = call[<<y, d>>] /\ call[<<y, d>>].tok \in Token \cup {None}
            BY <1>1, <2>0, <2>1 DEF WebTypeOK
        <3> QED BY <1>2, <2>0, <3>1 DEF HeldIsIssued, OfSession
    <2>2. CASE d = c /\ x = y
        BY <2>0, <2>2 DEF ServerEffect
    <2> QED BY <2>1, <2>2
<1> QED BY <1>3, <1>4, <1>5 DEF Away

(* The token that counts for an untouched session still does.              *)
LEMMA IntactKept ==
    ASSUME TypeOK, NEW s, NEW t \in Token, Untouched(s), Sole(t, s)
    PROVE  Sole(t, s)' /\ (Intact(t, s) => Intact(t, s)')
BY DEF Untouched, Intact, Sole

(* A login that has come back stays as new as it was.                      *)
LEMMA ServerLoginStaysNew ==
    ASSUME WebTypeOK, IInv, HeldIsIssued, CallsAreServed, LoginIsNew,
           NEW x \in Page, NEW c \in Caller, ServerEffect(<<x, c>>),
           NEW p \in Page, At(<<p, "login">>, "answered"), At(<<p, "login">>, "answered")',
           NEW t, t = call[<<p, "login">>].tok
    PROVE  t = call'[<<p, "login">>].tok /\ IsNew(p, t)'
<1>0. t \in Token /\ st[t] # "unborn" /\ <<p, "login">> \in Request /\ "login" \in Caller
    BY SlotsAssumption DEF CallsAreServed, HeldIsIssued, Issued, WebTypeOK, At, Caller
<1>1. /\ Intact(t, t) /\ ~OfSession(local, t) /\ Away(p, Caller \ {"login"}, t)
      /\ \A y \in Page \ {p} : Away(y, Caller, t)
    BY DEF LoginIsNew, IsNew
<1>2. x # p \/ c # "login"
    BY DEF ServerEffect
<1>3. ~OfSession(task[<<x, c>>].tok, t)
    BY <1>1 DEF Away
<1>4. t = call'[<<p, "login">>].tok
    BY <1>0, <1>2, SlotsAssumption DEF ServerEffect
<1>5. Untouched(t)
    BY <1>0, <1>3, SlotsAssumption DEF ServerEffect
<1>6. Intact(t, t)'
    BY <1>0, <1>1, <1>5, IntactKept DEF WebTypeOK, Intact
<1>7. ~OfSession(local, t)'
    BY <1>0, <1>1, <1>5 DEF OfSession, ServerEffect, store, Untouched, WebTypeOK
<1>8. Away(p, Caller \ {"login"}, t)'
    BY <1>0, <1>1, <1>2, <1>3, ServerAwayKept
<1>9. ASSUME NEW y \in Page \ {p} PROVE Away(y, Caller, t)'
    BY <1>0, <1>1, <1>3, ServerAwayKept
<1> QED BY <1>4, <1>6, <1>7, <1>8, <1>9 DEF IsNew

(* A login that comes back brings a token that is new.                     *)
LEMMA LoginComesNew ==
    ASSUME WebTypeOK, TypeOK', IInv, HeldIsIssued, CallsAreServed, NEW p \in Page,
           NEW t \in Token,
           LoginIssue(<<p, "login">>, t), At(<<p, "login">>, "served"), Comes(<<p, "login">>, "answered", t),
           UNCHANGED <<store, user, clean>>
    PROVE  t = call'[<<p, "login">>].tok /\ IsNew(p, t)'
<1> USE NoneAssumption
<1>0. <<p, "login">> \in Request /\ "login" \in Caller
    BY SlotsAssumption DEF Caller
<1>1. /\ t = call'[<<p, "login">>].tok /\ task'[<<p, "login">>].tok = None
      /\ st[t] = "unborn" /\ session' = [session EXCEPT ![t] = t]
      /\ st' = [st EXCEPT ![t] = "live"]
      /\ mem' = mem /\ sess' = sess /\ local' = local
      /\ \A y \in Page, d \in Caller : y # p \/ d # "login" =>
             call'[<<y, d>>] = call[<<y, d>>] /\ task'[<<y, d>>] = task[<<y, d>>]
    BY <1>0, SlotsAssumption DEF LoginIssue, Issue, Finish, Blank, Comes, store, WebTypeOK,
                                 TypeOK
<1>2. \A r \in Token : session[r] # t
    BY <1>1 DEF IInv, KnownSessions
<1>3. \A r \in Token \cup {None} : Issued(r) => ~OfSession(r, t)'
    BY <1>1, <1>2 DEF Issued, OfSession, WebTypeOK, TypeOK
<1>4. Intact(t, t)'
    <2>1. st'[t] = "live" /\ session'[t] = t
        BY <1>1 DEF WebTypeOK, TypeOK
    <2>2. \A r \in Token : session'[r] = t => r = t
        BY <1>1, <1>2, SMTT(30) DEF WebTypeOK, TypeOK
    <2> QED BY <2>1, <2>2 DEF Intact, Sole
<1>5. ~OfSession(local, t)'
    BY <1>1, <1>3 DEF HeldIsIssued, WebTypeOK, OfSession
<1>6. ASSUME NEW y \in Page PROVE ~OfSession(mem[y], t)' /\ ~OfSession(sess[y], t)'
    BY <1>1, <1>3 DEF HeldIsIssued, WebTypeOK, OfSession
<1>7. ASSUME NEW y \in Page, NEW d \in Caller, y # p \/ d # "login"
      PROVE  ~OfSession(call[<<y, d>>].tok, t)' /\ ~OfSession(task[<<y, d>>].tok, t)'
    <2>1. <<y, d>> \in Request
        BY SlotsAssumption
    <2>2. call[<<y, d>>].tok \in Token \cup {None} /\ task[<<y, d>>].tok \in Token \cup {None}
        BY <2>1 DEF WebTypeOK, TypeOK, Task
    <2> QED BY <1>1, <1>3, <1>7, <2>1, <2>2 DEF HeldIsIssued, OfSession
<1>8. ~OfSession(task[<<p, "login">>].tok, t)'
    BY <1>1 DEF OfSession
<1>9. Away(p, Caller \ {"login"}, t)'
    BY <1>6, <1>7, <1>8 DEF Away
<1>10. \A y \in Page \ {p} : Away(y, Caller, t)'
    BY <1>6, <1>7 DEF Away
<1> QED BY <1>1, <1>4, <1>5, <1>9, <1>10 DEF IsNew

------------------------------------------------------------------------------
(* A clean page whose session is not worked on stays safe.                 *)
LEMMA ElsewhereIsSafe ==
    ASSUME WebTypeOK, IInv, HeldIsIssued, CallsAreServed,
           NEW x \in Page, NEW c \in Caller, ServerEffect(<<x, c>>),
           NEW p \in Page, Safe(p),
           x = p => c = "login" \/ (At(<<p, c>>, "idle") /\ call'[<<p, c>>] = call[<<p, c>>])
    PROVE  Safe(p)'
<1>0. /\ mem' = mem /\ sess' = sess /\ local' = local
      /\ \A y \in Page, d \in Caller : d # c \/ x # y =>
             call'[<<y, d>>] = call[<<y, d>>] /\ task'[<<y, d>>] = task[<<y, d>>]
      /\ At(<<x, c>>, "idle")' => At(<<x, c>>, "idle")
    BY SlotsAssumption DEF ServerEffect, store
<1> PICK t, s : t = mem[p] /\ s = session[t]
    OBVIOUS
<1>1. Stored(p) /\ Alone(p) /\ Refreshes(p)
    BY DEF Safe
<1>2. /\ t \in Token /\ st[t] # "unborn" /\ s \in Token /\ st[s] # "unborn"
      /\ session'[t] = s
    BY <1>1, SlotsAssumption DEF Stored, HeldIsIssued, Issued, WebTypeOK, IInv,
                                 KnownSessions, ServerEffect
<1>3. ~OfSession(task[<<x, c>>].tok, s)
    BY <1>1 DEF Alone, Away, At
<1>4. Untouched(s)
    BY <1>2, <1>3, SlotsAssumption DEF ServerEffect
<1>5. \A d \in Caller : d # "login" =>
          /\ call'[<<p, d>>] = call[<<p, d>>]
          /\ task[<<p, d>>].tok = t => task'[<<p, d>>] = task[<<p, d>>]
    <2> SUFFICES ASSUME NEW d \in Caller, d # "login"
                 PROVE  /\ call'[<<p, d>>] = call[<<p, d>>]
                        /\ task[<<p, d>>].tok = t => task'[<<p, d>>] = task[<<p, d>>]
        OBVIOUS
    <2>1. CASE x = p /\ d = c
        BY <1>1, <2>1 DEF Alone, OfSession, At, Stored
    <2>2. CASE x # p \/ d # c
        BY <1>0, <2>2
    <2> QED BY <2>1, <2>2
<1>6. \A d \in Refresher : d \in Caller /\ d # "login"
    BY DEF Caller, Refresher
<1>7. LoggingOut(p)' <=> LoggingOut(p)
    BY <1>5 DEF LoggingOut, At, Caller
<1>8. Stored(p)'
    BY <1>0, <1>1 DEF Stored
<1>9. \A y \in Page \ {p} : Away(y, Caller, s)'
    BY <1>1, <1>2, <1>3, ServerAwayKept DEF Alone
<1>10. \A d \in Caller : OfSession(task[<<p, d>>].tok, s)' =>
           d # "login" /\ At(<<p, d>>, "served")'
    <2> TAKE d \in Caller
    <2>0. <<p, d>> \in Request
        BY SlotsAssumption
    <2>1. CASE x = p /\ d = c
        BY <1>2, <1>3, <2>0, <2>1 DEF ServerEffect
    <2>2. CASE x # p \/ d # c
        <3>1. /\ task'[<<p, d>>] = task[<<p, d>>] /\ call'[<<p, d>>] = call[<<p, d>>]
              /\ task[<<p, d>>].tok \in Token \cup {None} /\ Issued(task[<<p, d>>].tok)
            BY <1>0, <2>0, <2>2 DEF WebTypeOK, TypeOK, Task, HeldIsIssued
        <3>2. OfSession(task[<<p, d>>].tok, s)' => OfSession(task[<<p, d>>].tok, s)
            BY <3>1 DEF OfSession, ServerEffect, Issued
        <3> QED BY <1>1, <3>1, <3>2 DEF Alone, At
    <2> QED BY <2>1, <2>2
<1>11. Alone(p)'
    <2>1. mem'[p] = t /\ session'[mem'[p]] = s
        BY <1>0, <1>2
    <2>2. \A d, e \in Refresher : ~At(<<p, d>>, "idle")' /\ ~At(<<p, e>>, "idle")' => d = e
        BY <1>1, <1>5, <1>6 DEF Alone, At
    <2> QED BY <1>9, <1>10, <2>1, <2>2 DEF Alone
<1>12. Refreshes(p)'
    <2>1. ASSUME NEW d \in Refresher, At(<<p, d>>, "answered")
          PROVE  /\ Sole(call[<<p, d>>].tok, s)'
                 /\ LoggingOut(p) \/ Intact(call[<<p, d>>].tok, s)'
        <3> PICK r : r = call[<<p, d>>].tok
            OBVIOUS
        <3>1. r \in Token /\ Sole(r, s) /\ (LoggingOut(p) \/ Intact(r, s))
            BY <1>1, <1>6, <2>1, SlotsAssumption DEF Refreshes, CallsAreServed, WebTypeOK, At
        <3>2. Sole(r, s)' /\ (LoggingOut(p) \/ Intact(r, s)')
            BY <1>4, <3>1, IntactKept DEF WebTypeOK
        <3>3. call'[<<p, d>>].tok = r
            BY <1>5, <1>6
        <3> QED BY <3>2, <3>3
    <2>2. s \notin flushed' /\ st'[t] = "revoked" => s \notin flushed /\ st[t] = "revoked"
        BY <1>2, <1>4 DEF Untouched
    <2>3. mem'[p] = t /\ session'[mem'[p]] = s
        BY <1>0, <1>2
    <2>4. ASSUME NEW d \in Refresher
          PROVE  /\ call'[<<p, d>>].pc \in {"sent", "served"} => call'[<<p, d>>].tok = t
                 /\ At(<<p, d>>, "answered")' =>
                        /\ Sole(call[<<p, d>>].tok, s)'
                        /\ LoggingOut(p)' \/ Intact(call[<<p, d>>].tok, s)'
        <3>1. call[<<p, d>>].pc \in {"sent", "served"} => call[<<p, d>>].tok = t
            BY <1>1 DEF Refreshes
        <3> QED BY <1>5, <1>6, <1>7, <2>1, <3>1 DEF At
    <2>5. ASSUME \A d \in Refresher :
                     call'[<<p, d>>].pc \in {"idle", "me", "sent", "served"}
          PROVE  /\ Sole(t, s)'
                 /\ ~LoggingOut(p)' /\ s \notin flushed' /\ st'[t] = "revoked" =>
                        \E d \in Refresher : /\ task'[<<p, d>>].pc = "rotateIssue"
                                             /\ task'[<<p, d>>].tok = t
        <3>1. \A d \in Refresher :
                  call[<<p, d>>].pc \in {"idle", "me", "sent", "served"}
            BY <1>5, <1>6, <2>5
        <3>2. /\ Sole(t, s)
              /\ ~LoggingOut(p) /\ s \notin flushed /\ st[t] = "revoked" =>
                     \E d \in Refresher : /\ task[<<p, d>>].pc = "rotateIssue"
                                          /\ task[<<p, d>>].tok = t
            BY <1>1, <3>1 DEF Refreshes
        <3>3. Sole(t, s)'
            BY <1>2, <1>4, <3>2, IntactKept DEF WebTypeOK
        <3> QED BY <1>5, <1>6, <1>7, <2>2, <3>2, <3>3
    <2> QED BY <2>3, <2>4, <2>5 DEF Refreshes, At
<1> QED BY <1>8, <1>11, <1>12 DEF Safe

(* Other pages stay away from a session whatever is done for a page.       *)
LEMMA OthersStayAway ==
    ASSUME WebTypeOK, HeldIsIssued, NEW x \in Page, NEW c \in Caller, ServerEffect(<<x, c>>),
           NEW y \in Page \ {x}, NEW s, Away(y, Caller, s)
    PROVE  Away(y, Caller, s)'
<1>1. /\ mem' = mem /\ sess' = sess
      /\ \A d \in Caller :
             call'[<<y, d>>] = call[<<y, d>>] /\ task'[<<y, d>>] = task[<<y, d>>]
    BY SlotsAssumption DEF ServerEffect, store
<1>2. \A t \in Token \cup {None} : Issued(t) /\ ~OfSession(t, s) => ~OfSession(t, s)'
    BY DEF ServerEffect, Issued, OfSession
<1>3. ~OfSession(mem[y], s)' /\ ~OfSession(sess[y], s)'
    BY <1>1, <1>2 DEF Away, HeldIsIssued, WebTypeOK, OfSession
<1>4. ASSUME NEW d \in Caller
      PROVE  ~OfSession(task[<<y, d>>].tok, s)' /\ ~OfSession(call[<<y, d>>].tok, s)'
    <2>1. <<y, d>> \in Request
        BY SlotsAssumption
    <2>2. call[<<y, d>>].tok \in Token \cup {None} /\ task[<<y, d>>].tok \in Token \cup {None}
        BY <2>1 DEF WebTypeOK, TypeOK, Task
    <2>3. ~OfSession(call[<<y, d>>].tok, s) /\ ~OfSession(task[<<y, d>>].tok, s)
        BY DEF Away
    <2>4. Issued(call[<<y, d>>].tok) /\ Issued(task[<<y, d>>].tok)
        BY <2>1 DEF HeldIsIssued
    <2> QED BY <1>1, <1>2, <2>2, <2>3, <2>4 DEF OfSession
<1> QED BY <1>3, <1>4 DEF Away

(* A step of the refresh under way of a clean page touches nothing but     *)
(* what Refreshes says.                                                    *)
LEMMA OwnStep ==
    ASSUME WebTypeOK, IInv, HeldIsIssued, CallsAreServed,
           NEW p \in Page, NEW c \in Refresher, ServerEffect(<<p, c>>), ~At(<<p, c>>, "idle"),
           Stored(p), Alone(p),
           OfSession(task[<<p, c>>].tok, session[mem[p]])' => At(<<p, c>>, "served")'
    PROVE  /\ Stored(p)' /\ Alone(p)'
           /\ \A d \in Refresher \ {c} : At(<<p, d>>, "idle") /\ call'[<<p, d>>] = call[<<p, d>>]
           /\ mem'[p] = mem[p] /\ session'[mem[p]] = session[mem[p]] /\ mem[p] \in Token
           /\ LoggingOut(p)' <=> LoggingOut(p)
<1> PICK t, s : t = mem[p] /\ s = session[t]
    OBVIOUS
<1>1. /\ mem' = mem /\ sess' = sess /\ local' = local
      /\ \A y \in Page, d \in Caller : d # c \/ p # y =>
             call'[<<y, d>>] = call[<<y, d>>] /\ task'[<<y, d>>] = task[<<y, d>>]
    BY SlotsAssumption DEF ServerEffect, store, Caller
<1>2. t \in Token /\ st[t] # "unborn" /\ session'[t] = s
    BY DEF Stored, HeldIsIssued, Issued, WebTypeOK, ServerEffect
<1>3. Stored(p)'
    BY <1>1 DEF Stored
<1>4. \A y \in Page \ {p} : Away(y, Caller, s)'
    BY OthersStayAway DEF Alone, Caller
<1>5. \A d \in Refresher \ {c} : At(<<p, d>>, "idle") /\ call'[<<p, d>>] = call[<<p, d>>]
    BY <1>1 DEF Alone, Caller
<1>6. ASSUME NEW d \in Caller, d # c, OfSession(task[<<p, d>>].tok, s)'
      PROVE  d # "login" /\ At(<<p, d>>, "served")'
    <2>1. /\ task'[<<p, d>>] = task[<<p, d>>] /\ call'[<<p, d>>] = call[<<p, d>>]
          /\ <<p, d>> \in Request
          /\ task[<<p, d>>].tok \in Token \cup {None} /\ Issued(task[<<p, d>>].tok)
        BY <1>1, <1>6, SlotsAssumption DEF WebTypeOK, TypeOK, Task, HeldIsIssued
    <2>2. OfSession(task[<<p, d>>].tok, s)
        BY <1>6, <2>1 DEF OfSession, ServerEffect, Issued
    <2> QED BY <2>1, <2>2 DEF Alone, At
<1>7. \A d \in Caller : OfSession(task[<<p, d>>].tok, s)' => d # "login" /\ At(<<p, d>>, "served")'
    <2>1. mem'[p] = t /\ session'[mem'[p]] = s /\ c # "login"
        BY <1>1, <1>2 DEF Refresher
    <2> QED BY <1>6, <2>1
<1>8. \A d, e \in Refresher : ~At(<<p, d>>, "idle")' /\ ~At(<<p, e>>, "idle")' => d = e
    BY <1>5 DEF At
<1>9. Alone(p)'
    BY <1>1, <1>2, <1>4, <1>7, <1>8 DEF Alone
<1>10. LoggingOut(p)' <=> LoggingOut(p)
    BY <1>1 DEF LoggingOut, At, Caller, Refresher
<1> QED BY <1>1, <1>2, <1>3, <1>5, <1>9, <1>10

(* A refresh that fails, or whose reply is lost, leaves a clean page safe. *)
LEMMA FailureIsSafe ==
    ASSUME WebTypeOK, IInv, HeldIsIssued, CallsAreServed,
           NEW p \in Page, NEW c \in Refresher, ServerEffect(<<p, c>>), ~At(<<p, c>>, "idle"),
           Stored(p), Alone(p), call'[<<p, c>>].pc \in {"failed", "lost"},
           task'[<<p, c>>].tok = None
    PROVE  Safe(p)'
<1>1. ~OfSession(task[<<p, c>>].tok, session[mem[p]])'
    BY DEF OfSession
<1>2. Stored(p)' /\ Alone(p)' /\ \A d \in Refresher \ {c} : At(<<p, d>>, "idle")'
    BY <1>1, OwnStep DEF At
<1>3. Refreshes(p)'
    BY <1>2 DEF Refreshes, At
<1> QED BY <1>2, <1>3 DEF Safe

(* What rotate does for the refresh of a clean page keeps it safe: it takes*)
(* the call up, ...                                                        *)
LEMMA TakenUpIsSafe ==
    ASSUME WebTypeOK, IInv, HeldIsIssued, CallsAreServed,
           NEW p \in Page, NEW c \in Refresher, ServerEffect(<<p, c>>), At(<<p, c>>, "sent"),
           Stored(p), Alone(p), Refreshes(p),
           NEW t \in Token, t = call[<<p, c>>].tok, Rotate(<<p, c>>, t) \/ RotateReused(<<p, c>>, t),
           Comes(<<p, c>>, "served", t)
    PROVE  Safe(p)'
<1>1. call'[<<p, c>>] = [pc |-> "served", tok |-> t] /\ st' = st /\ session' = session /\ flushed' = flushed
    BY SlotsAssumption DEF Comes, WebTypeOK, Caller, Rotate, RotateReused, tokens
<1>2. /\ Stored(p)' /\ Alone(p)' /\ \A d \in Refresher \ {c} : At(<<p, d>>, "idle")'
      /\ mem'[p] = mem[p] /\ t = mem[p] /\ (LoggingOut(p)' <=> LoggingOut(p))
      /\ \A d \in Refresher \ {c} : At(<<p, d>>, "idle")
    BY <1>1, OwnStep DEF At, Refreshes
<1>3. /\ Sole(t, session[t])
      /\ LoggingOut(p) \/ session[t] \in flushed \/ st[t] # "revoked"
    <2>1. \A d \in Refresher : call[<<p, d>>].pc \in {"idle", "me", "sent", "served"}
        BY <1>2 DEF At
    <2>2. \A d \in Refresher : task[<<p, d>>].tok # t
        BY <1>2 DEF At, Alone, OfSession, Stored, Caller
    <2> QED BY <1>2, <2>1, <2>2 DEF Refreshes
<1>4. Refreshes(p)'
    BY <1>1, <1>2, <1>3 DEF Refreshes, At, Sole
<1> QED BY <1>2, <1>4 DEF Safe

(* ... revokes the token ...                                               *)
LEMMA RevokedIsSafe ==
    ASSUME WebTypeOK, IInv, HeldIsIssued, CallsAreServed,
           NEW p \in Page, NEW c \in Refresher, ServerEffect(<<p, c>>), At(<<p, c>>, "served"),
           Stored(p), Alone(p), Refreshes(p), RotateRevoke(<<p, c>>), call' = call
    PROVE  Safe(p)'
<1> PICK t : t = mem[p]
    OBVIOUS
<1>0. /\ <<p, c>> \in Request /\ t = call[<<p, c>>].tok /\ t = task[<<p, c>>].tok
      /\ t \in Token
    BY SlotsAssumption DEF WebTypeOK, Caller, Refreshes, CallsAreServed, At, Stored
<1>1. /\ session' = session /\ flushed' = flushed
      /\ task'[<<p, c>>].pc = "rotateIssue" /\ task'[<<p, c>>].tok = t
      /\ st' = [st EXCEPT ![t] = "revoked"]
    BY <1>0 DEF RotateRevoke, GoTo, WebTypeOK, TypeOK, Task
<1>2. /\ Stored(p)' /\ Alone(p)' /\ \A d \in Refresher \ {c} : At(<<p, d>>, "idle")'
      /\ mem'[p] = t
      /\ \A d \in Refresher \ {c} : At(<<p, d>>, "idle")
    BY <1>0, <1>1, OwnStep DEF At
<1>3. Sole(t, session[t])
    BY <1>0, <1>2 DEF Refreshes, At
<1>4. Sole(t, session[t])'
    BY <1>0, <1>1, <1>3 DEF Sole, WebTypeOK, TypeOK
<1>5. \A d \in Refresher :
          /\ call'[<<p, d>>].pc \in {"sent", "served"} => call'[<<p, d>>].tok = t
          /\ ~At(<<p, d>>, "answered")'
    BY <1>0, <1>2 DEF At
<1>6. Refreshes(p)'
    BY <1>1, <1>2, <1>4, <1>5 DEF Refreshes
<1> QED BY <1>2, <1>6 DEF Safe

(* ... and issues the next.                                                *)
LEMMA RenewedIsSafe ==
    ASSUME WebTypeOK, IInv, HeldIsIssued, CallsAreServed,
           NEW p \in Page, NEW c \in Refresher, ServerEffect(<<p, c>>), At(<<p, c>>, "served"),
           Stored(p), Alone(p), Refreshes(p), NEW n \in Token, RotateIssue(<<p, c>>, n),
           Comes(<<p, c>>, "answered", n)
    PROVE  Safe(p)'
<1> PICK t, s : t = mem[p] /\ s = session[t]
    OBVIOUS
<1>1. /\ <<p, c>> \in Request /\ flushed' = flushed
      /\ t = task[<<p, c>>].tok /\ t \in Token /\ st[t] \in {"revoked", "gone"} /\ st[n] = "unborn"
      /\ st' = [st EXCEPT ![n] = "live"] /\ session' = [session EXCEPT ![n] = s]
      /\ task'[<<p, c>>].tok = None
      /\ call'[<<p, c>>] = [pc |-> "answered", tok |-> n]
    BY SlotsAssumption DEF RotateIssue, Issue, Finish, Blank, Comes, WebTypeOK, TypeOK, Task,
                           Caller, Refreshes, CallsAreServed, IInv, SpentBeforeIssue,
                           KnownTokens, At
<1>2. /\ Stored(p)' /\ Alone(p)' /\ \A d \in Refresher \ {c} : At(<<p, d>>, "idle")'
      /\ mem'[p] = t /\ session'[t] = s
      /\ \A d \in Refresher \ {c} : At(<<p, d>>, "idle")
    <2>1. ~OfSession(task[<<p, c>>].tok, session[mem[p]])' /\ ~At(<<p, c>>, "idle")
        BY <1>1 DEF OfSession, At
    <2> QED BY <2>1, OwnStep DEF At
<1>3. Sole(t, s)
    BY <1>2 DEF Refreshes, At
<1>4. Intact(n, s)'
    BY <1>1, <1>3 DEF Intact, Sole, WebTypeOK, TypeOK
<1>5. Refreshes(p)'
    BY <1>1, <1>2, <1>4 DEF Refreshes, At, Intact
<1> QED BY <1>2, <1>5 DEF Safe

(* What the API does for the logout of a clean page keeps it safe: it      *)
(* makes no token live.                                                    *)
LEMMA OwnLogoutIsSafe ==
    ASSUME WebTypeOK, NEW p \in Page, ServerEffect(<<p, "logout">>), Safe(p),
           UNCHANGED session, \A t \in Token : st'[t] = "live" => st[t] = "live",
           ~At(<<p, "logout">>, "idle")',
           OfSession(task[<<p, "logout">>].tok, session[mem[p]])' => At(<<p, "logout">>, "served")'
    PROVE  Safe(p)'
<1>1. "logout" \in Caller /\ LoggingOut(p)'
    BY DEF Caller, LoggingOut
<1>2. \A y \in Page, d \in Caller : y # p \/ d # "logout" =>
          call'[<<y, d>>] = call[<<y, d>>] /\ task'[<<y, d>>] = task[<<y, d>>]
    BY SlotsAssumption DEF ServerEffect
<1>3. UNCHANGED <<mem, sess, local, session>>
    BY DEF ServerEffect, store
<1> QED BY <1>1, <1>2, <1>3, LogoutStepIsSafe

(* The page for which the API takes a step of a refresh or a logout is     *)
(* still safe, if it was.                                                  *)
OwnStepIsSafe(x, c) ==
    x \in clean /\ c # "login" =>
        Safe(x)' \/ (At(<<x, c>>, "idle") /\ call'[<<x, c>>] = call[<<x, c>>])

(* The API keeps logins new and clean pages safe, if it does so for the    *)
(* page it works for.                                                      *)
LEMMA ServerKeeps ==
    ASSUME WebTypeOK, IInv, HeldIsIssued, CallsAreServed, LoginIsNew, CleanInv,
           NEW x \in Page, NEW c \in Caller, ServerEffect(<<x, c>>),
           OwnStepIsSafe(x, c),
           c = "login" /\ At(<<x, c>>, "answered")' => IsNew(x, call[<<x, c>>].tok)'
    PROVE  LoginIsNew' /\ CleanInv'
<1>1. ASSUME NEW p \in clean' PROVE Safe(p)'
    <2>1. p \in clean /\ p \in Page /\ Safe(p)
        BY DEF ServerEffect, WebTypeOK, CleanInv, Safe
    <2>2. CASE x = p => c = "login" \/ (At(<<p, c>>, "idle") /\ call'[<<p, c>>] = call[<<p, c>>])
        BY <2>1, <2>2, ElsewhereIsSafe
    <2> QED BY <2>1, <2>2 DEF OwnStepIsSafe
<1>2. ASSUME NEW p \in Page, At(<<p, "login">>, "answered")', NEW t,
             t = call'[<<p, "login">>].tok
      PROVE  IsNew(p, t)'
    <2>1. CASE x = p /\ c = "login"
        BY <1>2, <2>1
    <2>2. CASE x # p \/ c # "login"
        <3>1. "login" \in Caller
            BY DEF Caller
        <3>2. At(<<p, "login">>, "answered") /\ t = call[<<p, "login">>].tok
            BY <1>2, <2>2, <3>1, Slots DEF ServerEffect, At
        <3> QED BY <1>2, <3>2, ServerLoginStaysNew
    <2> QED BY <2>1, <2>2
<1> QED BY <1>1, <1>2 DEF CleanInv, Safe, LoginIsNew

(* What the API does keeps what is held issued, logins new and clean pages *)
(* safe.                                                                   *)
LEMMA ServerSafe ==
    ASSUME WebTypeOK, TypeOK', IInv, HeldIsIssued, CallsAreServed, LoginIsNew, CleanInv,
           NEW x \in Page, NEW c \in Caller,
           \/ c = "login" /\ \E u \in User : SubmitLogin(x, u)
           \/ c = "logout" /\ ArriveLogout(x)
           \/ CallStep(<<x, c>>)
    PROVE  HeldIsIssued' /\ LoginIsNew' /\ CleanInv'
<1> DEFINE q == <<x, c>>
<1>0. q \in Request /\ q[2] = c
    BY Slots
<1>1. ASSUME ServerEffect(q),
             OwnStepIsSafe(x, c),
             c = "login" /\ At(q, "answered")' => IsNew(x, call[q].tok)'
      PROVE  HeldIsIssued' /\ LoginIsNew' /\ CleanInv'
    BY <1>0, <1>1, ServerKeeps, ServerHeldIsIssued
<1>2. x \in clean => Safe(x) /\ Stored(x) /\ Alone(x) /\ Refreshes(x)
    BY DEF CleanInv, Safe
<1>3. CASE c = "login" /\ \E u \in User : SubmitLogin(x, u)
    <2>1. ServerEffect(q)
        BY <1>0, <1>3, SubmitLoginEffect
    <2>2. ~At(q, "answered")'
        BY <1>0, <1>3 DEF SubmitLogin, Comes, At, WebTypeOK
    <2> QED BY <1>1, <1>3, <2>1, <2>2 DEF Refresher, OwnStepIsSafe
<1>4. CASE c = "logout" /\ ArriveLogout(x)
    <2>1. call[q].tok \in Token /\ At(q, "sent")
        BY <1>0, <1>4 DEF ArriveLogout, CallsAreServed, WebTypeOK, At
    <2>2. CASE Logout(q, call[q].tok) /\ Comes(q, "served", call[q].tok)
        <3>1. ServerEffect(q)
            BY <1>0, <1>4, <2>1, <2>2, ArrivedEffect DEF ArriveLogout
        <3>2. At(q, "served")' /\ UNCHANGED session /\ st' = st
            BY <1>0, <2>2 DEF Comes, At, WebTypeOK, Logout, tokens
        <3>3. OwnStepIsSafe(x, c)
            BY <1>2, <1>4, <3>1, <3>2, OwnLogoutIsSafe DEF OwnStepIsSafe, At
        <3> QED BY <1>1, <1>4, <3>1, <3>3
    <2>3. CASE Comes(q, "answered", call[q].tok) /\ UNCHANGED vars
        <3>1. ServerEffect(q)
            BY <1>0, <1>4, <2>3, SettledEffect DEF ArriveLogout, CallState
        <3>2. ~At(q, "idle")' /\ UNCHANGED session /\ st' = st /\ task'[q].tok = None
            BY <1>0, <2>1, <2>3 DEF Comes, At, WebTypeOK, vars, tokens, CallsAreServed
        <3>3. OwnStepIsSafe(x, c)
            BY <1>2, <1>4, <3>1, <3>2, OwnLogoutIsSafe DEF OwnStepIsSafe, OfSession
        <3> QED BY <1>1, <1>4, <3>1, <3>3
    <2> QED BY <1>4, <2>2, <2>3 DEF ArriveLogout
<1>5. CASE Arrive(q)
    <2>1. c \in Refresher /\ c # "login" /\ call[q].tok \in Token /\ At(q, "sent") /\ ~At(q, "idle") /\ Idle(q)
        BY <1>0, <1>5 DEF Arrive, CallsAreServed, WebTypeOK, At, Refresher
    <2>2. CASE (Rotate(q, call[q].tok) \/ RotateReused(q, call[q].tok)) /\ Comes(q, "served", call[q].tok)
        <3>1. ServerEffect(q)
            BY <1>0, <1>5, <2>1, <2>2, ArrivedEffect DEF Arrive
        <3> QED BY <1>1, <1>2, <2>1, <2>2, <3>1, TakenUpIsSafe DEF OwnStepIsSafe
    <2>3. CASE Comes(q, "failed", call[q].tok) /\ UNCHANGED vars
        <3>1. ServerEffect(q)
            BY <1>0, <1>5, <2>1, <2>3, SettledEffect DEF Arrive, CallState
        <3>2. call'[q].pc = "failed" /\ task'[q].tok = None
            BY <1>0, <2>1, <2>3 DEF Comes, WebTypeOK, CallsAreServed, vars
        <3> QED BY <1>1, <1>2, <2>1, <3>1, <3>2, FailureIsSafe DEF OwnStepIsSafe
    <2> QED BY <1>5, <2>2, <2>3 DEF Arrive
<1>6. CASE Lose(q)
    <2>0. PICK pc \in {"failed", "lost"} : Comes(q, pc, call[q].tok) /\ UNCHANGED <<vars, store, user, clean>>
        BY <1>0, <1>6 DEF Lose
    <2>1. ServerEffect(q)
        BY <1>0, <1>6, <2>0, SettledEffect DEF CallState
    <2>2. call'[q].pc = pc /\ task'[q].tok = None /\ ~At(q, "idle")
        BY <1>0, <1>6, <2>0 DEF Lose, Comes, WebTypeOK, CallsAreServed, vars, At
    <2>3. CASE c \in Refresher
        BY <1>1, <1>2, <2>1, <2>2, <2>3, FailureIsSafe DEF At, OwnStepIsSafe
    <2>4. CASE c = "logout"
        <3>1. UNCHANGED session /\ st' = st /\ ~At(q, "idle")' /\ ~OfSession(task[q].tok, session[mem[x]])'
            BY <2>0, <2>2 DEF vars, tokens, At, OfSession
        <3>2. OwnStepIsSafe(x, c)
            BY <1>2, <2>1, <2>4, <3>1, OwnLogoutIsSafe DEF OwnStepIsSafe
        <3> QED BY <1>1, <2>1, <2>4, <3>2
    <2>5. CASE c = "login"
        BY <1>1, <2>1, <2>2, <2>5 DEF At, OwnStepIsSafe
    <2> QED BY <2>3, <2>4, <2>5 DEF Caller
<1>7. CASE Serve(q)
    <2>0. UNCHANGED <<store, user, clean>>
        BY <1>7 DEF Serve
    <2>1. /\ ~Idle(q) => Serves(c, task[q]) /\ (At(q, "idle") \/ At(q, "served"))
          /\ At(q, "served") => ~At(q, "idle")
          /\ call[q].tok \in Token \cup {None}
          /\ c \in Refresher => c # "login" /\ c # "logout"
          /\ c \in Refresher \/ c = "login" \/ c = "logout"
        BY <1>0 DEF CallsAreServed, At, WebTypeOK, Refresher, Caller
    <2>2. CASE RotateRevoke(q) /\ UNCHANGED call
        <3>1. ServerEffect(q)
            BY <1>0, <2>0, <2>2, RotateRevokeEffect
        <3>2. c \in Refresher /\ (At(q, "idle") \/ At(q, "served"))
            BY <2>1, <2>2 DEF RotateRevoke, Idle, Serves
        <3>3. OwnStepIsSafe(x, c)
            BY <1>2, <2>2, <3>1, <3>2, RevokedIsSafe DEF OwnStepIsSafe
        <3>4. ~At(q, "answered")'
            BY <2>2, <3>2 DEF At
        <3> QED BY <1>1, <3>1, <3>3, <3>4
    <2>3. CASE \E t \in Token : RotateIssue(q, t) /\ Reply(q, "answered", t)
        <3>1. PICK t \in Token : RotateIssue(q, t) /\ Reply(q, "answered", t)
            BY <2>3
        <3>2. c \in Refresher /\ c # "login" /\ (At(q, "idle") \/ At(q, "served"))
            BY <2>1, <3>1 DEF RotateIssue, Idle, Serves
        <3>3. ServerEffect(q)
            BY <1>0, <2>0, <3>1, <3>2, RotateIssueEffect
        <3>4. OwnStepIsSafe(x, c)
            <4>1. CASE At(q, "served")
                <5>1. Comes(q, "answered", t)
                    BY <3>1, <4>1 DEF Reply
                <5> QED BY <1>2, <3>1, <3>2, <3>3, <4>1, <5>1, RenewedIsSafe DEF OwnStepIsSafe
            <4>2. CASE ~At(q, "served")
                BY <3>1, <3>2, <4>2 DEF OwnStepIsSafe, Reply
            <4> QED BY <4>1, <4>2
        <3> QED BY <1>1, <3>2, <3>3, <3>4
    <2>4. CASE \E t \in Token : LoginIssue(q, t) /\ Reply(q, "answered", t)
        <3>1. PICK t \in Token : LoginIssue(q, t) /\ Reply(q, "answered", t)
            BY <2>4
        <3>2. c = "login" /\ (At(q, "idle") \/ At(q, "served"))
            BY <2>1, <3>1 DEF LoginIssue, Idle, Serves, Caller, Refresher
        <3>3. ServerEffect(q)
            BY <1>0, <2>0, <3>1, LoginIssueEffect
        <3>4. CASE At(q, "served")
            BY <1>1, <2>0, <3>1, <3>2, <3>3, <3>4, LoginComesNew DEF OwnStepIsSafe, Refresher,
                                                                     Reply
        <3>5. CASE ~At(q, "served")
            BY <1>1, <3>1, <3>2, <3>3, <3>5 DEF OwnStepIsSafe, Refresher, Reply, At
        <3> QED BY <3>4, <3>5
    <2>5. CASE LogoutRevoke(q) /\ Reply(q, "answered", call[q].tok)
        <3>1. c = "logout"
            BY <2>1, <2>5 DEF LogoutRevoke, Idle, Serves
        <3>2. ServerEffect(q)
            BY <1>0, <2>0, <2>5, <3>1, LogoutRevokeEffect
        <3>3. /\ UNCHANGED session /\ \A t \in Token : st'[t] = "live" => st[t] = "live"
              /\ task'[q].tok = None
            BY <1>0, <2>5 DEF LogoutRevoke, Finish, Blank, WebTypeOK, TypeOK
        <3>4. CASE At(q, "served")
            <4>1. ~At(q, "idle")'
                BY <1>0, <2>5, <3>4 DEF Reply, Comes, WebTypeOK, At
            <4>2. OwnStepIsSafe(x, c)
                BY <1>2, <3>1, <3>2, <3>3, <4>1, OwnLogoutIsSafe DEF OwnStepIsSafe, OfSession
            <4> QED BY <1>1, <3>1, <3>2, <4>2
        <3>5. CASE ~At(q, "served")
            <4>1. call' = call /\ At(q, "idle")
                BY <2>1, <2>5, <3>5 DEF Reply, LogoutRevoke, Idle
            <4> QED BY <1>1, <3>1, <3>2, <4>1 DEF OwnStepIsSafe
        <3> QED BY <3>4, <3>5
    <2>6. CASE (RevokeAll(q) \/ Abort(q)) /\ Reply(q, "failed", call[q].tok)
        <3>1. ServerEffect(q)
            BY <1>0, <2>0, <2>6, RevokeAllEffect, AbortEffect
        <3>2. At(q, "idle") \/ At(q, "served")
            BY <2>1, <2>6 DEF RevokeAll, Abort, Idle
        <3>3. task'[q].tok = None
            BY <1>0, <2>6 DEF RevokeAll, Abort, Finish, Blank, WebTypeOK, TypeOK
        <3>4. CASE At(q, "served")
            <4>1. call'[q].pc = "failed"
                BY <1>0, <2>6, <3>4 DEF Reply, Comes, WebTypeOK
            <4>2. c \in Refresher => OwnStepIsSafe(x, c)
                BY <1>2, <2>1, <3>1, <3>3, <3>4, <4>1, FailureIsSafe DEF OwnStepIsSafe
            <4>3. c = "logout" => OwnStepIsSafe(x, c)
                <5>1. ASSUME c = "logout"
                      PROVE  UNCHANGED session /\ \A t \in Token : st'[t] = "live" => st[t] = "live"
                    BY <2>1, <2>6, <5>1 DEF RevokeAll, Abort, Idle, Serves, tokens
                <5> QED BY <1>2, <3>1, <3>3, <4>1, <5>1, OwnLogoutIsSafe
                        DEF OwnStepIsSafe, OfSession, At
            <4> QED BY <1>1, <2>1, <3>1, <4>1, <4>2, <4>3 DEF At, OwnStepIsSafe
        <3>5. CASE ~At(q, "served")
            <4>1. call' = call /\ At(q, "idle")
                BY <2>6, <3>2, <3>5 DEF Reply
            <4> QED BY <1>1, <3>1, <4>1 DEF OwnStepIsSafe, At
        <3> QED BY <3>4, <3>5
    <2> QED BY <1>7, <2>2, <2>3, <2>4, <2>5, <2>6 DEF Serve
<1> QED BY <1>3, <1>4, <1>5, <1>6, <1>7 DEF CallStep

(* The invariant holds when the browser is opened for the first time.      *)
LEMMA WebInitInvariant == WebInit => WebInv
<1> SUFFICES ASSUME WebInit PROVE WebInv
    OBVIOUS
<1>1. IInv
    BY InitInvariant DEF WebInit
<1>2. WebTypeOK
    BY <1>1, SlotsAssumption DEF WebInit, WebTypeOK, IInv, NoCall, CallState
<1>3. HeldIsIssued /\ CallsAreServed
    BY Slots DEF WebInit, Init, HeldIsIssued, Issued, CallsAreServed, Idle, At, NoCall, Blank
<1>4. PageInStep /\ LoginIsNew /\ CleanInv /\ LogoutTold
    BY Slots DEF WebInit, PageInStep, LoginIsNew, CleanInv, LogoutTold, LoggingOut, At, NoCall,
                 Caller, Refresher
<1> QED BY <1>1, <1>2, <1>3, <1>4 DEF WebInv

(* A token that is used or gone is never live again.                       *)
LEMMA NeverLiveAgain ==
    ASSUME TypeOK, Next \/ UNCHANGED vars, NEW t \in Token, st[t] \notin {"unborn", "live"}
    PROVE  st'[t] # "live"
<1> USE DEF TypeOK, tokens
<1>1. CASE \E q \in Request, u \in User : Login(q, u)
    BY <1>1 DEF Login
<1>2. CASE \E q \in Request, r \in Token : Rotate(q, r) \/ RotateReused(q, r) \/ Logout(q, r)
    BY <1>2 DEF Rotate, RotateReused, Logout
<1>3. CASE \E q \in Request, r \in Token : LoginIssue(q, r) \/ RotateIssue(q, r)
    BY <1>3 DEF LoginIssue, RotateIssue, Issue
<1>4. CASE \E q \in Request : RotateRevoke(q) \/ RevokeAll(q) \/ LogoutRevoke(q) \/ Abort(q)
    BY <1>4 DEF RotateRevoke, RevokeAll, LogoutRevoke, Abort
<1>5. CASE \E r \in Token : Expire(r)
    BY <1>5 DEF Expire
<1>6. CASE Purge \/ \E u \in User : DeleteUser(u) \/ CreateUser(u)
    BY <1>6 DEF Purge, DeleteUser, CreateUser
<1>7. CASE UNCHANGED vars
    BY <1>7 DEF vars
<1> QED BY <1>1, <1>2, <1>3, <1>4, <1>5, <1>6, <1>7 DEF Next, Others

(* A logout is answered by the API, when its token is found to be dead or  *)
(* has been revoked, and by nothing else.                                  *)
LEMMA LogoutAnswered ==
    ASSUME WebTypeOK, KnownTokens, CallsAreServed, WebNext, NEW p \in Page,
           At(<<p, "logout">>, "answered")', call'[<<p, "logout">>] # call[<<p, "logout">>]
    PROVE  /\ call'[<<p, "logout">>].tok = call[<<p, "logout">>].tok
           /\ st'[call[<<p, "logout">>].tok] # "live"
<1> DEFINE q == <<p, "logout">>
<1>0. q \in Request /\ q[2] = "logout" /\ "logout" \in Caller
    BY Slots DEF Caller
<1>1. ASSUME NEW x \in Page, PageOnly(x) PROVE FALSE
    <2> USE <1>0, <1>1, SlotsAssumption
        DEF Send, Comes, Returns, NoCall, At, WebTypeOK, Refresher, PageOnly
    <2>1. CASE FetcherRefresh(x) \/ NotifyRefresh(x) \/ StartLogout(x)
        BY <2>1, SMTT(30) DEF FetcherRefresh, NotifyRefresh, StartLogout
    <2>2. CASE FetcherLeaves(x) \/ FetcherFails(x) \/ Reload(x) \/ Reopen(x)
        <3>1. PICK s, l : Load(x, s, l)
            BY <2>2 DEF FetcherLeaves, FetcherFails, Leave, Reload, Reopen
        <3> QED BY <3>1, SMTT(30) DEF Load
    <2>3. CASE \E c \in Refresher : Refreshed(x, c)
        BY <2>3 DEF Refreshed
    <2>4. CASE NotifyFails(x) \/ RestoreFails(x) \/ Restored(x)
        BY <2>4 DEF NotifyFails, RestoreFails, Restored
    <2>5. CASE \E keep \in BOOLEAN : LoggedIn(x, keep)
        BY <2>5 DEF LoggedIn
    <2>6. CASE LoginFails(x) \/ LoggedOut(x) \/ AccessExpires(x)
        BY <2>6 DEF LoginFails, LoggedOut, AccessExpires
    <2> QED BY <2>1, <2>2, <2>3, <2>4, <2>5, <2>6
<1>2. CASE \E x \in Page, u \in User : SubmitLogin(x, u)
    BY <1>0, <1>2 DEF SubmitLogin, Comes, WebTypeOK
<1>3. ASSUME NEW x \in Page, ArriveLogout(x)
      PROVE  call'[q].tok = call[q].tok /\ st'[call[q].tok] # "live"
    BY <1>0, <1>3 DEF ArriveLogout, Comes, At, WebTypeOK, vars, tokens
<1>4. ASSUME NEW r \in Request, Arrive(r) \/ Lose(r) PROVE FALSE
    BY <1>0, <1>4 DEF Arrive, Lose, Comes, At, WebTypeOK
<1>5. ASSUME NEW r \in Request, Serve(r)
      PROVE  call'[q].tok = call[q].tok /\ st'[call[q].tok] # "live"
    <2>1. r = q
        BY <1>0, <1>5 DEF Serve, Reply, Comes, WebTypeOK
    <2>2. Idle(q) \/ task[q].pc = "logoutRevoke"
        BY <1>0 DEF CallsAreServed, Serves
    <2>3. ~RotateRevoke(q) /\ ~RevokeAll(q) /\ \A t \in Token : ~LoginIssue(q, t) /\ ~RotateIssue(q, t)
        BY <2>2 DEF RotateRevoke, LoginIssue, RotateIssue, RevokeAll, Idle
    <2>4. ~Reply(q, "failed", call[q].tok)
        BY <1>0 DEF Reply, Comes, At, WebTypeOK
    <2>5. LogoutRevoke(q) /\ Reply(q, "answered", call[q].tok)
        BY <1>5, <2>1, <2>3, <2>4 DEF Serve
    <2>6. At(q, "served") /\ task[q].tok = call[q].tok /\ call[q].tok \in Token
        BY <1>0, <2>5 DEF Reply, CallsAreServed, KnownTokens, LogoutRevoke
    <2> QED BY <1>0, <2>5, <2>6 DEF LogoutRevoke, Reply, Comes, WebTypeOK, TypeOK
<1>6. CASE SessionEnds
    BY <1>6 DEF SessionEnds
<1> QED BY <1>1, <1>2, <1>3, <1>4, <1>5, <1>6 DEF WebNext, PageStep, PageOnly, CallStep

(* So what a logout was told stays true.                                   *)
LEMMA LogoutToldStep == WebInv /\ WebNext => LogoutTold'
<1> SUFFICES ASSUME WebInv, WebNext, NEW p \in Page, At(<<p, "logout">>, "answered")'
             PROVE  st'[call'[<<p, "logout">>].tok] # "live"
    BY DEF LogoutTold
<1>1. WebTypeOK /\ KnownTokens /\ CallsAreServed
    BY DEF WebInv, IInv
<1>2. CASE call'[<<p, "logout">>] = call[<<p, "logout">>]
    <2> DEFINE t == call[<<p, "logout">>].tok
    <2>1. t \in Token /\ st[t] \notin {"unborn", "live"}
        BY <1>2, Slots DEF WebInv, WebTypeOK, CallsAreServed, HeldIsIssued, Issued, LogoutTold,
                           At, Caller
    <2>2. TypeOK /\ (Next \/ UNCHANGED vars)
        BY <1>1, WebStepIsStep DEF WebTypeOK
    <2> QED BY <1>2, <2>1, <2>2, NeverLiveAgain
<1>3. CASE call'[<<p, "logout">>] # call[<<p, "logout">>]
    BY <1>1, <1>3, LogoutAnswered
<1> QED BY <1>2, <1>3

(* Every step keeps it.                                                    *)
LEMMA WebNextInvariant == WebInv /\ [WebNext]_wvars => WebInv'
<1>1. CASE UNCHANGED wvars
    <2> SUFFICES ASSUME WebInv PROVE WebInv'
        BY <1>1
    <2> USE <1>1 DEF wvars, store, vars, tokens, At
    <2>1. WebTypeOK' /\ IInv'
        BY DEF WebInv, WebTypeOK, IInv, TypeOK, KnownSessions, KnownTokens, SpentBeforeIssue,
               LiveHasUser
    <2>2. HeldIsIssued' /\ CallsAreServed' /\ PageInStep'
        BY DEF WebInv, HeldIsIssued, Issued, CallsAreServed, Idle, PageInStep, LoggingOut
    <2>3. LoginIsNew'
        BY ZenonT(60) DEF WebInv, LoginIsNew, IsNew, Intact, Sole, Away, OfSession
    <2>4. ASSUME NEW p \in clean PROVE Safe(p)'
        <3>1. p \in Page /\ OnlyPage(p) /\ UNCHANGED <<mem, sess, local>>
            BY DEF WebInv, WebTypeOK, OnlyPage
        <3>2. WebTypeOK /\ CallsAreServed /\ PageInStep /\ CleanInv
            BY DEF WebInv
        <3> QED BY <2>4, <3>1, <3>2, QuietIsSafe
    <2>5. CleanInv'
        BY <2>4 DEF CleanInv, Safe
    <2>6. LogoutTold'
        BY DEF WebInv, LogoutTold
    <2> QED BY <2>1, <2>2, <2>3, <2>5, <2>6 DEF WebInv
<1>2. ASSUME WebInv, WebNext PROVE WebInv'
    <2>1. IInv'
        BY <1>2, WebStepIsStep, NextInvariant DEF WebInv
    <2>2. TypeOK' /\ CallsAreServed' /\ PageInStep'
        BY <1>2, <2>1, ServedStep, InStepStep DEF WebInv, IInv
    <2>3. WebTypeOK'
        BY <1>2, <2>2, TypeStep DEF WebInv
    <2>0. LogoutTold'
        BY <1>2, LogoutToldStep
    <2>4. CASE \E p \in Page : PageOnly(p)
        <3>1. HeldIsIssued' /\ LoginIsNew' /\ CleanInv'
            BY <1>2, <2>4, PageIssued, PageSafe DEF WebInv
        <3> QED BY <2>0, <2>1, <2>2, <2>3, <3>1 DEF WebInv
    <2>5. CASE \E x \in Page : (\E u \in User : SubmitLogin(x, u)) \/ ArriveLogout(x)
        <3>1. HeldIsIssued' /\ LoginIsNew' /\ CleanInv'
            BY <1>2, <2>2, <2>5, ServerSafe DEF WebInv, Caller
        <3> QED BY <2>0, <2>1, <2>2, <2>3, <3>1 DEF WebInv
    <2>6. CASE \E q \in Request : CallStep(q)
        <3>1. PICK x \in Page, c \in Caller : CallStep(<<x, c>>)
            BY <2>6, SlotsAssumption
        <3>2. HeldIsIssued' /\ LoginIsNew' /\ CleanInv'
            BY <1>2, <2>2, <3>1, ServerSafe DEF WebInv
        <3> QED BY <2>0, <2>1, <2>2, <2>3, <3>2 DEF WebInv
    <2>7. CASE SessionEnds
        <3>1. HeldIsIssued'
            BY <1>2, <2>7, NoneAssumption
               DEF WebInv, SessionEnds, Purge, DeleteUser, store, HeldIsIssued, Issued,
                   WebTypeOK, TypeOK, Task
        <3>2. ASSUME Page = {} PROVE LoginIsNew' /\ CleanInv'
            <4>1. clean' = {}
                BY <2>3, <3>2 DEF WebTypeOK
            <4> QED BY <3>2, <4>1 DEF LoginIsNew, CleanInv
        <3>3. ASSUME NEW x \in Page PROVE LoginIsNew' /\ CleanInv'
            <4>1. /\ <<x, "logout">> \in Request /\ "logout" \in Caller
                  /\ <<x, "logout">>[2] = "logout"
                BY Slots DEF Caller
            <4>2. ServerEffect(<<x, "logout">>)
                BY <1>2, <2>2, <2>7, <4>1, SessionEndsEffect DEF WebInv
            <4>3. /\ call' = call /\ task' = task /\ session' = session
                  /\ \A t \in Token : st'[t] = "live" => st[t] = "live"
                BY <1>2, <2>7 DEF SessionEnds, Purge, DeleteUser, WebInv, WebTypeOK, TypeOK
            <4>4. OwnStepIsSafe(x, "logout")
                <5> SUFFICES ASSUME x \in clean, ~At(<<x, "logout">>, "idle") PROVE Safe(x)'
                    BY <4>3 DEF OwnStepIsSafe
                <5>1. Safe(x) /\ WebTypeOK
                    BY <1>2 DEF WebInv, CleanInv, Safe
                <5>2. OfSession(task[<<x, "logout">>].tok, session[mem[x]])' =>
                          At(<<x, "logout">>, "served")'
                    BY <4>1, <4>2, <4>3, <5>1 DEF Safe, Alone, OfSession, At, ServerEffect, store
                <5> QED BY <4>2, <4>3, <5>1, <5>2, OwnLogoutIsSafe DEF At
            <4> QED BY <1>2, <4>1, <4>2, <4>4, ServerKeeps DEF WebInv
        <3> QED BY <2>0, <2>1, <2>2, <2>3, <3>1, <3>2, <3>3 DEF WebInv
    <2> QED BY <1>2, <2>4, <2>5, <2>6, <2>7 DEF WebNext, PageStep, PageOnly
<1> QED BY <1>1, <1>2

(* The inductive invariant of the pages, their calls and the handlers.     *)
THEOREM WebInvariance == WebSpec => []WebInv
<1> QED BY WebInitInvariant, WebNextInvariant, PTL DEF WebSpec

(* The invariant says enough of a clean page.                              *)
LEMMA CleanSuffices == WebInv => CleanPageKeepsSession
<1> SUFFICES ASSUME WebInv, NEW p \in clean, ~LoggingOut(p) PROVE KeepsSession(p)
    BY DEF CleanPageKeepsSession
<1>1. p \in Page /\ Stored(p) /\ Alone(p) /\ Refreshes(p)
    BY DEF WebInv, WebTypeOK, CleanInv
<1> DEFINE t == mem[p]
           s == session[t]
<1>2. ASSUME \A c \in Refresher : call[<<p, c>>].pc \in {"idle", "me", "sent"}
      PROVE  (s \notin flushed => st[t] # "revoked") /\ Sole(t, s)
    <2>1. \A c \in Refresher : task[<<p, c>>].tok # t
        BY <1>1, <1>2 DEF Alone, Stored, OfSession, At, Caller, Refresher
    <2> QED BY <1>1, <1>2, <2>1 DEF Refreshes
<1> QED BY <1>1, <1>2 DEF KeepsSession, Stored, Refreshes, At, Sole

(* A page to which no mishap has happened keeps its session, whatever the  *)
(* other pages, the network, the API and the cleanup do.                   *)
THEOREM CleanPagesKeepTheirSession == WebSpec => []CleanPageKeepsSession
<1> QED BY CleanSuffices, WebInvariance, PTL

(* When a clean page is told that the token it has is logged out, and no   *)
(* refresh of its own is under way, nothing is left that could carry on    *)
(* its session: its token was the only one that could be live, and nobody  *)
(* else rotates one.                                                       *)
LEMMA LogoutLeavesNothing ==
    ASSUME WebInv, NEW p \in Page, p \in clean, ~Refreshing(p),
           At(<<p, "logout">>, "answered"), call[<<p, "logout">>].tok = mem[p]
    PROVE  Over(session[mem[p]])
<1> DEFINE t == mem[p]
           s == session[t]
<1>1. Stored(p) /\ Alone(p) /\ Refreshes(p) /\ t \in Token
    BY DEF WebInv, WebTypeOK, CleanInv, Stored
<1>2. \A c \in Refresher : At(<<p, c>>, "idle")
    BY DEF Refreshing
<1>3. Sole(t, s)
    BY <1>1, <1>2 DEF Refreshes, At
<1>4. st[t] # "live"
    BY DEF WebInv, LogoutTold
<1>5. ASSUME NEW x \in Token, st[x] = "live", session[x] = s PROVE FALSE
    BY <1>3, <1>4, <1>5 DEF Sole
<1>6. ASSUME NEW r \in Request, Rotating(r, s) PROVE FALSE
    <2>1. PICK x \in Page, c \in Caller : r = <<x, c>>
        BY SlotsAssumption
    <2>2. OfSession(task[<<x, c>>].tok, s)
        BY <1>6, <2>1, NoneAssumption DEF Rotating, OfSession, WebInv, IInv, KnownTokens
    <2>3. x = p
        BY <1>1, <2>2 DEF Alone, Away
    <2>4. c # "login" /\ At(<<p, c>>, "served")
        BY <1>1, <2>2, <2>3 DEF Alone
    <2> QED BY <1>2, <2>4 DEF At, Caller, Refresher
<1> QED BY <1>5, <1>6 DEF Over, NoneLive

(* A logout that the API has answered has ended the session of a clean     *)
(* page, whatever the other pages, the network and the API do, unless a    *)
(* refresh is under way or has replaced the token it names.                *)
THEOREM LogoutsEndSessions == WebSpec => LogoutEndsSession
<1> DEFINE Ends == \A p \in Page :
                       LET q == <<p, "logout">>
                       IN  (/\ p \in clean /\ ~Refreshing(p)
                            /\ LoggedOut(p) /\ At(q, "answered") /\ call[q].tok = mem[p])
                               => Over(session[mem[p]])
<1>1. WebInv => Ends
    BY LogoutLeavesNothing
<1>2. WebInv /\ [WebNext]_wvars => [Ends]_wvars
    BY <1>1
<1>3. WebSpec => [][Ends]_wvars
    BY <1>2, WebInvariance, PTL DEF WebSpec
<1> QED BY <1>3 DEF LogoutEndsSession

(* Whatever the pages of a browser do, they are clients as AuthTokens      *)
(* takes them to be.                                                       *)
THEOREM PagesAreClients == WebSpec => Spec
<1>1. WebInit => Init
    BY DEF WebInit
<1>2. WebInv /\ [WebNext]_wvars => [Next]_vars
    BY WebStepIsStep DEF WebInv, wvars
<1> QED BY <1>1, <1>2, WebInvariance, PTL DEF WebSpec, Spec
==============================================================================
