----------------------------- MODULE Access_proofs -----------------------------
(***************************************************************************)
(* Proofs about Users, Access and LoginThrottle.                           *)
(***************************************************************************)
EXTENDS Access, LoginThrottle, FiniteSetTheorems, TLAPS

USE NamedAssumption, ValueAssumption, ProfileAssumption

------------------------------------------------------------------------------
(* The pure part: the checks on claims give each profile just what the     *)
(* permission matrix says, and no page offers more.                        *)
LEMMA ChecksAreTheMatrix ==
    ASSUME NEW p \in Profile, NEW op \in Op
    PROVE  Admits(p, op) <=> Entitled(p, op)
<1> USE DEF Admits, RoleAllows, RegionAllows, Entitled, Profile, Role, Op
<1>1. CASE p.role = "admin" BY <1>1
<1>2. CASE p.role = "user" /\ op.kind \in RegionWork
  <2>1. op.kind \notin AdminWork BY <1>2 DEF AdminWork, RegionWork
  <2>2. p.region = op.region <=> p = [role |-> "user", region |-> op.region] BY <1>2
  <2> QED BY <1>2, <2>1, <2>2
<1>3. CASE p.role = "user" /\ op.kind \in AdminWork
  <2>1. op.kind \notin RegionWork BY <1>3 DEF AdminWork, RegionWork
  <2> QED BY <1>3, <2>1
<1> QED BY <1>1, <1>2, <1>3

LEMMA PagesOfferWhatIsAdmitted ==
    ASSUME NEW p \in Profile, NEW op \in Offered(p)
    PROVE  Admits(p, op)
<1> USE DEF Admits, RoleAllows, RegionAllows, Profile, Role
<1>1. CASE p.role = "admin" BY <1>1
<1>2. CASE p.role = "user"
  <2>1. PICK path \in {"dashboard", "devices", "regions"} :
            op \in Asks(p)[Rendered(path, p)]
    BY <1>2 DEF Offered, Menu, Tabs, Landing
  <2>2. path # "regions" BY <1>2, <2>1 DEF Rendered, AdminRoute, Asks
  <2>3. op \in On(RegionWork, Listed(p))
    <3>1. CASE path = "dashboard"
      BY <1>2, <2>1, <3>1 DEF Rendered, AdminRoute, Asks, DashboardAsks, On, RegionWork
    <3>2. CASE path = "devices"
      BY <1>2, <2>1, <3>2 DEF Rendered, AdminRoute, Asks, DevicesAsks, On, RegionWork
    <3> QED BY <2>2, <3>1, <3>2
  <2>4. op.kind \in RegionWork /\ op.region \in Listed(p) BY <2>3 DEF On
  <2>5. op.kind \notin AdminWork BY <2>4 DEF RegionWork, AdminWork
  <2>6. op.region = p.region BY <1>2, <2>4 DEF Listed
  <2> QED BY <2>5, <2>6
<1> QED BY <1>1, <1>2

------------------------------------------------------------------------------
(* The user rows.                                                          *)
UsersInv == UsersTypeOK /\ JobsRegular /\ Admins \subseteq granted

LEMMA DataForIsRegular ==
    ASSUME NEW b \in Body, NEW r \in Role
    PROVE  /\ DataFor(b, r) \in Body
           /\ Effective(b, r) \in Role
           /\ DataFor(b, r).role \in {Keep, Effective(b, r)}
           /\ DataFor(b, r).role = "admin" => DataFor(b, r).region = None
           /\ Effective(b, r) = "admin" => DataFor(b, r).region \in {None, Keep}
BY DEF DataFor, Effective, Body, Role

LEMMA PatchedIsProfile ==
    ASSUME NEW p \in Profile, NEW d \in Body
    PROVE  /\ Patched(p, d) \in Profile
           /\ Patched(p, d).role = IF d.role = Keep THEN p.role ELSE d.role
           /\ Patched(p, d).region = IF d.region = Keep THEN p.region ELSE d.region
<1> DEFINE f == [role |-> IF d.role = Keep THEN p.role ELSE d.role,
                 region |-> IF d.region = Keep THEN p.region ELSE d.region]
<1>1. Patched(p, d) = f BY DEF Patched
<1>2. f \in Profile BY DEF Profile, Body, Role
<1> QED BY <1>1, <1>2

LEMMA BlankIsJob == Blank \in Job /\ Blank.pc = "idle"
BY DEF Blank, Job

(* A handler takes a step that leaves the rows alone, from or to idle.     *)
LEMMA HandlerMoves ==
    ASSUME UsersInv, NEW q \in Slot, NEW j \in Job,
           job' = [job EXCEPT ![q] = j], UNCHANGED <<row, regions, granted>>,
           j.pc # "idle" => j.id \in User /\ j.by \in granted,
           j.pc = "create" => /\ j.data \in Profile
                              /\ j.data.role = "admin" => j.data.region = None,
           j.pc = "update" => /\ j.data \in Body /\ j.role \in Role
                              /\ j.data.role \in {Keep, j.role}
                              /\ j.data.role = "admin" => j.data.region = None
                              /\ j.role = "admin" => j.data.region \in {None, Keep},
           j.pc = "remove" => j.by # j.id
    PROVE  UsersInv'
<1> USE DEF UsersInv
<1>1. \A p \in Slot : job'[p] = IF p = q THEN j ELSE job[p]
    BY DEF UsersTypeOK
<1>2. UsersTypeOK' BY DEF UsersTypeOK
<1>3. JobsRegular' BY <1>1 DEF JobsRegular
<1>4. (Admins \subseteq granted)' BY DEF Admins, Registered
<1> QED BY <1>2, <1>3, <1>4

(* A handler writes a row and is done.                                     *)
LEMMA HandlerWrites ==
    ASSUME UsersInv, NEW q \in Slot, NEW u \in User, NEW p \in Profile,
           Write(u, p), Finish(q), UNCHANGED regions
    PROVE  UsersInv'
<1> USE DEF UsersInv, Write, Finish
<1>1. \A r \in Slot : job'[r] = IF r = q THEN Blank ELSE job[r]
    BY DEF UsersTypeOK
<1>2. UsersTypeOK' BY BlankIsJob DEF UsersTypeOK
<1>3. granted \subseteq granted'
    OBVIOUS
<1>5. JobsRegular' BY <1>1, <1>3, BlankIsJob DEF JobsRegular
<1>4. ASSUME NEW v \in Admins' PROVE v \in granted'
  <2>1. row'[v] = IF v = u THEN p ELSE row[v] BY <1>4 DEF UsersTypeOK, Admins
  <2>2. CASE v = u BY <1>4, <2>1, <2>2 DEF Admins, UsersTypeOK
  <2>3. CASE v # u BY <1>4, <2>1, <2>3 DEF Admins, Registered
  <2> QED BY <2>2, <2>3
<1> QED BY <1>2, <1>5, <1>4

LEMMA UsersInitial == UsersInit => UsersInv
<1> SUFFICES ASSUME UsersInit PROVE UsersInv OBVIOUS
<1>1. PICK root \in User :
          /\ row = [u \in User |-> IF u = root THEN [role |-> "admin", region |-> None] ELSE None]
          /\ granted = {root}
    BY DEF UsersInit
<1>2. UsersTypeOK
  <2>1. [role |-> "admin", region |-> None] \in Profile BY DEF Profile, Role
  <2> QED BY <1>1, <2>1, BlankIsJob DEF UsersInit, UsersTypeOK
<1>3. JobsRegular BY BlankIsJob DEF UsersInit, JobsRegular
<1>4. Admins \subseteq granted BY <1>1 DEF Admins, Registered
<1> QED BY <1>2, <1>3, <1>4 DEF UsersInv

LEMMA UsersStep == UsersInv /\ [UsersNext]_uvars => UsersInv'
<1> SUFFICES ASSUME UsersInv, [UsersNext]_uvars PROVE UsersInv' OBVIOUS
<1>1. ASSUME NEW q \in Slot, NEW by \in User, NEW u \in User, NEW b \in AskedBody,
             Update(q, by, u, b)
      PROVE  UsersInv'
  <2> DEFINE j == [pc |-> "update", id |-> u, by |-> by,
                   role |-> Effective(b, row[u].role), data |-> DataFor(b, row[u].role)]
  <2>1. b \in Body BY DEF AskedBody
  <2>2. row[u].role \in Role
      BY <1>1 DEF Update, Registered, UsersInv, UsersTypeOK, Profile
  <2>3. j \in Job BY <2>1, <2>2, DataForIsRegular DEF Job
  <2>4. job' = [job EXCEPT ![q] = j] /\ UNCHANGED <<row, regions, granted>>
      BY <1>1 DEF Update, Start
  <2>5. /\ j.pc = "update" /\ j.id \in User /\ j.by \in granted /\ j.data \in Body
        /\ j.role \in Role /\ j.data.role \in {Keep, j.role}
        /\ j.data.role = "admin" => j.data.region = None
        /\ j.role = "admin" => j.data.region \in {None, Keep}
      BY <1>1, <2>1, <2>2, DataForIsRegular DEF Update
  <2> HIDE DEF j
  <2> QED BY <2>3, <2>4, <2>5, HandlerMoves
<1>2. ASSUME NEW q \in Slot, NEW by \in User, NEW u \in User, NEW p \in AskedProfile,
             Create(q, by, u, p)
      PROVE  UsersInv'
  <2> DEFINE d == [role |-> p.role, region |-> IF p.role = "admin" THEN None ELSE p.region]
             j == [pc |-> "create", id |-> u, by |-> by, role |-> None, data |-> d]
  <2>1. p \in Profile BY DEF AskedProfile
  <2>2. d \in Profile /\ (d.role = "admin" => d.region = None)
      BY <2>1 DEF Profile
  <2>3. d \in Body BY <2>2 DEF Profile, Body
  <2>4. j \in Job BY <2>1, <2>3 DEF Job, Profile
  <2>5. job' = [job EXCEPT ![q] = j] /\ UNCHANGED <<row, regions, granted>>
      BY <1>2 DEF Create, Start
  <2>6. j.pc = "create" /\ j.id \in User /\ j.by \in granted /\ j.data \in Profile
        /\ (j.data.role = "admin" => j.data.region = None)
      BY <1>2, <2>2 DEF Create
  <2> HIDE DEF j
  <2> QED BY <2>4, <2>5, <2>6, HandlerMoves
<1>3. ASSUME NEW q \in Slot, NEW by \in User, NEW u \in User, Remove(q, by, u)
      PROVE  UsersInv'
  <2> DEFINE j == [pc |-> "remove", id |-> u, by |-> by, role |-> None, data |-> None]
  <2>1. j \in Job BY DEF Job
  <2>2. j.pc = "remove" /\ j.id \in User /\ j.by \in granted /\ j.by # j.id
      BY <1>3 DEF Remove
  <2>3. job' = [job EXCEPT ![q] = j] /\ UNCHANGED <<row, regions, granted>>
      BY <1>3 DEF Remove, Start
  <2> HIDE DEF j
  <2> QED BY <2>1, <2>2, <2>3, HandlerMoves
<1>4. ASSUME NEW q \in Slot, WriteUpdate(q) PROVE UsersInv'
  <2>1. job[q].id \in User /\ job[q].data \in Body
      BY <1>4 DEF WriteUpdate, UsersInv, JobsRegular
  <2>2. row[job[q].id] \in Profile
      BY <1>4, <2>1 DEF WriteUpdate, Registered, UsersInv, UsersTypeOK
  <2>3. Patched(row[job[q].id], job[q].data) \in Profile
      BY <2>1, <2>2, PatchedIsProfile
  <2> QED BY <1>4, <2>1, <2>3, HandlerWrites DEF WriteUpdate
<1>5. ASSUME NEW q \in Slot, WriteCreate(q) PROVE UsersInv'
  <2>1. job[q].id \in User /\ job[q].data \in Profile
      BY <1>5 DEF WriteCreate, UsersInv, JobsRegular
  <2> QED BY <1>5, <2>1, HandlerWrites DEF WriteCreate
<1>6. ASSUME NEW q \in Slot, WriteRemove(q) PROVE UsersInv'
  <2> USE DEF UsersInv
  <2>1. \A r \in Slot : job'[r] = IF r = q THEN Blank ELSE job[r]
      BY <1>6 DEF WriteRemove, Finish, UsersTypeOK
  <2>2. UsersTypeOK' BY <1>6, BlankIsJob DEF WriteRemove, Finish, UsersTypeOK
  <2>3. JobsRegular' BY <1>6, <2>1, BlankIsJob DEF WriteRemove, JobsRegular
  <2>4. (Admins \subseteq granted)'
      BY <1>6 DEF WriteRemove, UsersTypeOK, Admins, Registered
  <2> QED BY <2>2, <2>3, <2>4
<1>7. ASSUME NEW q \in Slot, Abort(q) PROVE UsersInv'
  <2>1. job' = [job EXCEPT ![q] = Blank] /\ UNCHANGED <<row, regions, granted>>
      BY <1>7 DEF Abort, Finish
  <2> QED BY <2>1, BlankIsJob, HandlerMoves
<1>8. ASSUME NEW r \in Named, RemoveRegion(r) PROVE UsersInv'
  <2> USE DEF UsersInv, RemoveRegion
  <2>1. \A u \in User : /\ row'[u] \in Profile \cup {None}
                        /\ Registered(u)' => Registered(u) /\ row'[u].role = row[u].role
      BY <1>8 DEF UsersTypeOK, Registered, Profile
  <2>2. UsersTypeOK' BY <1>8, <2>1 DEF UsersTypeOK
  <2>3. JobsRegular' BY <1>8 DEF JobsRegular
  <2>4. (Admins \subseteq granted)' BY <1>8, <2>1 DEF Admins
  <2> QED BY <2>2, <2>3, <2>4
<1>9. CASE UNCHANGED uvars
    BY <1>9 DEF uvars, UsersInv, UsersTypeOK, JobsRegular, Admins, Registered
<1> QED BY <1>1, <1>2, <1>3, <1>4, <1>5, <1>6, <1>7, <1>8, <1>9 DEF UsersNext

------------------------------------------------------------------------------
(* The sessions.                                                           *)
LEMMA IInvSplit == IInv <=> UsersInv /\ sess \in [Session -> SessionRec] /\ SessionsFollow
BY DEF IInv, UsersInv, TypeOK

LEMMA Initial == Init => IInv
<1> SUFFICES ASSUME Init PROVE IInv OBVIOUS
<1>1. UsersInv BY UsersInitial DEF Init
<1>2. Out \in SessionRec BY DEF Out, SessionRec, SessionState
<1>3. \A s \in Session : sess[s] = Out BY DEF Init
<1>4. sess \in [Session -> SessionRec] BY <1>2 DEF Init
<1>5. SessionsFollow BY <1>3 DEF SessionsFollow, Out
<1> QED BY <1>1, <1>4, <1>5, IInvSplit

(* A session's own step leaves the user rows alone.                        *)
LEMMA OneSessionMoves ==
    ASSUME IInv, NEW s \in Session, NEW rec \in SessionRec, UNCHANGED uvars,
           sess' = [sess EXCEPT ![s] = rec],
           rec.st # "out" => Follows(rec)
    PROVE  IInv'
<1>1. UsersInv' BY IInvSplit, UsersStep
<1>2. sess' \in [Session -> SessionRec] BY DEF IInv, TypeOK
<1>3. \A x \in Session : sess'[x] = IF x = s THEN rec ELSE sess[x] BY DEF IInv, TypeOK
<1>4. SessionsFollow'
    BY <1>3 DEF SessionsFollow, Follows, IInv, uvars, Registered
<1> QED BY <1>1, <1>2, <1>4, IInvSplit DEF IInv, UsersInv, TypeOK

LEMMA Becoming ==
    ASSUME IInv, NEW s \in Session, NEW st \in {"live", "rotating", "ended"},
           NEW shown \in Profile, sess[s].st # "out", Become(s, st, shown),
           st = "live" => Registered(sess[s].id),
           ~sess[s].late => shown = sess[s].claims
    PROVE  IInv'
<1> DEFINE old == sess[s]
           rec == [st |-> st, id |-> old.id, claims |-> old.claims,
                   shown |-> shown, late |-> old.late]
<1>1. old \in SessionRec /\ Follows(old) BY DEF IInv, TypeOK, SessionsFollow
<1>2. sess' = [sess EXCEPT ![s] = rec] BY DEF Become
<1>3. rec \in SessionRec BY <1>1 DEF SessionRec, SessionState
<1>4. Follows(rec) BY <1>1 DEF Follows
<1> HIDE DEF rec
<1> QED BY <1>2, <1>3, <1>4, OneSessionMoves DEF Become

LEMMA SessionSteps ==
    ASSUME IInv, NEW s \in Session, SessionStep(s) PROVE IInv'
<1>1. sess[s] \in SessionRec /\ (sess[s].st # "out" => Follows(sess[s]))
    BY DEF IInv, TypeOK, SessionsFollow
<1>2. ASSUME NEW u \in User, LoginRead(s, u) PROVE IInv'
  <2> DEFINE rec == [st |-> "login", id |-> u, claims |-> row[u], shown |-> None, late |-> FALSE]
  <2>1. row[u] \in Profile BY <1>2 DEF LoginRead, Registered, IInv, TypeOK, UsersTypeOK
  <2>2. rec \in SessionRec BY <2>1 DEF SessionRec, SessionState
  <2>3. rec.claims.role = "admin" => u \in granted
      BY <1>2 DEF LoginRead, IInv, Admins
  <2>4. Follows(rec) BY <2>1, <2>3 DEF Follows
  <2>5. sess' = [sess EXCEPT ![s] = rec] /\ UNCHANGED uvars BY <1>2 DEF LoginRead
  <2> HIDE DEF rec
  <2> QED BY <2>2, <2>4, <2>5, OneSessionMoves
<1>3. CASE LoginIssue(s) BY <1>1, <1>3, Becoming DEF LoginIssue, Follows
<1>4. CASE RotateRevoke(s) BY <1>1, <1>4, Becoming DEF RotateRevoke, Follows
<1>5. CASE RotateIssue(s) BY <1>1, <1>5, Becoming DEF RotateIssue, Follows
<1>6. CASE RotateFail(s) BY <1>1, <1>6, Becoming DEF RotateFail, Follows
<1>7. CASE Restore(s)
  <2>1. row[sess[s].id] \in Profile
      BY <1>1, <1>7 DEF Restore, Follows, Registered, IInv, TypeOK, UsersTypeOK
  <2> QED BY <1>1, <1>7, <2>1, Becoming DEF Restore, Follows
<1>8. CASE Leave(s)
  <2>1. Out \in SessionRec /\ Out.st = "out" BY DEF Out, SessionRec, SessionState
  <2> QED BY <1>8, <2>1, OneSessionMoves DEF Leave
<1> QED BY <1>2, <1>3, <1>4, <1>5, <1>6, <1>7, <1>8 DEF SessionStep

(* No step on the user rows takes an id out of granted.                    *)
LEMMA GrantedGrows == UsersNext => granted \subseteq granted'
BY DEF UsersNext, Update, Create, Remove, WriteUpdate, WriteCreate, WriteRemove, Write,
       Abort, RemoveRegion

LEMMA UserChangeStep == IInv /\ UserChange => IInv'
<1> SUFFICES ASSUME IInv, UserChange PROVE IInv' OBVIOUS
<1>1. UsersInv' BY IInvSplit, UsersStep DEF UserChange
<1>2. ASSUME NEW s \in Session
      PROVE  sess'[s] \in SessionRec /\ (sess[s].st # "out" => Follows(sess[s]))'
  <2> DEFINE old == sess[s]
             new == [st |-> Cascade(old.st, old.id), id |-> old.id, claims |-> old.claims,
                     shown |-> old.shown, late |-> TRUE]
  <2>1. old \in SessionRec /\ (old.st # "out" => Follows(old))
      BY DEF IInv, TypeOK, SessionsFollow
  <2>2. CASE ~Changed(old)
    <3>1. sess'[s] = old BY <2>2 DEF UserChange
    <3> QED BY <2>1, <2>2, <3>1, GrantedGrows DEF UserChange, Changed, Follows, Registered
  <2>3. CASE Changed(old)
    <3>1. sess'[s] = new BY <2>1, <2>3 DEF UserChange, SessionRec
    <3>2. new.st \in SessionState /\ new.st # "out" /\ (old.st = "login" => new.st = "login")
          /\ (new.st = "live" => row'[old.id] # None)
        BY <2>1, <2>3 DEF Changed, Cascade, SessionRec, SessionState
    <3>3. new \in SessionRec BY <2>1, <3>2 DEF SessionRec
    <3>4. /\ sess'[s].id = old.id /\ sess'[s].claims = old.claims
          /\ sess'[s].shown = old.shown /\ sess'[s].st = new.st /\ sess'[s].late = TRUE
        BY <3>1
    <3>5. Follows(old) /\ granted \subseteq granted'
        BY <2>1, <2>3, GrantedGrows DEF Changed, UserChange
    <3> HIDE DEF new
    <3>6. Follows(sess[s])'
      <4>1. old.id \in User /\ old.claims \in Profile
            /\ (old.st # "login" => old.shown \in Profile)
            /\ (old.claims.role = "admin" => old.id \in granted)
          BY <3>5 DEF Follows
      <4>2. /\ sess'[s].id \in User /\ sess'[s].claims \in Profile
            /\ sess'[s].st # "login" => sess'[s].shown \in Profile
            /\ sess'[s].claims.role = "admin" => sess'[s].id \in granted'
            /\ sess'[s].st = "live" => row'[sess'[s].id] # None
          BY <3>2, <3>4, <3>5, <4>1
      <4> QED BY <3>4, <4>2 DEF Follows, Registered
    <3> QED BY <3>1, <3>3, <3>6
  <2> QED BY <2>2, <2>3
<1>3. sess' \in [Session -> SessionRec]
  <2>1. sess' = [s \in Session |-> sess'[s]] BY DEF UserChange
  <2> QED BY <1>2, <2>1
<1>4. SessionsFollow' BY <1>2 DEF SessionsFollow
<1> QED BY <1>1, <1>3, <1>4, IInvSplit DEF IInv, UsersInv, TypeOK

LEMMA Step == IInv /\ [Next]_vars => IInv'
<1> SUFFICES ASSUME IInv, [Next]_vars PROVE IInv' OBVIOUS
<1>1. CASE UserChange BY <1>1, UserChangeStep
<1>2. ASSUME NEW s \in Session, SessionStep(s) PROVE IInv' BY <1>2, SessionSteps
<1>3. CASE UNCHANGED vars
  <2>1. UsersInv' BY <1>3, IInvSplit, UsersStep DEF vars, uvars
  <2>2. sess' \in [Session -> SessionRec] /\ SessionsFollow'
      BY <1>3 DEF vars, IInv, TypeOK, SessionsFollow, Follows, Registered
  <2> QED BY <2>1, <2>2, IInvSplit DEF IInv, UsersInv, TypeOK
<1> QED BY <1>1, <1>2, <1>3 DEF Next

------------------------------------------------------------------------------
(* The inductive invariant: claims and the shown user stay those of the    *)
(* row until it changes, and only a former admin's id has an admin's       *)
(* tokens.                                                                 *)
THEOREM Invariance == Spec => []IInv
<1> QED BY Initial, Step, PTL DEF Spec

(* A session in step with its user's row is entitled to just what the      *)
(* permission matrix says, and its pages offer nothing the API refuses.    *)
THEOREM SessionsInStep == Spec => []InStep
<1>1. IInv => InStep
  <2> SUFFICES ASSUME IInv, NEW s \in Session, sess[s].st = "live"
               PROVE  /\ Registered(sess[s].id)
                      /\ ~sess[s].late =>
                            /\ \A op \in Op : Admits(sess[s].claims, op)
                                                  <=> Entitled(row[sess[s].id], op)
                            /\ \A op \in Offered(sess[s].shown) : Admits(sess[s].claims, op)
      BY DEF InStep
  <2>1. Follows(sess[s]) BY DEF IInv, SessionsFollow
  <2>2. Registered(sess[s].id) BY <2>1 DEF Follows
  <2>3. CASE ~sess[s].late
    <3>1. /\ sess[s].claims \in Profile /\ row[sess[s].id] = sess[s].claims
          /\ sess[s].shown = sess[s].claims
        BY <2>1, <2>3 DEF Follows
    <3>2. \A op \in Op : Admits(sess[s].claims, op) <=> Entitled(row[sess[s].id], op)
        BY <3>1, ChecksAreTheMatrix
    <3>3. \A op \in Offered(sess[s].shown) : Admits(sess[s].claims, op)
        BY <3>1, PagesOfferWhatIsAdmitted
    <3> QED BY <2>2, <3>2, <3>3
  <2> QED BY <2>2, <2>3
<1> QED BY <1>1, Invariance, PTL

LEMMA PrimedAdmins ==
    ASSUME NEW u \in User, row'[u] = row[u] PROVE Regular(u) => Regular(u)'
BY DEF Regular, Admins, Registered

(* An admin comes by a region only by the write of an update that has read *)
(* a user's row, which has become an admin's under it.                     *)
THEOREM AdminsStayRegionless == Spec => RegionlessAdmins
<1>1. IInv /\ [Next]_vars => [NoRegionForAdmins]_uvars
  <2> SUFFICES ASSUME IInv, UserChange PROVE NoRegionForAdmins
      BY DEF Next, SessionStep, LoginRead, LoginIssue, RotateRevoke, RotateIssue, RotateFail,
             Restore, Leave, Become, vars, uvars
  <2> SUFFICES ASSUME NEW u \in User, Regular(u), ~Regular(u)'
               PROVE  \E q \in Slot : /\ WriteUpdate(q) /\ job[q].id = u
                                      /\ job[q].role = "user" /\ job[q].data.role = Keep
                                      /\ u \in Admins
      BY DEF NoRegionForAdmins
  <2> USE DEF UserChange, UsersNext
  <2>1. row'[u] # row[u] BY PrimedAdmins
  <2>2. row'[u] # None /\ row'[u].role = "admin" /\ row'[u].region # None
      BY DEF Regular, Admins, Registered
  <2>3. row \in [User -> Profile \cup {None}] BY DEF IInv, TypeOK, UsersTypeOK
  <2>4. ASSUME NEW q \in Slot, WriteUpdate(q)
        PROVE  /\ job[q].id = u /\ u \in Admins
               /\ job[q].role = "user" /\ job[q].data.role = Keep
    <3>1. job[q].pc = "update" /\ job[q].id \in User /\ job[q].data \in Body
          /\ row[job[q].id] # None
        BY <2>4 DEF WriteUpdate, Registered, IInv, JobsRegular
    <3>2. row' = [row EXCEPT ![job[q].id] = Patched(row[job[q].id], job[q].data)]
        BY <2>4 DEF WriteUpdate, Write
    <3>3. job[q].id = u BY <2>1, <2>3, <3>1, <3>2
    <3>4. row[u] \in Profile BY <2>3, <3>1, <3>3
    <3>5. row'[u] = Patched(row[u], job[q].data) BY <2>3, <3>1, <3>2, <3>3
    <3>6. job[q].role \in Role
        BY <3>1 DEF IInv, JobsRegular
    <3>7. /\ job[q].data.role \in {Keep, job[q].role}
          /\ job[q].data.role = "admin" => job[q].data.region = None
          /\ job[q].role = "admin" => job[q].data.region \in {None, Keep}
        BY <3>1 DEF IInv, JobsRegular
    <3>8. /\ row'[u].role = IF job[q].data.role = Keep THEN row[u].role ELSE job[q].data.role
          /\ row'[u].region = IF job[q].data.region = Keep THEN row[u].region
                                ELSE job[q].data.region
      <4> DEFINE p == row[u]
                 d == job[q].data
      <4>1. p \in Profile /\ d \in Body BY <3>1, <3>4
      <4> HIDE DEF p, d
      <4>2. /\ Patched(p, d).role = IF d.role = Keep THEN p.role ELSE d.role
            /\ Patched(p, d).region = IF d.region = Keep THEN p.region ELSE d.region
          BY <4>1, PatchedIsProfile
      <4> QED BY <3>5, <4>2 DEF p, d
    <3>9. job[q].data.role = Keep /\ row[u].role = "admin"
        BY <2>2, <3>7, <3>8, ValueAssumption
    <3>10. u \in Admins /\ row[u].region = None
        BY <3>1, <3>3, <3>9 DEF Regular, Admins, Registered
    <3>11. job[q].role # "admin" BY <2>2, <3>7, <3>8, <3>10
    <3> QED BY <3>3, <3>6, <3>9, <3>10, <3>11 DEF Role
  <2>5. ASSUME NEW q \in Slot, WriteCreate(q) PROVE FALSE
    <3>1. job[q].id \in User /\ job[q].data.role = "admin" => job[q].data.region = None
        BY <2>5 DEF WriteCreate, IInv, JobsRegular
    <3>2. job[q].id \in User BY <2>5 DEF WriteCreate, IInv, JobsRegular
    <3>3. job[q].id = u /\ row'[u] = job[q].data
        BY <2>1, <2>3, <2>5, <3>2 DEF WriteCreate, Write
    <3> QED BY <2>2, <2>5, <3>3 DEF WriteCreate, IInv, JobsRegular
  <2>6. ASSUME NEW q \in Slot, WriteRemove(q) PROVE FALSE
    BY <2>1, <2>2, <2>3, <2>6 DEF WriteRemove
  <2>7. ASSUME NEW r \in Named, RemoveRegion(r) PROVE FALSE
    <3>1. row'[u] = IF Registered(u) /\ row[u].region = r
                    THEN [row[u] EXCEPT !.region = None] ELSE row[u]
        BY <2>7 DEF RemoveRegion
    <3>2. row[u] \in Profile BY <2>1, <2>3, <3>1 DEF Registered
    <3> QED BY <2>1, <2>2, <3>1, <3>2 DEF Profile
  <2>8. \A q \in Slot : Abort(q) => row'[u] = row[u] BY DEF Abort
  <2>9. \A q \in Slot, by, v \in User : Remove(q, by, v) => row'[u] = row[u]
      BY DEF Remove
  <2>10. \A q \in Slot, by, v \in User, b \in AskedBody : Update(q, by, v, b) => row'[u] = row[u]
      BY DEF Update
  <2>11. \A q \in Slot, by, v \in User, p \in AskedProfile :
            Create(q, by, v, p) => row'[u] = row[u]
      BY DEF Create
  <2> QED BY <2>1, <2>4, <2>5, <2>6, <2>7, <2>8, <2>9, <2>10, <2>11
<1> QED BY <1>1, Invariance, PTL DEF Spec, RegionlessAdmins

(* The last admin is lost only to a PATCH that asks for it, or to a        *)
(* removal by somebody who has been an admin and is none any more.         *)
THEOREM LastAdminIsKept == Spec => AdminLeft
<1>1. IInv /\ [Next]_vars => [KeepsAnAdmin]_uvars
  <2> SUFFICES ASSUME IInv, UserChange PROVE KeepsAnAdmin
      BY DEF Next, SessionStep, LoginRead, LoginIssue, RotateRevoke, RotateIssue, RotateFail,
             Restore, Leave, Become, vars, uvars
  <2> SUFFICES ASSUME NEW a \in Admins, Admins' = {}
               PROVE  \E q \in Slot :
                          /\ Admins = {job[q].id}
                          /\ \/ WriteUpdate(q) /\ job[q].data.role = "user"
                             \/ WriteRemove(q) /\ job[q].by \in granted \ Admins
      BY DEF KeepsAnAdmin
  <2>1. row'[a] = None \/ row'[a].role # "admin" BY DEF Admins, Registered
  <2>2. row \in [User -> Profile \cup {None}] /\ a \in User /\ row[a].role = "admin"
        /\ row[a] # None
      BY DEF IInv, TypeOK, UsersTypeOK, Admins, Registered
  <2>3. ASSUME NEW b \in Admins, row'[b] = row[b] PROVE FALSE
      BY <2>3 DEF Admins, Registered
  <2>4. ASSUME NEW q \in Slot, WriteUpdate(q) \/ WriteRemove(q)
        PROVE  /\ Admins = {job[q].id}
               /\ \/ WriteUpdate(q) /\ job[q].data.role = "user"
                  \/ WriteRemove(q) /\ job[q].by \in granted \ Admins
    <3>1. row' = [row EXCEPT ![job[q].id] = row'[job[q].id]] /\ job[q].id \in User
        BY <2>2, <2>4 DEF WriteUpdate, WriteRemove, Write, IInv, JobsRegular
    <3>2. \A b \in Admins : b = job[q].id BY <2>2, <2>3, <3>1 DEF Admins
    <3>3. Admins = {job[q].id} /\ a = job[q].id BY <3>2
    <3>4. CASE WriteUpdate(q)
      <4> DEFINE p == row[a]
                 d == job[q].data
      <4>1. d \in Body /\ p \in Profile
          BY <2>2, <3>4 DEF WriteUpdate, IInv, JobsRegular
      <4>2. row'[a] = Patched(p, d)
          BY <2>2, <3>3, <3>4 DEF WriteUpdate, Write
      <4>3. d.role \in {"admin", "user", Keep} /\ p.role = "admin"
          BY <2>2, <4>1 DEF Body, Role
      <4> HIDE DEF p, d
      <4>4. Patched(p, d) \in Profile /\ Patched(p, d).role = IF d.role = Keep THEN p.role ELSE d.role
          BY <4>1, PatchedIsProfile
      <4>5. d.role = "user"
          BY <2>1, <4>2, <4>3, <4>4, ProfileAssumption
      <4> QED BY <3>3, <3>4, <4>5 DEF d
    <3>5. CASE WriteRemove(q)
      <4>1. job[q].by # job[q].id /\ job[q].by \in granted
          BY <3>5 DEF WriteRemove, IInv, JobsRegular
      <4> QED BY <3>3, <3>5, <4>1
    <3> QED BY <2>4, <3>4, <3>5
  <2>5. ASSUME NEW q \in Slot, WriteCreate(q) PROVE FALSE
    <3>1. row'[a] = row[a]
        BY <2>2, <2>5 DEF WriteCreate, Write, Registered
    <3> QED BY <2>3, <3>1
  <2>6. ASSUME NEW r \in Named, RemoveRegion(r) PROVE FALSE
    <3>1. row'[a] = IF row[a].region = r THEN [row[a] EXCEPT !.region = None] ELSE row[a]
        BY <2>2, <2>6 DEF RemoveRegion, Registered
    <3>2. row[a] \in Profile BY <2>2
    <3>3. row'[a].role = "admin" /\ row'[a] \in Profile
        BY <2>2, <3>1, <3>2 DEF Profile
    <3> QED BY <2>1, <3>3
  <2>7. \A q \in Slot : Abort(q) => row' = row BY DEF Abort
  <2>8. \A q \in Slot, by, v \in User : Remove(q, by, v) => row' = row BY DEF Remove
  <2>9. \A q \in Slot, by, v \in User, b \in AskedBody : Update(q, by, v, b) => row' = row
      BY DEF Update
  <2>10. \A q \in Slot, by, v \in User, p \in AskedProfile : Create(q, by, v, p) => row' = row
      BY DEF Create
  <2> QED BY <2>3, <2>4, <2>5, <2>6, <2>7, <2>8, <2>9, <2>10 DEF UserChange, UsersNext
<1> QED BY <1>1, Invariance, PTL DEF Spec, AdminLeft

------------------------------------------------------------------------------
(* LoginThrottle, which stands before the login that starts a session.     *)

(* The sets counted are finite, and no count exceeds its superset's.       *)
LEMMA Finite ==
    ASSUME ThrottleTypeOK, NEW t
    PROVE  /\ IsFiniteSet(rows)
           /\ IsFiniteSet(Since(t)) /\ Cardinality(Since(t)) \in Nat
           /\ IsFiniteSet(Guesses(t)) /\ Cardinality(Guesses(t)) \in Nat
           /\ IsFiniteSet(Admitted) /\ Cardinality(Admitted) \in Nat
           /\ Cardinality(Guesses(t)) <= Cardinality(Since(t))
           /\ Cardinality(Admitted) <= Cardinality(Request)
           /\ Cardinality(Request) \in Nat
<1>1. rows \subseteq Attempt /\ Since(t) \subseteq rows /\ Guesses(t) \subseteq Since(t)
    BY LimitAssumption DEF ThrottleTypeOK, Since, Guesses
<1>2. Admitted \subseteq Request
    BY DEF Admitted
<1>3. IsFiniteSet(rows)
    BY <1>1, SizeAssumption, FS_Subset
<1>4. IsFiniteSet(Since(t))
    BY <1>1, <1>3, FS_Subset
<1>5. IsFiniteSet(Guesses(t)) /\ Cardinality(Guesses(t)) <= Cardinality(Since(t))
    BY <1>1, <1>4, FS_Subset
<1>6. IsFiniteSet(Admitted) /\ Cardinality(Admitted) <= Cardinality(Request)
    BY <1>2, SizeAssumption, FS_Subset
<1> QED BY <1>3, <1>4, <1>5, <1>6, SizeAssumption, FS_CardinalityType

(* The invariant holds before the first login.                             *)
LEMMA ThrottleInitial == ThrottleInit => ThrottleInv
<1> SUFFICES ASSUME ThrottleInit PROVE ThrottleInv
    OBVIOUS
<1>1. ThrottleTypeOK
    BY LimitAssumption DEF ThrottleInit, ThrottleTypeOK, Reason
<1>2. Guesses(now) = {} /\ Admitted = {}
    BY DEF ThrottleInit, Guesses, Since, Admitted
<1>3. GuessesBounded
    BY <1>1, <1>2, Finite, FS_EmptySet, LimitAssumption DEF GuessesBounded
<1> QED BY <1>1, <1>3 DEF ThrottleInit, ThrottleInv

(* A check lets a login through only below the limit.                      *)
LEMMA LoginBounded ==
    ASSUME ThrottleInv, NEW q \in Request, Login(q)
    PROVE  ThrottleInv'
<1>1. ThrottleTypeOK'
    BY DEF ThrottleInv, ThrottleTypeOK, Login
<1>2. Guesses(now)' = Guesses(now)
    BY DEF Login, Guesses, Since
<1>3. CASE IsBlocked(now)
  <2>1. Admitted' = Admitted
      BY <1>3 DEF Login, Admitted, ThrottleInv, ThrottleTypeOK
  <2> QED BY <1>1, <1>2, <2>1 DEF ThrottleInv, GuessesBounded, Login
<1>4. CASE ~IsBlocked(now)
  <2>1. Cardinality(Since(now)) < LIMIT
      BY <1>4, Finite, LimitAssumption DEF IsBlocked, ThrottleInv
  <2>2. Cardinality(Guesses(now)) <= LIMIT - 1
      BY <2>1, Finite, LimitAssumption DEF ThrottleInv
  <2>3. Admitted' \subseteq Request
      BY DEF Admitted
  <2>4. Cardinality(Admitted') \in Nat /\ Cardinality(Admitted') <= Cardinality(Request)
      BY <2>3, SizeAssumption, FS_Subset, FS_CardinalityType
  <2>5. GuessesBounded'
      BY <1>2, <2>2, <2>4, Finite, LimitAssumption DEF ThrottleInv, GuessesBounded
  <2> QED BY <1>1, <2>5 DEF ThrottleInv, Login
<1> QED BY <1>3, <1>4

(* A rejected login leaves the slot and becomes a row: the sum is kept.    *)
LEMMA RejectBounded ==
    ASSUME ThrottleInv, NEW q \in Request, Reject(q)
    PROVE  ThrottleInv'
<1>1. PICK a \in Attempt \ rows :
          /\ rows' = rows \cup {a}
          /\ log' = [log EXCEPT ![a] = [at |-> now, reason |-> "INVALID_CREDENTIALS"]]
    BY DEF Reject, RecordFailure
<1>2. task' = [task EXCEPT ![q] = "idle"] /\ now' = now /\ task[q] = "admitted"
    BY DEF Reject, RecordFailure
<1>3. ThrottleTypeOK'
    BY <1>1, <1>2 DEF ThrottleInv, ThrottleTypeOK, Reason
<1>4. Guesses(now)' = Guesses(now) \cup {a} /\ a \notin Guesses(now)
    BY <1>1, <1>2, LimitAssumption DEF ThrottleInv, ThrottleTypeOK, Guesses, Since
<1>5. Admitted' = Admitted \ {q} /\ q \in Admitted
    BY <1>2 DEF ThrottleInv, ThrottleTypeOK, Admitted
<1>6. Cardinality(Guesses(now)') = Cardinality(Guesses(now)) + 1
    BY <1>4, Finite, FS_AddElement DEF ThrottleInv
<1>7. Cardinality(Admitted') = Cardinality(Admitted) - 1
    BY <1>5, Finite, FS_RemoveElement DEF ThrottleInv
<1>8. GuessesBounded'
    BY <1>6, <1>7, Finite DEF ThrottleInv, GuessesBounded
<1>9. \A b \in rows' : log'[b].at <= now'
    BY <1>1, <1>2 DEF ThrottleInv, ThrottleTypeOK
<1> QED BY <1>3, <1>8, <1>9 DEF ThrottleInv

(* A refusal's row is no guess.                                            *)
LEMMA RefuseBounded ==
    ASSUME ThrottleInv, NEW q \in Request, Refuse(q)
    PROVE  ThrottleInv'
<1>1. PICK a \in Attempt \ rows :
          /\ rows' = rows \cup {a}
          /\ log' = [log EXCEPT ![a] = [at |-> now, reason |-> "IP_BLOCKED"]]
    BY DEF Refuse, RecordFailure
<1>2. task' = [task EXCEPT ![q] = "idle"] /\ now' = now /\ task[q] = "blocked"
    BY DEF Refuse, RecordFailure
<1>3. ThrottleTypeOK'
    BY <1>1, <1>2 DEF ThrottleInv, ThrottleTypeOK, Reason
<1>4. Guesses(now)' = Guesses(now) /\ Admitted' = Admitted
    BY <1>1, <1>2 DEF ThrottleInv, ThrottleTypeOK, Guesses, Since, Admitted
<1>5. \A b \in rows' : log'[b].at <= now'
    BY <1>1, <1>2 DEF ThrottleInv, ThrottleTypeOK
<1> QED BY <1>3, <1>4, <1>5 DEF ThrottleInv, GuessesBounded

(* Rows only leave the window as the clock moves.                          *)
LEMMA TickBounded ==
    ASSUME ThrottleInv, Tick
    PROVE  ThrottleInv'
<1>1. ThrottleTypeOK' /\ \A b \in rows' : log'[b].at <= now'
    BY LimitAssumption DEF ThrottleInv, ThrottleTypeOK, Tick
<1>2. Guesses(now)' \subseteq Guesses(now) /\ Admitted' = Admitted
    BY LimitAssumption DEF ThrottleInv, ThrottleTypeOK, Tick, Guesses, Since, Admitted
<1>3. Cardinality(Guesses(now)') <= Cardinality(Guesses(now)) /\ Cardinality(Guesses(now)') \in Nat
    BY <1>2, Finite, FS_Subset, FS_CardinalityType DEF ThrottleInv
<1> QED BY <1>1, <1>2, <1>3, Finite, LimitAssumption DEF ThrottleInv, GuessesBounded

(* A login that ends without a failure row leaves its slot.                *)
LEMMA LoginEndsBounded ==
    ASSUME ThrottleInv, NEW q \in Request, LoginEnds(q)
    PROVE  ThrottleInv'
<1>1. ThrottleTypeOK' /\ \A b \in rows' : log'[b].at <= now'
    BY DEF ThrottleInv, ThrottleTypeOK, LoginEnds
<1>2. Guesses(now)' = Guesses(now) /\ Admitted' \subseteq Admitted
    BY DEF ThrottleInv, ThrottleTypeOK, LoginEnds, Guesses, Since, Admitted
<1>3. Cardinality(Admitted') <= Cardinality(Admitted) /\ Cardinality(Admitted') \in Nat
    BY <1>2, Finite, FS_Subset, FS_CardinalityType DEF ThrottleInv
<1> QED BY <1>1, <1>2, <1>3, Finite, LimitAssumption DEF ThrottleInv, GuessesBounded

(* Every step keeps the invariant.                                         *)
LEMMA ThrottleStepKeeps == ThrottleInv /\ [ThrottleNext]_throttleVars => ThrottleInv'
<1> SUFFICES ASSUME ThrottleInv, [ThrottleNext]_throttleVars PROVE ThrottleInv'
    OBVIOUS
<1>1. CASE \E q \in Request : Login(q) \/ Refuse(q) \/ Reject(q) \/ LoginEnds(q)
    BY <1>1, LoginBounded, RefuseBounded, RejectBounded, LoginEndsBounded
<1>2. CASE Tick
    BY <1>2, TickBounded
<1>3. CASE UNCHANGED throttleVars
    BY <1>3 DEF throttleVars, ThrottleInv, ThrottleTypeOK, GuessesBounded, Guesses, Since, Admitted
<1> QED BY <1>1, <1>2, <1>3 DEF ThrottleNext

(* The inductive invariant: the bound on wrong logins and those still to   *)
(* be counted (getRejection, recordAttempt), and no row ahead of the clock.*)
THEOREM ThrottleInvariance == ThrottleSpec => []ThrottleInv
<1> QED BY ThrottleInitial, ThrottleStepKeeps, PTL DEF ThrottleSpec

(* However the logins of an address overlap, the wrong ones of a window    *)
(* pass LIMIT - 1 by the number of slots at most; with one slot the limit  *)
(* is exact.                                                               *)
THEOREM GuessesAreBounded == ThrottleSpec => []GuessesBounded
<1>1. ThrottleInv => GuessesBounded
    BY DEF ThrottleInv
<1> QED BY <1>1, ThrottleInvariance, PTL
================================================================================
