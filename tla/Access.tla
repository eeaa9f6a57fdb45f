-------------------------------- MODULE Access --------------------------------
(***************************************************************************)
(* What a session may do and what its pages offer: the claims that a login *)
(* puts into the tokens and every rotation hands on, the user that the     *)
(* page shows (from the login, or from /auth/me when the page is loaded),  *)
(* and the row, which others change meanwhile.  Guards and services look   *)
(* at the claims only, pages at the shown user only.                       *)
(***************************************************************************)
EXTENDS Users

CONSTANT Session    \* browsers; a session is what a login in one starts

VARIABLE sess

vars == <<row, regions, granted, job, sess>>

(* login: the row is read and the password right; rotating: the refresh    *)
(* token is revoked and the next not yet issued; ended: no refresh token   *)
(* is left, the access token may still be valid.                           *)
SessionState == {"out", "login", "live", "rotating", "ended"}

SessionRec == [st: SessionState, id: User \cup {None},
               claims: Profile \cup {None},
               shown: Profile \cup {None},
               late: BOOLEAN]   \* history: the row has changed since login read it

Out == [st |-> "out", id |-> None, claims |-> None, shown |-> None, late |-> FALSE]

TypeOK == UsersTypeOK /\ sess \in [Session -> SessionRec]

Init == UsersInit /\ sess = [s \in Session |-> Out]

------------------------------------------------------------------------------
(* Requests, by what the API asks of their sender.                         *)
AdminWork == {"users", "regions", "devices", "image"}
RegionWork == {"region", "device list", "relay", "schedules"}
Op == [kind: AdminWork \cup RegionWork, region: Region]

(* RolesGuard, on the routes with @Roles('admin').                          *)
RoleAllows(claims, op) == op.kind \in AdminWork => claims.role = "admin"

(* The region check of RegionsService, DevicesService and SchedulesService. *)
RegionAllows(claims, op) ==
    op.kind \in RegionWork => claims.role = "admin" \/ claims.region = op.region

Admits(claims, op) == RoleAllows(claims, op) /\ RegionAllows(claims, op)

(* The permission matrix of src/README.md, for the user's row.             *)
Entitled(profile, op) ==
    \/ profile.role = "admin"
    \/ op.kind \in RegionWork /\ profile = [role |-> "user", region |-> op.region]

(* AppLayout's sidebar, and its tab bar on a phone.                        *)
Menu(shown) ==
    {"dashboard", "devices"}
        \cup IF shown.role = "admin" THEN {"regions", "users"} ELSE {}

Tabs(shown) == Menu(shown)

(* LoginPage sends everybody to /regions.                                  *)
Landing == "regions"

(* Mutant of AdminRoute: lets everybody through.                           *)
NoAdminRoute(path, shown) == path

(* AdminRoute sends others to /regions, which it guards as well: they see  *)
(* nothing.                                                                *)
AdminRoute(path, shown) == IF shown.role = "admin" THEN path ELSE "nothing"

(* The page that a path leads to.                                          *)
Rendered(path, shown) ==
    IF path \in {"regions", "users"} THEN AdminRoute(path, shown) ELSE path

(* The regions whose devices a page shows: all, the user's own, or the     *)
(* message that there is none.                                             *)
Listed(shown) ==
    IF shown.role = "admin" THEN regions
    ELSE IF shown.region = None THEN {} ELSE {shown.region}

(* What a page asks, or has buttons for; a card links to the schedules of  *)
(* its device, and an admin's to editing it.                               *)
On(kinds, rs) == [kind: kinds, region: rs]

DashboardAsks(shown) == On({"region", "device list"}, Listed(shown))

DevicesAsks(shown) ==
    On(RegionWork \cup IF shown.role = "admin" THEN {"devices"} ELSE {}, Listed(shown))

RegionsAsks == On({"regions", "image", "region"}, regions)

Asks(shown) == [dashboard |-> DashboardAsks(shown), devices |-> DevicesAsks(shown),
                regions |-> RegionsAsks, users |-> On({"users"}, regions),
                nothing |-> {}]

Offered(shown) ==
    UNION {Asks(shown)[Rendered(path, shown)] :
              path \in Menu(shown) \cup Tabs(shown) \cup {Landing}}

------------------------------------------------------------------------------
Become(s, st, shown) ==
    /\ sess' = [sess EXCEPT ![s] = [st |-> st, id |-> @.id, claims |-> @.claims,
                                   shown |-> shown, late |-> @.late]]
    /\ UNCHANGED uvars

(* AuthService.login, to the end of its read.                              *)
LoginRead(s, u) ==
    /\ sess[s].st = "out"
    /\ Registered(u)
    /\ sess' = [sess EXCEPT ![s] = [st |-> "login", id |-> u, claims |-> row[u],
                                   shown |-> None, late |-> FALSE]]
    /\ UNCHANGED uvars

(* issueTokenPair: the insert needs the user's row.  The answer holds the  *)
(* user as it was read, and setAuth shows that.                            *)
LoginIssue(s) ==
    /\ sess[s].st = "login"
    /\ Registered(sess[s].id)
    /\ Become(s, "live", sess[s].claims)

(* rotate revokes the token, then issues the next from the payload of the  *)
(* old: the row is not read again.                                         *)
RotateRevoke(s) == sess[s].st = "live" /\ Become(s, "rotating", sess[s].shown)

RotateIssue(s) ==
    /\ sess[s].st = "rotating"
    /\ Registered(sess[s].id)
    /\ Become(s, "live", sess[s].shown)

(* The page is loaded: after a refresh, /auth/me answers with the row.     *)
Restore(s) ==
    /\ sess[s].st = "live"
    /\ Registered(sess[s].id)
    /\ Become(s, "live", row[sess[s].id])

(* A rotation ends in an error: the access token is left.                  *)
RotateFail(s) == sess[s].st = "rotating" /\ Become(s, "ended", sess[s].shown)

(* Logout, expiry, a failed login, or the tab is closed.                   *)
Leave(s) ==
    /\ sess[s].st # "out"
    /\ sess' = [sess EXCEPT ![s] = Out]
    /\ UNCHANGED uvars

(* Mutant of Cascade: the refresh tokens outlive the user's row.           *)
NoCascade(st, u) == st

(* Deleting a user's row deletes the refresh tokens; what is between two   *)
(* calls goes on.                                                          *)
Cascade(st, u) == IF st = "live" /\ row'[u] = None THEN "ended" ELSE st

(* The row of a session's user changes.                                    *)
Changed(rec) == rec.st # "out" /\ row'[rec.id] # row[rec.id]

UserChange ==
    /\ UsersNext
    /\ sess' = [s \in Session |->
                   IF Changed(sess[s])
                   THEN [sess[s] EXCEPT !.late = TRUE, !.st = Cascade(@, sess[s].id)]
                   ELSE sess[s]]

SessionStep(s) ==
    \/ \E u \in User : LoginRead(s, u)
    \/ LoginIssue(s) \/ RotateRevoke(s) \/ RotateIssue(s) \/ RotateFail(s)
    \/ Restore(s) \/ Leave(s)

Next == UserChange \/ \E s \in Session : SessionStep(s)

Spec == Init /\ [][Next]_vars

------------------------------------------------------------------------------
(* Claims and the shown user are those of the row, until it changes; what  *)
(* is "live" has a row even then.  Tokens with an admin's claims are only  *)
(* out for ids that were an admin's.                                       *)
Follows(rec) ==
    /\ rec.id \in User /\ rec.claims \in Profile
    /\ rec.st # "login" => rec.shown \in Profile
    /\ rec.claims.role = "admin" => rec.id \in granted
    /\ rec.st = "live" => Registered(rec.id)
    /\ ~rec.late => /\ row[rec.id] = rec.claims
                    /\ rec.st # "login" => rec.shown = rec.claims

SessionsFollow == \A s \in Session : sess[s].st # "out" => Follows(sess[s])

IInv == TypeOK /\ JobsRegular /\ Admins \subseteq granted /\ SessionsFollow

(* A session that can refresh has a user.  Until the user's row changes,   *)
(* the claims it goes by entitle it to just what the permission matrix     *)
(* gives that row, and its pages offer nothing that the API would refuse,  *)
(* through rotations and page loads, and whatever is in flight.            *)
InStep ==
    \A s \in Session : sess[s].st = "live" =>
        /\ Registered(sess[s].id)
        /\ ~sess[s].late =>
              /\ \A op \in Op : Admits(sess[s].claims, op) <=> Entitled(row[sess[s].id], op)
              /\ \A op \in Offered(sess[s].shown) : Admits(sess[s].claims, op)
==============================================================================
