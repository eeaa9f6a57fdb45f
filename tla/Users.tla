-------------------------------- MODULE Users --------------------------------
(***************************************************************************)
(* The user rows and UsersService.  An admin has no region: update and     *)
(* create see to it with the role they know of, which for update is the    *)
(* role it has read.  Nothing is locked between that read and the write.   *)
(* A deleted id may be registered again; a region's id never comes back.   *)
(***************************************************************************)
EXTENDS FiniteSets

CONSTANTS
    User,       \* login ids
    Region,     \* region ids
    Named,      \* bound: the regions that requests name
    Slot,       \* slots for concurrent HTTP handlers
    None,       \* no row, no region, no user
    Keep        \* a field that is not in the request body

ASSUME NamedAssumption == Named \subseteq Region
ASSUME ValueAssumption ==
    /\ None \notin User /\ None \notin Region /\ Keep \notin Region /\ Keep # None
    /\ Keep \notin {"admin", "user"}

VARIABLES
    row,        \* the profile in the row of an id
    regions,    \* regions that exist
    granted,    \* ids that have been an admin's: their tokens may say so still
    job         \* the handler in each slot

uvars == <<row, regions, granted, job>>

Role == {"admin", "user"}
Profile == [role: Role, region: Region \cup {None}]
ASSUME ProfileAssumption == None \notin Profile

(* What is in a PATCH, and what it sends to the database.  A password is   *)
(* hashed and stored with either and decides nothing.                      *)
Body == [role: Role \cup {Keep}, region: Region \cup {None, Keep}]

Job == [pc: {"idle", "update", "create", "remove"},
        id: User \cup {None}, by: User \cup {None},
        role: Role \cup {None},         \* update's effectiveRole
        data: Body \cup {None}]

Blank == [pc |-> "idle", id |-> None, by |-> None, role |-> None, data |-> None]

UsersTypeOK ==
    /\ row \in [User -> Profile \cup {None}]
    /\ regions \subseteq Region
    /\ granted \subseteq User
    /\ job \in [Slot -> Job]

(* The seeded admin.                                                       *)
UsersInit ==
    /\ \E root \in User :
           /\ row = [u \in User |-> IF u = root THEN [role |-> "admin", region |-> None]
                                    ELSE None]
           /\ granted = {root}
    /\ regions = Region
    /\ job = [q \in Slot |-> Blank]

Registered(u) == row[u] # None
Admins == {u \in User : Registered(u) /\ row[u].role = "admin"}

Idle(q) == job[q].pc = "idle"
Start(q, pc, u, by, role, data) ==
    job' = [job EXCEPT ![q] =
               [pc |-> pc, id |-> u, by |-> by, role |-> role, data |-> data]]
Finish(q) == job' = [job EXCEPT ![q] = Blank]

(* The foreign key of regionId.                                            *)
Refers(data) == data.region \in regions \cup {None, Keep}

Write(u, profile) ==
    /\ row' = [row EXCEPT ![u] = profile]
    /\ granted' = IF profile.role = "admin" THEN granted \cup {u} ELSE granted

------------------------------------------------------------------------------
Effective(body, role) == IF body.role = Keep THEN role ELSE body.role

(* Mutant of DataFor: looks at the role in the body only.                  *)
DataForBody(body, role) ==
    [role |-> body.role, region |-> IF body.role = "admin" THEN None ELSE body.region]

(* What update sends for a body, given the role in the row it has read: a  *)
(* new admin loses the region, an admin is not given one.                  *)
DataFor(body, role) ==
    [role |-> body.role,
     region |-> IF body.role = "admin" THEN None
                ELSE IF Effective(body, role) = "admin" THEN Keep ELSE body.region]

(* update, to the end of its read.                                         *)
Update(q, by, u, body) ==
    /\ Idle(q)
    /\ by \in granted
    /\ Registered(u)
    /\ Start(q, "update", u, by, Effective(body, row[u].role), DataFor(body, row[u].role))
    /\ UNCHANGED <<row, regions, granted>>

Patched(profile, data) ==
    [f \in {"role", "region"} |-> IF data[f] = Keep THEN profile[f] ELSE data[f]]

(* ... and its write, which names the id and looks at nothing else.        *)
WriteUpdate(q) ==
    /\ job[q].pc = "update"
    /\ Registered(job[q].id)
    /\ Refers(job[q].data)
    /\ Write(job[q].id, Patched(row[job[q].id], job[q].data))
    /\ Finish(q)
    /\ UNCHANGED regions

(* create, which finds the id free.  The password is hashed before the     *)
(* insert, so that another registration may come in between.               *)
Create(q, by, u, profile) ==
    /\ Idle(q)
    /\ by \in granted
    /\ ~Registered(u)
    /\ Start(q, "create", u, by, None,
             [role |-> profile.role,
              region |-> IF profile.role = "admin" THEN None ELSE profile.region])
    /\ UNCHANGED <<row, regions, granted>>

WriteCreate(q) ==
    /\ job[q].pc = "create"
    /\ ~Registered(job[q].id)
    /\ Refers(job[q].data)
    /\ Write(job[q].id, job[q].data)
    /\ Finish(q)
    /\ UNCHANGED regions

(* Mutant of Remove: no SELF_DELETE.                                       *)
RemoveAnyone(q, by, u) ==
    /\ Idle(q)
    /\ by \in granted
    /\ Registered(u)
    /\ Start(q, "remove", u, by, None, None)
    /\ UNCHANGED <<row, regions, granted>>

(* remove: not oneself, and the row is there.                              *)
Remove(q, by, u) ==
    /\ Idle(q)
    /\ by \in granted \ {u}
    /\ Registered(u)
    /\ Start(q, "remove", u, by, None, None)
    /\ UNCHANGED <<row, regions, granted>>

WriteRemove(q) ==
    /\ job[q].pc = "remove"
    /\ Registered(job[q].id)
    /\ row' = [row EXCEPT ![job[q].id] = None]
    /\ Finish(q)
    /\ UNCHANGED <<regions, granted>>

(* The write fails (P2002, P2003, P2025, a database error), or the process *)
(* dies.                                                                   *)
Abort(q) ==
    /\ ~Idle(q)
    /\ Finish(q)
    /\ UNCHANGED <<row, regions, granted>>

(* RegionsService.remove, as the user rows see it: onDelete: SetNull.      *)
RemoveRegion(r) ==
    /\ r \in regions
    /\ regions' = regions \ {r}
    /\ row' = [u \in User |-> IF Registered(u) /\ row[u].region = r
                              THEN [row[u] EXCEPT !.region = None] ELSE row[u]]
    /\ UNCHANGED <<granted, job>>

------------------------------------------------------------------------------
AskedBody == {b \in Body : b.region \in Named \cup {None, Keep}}
AskedProfile == {p \in Profile : p.region \in Named \cup {None}}

UsersNext ==
    \/ \E q \in Slot, by, u \in User, b \in AskedBody : Update(q, by, u, b)
    \/ \E q \in Slot, by, u \in User, p \in AskedProfile : Create(q, by, u, p)
    \/ \E q \in Slot, by, u \in User : Remove(q, by, u)
    \/ \E q \in Slot : WriteUpdate(q) \/ WriteCreate(q) \/ WriteRemove(q) \/ Abort(q)
    \/ \E r \in Named : RemoveRegion(r)

UsersSpec == UsersInit /\ [][UsersNext]_uvars

------------------------------------------------------------------------------
(* Orders are given by who has been an admin.  What a handler is about to  *)
(* write makes no admin with a region, if the row still has the role that  *)
(* update has decided on.                                                  *)
JobsRegular ==
    \A q \in Slot :
        /\ job[q].pc # "idle" => job[q].id \in User /\ job[q].by \in granted
        /\ job[q].pc = "create" =>
              /\ job[q].data \in Profile
              /\ job[q].data.role = "admin" => job[q].data.region = None
        /\ job[q].pc = "update" =>
              /\ job[q].data \in Body /\ job[q].role \in Role
              /\ job[q].data.role \in {Keep, job[q].role}
              /\ job[q].data.role = "admin" => job[q].data.region = None
              /\ job[q].role = "admin" => job[q].data.region \in {None, Keep}
        /\ job[q].pc = "remove" => job[q].by # job[q].id

Regular(u) == u \in Admins => row[u].region = None

(* users.service.ts forces an admin's region to null.  An admin comes by a *)
(* region only by the write of an update that names no role and has read   *)
(* that the row is a user's: two PATCHes overlapped, or the id was         *)
(* registered anew under one.                                              *)
NoRegionForAdmins ==
    \A u \in User : Regular(u) /\ ~Regular(u)' =>
        \E q \in Slot :
            /\ WriteUpdate(q) /\ job[q].id = u
            /\ job[q].role = "user" /\ job[q].data.role = Keep
            /\ u \in Admins

RegionlessAdmins == [][NoRegionForAdmins]_uvars

(* Nobody but an admin can make one, so the last must not be lost.  What   *)
(* takes the last one away is a PATCH that asks for it, the last one's own *)
(* or a former admin's, or a removal by somebody who has been an admin and *)
(* is none any more, as when two remove each other.  No stale read and no  *)
(* cascade does, and nobody removes himself.                               *)
KeepsAnAdmin ==
    Admins # {} /\ Admins' = {} =>
        \E q \in Slot :
            /\ Admins = {job[q].id}
            /\ \/ WriteUpdate(q) /\ job[q].data.role = "user"
               \/ WriteRemove(q) /\ job[q].by \in granted \ Admins

AdminLeft == [][KeepsAnAdmin]_uvars
==============================================================================
