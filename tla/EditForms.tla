------------------------------- MODULE EditForms -------------------------------
(***************************************************************************)
(* The pages that edit users, devices, schedules and regions: the list a   *)
(* page shows, its modal form and its question before a deletion, the      *)
(* calls they make, and the rows on the server, which others change too.   *)
(* A form is closed by its user at any time, also while its call is        *)
(* pending; the call goes on, and what its end does to the modal, it does  *)
(* to the form that is open then.                                          *)
(***************************************************************************)
EXTENDS Integers

CONSTANTS Page,      \* the kinds of page looked at
          Row,       \* ids
          Value,     \* of a field
          None,
          Keep,      \* a field that a request does not name
          MaxCalls,  \* bound: submits and confirmed deletions
          MaxOthers  \* bound: changes by others

ASSUME PageAssumption == Page \subseteq {"users", "devices", "schedules", "regions"}
ASSUME BoundsAssumption == MaxCalls \in Nat /\ MaxOthers \in Nat

(* Neither nothing nor a field left out is an id, or anything in a field.  *)
ASSUME NoneAssumption ==
    /\ None \notin Row \cup Value \cup {"user", "admin", "named", "file", Keep}
    /\ Keep \notin Value \cup {"user", "admin", "named", "file"}

VARIABLES page, row, list, fetch, form, ask, call, missed, calls, others

vars == <<page, row, list, fetch, form, ask, call, missed, calls, others>>

Field == {"name", "rest"}

(* The two fields of a row that matter: a user's role and region, a        *)
(* schedule's name, which it may lack, and times, a region's name and      *)
(* image; of a device any two.                                             *)
Names == CASE page = "users" -> {"user", "admin"}
           [] page = "schedules" -> {None, "named"}
           [] OTHER -> Value

Rests == IF page = "regions" THEN {"file"} ELSE Value

AnyName == {"user", "admin", None, "named"} \cup Value
AnyRest == {None, "file"} \cup Value
Record == [name: AnyName, rest: AnyRest]

Storable(rec) ==
    /\ rec.name \in Names
    /\ rec.rest \in Rests \cup IF page \in {"users", "regions"} THEN {None} ELSE {}
    /\ page = "users" /\ rec.name = "admin" => rec.rest = None

Storables == {rec \in [name: Names, rest: Rests \cup {None}] : Storable(rec)}

Slot == {"create", "edit", "delete"}

(* sent: with the server; done, refused: answered or lost; listing: its    *)
(* onSuccess awaits the refetch; listed: it no longer does.                *)
CallState == {"idle", "sent", "done", "refused", "listing", "listed",
              "image sent", "image done"}

CallRec == [st: CallState,
            id: Row \cup {None},
            body: [name: AnyName \cup {Keep}, rest: AnyRest \cup {Keep}],
            took: Record \cup {None}]      \* history: the row as it left it

NoBody == [f \in Field |-> Keep]
NoCall == [st |-> "idle", id |-> None, body |-> NoBody, took |-> None]

FormRec == [mode: {"closed", "create", "edit"}, id: Row \cup {None},
            seen: Record, now: Record,
            saving: BOOLEAN,               \* history: the pending call is its own
            made: Row \cup AnyName]  \* history: the key of the row it made

Blank == [f \in Field |-> None]
Closed == [mode |-> "closed", id |-> None, seen |-> Blank, now |-> Blank,
           saving |-> FALSE, made |-> None]

NoRows == [r \in Row |-> None]

Init ==
    /\ page \in Page
    /\ \E r \in Row, rec \in Storables : row = [NoRows EXCEPT ![r] = rec]
    /\ list = None
    /\ fetch = [st |-> "asked", rows |-> NoRows]
    /\ form = Closed
    /\ ask = None
    /\ call = [s \in Slot |-> NoCall]
    /\ missed = FALSE
    /\ calls = 0
    /\ others = 0

------------------------------------------------------------------------------
Busy(s) == call[s].st # "idle"

(* Bound: when the calls are spent and answered, nothing more happens.      *)
More == calls < MaxCalls
Ongoing == More \/ \E s \in Slot : Busy(s)

(* Creating and editing a region are two modals, elsewhere they share one. *)
SameModal(s) == IF page = "regions" THEN {s} ELSE {"create", "edit"}

Loading(mode) == \E s \in SameModal(mode) : Busy(s)

(* The rows that have their buttons: none before the list has come, which  *)
(* a new row need not wait for.  A failed fetch leaves the list, but two of *)
(* the pages then hide it.                                                 *)
Listed == {r \in Row : list # None /\ list[r] # None}
UserItems == IF fetch.st = "failed" THEN {} ELSE Listed
RegionItems == IF fetch.st = "failed" THEN {} ELSE Listed
DeviceItems == Listed
ScheduleItems == Listed
Items == [users |-> UserItems, devices |-> DeviceItems,
          schedules |-> ScheduleItems, regions |-> RegionItems][page]

(* What the modal's effect puts into the form, of None for a new row.      *)
UserValues(rec) == IF rec = None THEN [name |-> "user", rest |-> None] ELSE rec
DeviceValues(rec) == IF rec = None THEN Blank ELSE rec
ScheduleValues(rec) == IF rec = None THEN Blank ELSE rec
RegionValues(rec) == IF rec = None THEN Blank ELSE [rec EXCEPT !.rest = None]

Values(rec) ==
    CASE page = "users" -> UserValues(rec) [] page = "devices" -> DeviceValues(rec)
      [] page = "schedules" -> ScheduleValues(rec) [] page = "regions" -> RegionValues(rec)

Opened(mode, r, rec) ==
    [Closed EXCEPT !.mode = mode, !.id = r, !.seen = Values(rec), !.now = Values(rec)]

OpenCreate ==
    /\ form.mode = "closed" /\ ask = None /\ More
    /\ form' = Opened("create", None, None)
    /\ UNCHANGED <<page, row, list, fetch, ask, call, missed, calls, others>>

OpenEdit(r) ==
    /\ form.mode = "closed" /\ ask = None /\ More
    /\ r \in Items
    /\ form' = Opened("edit", r, list[r])
    /\ UNCHANGED <<page, row, list, fetch, ask, call, missed, calls, others>>

(* The inputs of an open form that are enabled: none while it is saved, but *)
(* those of a schedule.  An admin has no region to choose.                 *)
Unless(loading, inputs) == IF loading THEN {} ELSE inputs
UserInputs ==
    Unless(Loading(form.mode), IF form.now.name = "admin" THEN {"name"} ELSE Field)
ScheduleInputs == Field
RegionInputs == Unless(Loading(form.mode), Field)

(* Mutant of DeviceInputs: they stay enabled.                              *)
AllInputs == Field

DeviceInputs == Unless(Loading(form.mode), Field)
Inputs == [users |-> UserInputs, devices |-> DeviceInputs,
           schedules |-> ScheduleInputs, regions |-> RegionInputs][page]

(* A new admin loses the region that was picked.                           *)
Typed(now, f, v) ==
    IF page = "users" /\ f = "name" /\ v = "admin"
    THEN [name |-> v, rest |-> None]
    ELSE [now EXCEPT ![f] = v]

Type(f, v) ==
    /\ form.mode # "closed" /\ Ongoing
    /\ f \in Inputs
    /\ form' = [form EXCEPT !.now = Typed(@, f, v)]
    /\ UNCHANGED <<page, row, list, fetch, ask, call, missed, calls, others>>

(* Escape, the backdrop and the X close a form that is being saved, too.   *)
Dismiss ==
    /\ form.mode # "closed"
    /\ form' = Closed
    /\ UNCHANGED <<page, row, list, fetch, ask, call, missed, calls, others>>

------------------------------------------------------------------------------
(* canSubmit, or the checks at the start of handleSubmit.                  *)
UserComplete(now) == now.name = "user" => now.rest # None
DeviceComplete(now) == now.name # None /\ now.rest # None
ScheduleComplete(now) == now.rest # None
RegionComplete(now) == now.name # None

Complete(now) == [users |-> UserComplete(now), devices |-> DeviceComplete(now),
                  schedules |-> ScheduleComplete(now), regions |-> RegionComplete(now)][page]

Edited(f) == {x \in Field : f.now[x] # f.seen[x]}
Filled(f) == {x \in Field : f.now[x] # None}

(* The fields that a form sends: of a new row those filled in, of a user   *)
(* or a device those edited, all of a schedule but an empty name, the name *)
(* of a region and the file that was picked.                               *)
UserSends(f) == IF f.mode = "create" THEN Filled(f) ELSE Edited(f)

(* Mutant of DeviceSends: all that the form shows.                         *)
SendsAll(f) == Filled(f)

DeviceSends(f) == IF f.mode = "create" THEN Filled(f) ELSE Edited(f)
ScheduleSends(f) == Filled(f)
RegionSends(f) == Filled(f)

Sent(f) == [users |-> UserSends(f), devices |-> DeviceSends(f),
            schedules |-> ScheduleSends(f), regions |-> RegionSends(f)][page]

Body(f) == [x \in Field |-> IF x \in Sent(f) THEN f.now[x] ELSE Keep]

(* r is the id of a new user, which the form asks for.                     *)
Submit(r) ==
    /\ form.mode # "closed"
    /\ ~Loading(form.mode)
    /\ Complete(form.now)
    /\ r # None <=> page = "users" /\ form.mode = "create"
    /\ More /\ calls' = calls + 1
    /\ call' = [call EXCEPT ![form.mode] =
          [st |-> "sent", id |-> IF r = None THEN form.id ELSE r, body |-> Body(form),
           took |-> None]]
    /\ form' = [form EXCEPT !.saving = TRUE]
    /\ UNCHANGED <<page, row, list, fetch, ask, missed, others>>

(* The question before a deletion.  Devices and schedules ask with the     *)
(* browser's own, which nothing can come between.  (Bound: one deletion at *)
(* a time on those pages, too.)                                            *)
Asks == page \in {"users", "regions"}

Ask(r) ==
    /\ Asks /\ form.mode = "closed" /\ ask = None /\ More
    /\ r \in Items
    /\ ask' = r
    /\ UNCHANGED <<page, row, list, fetch, form, call, missed, calls, others>>

Withdraw ==
    /\ ask # None
    /\ ask' = None
    /\ UNCHANGED <<page, row, list, fetch, form, call, missed, calls, others>>

Confirm(r) ==
    /\ IF Asks THEN ask = r ELSE form.mode = "closed" /\ r \in Items
    /\ ~Busy("delete")
    /\ More /\ calls' = calls + 1
    /\ call' = [call EXCEPT !["delete"] = [NoCall EXCEPT !.st = "sent", !.id = r]]
    /\ UNCHANGED <<page, row, list, fetch, form, ask, missed, others>>

------------------------------------------------------------------------------
(* The server.  Its handlers are one step here.                            *)
Patch(rec, body, fields) ==
    [f \in Field |-> IF f \in fields /\ body[f] # Keep THEN body[f] ELSE rec[f]]

Normal(rec) ==
    IF page = "users" /\ rec.name = "admin" THEN [rec EXCEPT !.rest = None] ELSE rec

(* Mutant of Free: the name of a region may be taken twice.                *)
AlwaysFree(r, rec) == TRUE

Free(r, rec) ==
    page = "regions" => rec.name \notin {row[q].name : q \in {p \in Row \ {r} : row[p] # None}}

Key(r, rec) ==
    CASE page = "users" -> r [] page = "regions" -> rec.name [] OTHER -> None

(* An image goes by a request of its own.                                  *)
FirstPart == IF page = "regions" THEN {"name"} ELSE Field

Store(s, r, rec) ==
    /\ Storable(rec) /\ Free(r, rec)
    /\ row' = [row EXCEPT ![r] = rec]
    /\ call' = [call EXCEPT ![s].st = "done", ![s].id = r, ![s].took = rec]

Create(r) ==
    LET c == call["create"]
        rec == Normal(Patch(Blank, c.body, FirstPart))
    IN  /\ c.st = "sent"
        /\ c.id \in {None, r}
        /\ row[r] = None
        /\ Store("create", r, rec)
        /\ form' = IF form.saving /\ form.mode = "create"
                   THEN [form EXCEPT !.made = Key(r, rec)] ELSE form
        /\ UNCHANGED <<page, list, fetch, ask, missed, calls, others>>

Update ==
    LET c == call["edit"]
    IN  /\ c.st = "sent"
        /\ row[c.id] # None
        /\ Store("edit", c.id, Normal(Patch(row[c.id], c.body, FirstPart)))
        /\ UNCHANGED <<page, list, fetch, form, ask, missed, calls, others>>

UploadImage(s) ==
    LET c == call[s]
    IN  /\ c.st = "image sent"
        /\ row[c.id] # None
        /\ row' = [row EXCEPT ![c.id].rest = c.body.rest]
        /\ call' = [call EXCEPT ![s].st = "image done", ![s].took.rest = c.body.rest]
        /\ missed' = TRUE
        /\ UNCHANGED <<page, list, fetch, form, ask, calls, others>>

Remove ==
    LET c == call["delete"]
    IN  /\ c.st = "sent"
        /\ row[c.id] # None
        /\ row' = [row EXCEPT ![c.id] = None]
        /\ call' = [call EXCEPT !["delete"].st = "done"]
        /\ UNCHANGED <<page, list, fetch, form, ask, missed, calls, others>>

(* The request is refused, or lost on its way.                             *)
Refuse(s) ==
    /\ call[s].st \in {"sent", "image sent"}
    /\ call' = [call EXCEPT ![s].st = "refused"]
    /\ UNCHANGED <<page, row, list, fetch, form, ask, missed, calls, others>>

LoseAnswer(s) ==
    /\ call[s].st \in {"done", "image done"}
    /\ call' = [call EXCEPT ![s].st = "refused"]
    /\ missed' = TRUE
    /\ UNCHANGED <<page, row, list, fetch, form, ask, calls, others>>

(* Another admin changes, adds or removes a row.                           *)
ChangeByOther(r, rec) ==
    /\ Ongoing /\ others < MaxOthers /\ others' = others + 1
    /\ rec # row[r]
    /\ rec # None => Free(r, rec)
    /\ row' = [row EXCEPT ![r] = rec]
    /\ missed' = TRUE
    /\ UNCHANGED <<page, list, fetch, form, ask, call, calls>>

------------------------------------------------------------------------------
(* The page's query.  Who waits for a refetch stops to when it ends,       *)
(* however it does.                                                        *)
Woken(cs) == [s \in Slot |-> IF cs[s].st = "listing" THEN [cs[s] EXCEPT !.st = "listed"]
                             ELSE cs[s]]

(* The tab gets the focus, or the poll of the devices is due.              *)
Refetch ==
    /\ fetch.st \in {"idle", "failed"} /\ Ongoing
    /\ fetch' = [fetch EXCEPT !.st = "asked"]
    /\ UNCHANGED <<page, row, list, form, ask, call, missed, calls, others>>

ReadRows ==
    /\ fetch.st = "asked"
    /\ fetch' = [st |-> "read", rows |-> row]
    /\ UNCHANGED <<page, row, list, form, ask, call, missed, calls, others>>

RowsArrive ==
    /\ fetch.st = "read"
    /\ list' = fetch.rows
    /\ fetch' = [st |-> "idle", rows |-> NoRows]
    /\ call' = Woken(call)
    /\ UNCHANGED <<page, row, form, ask, missed, calls, others>>

FetchFails ==
    /\ fetch.st \in {"asked", "read"}
    /\ fetch' = [st |-> "failed", rows |-> NoRows]
    /\ call' = Woken(call)
    /\ UNCHANGED <<page, row, list, form, ask, missed, calls, others>>

(* The first fetch of the page is under way.                               *)
FirstLoad == list = None /\ fetch.st \in {"asked", "read"}

(* Mutant of Invalidated: leaves a fetch alone that is under way.          *)
NotCancelled(f) == [f EXCEPT !.st = IF @ = "read" THEN "read" ELSE "asked"]

(* invalidateQueries: a fetch that is under way is cancelled and a new one *)
(* begun.  Only the first is not, for want of a list; it is waited for.    *)
Invalidated(f) == IF FirstLoad THEN f ELSE [st |-> "asked", rows |-> NoRows]

(* Who waits for a fetch that is cancelled waits no longer.                *)
Waiters == IF FirstLoad THEN call ELSE Woken(call)

(* The first fetch may have read the rows before the page's own call.      *)
Invalidate ==
    /\ fetch' = Invalidated(fetch)
    /\ missed' = (missed \/ (FirstLoad /\ fetch.st = "read" /\ fetch.rows # row))

------------------------------------------------------------------------------
(* onClose, or the page's setFormOpen(false) and setDeleteTarget(null).    *)
Closes(s) ==
    /\ form' = IF s # "delete" /\ form.mode \in SameModal(s) THEN Closed ELSE form
    /\ ask' = IF s = "delete" THEN None ELSE ask

(* onSuccess of a mutation, which it returns: it goes on when the list is  *)
(* there.                                                                  *)
Succeed(s) ==
    /\ call[s].st = "done"
    /\ ~(page = "devices" /\ s = "edit")
    /\ Invalidate
    /\ call' = [Waiters EXCEPT ![s].st = "listing"]
    /\ UNCHANGED <<page, row, list, form, ask, calls, others>>

(* After the update of a device: when its sync has been answered, and      *)
(* without waiting for the list.                                           *)
SucceedUnlisted ==
    /\ page = "devices" /\ call["edit"].st = "done"
    /\ Invalidate
    /\ call' = [Waiters EXCEPT !["edit"] = NoCall]
    /\ Closes("edit")
    /\ UNCHANGED <<page, row, list, calls, others>>

(* Mutant of HasImage: the file is uploaded for a new region only.         *)
HasNewImage(s) == page = "regions" /\ s = "create" /\ call[s].body["rest"] # Keep

HasImage(s) == page = "regions" /\ call[s].body["rest"] # Keep

SendImage(s) ==
    /\ call[s].st = "listed" /\ HasImage(s)
    /\ call' = [call EXCEPT ![s].st = "image sent"]
    /\ UNCHANGED <<page, row, list, fetch, form, ask, missed, calls, others>>

(* The upload invalidates the region's own query, which this page has not. *)
Finish(s) ==
    /\ \/ call[s].st = "listed" /\ ~HasImage(s)
       \/ call[s].st = "image done"
    /\ call' = [call EXCEPT ![s] = NoCall]
    /\ Closes(s)
    /\ UNCHANGED <<page, row, list, fetch, missed, calls, others>>

(* The catch of handleSubmit; nothing catches a refused deletion.          *)
Report(s) ==
    /\ call[s].st = "refused"
    /\ call' = [call EXCEPT ![s] = NoCall]
    /\ form' = IF s # "delete" /\ form.mode \in SameModal(s)
               THEN [form EXCEPT !.saving = FALSE] ELSE form
    /\ UNCHANGED <<page, row, list, fetch, ask, missed, calls, others>>

------------------------------------------------------------------------------
UserStep ==
    \/ OpenCreate \/ Dismiss \/ Withdraw
    \/ \E r \in Row : OpenEdit(r) \/ Ask(r) \/ Confirm(r)
    \/ \E r \in Row \cup {None} : Submit(r)
    \/ \E v \in Names : Type("name", v)
    \/ \E v \in Rests : Type("rest", v)

ServerStep ==
    \/ Update \/ Remove
    \/ \E r \in Row : Create(r)
    \/ \E r \in Row, rec \in Storables \cup {None} : ChangeByOther(r, rec)
    \/ \E s \in Slot : UploadImage(s) \/ Refuse(s) \/ LoseAnswer(s)

PageStep ==
    \/ Refetch \/ ReadRows \/ RowsArrive \/ FetchFails \/ SucceedUnlisted
    \/ \E s \in Slot : Succeed(s) \/ SendImage(s) \/ Finish(s) \/ Report(s)

Next == UserStep \/ ServerStep \/ PageStep

Spec == Init /\ [][Next]_vars

------------------------------------------------------------------------------
TypeOK ==
    /\ page \in Page
    /\ row \in [Row -> Record \cup {None}]
    /\ list \in [Row -> Record \cup {None}] \cup {None}
    /\ fetch \in [st: {"idle", "asked", "read", "failed"},
                  rows: [Row -> Record \cup {None}]]
    /\ form \in FormRec
    /\ ask \in Row \cup {None}
    /\ call \in [Slot -> CallRec]
    /\ missed \in BOOLEAN
    /\ calls \in 0..MaxCalls /\ others \in 0..MaxOthers

(* While a form waits for its own call, it shows what it has sent, in every *)
(* page but that of the schedules, whose inputs stay enabled.              *)
ShowsWhatItSent ==
    form.saving =>
        /\ form.mode # "closed" /\ Busy(form.mode)
        /\ page # "schedules" => call[form.mode].body = Body(form)

(* It saves the row it was opened for; and a region's form has neither the *)
(* image there was nor, when it is saved, an empty name.                   *)
SavesItsRow ==
    /\ form.mode = "edit" =>
           /\ form.id \in Row
           /\ form.saving => call["edit"].id = form.id
    /\ page = "regions" =>
           /\ form.mode # "closed" => form.seen.rest = None
           /\ form.saving => form.now.name # None

(* What a request that was carried out left in its row: all that it named, *)
(* but for the region of an admin and an image not there yet, and nothing  *)
(* beside it in a new row.  A deletion names nothing.                      *)
Carried == {"done", "listing", "listed", "image sent", "image done"}

Took(s) ==
    LET c == call[s]
    IN  c.st \in Carried =>
          /\ c.took \in Record
          /\ \A x \in Field :
                /\ c.body[x] # Keep => \/ c.took[x] = c.body[x]
                                       \/ page = "users" /\ x = "rest" /\ c.took.name = "admin"
                                       \/ page = "regions" /\ x = "rest" /\ c.st # "image done"
                /\ s = "create" /\ c.body[x] = Keep => c.took[x] = None

TookWhatWasSent ==
    /\ call["delete"].body = NoBody
    /\ \A s \in Slot : call[s].st \in {"image sent", "image done"} => HasImage(s)
    /\ \A s \in {"create", "edit"} : Took(s)

(* When nothing is being fetched and no answer is on its way, the list     *)
(* shows the rows as they are, in all that its own calls have done: only   *)
(* others' changes, an answer that was lost, an uploaded image, and what   *)
(* was done while the first list was on its way may be missed.             *)
Settled == ~missed /\ \A s \in Slot : call[s].st # "done"

ListFollows == fetch.st = "idle" /\ Settled => list = row

(* Nor does a list that is being fetched lack anything.                    *)
FetchFollows == fetch.st = "read" /\ Settled => fetch.rows = row

FormInv == TypeOK /\ ShowsWhatItSent /\ SavesItsRow /\ TookWhatWasSent
           /\ ListFollows /\ FetchFollows

(* A form that its own call closes showed what was stored, in all that its *)
(* user had changed.  Three things are dropped without a word: an emptied  *)
(* name of a schedule, what is typed into its form after the submit, and   *)
(* the region of a user whom somebody has made an admin meanwhile.         *)
Dropped(f, x, c) ==
    \/ page = "schedules" /\ (f.now[x] = None \/ c.body # Body(f))
    \/ page = "users" /\ x = "rest" /\ c.took.name = "admin"

SavedAsShown ==
    [][\A s \in {"create", "edit"} :
          form.mode = s /\ form.saving /\ call'[s] = NoCall /\ form' = Closed =>
              \A x \in Edited(form) :
                  call[s].took[x] = form.now[x] \/ Dropped(form, x, call[s])]_vars

(* Saving a user or a device leaves alone what its user did not change, so *)
(* that what somebody else has changed since the list was fetched stays,   *)
(* but for the region of a new admin.  A schedule is overwritten as a      *)
(* whole, and the name of a region by whoever changes its image.           *)
OthersEditsSurvive ==
    [][form.saving /\ form.mode = "edit" /\ row' # row
         /\ call["edit"].st # "done" /\ call'["edit"].st = "done" =>
          LET r == form.id
          IN  \A x \in Field :
                 \/ row'[r][x] = row[r][x]
                 \/ x \in Edited(form)
                 \/ page = "schedules"
                 \/ page = "regions" /\ x = "name"
                 \/ page = "users" /\ x = "rest" /\ row'[r].name = "admin"]_vars

(* A form that has made a user or a region and was not closed, since the   *)
(* answer was lost or the image refused, does not make another under the   *)
(* same id or name by being sent again.  A device or schedule has no such  *)
(* key: it is made twice.                                                  *)
NotMadeTwice ==
    [][form.saving /\ form.mode = "create"
         /\ call["create"].st = "sent" /\ call'["create"].st = "done" =>
          \/ page \notin {"users", "regions"}
          \/ form.made # Key(call'["create"].id, call'["create"].took)
          \/ \A r \in Row : row[r] # None => Key(r, row[r]) # form.made]_vars
=============================================================================
