--------------------------- MODULE EditForms_proofs ---------------------------
(***************************************************************************)
(* Proofs about EditForms, for any rows and values and any number of       *)
(* calls, of the four pages alike.                                         *)
(***************************************************************************)
EXTENDS EditForms, TLAPS

USE PageAssumption, NoneAssumption, BoundsAssumption

------------------------------------------------------------------------------
(* What the fields of a page may hold, any field may.                      *)
LEMMA Fields == page \in Page => Names \subseteq AnyName /\ Rests \subseteq AnyRest
BY DEF Names, Rests, AnyName, AnyRest

(* What may be stored is a record.                                         *)
LEMMA StorableIsRecord ==
    ASSUME page \in Page, NEW n, NEW t, Storable([f \in Field |-> IF f = "name" THEN n ELSE t])
    PROVE  [f \in Field |-> IF f = "name" THEN n ELSE t] \in Record
BY Fields DEF Storable, Record, Field, AnyRest

(* A form is filled with a record, and that of a region with no image.     *)
LEMMA ValuesAreRecord ==
    ASSUME page \in Page, NEW rec \in Record \cup {None}
    PROVE  /\ Values(rec) \in Record
           /\ page = "regions" => Values(rec).rest = None
BY DEF Values, UserValues, DeviceValues, ScheduleValues, RegionValues, Blank, Record, Field,
       AnyName, AnyRest

(* Typing leaves a record.                                                 *)
LEMMA TypedIsRecord ==
    ASSUME page \in Page, NEW now \in Record, NEW f, NEW v,
           \/ f = "name" /\ v \in Names
           \/ f = "rest" /\ v \in Rests
    PROVE  Typed(now, f, v) \in Record
BY Fields DEF Typed, Record, AnyName, AnyRest

(* A request names fields with values that they may hold.                  *)
LEMMA BodyIsTyped ==
    ASSUME NEW f \in FormRec
    PROVE  Body(f) \in [name: AnyName \cup {Keep}, rest: AnyRest \cup {Keep}]
BY DEF Body, FormRec, Record, Field

(* A request leaves what it names in its row, and the rest alone; but an   *)
(* admin has no region.                                                    *)
LEMMA Patched ==
    ASSUME page \in Page, NEW old, NEW body, NEW fields \in SUBSET Field, NEW rec,
           rec = Normal(Patch(old, body, fields))
    PROVE  /\ \A x \in Field :
                 \/ rec[x] = IF x \in fields /\ body[x] # Keep THEN body[x] ELSE old[x]
                 \/ page = "users" /\ x = "rest" /\ rec.name = "admin" /\ rec.rest = None
           /\ Storable(rec) => rec \in Record
<1> DEFINE p == Patch(old, body, fields)
<1>1. p = [f \in Field |-> IF f = "name" THEN p["name"] ELSE p["rest"]]
    BY DEF Patch, Field
<1>2. CASE rec = p
    BY <1>1, <1>2, StorableIsRecord DEF Patch
<1>3. CASE page = "users" /\ p.name = "admin" /\ rec = [p EXCEPT !.rest = None]
    <2>1. rec = [f \in Field |-> IF f = "name" THEN "admin" ELSE None]
        BY <1>3 DEF Patch, Field
    <2>2. rec \in Record
        BY <2>1 DEF Record, Field, AnyName, AnyRest
    <2> QED BY <1>3, <2>1, <2>2 DEF Patch, Field
<1> QED BY <1>2, <1>3 DEF Normal

(* Only rows that the page has have buttons.                               *)
LEMMA ItemsAreListed == page \in Page => Items \subseteq Listed
<1> SUFFICES ASSUME page \in Page PROVE Items \subseteq Listed
    OBVIOUS
<1>1. Items \in {UserItems, DeviceItems, ScheduleItems, RegionItems}
    BY PageAssumption DEF Items
<1>2. UserItems \subseteq Listed /\ RegionItems \subseteq Listed
    BY DEF UserItems, RegionItems
<1> QED BY <1>1, <1>2 DEF DeviceItems, ScheduleItems

(* A form that is closed.                                                  *)
LEMMA ClosedIsForm == Closed \in FormRec
BY DEF Closed, FormRec, Blank, Record, Field, AnyName, AnyRest

(* A call that is over.                                                    *)
LEMMA NoCallIsCall == NoCall \in CallRec
BY DEF NoCall, NoBody, CallRec, CallState, Field

(* A call that goes on.                                                    *)
LEMMA CallGoesOn ==
    ASSUME NEW c \in CallRec, NEW st \in CallState
    PROVE  [c EXCEPT !.st = st] \in CallRec
BY DEF CallRec

(* One that has left a record in a row, which may be a new one.            *)
LEMMA CallLeaves ==
    ASSUME NEW c \in CallRec, NEW st \in CallState, NEW r \in Row \cup {None}, NEW rec \in Record
    PROVE  [c EXCEPT !.st = st, !.id = r, !.took = rec] \in CallRec
BY DEF CallRec

(* One that has changed the record that it left.                           *)
LEMMA CallUploads ==
    ASSUME NEW c \in CallRec, NEW st \in CallState, NEW rec \in Record
    PROVE  [c EXCEPT !.st = st, !.took = rec] \in CallRec
BY DEF CallRec

(* A call that is sent.                                                    *)
LEMMA CallSent ==
    ASSUME NEW r \in Row \cup {None},
           NEW body \in [name: AnyName \cup {Keep}, rest: AnyRest \cup {Keep}]
    PROVE  [st |-> "sent", id |-> r, body |-> body, took |-> None] \in CallRec
BY DEF CallRec, CallState

(* Who waits for the list no longer does; all else stays.                  *)
LEMMA WokenCalls ==
    ASSUME NEW cs \in [Slot -> CallRec]
    PROVE  Woken(cs) \in [Slot -> CallRec]
BY CallGoesOn DEF Woken, CallState

LEMMA WaitersTyped ==
    ASSUME call \in [Slot -> CallRec]
    PROVE  Waiters \in [Slot -> CallRec]
BY WokenCalls DEF Waiters

(* An invalidation keeps the types of the query.                           *)
LEMMA InvalidateTyped ==
    ASSUME TypeOK, Invalidate
    PROVE  /\ fetch' \in [st: {"idle", "asked", "read", "failed"},
                          rows: [Row -> Record \cup {None}]]
           /\ missed' \in BOOLEAN
<1>1. [st |-> "asked", rows |-> NoRows] \in [st: {"idle", "asked", "read", "failed"},
                                            rows: [Row -> Record \cup {None}]]
    BY DEF NoRows
<1> QED BY <1>1 DEF Invalidate, Invalidated, TypeOK

------------------------------------------------------------------------------
(* Pages, rows, forms and calls keep their types.                          *)
LEMMA TypeStep ==
    ASSUME TypeOK, TookWhatWasSent, Next
    PROVE  TypeOK'
<1> USE DEF TypeOK
<1>1. ASSUME OpenCreate PROVE TypeOK'
    BY <1>1, ValuesAreRecord DEF OpenCreate, Opened, Closed, FormRec, AnyName
<1>2. ASSUME NEW r \in Row, OpenEdit(r) PROVE TypeOK'
    <2>1. list[r] \in Record
        BY <1>2, ItemsAreListed DEF OpenEdit, Listed
    <2> QED BY <1>2, <2>1, ValuesAreRecord DEF OpenEdit, Opened, Closed, FormRec, AnyName
<1>3. ASSUME NEW v, \/ v \in Names /\ Type("name", v)
                    \/ v \in Rests /\ Type("rest", v)
      PROVE  TypeOK'
    <2>1. \/ Typed(form.now, "name", v) \in Record /\ Type("name", v)
          \/ Typed(form.now, "rest", v) \in Record /\ Type("rest", v)
        BY <1>3, TypedIsRecord DEF FormRec
    <2> QED BY <2>1 DEF Type, FormRec
<1>4. ASSUME Dismiss PROVE TypeOK'
    BY <1>4, ClosedIsForm DEF Dismiss
<1>5. ASSUME NEW r \in Row \cup {None}, Submit(r) PROVE TypeOK'
    <2>1. form.mode \in Slot /\ form.id \in Row \cup {None}
        BY <1>5 DEF Submit, FormRec, Slot
    <2>2. call' \in [Slot -> CallRec]
        BY <1>5, <2>1, BodyIsTyped, CallSent DEF Submit
    <2>3. form' \in FormRec
        BY <1>5 DEF Submit, FormRec
    <2>4. calls' \in 0..MaxCalls
        BY <1>5 DEF Submit, More
    <2> QED BY <1>5, <2>2, <2>3, <2>4 DEF Submit
<1>6. ASSUME NEW r \in Row, Ask(r) PROVE TypeOK'
    BY <1>6 DEF Ask
<1>7. ASSUME Withdraw PROVE TypeOK'
    BY <1>7 DEF Withdraw
<1>8. ASSUME NEW r \in Row, Confirm(r) PROVE TypeOK'
    <2>1. [NoCall EXCEPT !.st = "sent", !.id = r] \in CallRec
        BY DEF NoCall, NoBody, CallRec, CallState, Field
    <2>2. calls' \in 0..MaxCalls
        BY <1>8 DEF Confirm, More
    <2> QED BY <1>8, <2>1, <2>2 DEF Confirm, Slot
<1>9. ASSUME NEW r \in Row, Create(r) PROVE TypeOK'
    <2>1. PICK rec : rec = Normal(Patch(Blank, call["create"].body, FirstPart))
        OBVIOUS
    <2>2. rec \in Record
        BY <1>9, <2>1, Patched DEF Create, Store, FirstPart, Field
    <2>3. row' \in [Row -> Record \cup {None}] /\ call' \in [Slot -> CallRec]
        BY <1>9, <2>1, <2>2, CallLeaves DEF Create, Store, Slot, CallState
    <2>4. Key(r, rec) \in Row \cup AnyName
        BY <2>2 DEF Key, Record, AnyName
    <2> QED BY <1>9, <2>1, <2>3, <2>4 DEF Create, FormRec
<1>10. ASSUME Update PROVE TypeOK'
    <2>1. PICK rec : rec = Normal(Patch(row[call["edit"].id], call["edit"].body, FirstPart))
        OBVIOUS
    <2>2. rec \in Record
        BY <1>10, <2>1, Patched DEF Update, Store, FirstPart, Field
    <2>3. call["edit"] \in CallRec /\ call["edit"].id \in Row \cup {None}
        BY DEF CallRec, Slot
    <2>4. row' \in [Row -> Record \cup {None}]
        BY <1>10, <2>1, <2>2 DEF Update, Store
    <2>5. call' \in [Slot -> CallRec]
        BY <1>10, <2>1, <2>2, <2>3, CallLeaves DEF Update, Store, CallState
    <2> QED BY <1>10, <2>4, <2>5 DEF Update
<1>11. ASSUME NEW s \in Slot, UploadImage(s) PROVE TypeOK'
    <2>1. call[s].body.rest \in AnyRest /\ s \in {"create", "edit"}
        BY <1>11 DEF UploadImage, TookWhatWasSent, HasImage, NoBody, Field, CallRec, Slot
    <2>2. call[s].took \in Record
        BY <1>11, <2>1 DEF UploadImage, TookWhatWasSent, Took, Carried
    <2>3. row' \in [Row -> Record \cup {None}]
        <3>1. PICK t \in AnyRest, r \in Row \cup {None} :
                  row[r] # None /\ row' = [row EXCEPT ![r].rest = t]
            BY <1>11, <2>1 DEF UploadImage, CallRec
        <3>2. CASE r \in Row
            <4>1. [row[r] EXCEPT !.rest = t] \in Record
                BY <3>1, <3>2 DEF Record
            <4> QED BY <3>1, <3>2, <4>1
        <3>3. CASE r \notin Row
            BY <3>1, <3>3
        <3> QED BY <3>2, <3>3
    <2>4. PICK rec : rec = [call[s].took EXCEPT !.rest = call[s].body.rest]
        OBVIOUS
    <2>5. rec \in Record
        BY <2>1, <2>2, <2>4 DEF Record
    <2>6. [call[s] EXCEPT !.st = "image done", !.took = rec] \in CallRec
        BY <2>5, CallUploads DEF CallState
    <2>7. call' = [call EXCEPT ![s] = [call[s] EXCEPT !.st = "image done", !.took = rec]]
        <3> DEFINE d == [call[s] EXCEPT !.st = "image done", !.took = rec]
        <3>1. DOMAIN call = Slot /\ call[s] = [x \in {"st", "id", "body", "took"} |-> call[s][x]]
            BY DEF CallRec
        <3>2. \A q \in Slot \ {s} : call'[q] = call[q]
            BY <1>11 DEF UploadImage
        <3>3. call'[s] = d
            BY <1>11, <2>4, <3>1 DEF UploadImage
        <3> QED BY <1>11, <3>1, <3>2, <3>3 DEF UploadImage
    <2>8. call' \in [Slot -> CallRec]
        BY <2>6, <2>7
    <2> QED BY <1>11, <2>3, <2>8 DEF UploadImage
<1>12. ASSUME Remove PROVE TypeOK'
    BY <1>12, CallGoesOn DEF Remove, CallState, Slot
<1>13. ASSUME NEW s \in Slot, Refuse(s) \/ LoseAnswer(s) PROVE TypeOK'
    <2>1. [call[s] EXCEPT !.st = "refused"] \in CallRec
        BY CallGoesOn DEF CallState
    <2>2. call' = [call EXCEPT ![s] = [call[s] EXCEPT !.st = "refused"]] /\ missed' \in BOOLEAN
        BY <1>13 DEF Refuse, LoseAnswer
    <2> QED BY <1>13, <2>1, <2>2 DEF Refuse, LoseAnswer
<1>14. ASSUME NEW r \in Row, NEW rec \in Storables \cup {None}, ChangeByOther(r, rec) PROVE TypeOK'
    <2>1. rec \in Record \cup {None}
        BY Fields DEF Storables, Record, AnyRest
    <2> QED BY <1>14, <2>1 DEF ChangeByOther
<1>15. ASSUME Refetch \/ ReadRows PROVE TypeOK'
    BY <1>15 DEF Refetch, ReadRows
<1>16. ASSUME RowsArrive \/ FetchFails PROVE TypeOK'
    BY <1>16, WokenCalls DEF RowsArrive, FetchFails, NoRows
<1>17. ASSUME NEW s \in Slot, Succeed(s) PROVE TypeOK'
    <2>1. call' \in [Slot -> CallRec]
        BY <1>17, WaitersTyped, CallGoesOn DEF Succeed, CallState
    <2> QED BY <1>17, <2>1, InvalidateTyped DEF Succeed
<1>18. ASSUME SucceedUnlisted PROVE TypeOK'
    <2>1. call' \in [Slot -> CallRec]
        BY <1>18, WaitersTyped, NoCallIsCall DEF SucceedUnlisted
    <2> QED BY <1>18, <2>1, InvalidateTyped, ClosedIsForm DEF SucceedUnlisted, Closes
<1>19. ASSUME NEW s \in Slot, SendImage(s) PROVE TypeOK'
    BY <1>19, CallGoesOn DEF SendImage, CallState
<1>20. ASSUME NEW s \in Slot, Finish(s) PROVE TypeOK'
    BY <1>20, NoCallIsCall, ClosedIsForm DEF Finish, Closes
<1>21. ASSUME NEW s \in Slot, Report(s) PROVE TypeOK'
    <2>1. form' \in FormRec
        BY <1>21 DEF Report, FormRec
    <2> QED BY <1>21, <2>1, NoCallIsCall DEF Report
<1>22. CASE UserStep
    BY <1>1, <1>2, <1>3, <1>4, <1>5, <1>6, <1>7, <1>8, <1>22 DEF UserStep
<1>23. CASE ServerStep
    BY <1>9, <1>10, <1>11, <1>12, <1>13, <1>14, <1>23 DEF ServerStep
<1>24. CASE PageStep
    BY <1>15, <1>16, <1>17, <1>18, <1>19, <1>20, <1>21, <1>24 DEF PageStep
<1> QED BY <1>22, <1>23, <1>24 DEF Next

------------------------------------------------------------------------------
(* A call that is under way goes on, and is about the same.                *)
GoesOn(s) ==
    Busy(s) => /\ Busy(s)' /\ call'[s].body = call[s].body
               /\ s = "edit" => call'[s].id = call[s].id

(* So it is in every step that starts or ends no save.                     *)
LEMMA GoesOnStep ==
    ASSUME TypeOK, NEW s \in {"create", "edit"},
           \/ Withdraw \/ Update \/ Remove \/ Refetch \/ ReadRows \/ RowsArrive \/ FetchFails
           \/ \E r \in Row : Ask(r) \/ Confirm(r) \/ Create(r)
           \/ \E r \in Row, rec \in Storables \cup {None} : ChangeByOther(r, rec)
           \/ \E q \in Slot : UploadImage(q) \/ Refuse(q) \/ LoseAnswer(q)
           \/ \E q \in Slot : Succeed(q) \/ SendImage(q)
    PROVE  GoesOn(s)
<1> USE DEF TypeOK, Busy, GoesOn, Slot
<1>0. call[s] \in CallRec /\ s \in Slot
    OBVIOUS
<1>1. CASE Withdraw \/ Refetch \/ ReadRows \/ \E r \in Row : Ask(r)
    BY <1>1 DEF Withdraw, Refetch, ReadRows, Ask
<1>2. CASE \E r \in Row : Confirm(r)
    BY <1>2 DEF Confirm
<1>3. CASE Update
    BY <1>0, <1>3 DEF Update, Store, CallRec
<1>4. CASE Remove
    BY <1>0, <1>4 DEF Remove
<1>5. ASSUME NEW r \in Row, Create(r) PROVE GoesOn(s)
    BY <1>0, <1>5 DEF Create, Store, CallRec
<1>6. CASE \E r \in Row, rec \in Storables \cup {None} : ChangeByOther(r, rec)
    BY <1>6 DEF ChangeByOther
<1>7. ASSUME NEW q \in Slot, UploadImage(q) PROVE GoesOn(s)
    BY <1>0, <1>7 DEF UploadImage, CallRec
<1>8. ASSUME NEW q \in Slot, Refuse(q) \/ LoseAnswer(q) \/ SendImage(q) PROVE GoesOn(s)
    <2>1. PICK st \in {"refused", "image sent"} : call' = [call EXCEPT ![q].st = st]
        BY <1>8 DEF Refuse, LoseAnswer, SendImage
    <2>2. CASE q = s
        <3>1. call'[s] = [call[s] EXCEPT !.st = st]
            BY <1>0, <2>1, <2>2
        <3> QED BY <1>0, <3>1 DEF CallRec
    <2>3. CASE q # s
        BY <1>0, <2>1, <2>3
    <2> QED BY <2>2, <2>3
<1>9. CASE RowsArrive \/ FetchFails
    BY <1>0, <1>9 DEF RowsArrive, FetchFails, Woken, CallRec
<1>10. ASSUME NEW q \in Slot, Succeed(q) PROVE GoesOn(s)
    BY <1>0, <1>10 DEF Succeed, Waiters, Woken, CallRec
<1> QED BY <1>1, <1>2, <1>3, <1>4, <1>5, <1>6, <1>7, <1>8, <1>9, <1>10

(* What a form sends is a matter of its mode and its two records.          *)
LEMMA SameBody ==
    ASSUME page' = page, form'.mode = form.mode, form'.seen = form.seen, form'.now = form.now
    PROVE  Body(form)' = Body(form)
BY DEF Body, Sent, UserSends, DeviceSends, ScheduleSends, RegionSends, Edited, Filled

(* A form whose call goes on waits for it as it did.                       *)
LEMMA FormWaits ==
    ASSUME TypeOK, ShowsWhatItSent, SavesItsRow, page' = page,
           form.mode # "closed" => GoesOn(form.mode),
           form'.mode = form.mode, form'.id = form.id, form'.seen = form.seen,
           form'.now = form.now, form'.saving = form.saving
    PROVE  ShowsWhatItSent' /\ SavesItsRow'
<1>1. Body(form)' = Body(form)
    BY SameBody
<1>2. ShowsWhatItSent'
    BY <1>1 DEF ShowsWhatItSent, GoesOn, TypeOK, FormRec
<1>3. SavesItsRow'
    BY DEF SavesItsRow, ShowsWhatItSent, GoesOn
<1> QED BY <1>2, <1>3

(* Every step keeps what is said of the form.                              *)
LEMMA FormStep ==
    ASSUME TypeOK, ShowsWhatItSent, SavesItsRow, Next
    PROVE  ShowsWhatItSent' /\ SavesItsRow'
<1>0. form \in FormRec /\ form.mode \in {"closed", "create", "edit"} /\ page \in Page
    BY DEF TypeOK, FormRec
<1>1. ASSUME form' = Closed, page' = page PROVE ShowsWhatItSent' /\ SavesItsRow'
    BY <1>1 DEF Closed, ShowsWhatItSent, SavesItsRow
<1>2. ASSUME OpenCreate PROVE ShowsWhatItSent' /\ SavesItsRow'
    BY <1>0, <1>2, ValuesAreRecord DEF OpenCreate, Opened, Closed, ShowsWhatItSent, SavesItsRow
<1>3. ASSUME NEW r \in Row, OpenEdit(r) PROVE ShowsWhatItSent' /\ SavesItsRow'
    BY <1>0, <1>3, ItemsAreListed, ValuesAreRecord
       DEF OpenEdit, Opened, Closed, Listed, TypeOK, ShowsWhatItSent, SavesItsRow
<1>4. ASSUME NEW f, NEW v, Type(f, v) PROVE ShowsWhatItSent' /\ SavesItsRow'
    <2>1. form.saving => page = "schedules"
        <3>1. form.saving => Loading(form.mode)
            BY <1>0 DEF ShowsWhatItSent, Loading, SameModal
        <3> QED BY <1>0, <1>4, <3>1
                DEF Type, Inputs, UserInputs, DeviceInputs, RegionInputs, Unless
    <2> QED BY <1>0, <1>4, <2>1 DEF Type, FormRec, ShowsWhatItSent, SavesItsRow, Busy
<1>5. ASSUME Dismiss PROVE ShowsWhatItSent' /\ SavesItsRow'
    BY <1>1, <1>5 DEF Dismiss
<1>6. ASSUME NEW r \in Row \cup {None}, Submit(r) PROVE ShowsWhatItSent' /\ SavesItsRow'
    <2>1. form.mode \in {"create", "edit"} /\ form' = [form EXCEPT !.saving = TRUE] /\ page' = page
        BY <1>0, <1>6 DEF Submit
    <2>2. /\ form'.mode = form.mode /\ form'.seen = form.seen /\ form'.now = form.now
          /\ form'.id = form.id
        BY <1>0, <2>1 DEF FormRec
    <2>3. Body(form)' = Body(form)
        BY <2>1, <2>2, SameBody
    <2>4. page = "regions" => form.now.name # None
        <3>1. page = "regions" => Complete(form.now) = RegionComplete(form.now)
            BY DEF Complete
        <3> QED BY <1>6, <3>1 DEF Submit, RegionComplete
    <2>5. /\ Busy(form.mode)' /\ call'[form.mode].body = Body(form)
          /\ form.mode = "edit" => call'[form.mode].id = form.id
        BY <1>6, <2>1 DEF Submit, TypeOK, Slot, Busy
    <2> QED BY <2>1, <2>2, <2>3, <2>4, <2>5 DEF ShowsWhatItSent, SavesItsRow
<1>7. ASSUME UNCHANGED <<page, form>>, \A s \in {"create", "edit"} : GoesOn(s)
      PROVE  ShowsWhatItSent' /\ SavesItsRow'
    BY <1>0, <1>7, FormWaits
<1>8. ASSUME NEW r \in Row, Create(r) PROVE ShowsWhatItSent' /\ SavesItsRow'
    <2>1. \A s \in {"create", "edit"} : GoesOn(s)
        BY <1>8, GoesOnStep
    <2>2. /\ page' = page /\ form'.mode = form.mode /\ form'.id = form.id
          /\ form'.seen = form.seen /\ form'.now = form.now /\ form'.saving = form.saving
        BY <1>0, <1>8 DEF Create, FormRec
    <2> QED BY <1>0, <2>1, <2>2, FormWaits
<1>9. ASSUME SucceedUnlisted PROVE ShowsWhatItSent' /\ SavesItsRow'
    <2>1. SameModal("edit") = {"create", "edit"}
        BY <1>9 DEF SucceedUnlisted, SameModal
    <2>2. page' = page /\ (form' = Closed \/ (form' = form /\ form.mode = "closed"))
        BY <1>0, <1>9, <2>1 DEF SucceedUnlisted, Closes
    <2> QED BY <1>1, <2>2, FormWaits
<1>10. ASSUME NEW s \in Slot, Finish(s) \/ Report(s) PROVE ShowsWhatItSent' /\ SavesItsRow'
    <2>1. s \in SameModal(s) \/ s = "delete"
        BY DEF SameModal, Slot
    <2>2. CASE s # "delete" /\ form.mode \in SameModal(s)
        <3>1. CASE Finish(s)
            BY <1>1, <2>2, <3>1 DEF Finish, Closes
        <3>2. CASE Report(s)
            BY <1>0, <2>2, <3>2 DEF Report, FormRec, ShowsWhatItSent, SavesItsRow
        <3> QED BY <1>10, <3>1, <3>2
    <2>3. CASE ~(s # "delete" /\ form.mode \in SameModal(s))
        <3>1. UNCHANGED <<page, form>> /\ form.mode # s
            BY <1>0, <1>10, <2>1, <2>3 DEF Finish, Report, Closes
        <3>2. form.mode # "closed" => GoesOn(form.mode)
            BY <1>0, <1>10, <3>1 DEF Finish, Report, GoesOn, Busy, TypeOK, Slot
        <3> QED BY <3>1, <3>2, FormWaits
    <2> QED BY <2>2, <2>3
<1>11. CASE UserStep
    BY <1>2, <1>3, <1>4, <1>5, <1>6, <1>7, <1>11, GoesOnStep DEF UserStep, Ask, Withdraw, Confirm
<1>12. CASE ServerStep
    BY <1>7, <1>8, <1>12, GoesOnStep
       DEF ServerStep, Update, Remove, ChangeByOther, UploadImage, Refuse, LoseAnswer
<1>13. CASE PageStep
    BY <1>7, <1>9, <1>10, <1>13, GoesOnStep
       DEF PageStep, Refetch, ReadRows, RowsArrive, FetchFails, Succeed, SendImage
<1> QED BY <1>11, <1>12, <1>13 DEF Next

------------------------------------------------------------------------------
(* What TookWhatWasSent says of one call.                                  *)
CallKept(s) ==
    /\ s = "delete" => call[s].body = NoBody
    /\ call[s].st \in {"image sent", "image done"} => HasImage(s)
    /\ s \in {"create", "edit"} => Took(s)

(* So it is of each of them.                                               *)
CallsKept == \A s \in Slot : CallKept(s)

(* A call that goes on with the row it has, and takes no image.            *)
Moves(s) ==
    /\ call'[s].body = call[s].body /\ call'[s].took = call[s].took
    /\ \/ call'[s].st = "refused"
       \/ /\ call'[s].st \in {"done", "listing", "listed", "image sent"}
          /\ s \in {"create", "edit"} => call[s].st \in Carried
          /\ call'[s].st = "image sent" => HasImage(s)

(* Such a call left what it left; so did one that stays, and one that ends *)
(* left nothing.                                                           *)
LEMMA CallMoves ==
    ASSUME NEW s \in Slot, CallKept(s), page' = page,
           call'[s] = call[s] \/ Moves(s) \/ call'[s] = NoCall
    PROVE  CallKept(s)'
<1>1. CASE call'[s] = call[s]
    BY <1>1 DEF CallKept, Took, HasImage
<1>2. CASE Moves(s)
    BY <1>2 DEF CallKept, Moves, Took, HasImage, Carried
<1>3. CASE call'[s] = NoCall
    <2>1. call'[s].st = "idle" /\ call'[s].body = NoBody
        BY <1>3 DEF NoCall
    <2> QED BY <2>1 DEF CallKept, Took, Carried
<1> QED BY <1>1, <1>2, <1>3

(* The same of every call but one, when nothing else happens to the calls. *)
LEMMA OthersStay ==
    ASSUME TypeOK, NEW s \in Slot, NEW c, call' = [call EXCEPT ![s] = c], page' = page,
           CallsKept, CallKept(s)'
    PROVE  CallsKept'
<1> SUFFICES ASSUME NEW q \in Slot PROVE CallKept(q)'
    BY DEF CallsKept
<1>1. CASE q = s
    BY <1>1
<1>2. CASE q # s
    BY <1>2, CallMoves DEF TypeOK, CallsKept
<1> QED BY <1>1, <1>2

(* What a new or an edited row is given is what the request names.         *)
LEMMA StoreTook ==
    ASSUME TypeOK, NEW s \in {"create", "edit"}, NEW old, NEW r, page' = page,
           s = "create" => old = Blank,
           Store(s, r, Normal(Patch(old, call[s].body, FirstPart)))
    PROVE  Took(s)'
<1> PICK rec : rec = Normal(Patch(old, call[s].body, FirstPart))
    OBVIOUS
<1>1. /\ rec \in Record
      /\ \A x \in Field :
            \/ rec[x] = IF x \in FirstPart /\ call[s].body[x] # Keep
                        THEN call[s].body[x] ELSE old[x]
            \/ page = "users" /\ x = "rest" /\ rec.name = "admin" /\ rec.rest = None
    BY Patched DEF TypeOK, Store, FirstPart, Field
<1>2. call[s] \in CallRec
    BY DEF TypeOK, Slot
<1>3. call'[s].st = "done" /\ call'[s].body = call[s].body /\ call'[s].took = rec
    BY <1>2 DEF Store, CallRec, TypeOK, Slot
<1>4. \A x \in Field : x \in FirstPart \/ (page = "regions" /\ x = "rest")
    BY DEF FirstPart, Field
<1>5. s = "create" => \A x \in Field : old[x] = None
    BY DEF Blank
<1> QED BY <1>1, <1>3, <1>4, <1>5 DEF Took

(* An image is in its row when its upload has been done.                   *)
LEMMA UploadTook ==
    ASSUME TypeOK, TookWhatWasSent, NEW s \in Slot, UploadImage(s)
    PROVE  s \in {"create", "edit"} /\ Took(s)' /\ HasImage(s)'
<1>1. s \in {"create", "edit"} /\ call[s].body.rest # Keep /\ page = "regions"
    BY DEF UploadImage, TookWhatWasSent, HasImage, NoBody, Field, Slot
<1>2. call[s] \in CallRec /\ call[s].took \in Record /\ Took(s)
    BY <1>1 DEF UploadImage, TookWhatWasSent, Took, Carried, TypeOK
<1>3. /\ call'[s].st = "image done" /\ call'[s].body = call[s].body
      /\ call'[s].took = [call[s].took EXCEPT !.rest = call[s].body.rest]
    BY <1>2 DEF UploadImage, CallRec, TypeOK
<1>4. call'[s].took \in Record
    BY <1>1, <1>2, <1>3 DEF Record, CallRec
<1>5. call'[s].took.name = call[s].took.name /\ call'[s].took.rest = call[s].body.rest
    BY <1>2, <1>3 DEF Record
<1>6. HasImage(s)'
    BY <1>1, <1>3 DEF HasImage, UploadImage
<1> QED BY <1>1, <1>2, <1>3, <1>4, <1>5, <1>6 DEF Took, UploadImage, Carried, Field

(* Every step keeps what is said of the calls.                             *)
LEMMA TookStep ==
    ASSUME TypeOK, TookWhatWasSent, Next
    PROVE  TookWhatWasSent'
<1>0. CallsKept /\ \A s \in Slot : call[s] \in CallRec
    BY DEF TypeOK, TookWhatWasSent, CallsKept, CallKept, Slot
<1> SUFFICES CallsKept'
    BY DEF TookWhatWasSent, CallsKept, CallKept, Slot
<1>1. ASSUME page' = page,
             \A s \in Slot : call'[s] = call[s] \/ Moves(s) \/ call'[s] = NoCall
      PROVE  CallsKept'
    <2> SUFFICES ASSUME NEW s \in Slot PROVE CallKept(s)'
        BY DEF CallsKept
    <2> QED BY <1>0, <1>1, CallMoves DEF CallsKept
<1>2. ASSUME UNCHANGED <<page, call>> PROVE CallsKept'
    BY <1>1, <1>2
<1>3. ASSUME NEW r \in Row \cup {None}, Submit(r) PROVE CallsKept'
    <2>1. form.mode \in {"create", "edit"} /\ form.mode \in Slot
        BY <1>3 DEF Submit, TypeOK, FormRec, Slot
    <2>2. page' = page /\ call'[form.mode].st = "sent"
          /\ \A q \in Slot \ {form.mode} : call'[q] = call[q]
        BY <1>3, <2>1 DEF Submit, TypeOK
    <2> SUFFICES ASSUME NEW q \in Slot PROVE CallKept(q)'
        BY DEF CallsKept
    <2>3. CASE q = form.mode
        BY <2>1, <2>2, <2>3 DEF CallKept, Took, Carried
    <2>4. CASE q # form.mode
        BY <1>0, <2>2, <2>4, CallMoves DEF CallsKept
    <2> QED BY <2>3, <2>4
<1>4. ASSUME NEW r \in Row, Confirm(r) PROVE CallsKept'
    <2>1. "delete" \in Slot /\ call'["delete"] = [NoCall EXCEPT !.st = "sent", !.id = r]
        BY <1>4 DEF Confirm, Slot, TypeOK
    <2>2. CallKept("delete")'
        BY <2>1 DEF CallKept, NoCall
    <2> QED BY <1>0, <1>4, <2>1, <2>2, OthersStay DEF Confirm
<1>5. ASSUME NEW s \in {"create", "edit"}, NEW old, NEW r,
             s = "create" => old = Blank, page' = page,
             Store(s, r, Normal(Patch(old, call[s].body, FirstPart)))
      PROVE  CallsKept'
    <2>1. Took(s)'
        BY <1>5, StoreTook
    <2>2. s \in Slot /\ call'[s].st = "done"
        BY <1>0, <1>5 DEF Store, CallRec, TypeOK, Slot
    <2>3. CallKept(s)'
        BY <2>1, <2>2 DEF CallKept
    <2> QED BY <1>0, <1>5, <2>2, <2>3, OthersStay DEF Store
<1>6. ASSUME NEW r \in Row, Create(r) PROVE CallsKept'
    BY <1>5, <1>6 DEF Create
<1>7. ASSUME Update PROVE CallsKept'
    BY <1>5, <1>7 DEF Update
<1>8. ASSUME NEW s \in Slot, UploadImage(s) PROVE CallsKept'
    <2>1. s \in {"create", "edit"} /\ Took(s)' /\ HasImage(s)'
        BY <1>8, UploadTook
    <2>2. CallKept(s)'
        BY <2>1 DEF CallKept
    <2> SUFFICES ASSUME NEW q \in Slot, q # s PROVE CallKept(q)'
        BY <2>2 DEF CallsKept
    <2>3. page' = page /\ call'[q] = call[q]
        BY <1>8 DEF UploadImage, TypeOK
    <2> QED BY <1>0, <2>3, CallMoves DEF CallsKept
<1>9. ASSUME Remove PROVE CallsKept'
    <2>1. call'["delete"] = [call["delete"] EXCEPT !.st = "done"]
        BY <1>9 DEF Remove, TypeOK, Slot
    <2>2. Moves("delete")
        BY <1>0, <2>1 DEF Moves, CallRec, Slot
    <2>3. \A s \in Slot : call'[s] = call[s] \/ Moves(s)
        BY <1>9, <2>2 DEF Remove, TypeOK, Slot
    <2> QED BY <1>1, <1>9, <2>3 DEF Remove
<1>10. ASSUME NEW s \in Slot, Refuse(s) \/ LoseAnswer(s) \/ SendImage(s)
       PROVE  CallsKept'
    <2>1. PICK st : /\ call' = [call EXCEPT ![s] = [call[s] EXCEPT !.st = st]] /\ page' = page
                    /\ \/ st = "refused"
                       \/ /\ st = "image sent" /\ call[s].st = "listed"
                          /\ page = "regions" /\ call[s].body["rest"] # Keep
        BY <1>10 DEF Refuse, LoseAnswer, SendImage, HasImage
    <2>2. call'[s] = [call[s] EXCEPT !.st = st]
        BY <2>1 DEF TypeOK
    <2>3. Moves(s)
        <3>1. /\ call'[s].body = call[s].body /\ call'[s].took = call[s].took
              /\ call'[s].st = st
            BY <1>0, <2>2 DEF CallRec
        <3> QED BY <2>1, <3>1 DEF Moves, HasImage, Carried
    <2>4. CallKept(s)'
        BY <1>0, <2>1, <2>3, CallMoves DEF CallsKept
    <2> QED BY <1>0, <2>1, <2>4, OthersStay
<1>11. ASSUME NEW s \in Slot PROVE Woken(call)[s] \in {call[s], [call[s] EXCEPT !.st = "listed"]}
                                    /\ (Woken(call)[s] # call[s] => call[s].st = "listing")
                                    /\ Waiters[s] \in {call[s], Woken(call)[s]}
    BY DEF Woken, Waiters
<1>12. ASSUME NEW s \in Slot, call'[s] \in {Waiters[s], Woken(call)[s]}
       PROVE  call'[s] = call[s] \/ Moves(s)
    <2>1. CASE call[s].st = "listing" /\ call'[s] = [call[s] EXCEPT !.st = "listed"]
        <3>1. /\ call'[s].body = call[s].body /\ call'[s].took = call[s].took
              /\ call'[s].st = "listed"
            BY <1>0, <2>1 DEF CallRec
        <3> QED BY <2>1, <3>1 DEF Moves, Carried
    <2> QED BY <1>11, <1>12, <2>1
<1>13. ASSUME RowsArrive \/ FetchFails PROVE CallsKept'
    BY <1>1, <1>12, <1>13 DEF RowsArrive, FetchFails
<1>14. ASSUME NEW s \in Slot, Succeed(s) PROVE CallsKept'
    <2>1. call'[s] = [Waiters[s] EXCEPT !.st = "listing"] /\ Waiters[s] = call[s]
        BY <1>14 DEF Succeed, Waiters, Woken, TypeOK
    <2>2. Moves(s)
        <3>1. /\ call'[s].body = call[s].body /\ call'[s].took = call[s].took
              /\ call'[s].st = "listing"
            BY <1>0, <2>1 DEF CallRec
        <3> QED BY <1>14, <3>1 DEF Moves, Carried, Succeed
    <2>3. \A q \in Slot \ {s} : call'[q] = Waiters[q]
        BY <1>14 DEF Succeed, Waiters, Woken, TypeOK
    <2>4. \A q \in Slot : call'[q] = call[q] \/ Moves(q)
        BY <1>12, <2>2, <2>3
    <2> QED BY <1>1, <1>14, <2>4 DEF Succeed
<1>15. ASSUME SucceedUnlisted PROVE CallsKept'
    <2>1. call'["edit"] = NoCall /\ \A q \in Slot \ {"edit"} : call'[q] = Waiters[q]
        BY <1>15 DEF SucceedUnlisted, Waiters, Woken, Slot, TypeOK
    <2>2. \A q \in Slot : call'[q] = call[q] \/ Moves(q) \/ call'[q] = NoCall
        BY <1>12, <2>1
    <2> QED BY <1>1, <1>15, <2>2 DEF SucceedUnlisted
<1>16. ASSUME NEW s \in Slot, Finish(s) \/ Report(s) PROVE CallsKept'
    <2>1. \A q \in Slot : call'[q] = call[q] \/ call'[q] = NoCall
        BY <1>16 DEF Finish, Report, TypeOK
    <2> QED BY <1>1, <1>16, <2>1 DEF Finish, Report
<1>17. CASE UserStep
    BY <1>2, <1>3, <1>4, <1>17
       DEF UserStep, OpenCreate, Dismiss, Withdraw, OpenEdit, Ask, Type
<1>18. CASE ServerStep
    BY <1>2, <1>6, <1>7, <1>8, <1>9, <1>10, <1>18 DEF ServerStep, ChangeByOther
<1>19. CASE PageStep
    BY <1>2, <1>10, <1>13, <1>14, <1>15, <1>16, <1>19 DEF PageStep, Refetch, ReadRows
<1> QED BY <1>17, <1>18, <1>19 DEF Next

------------------------------------------------------------------------------
(* No call has been answered but not yet seen to, and nothing was missed,  *)
(* only if it was so before, in a step that leaves every such call alone.  *)
LEMMA SettledBefore ==
    ASSUME Settled', missed' = missed,
           \A s \in Slot : call[s].st = "done" => call'[s].st = "done"
    PROVE  Settled
BY DEF Settled

(* Every step keeps the list, and what is being fetched for it, as the     *)
(* rows are, unless it says that they may differ.                          *)
LEMMA ListStep ==
    ASSUME TypeOK, ListFollows, FetchFollows, Next
    PROVE  ListFollows' /\ FetchFollows'
<1>0. \A s \in Slot : call[s] \in CallRec
    BY DEF TypeOK
<1>1. ASSUME fetch'.st \notin {"idle", "read"} \/ ~Settled' PROVE ListFollows' /\ FetchFollows'
    BY <1>1 DEF ListFollows, FetchFollows
<1>2. ASSUME UNCHANGED <<row, list, fetch, missed>>,
             \A s \in Slot : call[s].st = "done" => call'[s].st = "done"
      PROVE  ListFollows' /\ FetchFollows'
    <2>1. Settled' => Settled
        BY <1>2, SettledBefore
    <2> QED BY <1>2, <2>1 DEF ListFollows, FetchFollows
<1>3. ASSUME UNCHANGED <<row, list, fetch, missed, call>> PROVE ListFollows' /\ FetchFollows'
    BY <1>2, <1>3
<1>4. ASSUME NEW r \in Row \cup {None}, Submit(r) PROVE ListFollows' /\ FetchFollows'
    <2>1. form.mode \in {"create", "edit"} /\ form.mode \in Slot
        BY <1>4 DEF Submit, TypeOK, FormRec, Slot
    <2>2. call[form.mode].st = "idle"
        BY <1>4, <2>1 DEF Submit, Loading, SameModal, Busy
    <2>3. \A s \in Slot : s # form.mode => call'[s] = call[s]
        BY <1>4 DEF Submit, TypeOK
    <2> QED BY <1>2, <1>4, <2>2, <2>3 DEF Submit
<1>5. ASSUME NEW r \in Row, Confirm(r) PROVE ListFollows' /\ FetchFollows'
    BY <1>2, <1>5 DEF Confirm, Busy, TypeOK
<1>6. ASSUME NEW s \in Slot, call'[s].st = "done" PROVE ListFollows' /\ FetchFollows'
    BY <1>1, <1>6 DEF Settled
<1>7. ASSUME NEW r \in Row, Create(r) PROVE ListFollows' /\ FetchFollows'
    BY <1>0, <1>6, <1>7 DEF Create, Store, CallRec, TypeOK, Slot
<1>8. ASSUME Update PROVE ListFollows' /\ FetchFollows'
    BY <1>0, <1>6, <1>8 DEF Update, Store, CallRec, TypeOK, Slot
<1>9. ASSUME Remove PROVE ListFollows' /\ FetchFollows'
    BY <1>0, <1>6, <1>9 DEF Remove, CallRec, TypeOK, Slot
<1>10. ASSUME missed' PROVE ListFollows' /\ FetchFollows'
    BY <1>1, <1>10 DEF Settled
<1>11. ASSUME NEW s \in Slot, Refuse(s) \/ SendImage(s) \/ Finish(s) \/ Report(s)
       PROVE  ListFollows' /\ FetchFollows'
    <2>1. call[s].st # "done" /\ \A q \in Slot : q # s => call'[q] = call[q]
        BY <1>11 DEF Refuse, SendImage, Finish, Report, TypeOK
    <2> QED BY <1>2, <1>11, <2>1 DEF Refuse, SendImage, Finish, Report
<1>12. ASSUME Refetch \/ FetchFails PROVE ListFollows' /\ FetchFollows'
    <2>1. fetch'.st \in {"asked", "failed"}
        BY <1>12 DEF Refetch, FetchFails, TypeOK
    <2> QED BY <1>1, <2>1
<1>13. ASSUME SucceedUnlisted \/ \E s \in Slot : Succeed(s)
       PROVE  ListFollows' /\ FetchFollows'
    <2>1. Invalidate /\ row' = row
        BY <1>13 DEF SucceedUnlisted, Succeed
    <2>2. CASE FirstLoad
        <3>1. fetch' = fetch /\ fetch.st \in {"asked", "read"}
            BY <2>1, <2>2 DEF Invalidate, Invalidated, FirstLoad
        <3>2. ~missed' => fetch.st = "asked" \/ fetch.rows = row
            BY <2>1, <2>2, <3>1 DEF Invalidate
        <3> QED BY <2>1, <3>1, <3>2 DEF ListFollows, FetchFollows, Settled
    <2>3. CASE ~FirstLoad
        <3>1. fetch'.st = "asked"
            BY <2>1, <2>3 DEF Invalidate, Invalidated
        <3> QED BY <1>1, <3>1
    <2> QED BY <2>2, <2>3
<1>14. ASSUME ReadRows PROVE ListFollows' /\ FetchFollows'
    BY <1>14 DEF ReadRows, ListFollows, FetchFollows
<1>15. ASSUME RowsArrive PROVE ListFollows' /\ FetchFollows'
    <2>1. \A s \in Slot : call[s].st = "done" => call'[s].st = "done"
        BY <1>15 DEF RowsArrive, Woken
    <2>2. Settled' => Settled
        BY <1>15, <2>1, SettledBefore DEF RowsArrive
    <2> QED BY <1>15, <2>2 DEF RowsArrive, ListFollows, FetchFollows
<1>16. CASE UserStep
    BY <1>3, <1>4, <1>5, <1>16
       DEF UserStep, OpenCreate, Dismiss, Withdraw, OpenEdit, Ask, Type
<1>17. CASE ServerStep
    BY <1>7, <1>8, <1>9, <1>10, <1>11, <1>17 DEF ServerStep, ChangeByOther, UploadImage, LoseAnswer
<1>18. CASE PageStep
    BY <1>11, <1>12, <1>13, <1>14, <1>15, <1>18 DEF PageStep
<1> QED BY <1>16, <1>17, <1>18 DEF Next

------------------------------------------------------------------------------
(* It holds of a page that has just been opened.                           *)
LEMMA FormInitial == Init => FormInv
<1> SUFFICES ASSUME Init PROVE FormInv
    OBVIOUS
<1>1. page \in Page /\ form = Closed /\ form \in FormRec
    BY ClosedIsForm DEF Init
<1>2. \A s \in Slot : call[s] = NoCall /\ call[s].st = "idle" /\ call[s].body = NoBody
    BY DEF Init, NoCall
<1>3. row \in [Row -> Record \cup {None}]
    <2>1. Storables \subseteq Record
        BY <1>1, Fields DEF Storables, Record, AnyRest
    <2> QED BY <2>1 DEF Init, NoRows
<1>4. call \in [Slot -> CallRec]
    BY NoCallIsCall DEF Init
<1>5. TypeOK
    <2>1. calls \in 0..MaxCalls /\ others \in 0..MaxOthers
        BY DEF Init
    <2>2. fetch \in [st: {"idle", "asked", "read", "failed"}, rows: [Row -> Record \cup {None}]]
        BY DEF Init, NoRows
    <2> QED BY <1>1, <1>3, <1>4, <2>1, <2>2 DEF Init, TypeOK
<1>6. ShowsWhatItSent /\ SavesItsRow
    BY <1>1 DEF ShowsWhatItSent, SavesItsRow, Closed
<1>7. TookWhatWasSent
    BY <1>2 DEF TookWhatWasSent, Took, Carried, Slot
<1>8. ListFollows /\ FetchFollows
    BY DEF Init, ListFollows, FetchFollows
<1> QED BY <1>5, <1>6, <1>7, <1>8 DEF FormInv

(* Of any rows, values and number of calls: types, what a form that is     *)
(* saved shows and whose row it saves, what a request has left in its row, *)
(* and the list.                                                           *)
THEOREM FormInvariance == Spec => []FormInv
<1>1. FormInv /\ [Next]_vars => FormInv'
    <2> SUFFICES ASSUME FormInv, [Next]_vars PROVE FormInv'
        OBVIOUS
    <2>1. CASE Next
        BY <2>1, TypeStep, FormStep, TookStep, ListStep DEF FormInv
    <2>2. CASE UNCHANGED vars
        <3>1. TypeOK'
            BY <2>2 DEF FormInv, TypeOK, vars
        <3>2. ShowsWhatItSent' /\ SavesItsRow'
            BY <2>2, FormWaits DEF FormInv, vars, GoesOn, Busy
        <3>3. TookWhatWasSent'
            <4>1. TookWhatWasSent /\ page' = page /\ call' = call
                BY <2>2 DEF FormInv, vars
            <4>2. CallsKept
                BY <4>1 DEF TookWhatWasSent, CallsKept, CallKept, Slot
            <4>3. CallsKept'
                BY <4>1, <4>2, CallMoves DEF CallsKept
            <4> QED BY <4>3 DEF TookWhatWasSent, CallsKept, CallKept, Slot
        <3>4. ListFollows' /\ FetchFollows'
            BY <2>2 DEF FormInv, ListFollows, FetchFollows, Settled, vars
        <3> QED BY <3>1, <3>2, <3>3, <3>4 DEF FormInv
    <2> QED BY <2>1, <2>2
<1> QED BY FormInitial, <1>1, PTL DEF Spec

(* When nothing is fetched, no answer on its way and nothing missed, the   *)
(* list shows the rows as they are.                                        *)
THEOREM ListsFollow == Spec => []ListFollows
<1>1. FormInv => ListFollows
    BY DEF FormInv
<1> QED BY FormInvariance, <1>1, PTL

------------------------------------------------------------------------------
(* Which steps carry out a creation or an edit.                            *)
LEMMA CarriedOut ==
    ASSUME TypeOK, NEW s \in {"create", "edit"}, Next,
           call[s].st # "done", call'[s].st = "done"
    PROVE  \/ s = "edit" /\ Update
           \/ s = "create" /\ \E r \in Row : Create(r)
<1> USE DEF TypeOK, Slot
<1>0. call[s] \in CallRec /\ s \in Slot
    OBVIOUS
<1>1. call' # call /\ ~(\E q \in Slot : call' = [call EXCEPT ![q] = NoCall])
    BY <1>0 DEF NoCall
<1>2. ASSUME NEW q \in Slot, NEW st, call' = [call EXCEPT ![q].st = st], st # "done" PROVE FALSE
    <2>1. CASE q = s
        BY <1>0, <1>2, <2>1 DEF CallRec
    <2>2. CASE q # s
        BY <1>0, <1>2, <2>2
    <2> QED BY <2>1, <2>2
<1>3. ASSUME call'[s] \in {Waiters[s], Woken(call)[s]} PROVE FALSE
    BY <1>0, <1>3 DEF Waiters, Woken, CallRec
<1>4. CASE UserStep
    <2>1. ASSUME NEW r \in Row \cup {None}, Submit(r) PROVE FALSE
        <3>1. CASE form.mode = s
            BY <1>0, <2>1, <3>1 DEF Submit
        <3>2. CASE form.mode # s
            BY <1>0, <2>1, <3>2 DEF Submit
        <3> QED BY <3>1, <3>2
    <2>2. ASSUME NEW r \in Row, Confirm(r) PROVE FALSE
        BY <1>0, <2>2 DEF Confirm
    <2> QED BY <1>1, <1>4, <2>1, <2>2
            DEF UserStep, OpenCreate, Dismiss, Withdraw, OpenEdit, Ask, Type
<1>5. CASE ServerStep
    <2>1. ASSUME NEW r \in Row, Create(r) PROVE s = "create"
        BY <1>0, <2>1 DEF Create, Store
    <2>2. ASSUME Update PROVE s = "edit"
        BY <1>0, <2>2 DEF Update, Store
    <2>3. ASSUME Remove PROVE FALSE
        BY <1>0, <2>3 DEF Remove
    <2>4. ASSUME NEW q \in Slot, UploadImage(q) PROVE FALSE
        <3>1. CASE q = s
            BY <1>0, <2>4, <3>1 DEF UploadImage, CallRec
        <3>2. CASE q # s
            BY <1>0, <2>4, <3>2 DEF UploadImage
        <3> QED BY <3>1, <3>2
    <2>5. ASSUME NEW q \in Slot, Refuse(q) \/ LoseAnswer(q) PROVE FALSE
        BY <1>2, <2>5 DEF Refuse, LoseAnswer
    <2> QED BY <1>1, <1>5, <2>1, <2>2, <2>3, <2>4, <2>5 DEF ServerStep, ChangeByOther
<1>6. CASE PageStep
    <2>1. ASSUME RowsArrive \/ FetchFails PROVE FALSE
        BY <1>3, <2>1 DEF RowsArrive, FetchFails
    <2>2. ASSUME SucceedUnlisted PROVE FALSE
        <3>1. CASE s = "edit"
            BY <1>0, <2>2, <3>1 DEF SucceedUnlisted, Waiters, Woken, NoCall
        <3>2. CASE s # "edit"
            BY <1>0, <1>3, <2>2, <3>2 DEF SucceedUnlisted, Waiters, Woken
        <3> QED BY <3>1, <3>2
    <2>3. ASSUME NEW q \in Slot, Succeed(q) PROVE FALSE
        <3>1. CASE q = s
            BY <1>0, <2>3, <3>1 DEF Succeed
        <3>2. CASE q # s
            BY <1>0, <1>3, <2>3, <3>2 DEF Succeed, Waiters, Woken
        <3> QED BY <3>1, <3>2
    <2>4. ASSUME NEW q \in Slot, SendImage(q) \/ Finish(q) \/ Report(q) PROVE FALSE
        BY <1>1, <1>2, <2>4 DEF SendImage, Finish, Report
    <2> QED BY <1>1, <1>6, <2>1, <2>2, <2>3, <2>4 DEF PageStep, Refetch, ReadRows
<1> QED BY <1>4, <1>5, <1>6 DEF Next

(* What a saved form sends of the fields of its row.                       *)
LEMMA SentFields ==
    ASSUME page \in Page, form \in FormRec
    PROVE  /\ page \in {"users", "devices"} =>
                  Sent(form) = IF form.mode = "create" THEN Filled(form) ELSE Edited(form)
           /\ page \in {"schedules", "regions"} => Sent(form) = Filled(form)
           /\ form.mode = "create" => Sent(form) = Filled(form)
BY DEF Sent, UserSends, DeviceSends, ScheduleSends, RegionSends

(* Of any rows and values: what others have changed stays when a user or a *)
(* device is saved, and of a region the image does.                        *)
THEOREM OthersEditsStay == Spec => OthersEditsSurvive
<1>1. ASSUME FormInv, Next, form.saving, form.mode = "edit", row' # row,
             call["edit"].st # "done", call'["edit"].st = "done", NEW x \in Field
      PROVE  \/ row'[form.id][x] = row[form.id][x]
             \/ x \in Edited(form)
             \/ page = "schedules"
             \/ page = "regions" /\ x = "name"
             \/ page = "users" /\ x = "rest" /\ row'[form.id].name = "admin"
    <2> DEFINE c == call["edit"]
    <2>1. Update /\ TypeOK
        BY <1>1, CarriedOut DEF FormInv
    <2>2. form.id \in Row /\ c.id = form.id
        BY <1>1 DEF FormInv, SavesItsRow
    <2>3. PICK rec : /\ rec = Normal(Patch(row[form.id], c.body, FirstPart))
                     /\ row'[form.id] = rec
        BY <2>1, <2>2 DEF Update, Store, TypeOK
    <2>4. \/ rec[x] = IF x \in FirstPart /\ c.body[x] # Keep THEN c.body[x] ELSE row[form.id][x]
          \/ page = "users" /\ x = "rest" /\ rec.name = "admin"
        BY <2>1, <2>3, Patched DEF TypeOK, FirstPart, Field
    <2>5. page # "schedules" => c.body = Body(form)
        BY <1>1 DEF FormInv, ShowsWhatItSent
    <2>6. page # "schedules" /\ c.body[x] # Keep => x \in Sent(form)
        BY <2>5 DEF Body
    <2>7. page \in {"users", "devices"} => Sent(form) = Edited(form)
        BY <1>1, <2>1, SentFields DEF TypeOK
    <2>8. page = "regions" /\ x \in FirstPart => x = "name"
        BY DEF FirstPart
    <2> QED BY <2>1, <2>3, <2>4, <2>6, <2>7, <2>8 DEF TypeOK
<1>2. FormInv /\ [Next]_vars =>
          [form.saving /\ form.mode = "edit" /\ row' # row
             /\ call["edit"].st # "done" /\ call'["edit"].st = "done" =>
              LET r == form.id
              IN  \A x \in Field :
                     \/ row'[r][x] = row[r][x]
                     \/ x \in Edited(form)
                     \/ page = "schedules"
                     \/ page = "regions" /\ x = "name"
                     \/ page = "users" /\ x = "rest" /\ row'[r].name = "admin"]_vars
    BY <1>1
<1> QED BY FormInvariance, <1>2, PTL DEF Spec, OthersEditsSurvive

(* Of any rows and values: a new user or region does not get the id or the *)
(* name of the one that its form has made already and that is still there. *)
THEOREM NothingMadeTwice == Spec => NotMadeTwice
<1>1. ASSUME FormInv, Next, form.saving, form.mode = "create",
             call["create"].st = "sent", call'["create"].st = "done",
             page \in {"users", "regions"},
             form.made = Key(call'["create"].id, call'["create"].took),
             NEW q \in Row, row[q] # None
      PROVE  Key(q, row[q]) # form.made
    <2>1. TypeOK /\ \E r \in Row : Create(r)
        BY <1>1, CarriedOut DEF FormInv
    <2>2. PICK r \in Row : Create(r)
        BY <2>1
    <2>3. PICK rec : rec = Normal(Patch(Blank, call["create"].body, FirstPart))
        OBVIOUS
    <2>4. call["create"] \in CallRec /\ "create" \in Slot
        BY <2>1 DEF TypeOK, Slot
    <2>5. row[r] = None /\ Free(r, rec) /\ call'["create"].id = r /\ call'["create"].took = rec
        BY <2>1, <2>2, <2>3, <2>4 DEF Create, Store, CallRec, TypeOK
    <2>6. q # r
        BY <1>1, <2>5
    <2>7. CASE page = "users"
        BY <1>1, <2>5, <2>6, <2>7 DEF Key
    <2>8. CASE page = "regions"
        <3>1. rec.name # row[q].name
            BY <1>1, <2>5, <2>6, <2>8 DEF Free
        <3> QED BY <1>1, <2>5, <2>8, <3>1 DEF Key
    <2> QED BY <1>1, <2>7, <2>8
<1>2. FormInv /\ [Next]_vars =>
          [form.saving /\ form.mode = "create"
             /\ call["create"].st = "sent" /\ call'["create"].st = "done" =>
              \/ page \notin {"users", "regions"}
              \/ form.made # Key(call'["create"].id, call'["create"].took)
              \/ \A r \in Row : row[r] # None => Key(r, row[r]) # form.made]_vars
    BY <1>1
<1> QED BY FormInvariance, <1>2, PTL DEF Spec, NotMadeTwice

(* A call has ended well, the way it does on its page.                     *)
Ended(s) ==
    \/ call[s].st = "image done"
    \/ call[s].st = "listed" /\ ~HasImage(s)
    \/ page = "devices" /\ call[s].st = "done"

(* Then it has left in its row all that its form shows and its user has    *)
(* changed, but for what is Dropped.                                       *)
LEMMA EndedIsSaved ==
    ASSUME FormInv, NEW s \in {"create", "edit"}, form.mode = s, form.saving, Ended(s),
           NEW x \in Edited(form)
    PROVE  call[s].took[x] = form.now[x] \/ Dropped(form, x, call[s])
<1> DEFINE c == call[s]
<1>1. /\ TypeOK /\ Took(s) /\ page \in Page /\ form \in FormRec
      /\ x \in Field /\ form.now[x] # form.seen[x]
    BY DEF FormInv, TookWhatWasSent, TypeOK, Edited
<1>2. form.now[x] # Keep
    BY <1>1 DEF FormRec, Record, Field, AnyName, AnyRest
<1>3. c.st \in Carried
    BY DEF Ended, Carried
<1>4. c.body = Body(form) \/ (page = "schedules" /\ c.body # Body(form))
    <2>1. page # "schedules" => call[form.mode].body = Body(form)
        BY DEF FormInv, ShowsWhatItSent
    <2> QED BY <2>1
<1>5. CASE page = "schedules" /\ c.body # Body(form)
    BY <1>5 DEF Dropped
<1>6. CASE c.body = Body(form) /\ x \in Sent(form)
    <2>1. c.body[x] = form.now[x]
        BY <1>1, <1>6 DEF Body
    <2>2. ~(page = "regions" /\ x = "rest" /\ c.st # "image done")
        BY <1>2, <2>1, PageAssumption DEF Ended, HasImage
    <2>3. c.took[x] = c.body[x] \/ (page = "users" /\ x = "rest" /\ c.took.name = "admin")
        BY <1>1, <1>2, <1>3, <2>1, <2>2 DEF Took
    <2> QED BY <2>1, <2>3 DEF Dropped
<1>7. CASE c.body = Body(form) /\ x \notin Sent(form)
    <2>1. c.body[x] = Keep
        BY <1>1, <1>7 DEF Body
    <2>2. CASE s = "create"
        <3>1. form.now[x] = None
            BY <1>1, <1>7, <2>2, SentFields DEF Filled
        <3> QED BY <1>1, <1>3, <2>1, <2>2, <3>1 DEF Took
    <2>3. CASE s = "edit" /\ page \in {"users", "devices"}
        BY <1>1, <1>7, <2>3, SentFields
    <2>4. CASE page = "schedules"
        BY <1>1, <1>7, <2>4, SentFields DEF Filled, Dropped
    <2>5. CASE page = "regions"
        <3>1. form.now[x] = None
            BY <1>1, <1>7, <2>5, SentFields DEF Filled
        <3>2. form.seen.rest = None /\ form.now.name # None
            BY <2>5 DEF FormInv, SavesItsRow
        <3> QED BY <1>1, <3>1, <3>2 DEF Field
    <2> QED BY <1>1, <2>2, <2>3, <2>4, <2>5
<1> QED BY <1>4, <1>5, <1>6, <1>7

(* A step that ends a save, and closes its form, ends it well.             *)
LEMMA ClosedWhenEnded ==
    ASSUME FormInv, Next, NEW s \in {"create", "edit"}, form.mode = s, form.saving,
           call'[s] = NoCall, form' = Closed
    PROVE  Ended(s)
<1> USE DEF Slot
<1>1. TypeOK /\ Busy(s) /\ s \in Slot
    BY DEF FormInv, ShowsWhatItSent
<1>2. ~GoesOn(s)
    BY <1>1 DEF GoesOn, Busy, NoCall
<1>3. call' # call /\ form' # form /\ NoCall.st = "idle"
    BY <1>1 DEF Busy, NoCall, Closed
<1>4. CASE UserStep
    <2>1. ASSUME NEW r \in Row \cup {None}, Submit(r) PROVE FALSE
        BY <1>1, <2>1 DEF Submit, Loading, SameModal
    <2>2. ASSUME NEW r \in Row, Ask(r) \/ Confirm(r) PROVE FALSE
        BY <1>3, <2>2 DEF Ask, Confirm
    <2> QED BY <1>3, <1>4, <2>1, <2>2
            DEF UserStep, OpenCreate, Dismiss, Withdraw, OpenEdit, Type
<1>5. CASE ServerStep
    BY <1>1, <1>2, <1>5, GoesOnStep DEF ServerStep
<1>6. CASE PageStep
    <2>1. ASSUME SucceedUnlisted PROVE Ended(s)
        <3>1. CASE s = "edit"
            BY <2>1, <3>1 DEF SucceedUnlisted, Ended
        <3>2. CASE s = "create"
            <4>1. call'[s].st = Waiters[s].st
                BY <1>1, <2>1, <3>2 DEF SucceedUnlisted, Waiters, Woken, TypeOK
            <4>2. call[s] \in CallRec
                BY <1>1 DEF TypeOK
            <4> QED BY <1>1, <1>3, <4>1, <4>2 DEF Waiters, Woken, Busy, CallRec
        <3> QED BY <3>1, <3>2
    <2>2. ASSUME NEW q \in Slot, Finish(q) \/ Report(q) PROVE Ended(s)
        <3>1. q = s
            BY <1>1, <1>3, <2>2 DEF Finish, Report, TypeOK, Busy
        <3>2. CASE Finish(q)
            BY <3>1, <3>2 DEF Finish, Ended
        <3>3. CASE Report(q)
            <4>1. form'.mode = form.mode
                BY <1>1, <3>3 DEF Report, TypeOK, FormRec
            <4> QED BY <4>1 DEF Closed
        <3> QED BY <2>2, <3>2, <3>3
    <2> QED BY <1>1, <1>2, <1>6, <2>1, <2>2, GoesOnStep DEF PageStep
<1> QED BY <1>4, <1>5, <1>6 DEF Next

(* Of any rows and values: a form that its own call closes showed what was *)
(* stored, but for what is Dropped.                                        *)
THEOREM SavesWhatItShows == Spec => SavedAsShown
<1>1. ASSUME FormInv, Next, NEW s \in {"create", "edit"}, form.mode = s, form.saving,
             call'[s] = NoCall, form' = Closed, NEW x \in Edited(form)
      PROVE  call[s].took[x] = form.now[x] \/ Dropped(form, x, call[s])
    BY <1>1, ClosedWhenEnded, EndedIsSaved
<1>2. FormInv /\ [Next]_vars =>
          [\A s \in {"create", "edit"} :
              form.mode = s /\ form.saving /\ call'[s] = NoCall /\ form' = Closed =>
                  \A x \in Edited(form) :
                      call[s].took[x] = form.now[x] \/ Dropped(form, x, call[s])]_vars
    BY <1>1
<1> QED BY FormInvariance, <1>2, PTL DEF Spec, SavedAsShown
=============================================================================
