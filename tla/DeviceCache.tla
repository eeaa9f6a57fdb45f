----------------------------- MODULE DeviceCache ------------------------------
(***************************************************************************)
(* The devices page of one browser and its query cache, which has a list   *)
(* per region: useDevices polls the selected region, useDeviceMutations    *)
(* switches relays optimistically, rolls back and invalidates, and the     *)
(* schedule events invalidate everything.  How a command comes to be       *)
(* written to the row is in DeviceRelay.                                   *)
(*                                                                         *)
(* The page's hooks are closures over the region they were rendered with.  *)
(* React Query gives a mutation in flight the options of the last render   *)
(* of its component, and DeviceGrid is rendered again for another region.  *)
(***************************************************************************)
EXTENDS Naturals, FiniteSets

CONSTANTS
    Region, Device,
    RegionOf,   \* the region of a device
    Home,       \* the region shown first
    Slot,       \* mutations; a bound on those in flight
    MaxAcross,  \* bounds the mutations in flight when the tab is changed
    None,       \* no list, no fetch, no mutation, no region
    Asked       \* a fetch the API has not answered yet

ASSUME RegionAssumption == RegionOf \in [Device -> Region] /\ Home \in Region

DevicesOf(r) == {d \in Device : RegionOf[d] = r}
Lists == UNION {[DevicesOf(r) -> BOOLEAN] : r \in Region}

VARIABLES
    row,        \* Device.isOn, per device
    told,       \* a schedule event is under way to the page
    view,       \* the selected region, or None when another page is open
    cache,      \* per region, the list in the query cache
    inv,        \* regions whose query is invalidated
    fetch,      \* per region, the fetch in flight: None, Asked or its answer
    mut,        \* the mutations
    held,       \* the mutation behind relayLoadingId
    lost        \* history: regions with a change the page was not told of,
                \* or told of only to wait for an answer from before it,
                \* or whose mutation was settled for another region

vars == <<row, told, view, cache, inv, fetch, mut, held, lost>>
page == <<view, held>>

Control == [pc: {"sent", "ok", "error"}, dev: Device, on: BOOLEAN,
            region: Region,     \* whose list it is about
            opts: Region,       \* whose closures will settle it
            prev: Lists]        \* the list before it
Settling == [pc: {"settling"}, opts: Region]

ASSUME NoneAssumption ==
    /\ None \notin Lists \cup Region \cup Slot \cup Control \cup Settling
    /\ Asked \notin Lists \cup {None}

TypeOK ==
    /\ row \in [Device -> BOOLEAN]
    /\ told \in BOOLEAN
    /\ view \in Region \cup {None}
    /\ cache \in [Region -> Lists \cup {None}]
    /\ inv \subseteq Region
    /\ fetch \in [Region -> Lists \cup {None, Asked}]
    /\ mut \in [Slot -> Control \cup Settling \cup {None}]
    /\ held \in Slot \cup {None}
    /\ lost \subseteq Region

Init ==
    /\ row \in [Device -> BOOLEAN]
    /\ told = FALSE
    /\ view = None
    /\ cache = [r \in Region |-> None]
    /\ inv = {}
    /\ fetch = [r \in Region |-> None]
    /\ mut = [m \in Slot |-> None]
    /\ held = None
    /\ lost = {}

(* The rows of a region, as GET /regions/:id/devices returns them.         *)
Rows(r) == [d \in DevicesOf(r) |-> row[d]]

At(m, pc) == mut[m] # None /\ mut[m].pc = pc
Becomes(m, pc) == mut' = [mut EXCEPT ![m].pc = pc]
Settles(m) ==
    mut' = [mut EXCEPT ![m] = [pc |-> "settling", opts |-> @.opts]]

------------------------------------------------------------------------------
(* React Query.                                                            *)

(* An invalidation fetches r anew if it is on the page.  A fetch in flight *)
(* is given up for it, but only if there is a list: the first is joined.   *)
Anew(r) == r = view /\ (cache'[r] # None \/ fetch[r] = None)

(* invalidateQueries on the regions R.  The answer of a fetch that goes on *)
(* will lift the invalidation, so rows that it read too early are lost.    *)
Invalidate(R, missed) ==
    /\ inv' = inv \cup R
    /\ fetch' = [r \in Region |-> IF r \in R /\ Anew(r) THEN Asked ELSE fetch[r]]
    /\ lost' = lost \cup missed
                   \cup {r \in R : ~Anew(r) /\ fetch[r] \in Lists \ {Rows(r)}}

(* A component that shows r is mounted: it fetches what is not there or is *)
(* invalid, and otherwise only what is older than staleTime.               *)
Mount(r) ==
    IF fetch[r] # None THEN fetch' = fetch
    ELSE \/ fetch' = [fetch EXCEPT ![r] = Asked]
         \/ cache[r] # None /\ r \notin inv /\ fetch' = fetch

(* refetchInterval, and window focus.                                      *)
Poll ==
    /\ view # None
    /\ fetch[view] = None
    /\ fetch' = [fetch EXCEPT ![view] = Asked]
    /\ UNCHANGED <<row, told, cache, inv, mut, page, lost>>

Serve(r) ==
    /\ fetch[r] = Asked
    /\ fetch' = [fetch EXCEPT ![r] = Rows(r)]
    /\ lost' = lost \ {r}
    /\ UNCHANGED <<row, told, cache, inv, mut, page>>

Deliver(r) ==
    /\ fetch[r] \in Lists
    /\ cache' = [cache EXCEPT ![r] = fetch[r]]
    /\ fetch' = [fetch EXCEPT ![r] = None]
    /\ inv' = inv \ {r}
    /\ UNCHANGED <<row, told, mut, page, lost>>

(* The fetch and its retry fail; the list stays, as an invalid one.        *)
FetchFails(r) ==
    /\ fetch[r] # None
    /\ fetch' = [fetch EXCEPT ![r] = None]
    /\ inv' = inv \cup {r}
    /\ lost' = lost \cup {r}
    /\ UNCHANGED <<row, told, cache, mut, page>>

------------------------------------------------------------------------------
(* The page: a region tab, leaving for another page, coming back.          *)

(* DeviceGrid's mutation is the one behind its lock.                       *)
Rerendered(r) ==
    [m \in Slot |->
        IF m = held /\ mut[m] # None /\ mut[m].pc # "settling"
            THEN [mut[m] EXCEPT !.opts = r] ELSE mut[m]]

Select(r) ==
    /\ view # None /\ r # view
    /\ Cardinality({m \in Slot : mut[m] # None}) <= MaxAcross
    /\ view' = r
    /\ mut' = Rerendered(r)
    /\ Mount(r)
    /\ UNCHANGED <<row, told, cache, inv, held, lost>>

(* DeviceGrid and its lock are gone; its mutation goes on as it is.        *)
Leave ==
    /\ view # None
    /\ view' = None
    /\ held' = None
    /\ UNCHANGED <<row, told, cache, inv, fetch, mut, lost>>

Open ==
    /\ view = None
    /\ view' = Home
    /\ Mount(Home)
    /\ UNCHANGED <<row, told, cache, inv, mut, held, lost>>

(* gcTime: a list that nobody shows or fetches is dropped.                 *)
Collect(r) ==
    /\ r # view /\ fetch[r] = None /\ cache[r] # None
    /\ cache' = [cache EXCEPT ![r] = None]
    /\ inv' = inv \ {r}
    /\ UNCHANGED <<row, told, page, fetch, mut, lost>>

------------------------------------------------------------------------------
(* useDeviceMutations.                                                     *)

(* handleToggleRelay, and onMutate: the fetch in flight is cancelled, the  *)
(* list is kept for a rollback, and the switch is shown at once.           *)
Toggle(m, d) ==
    /\ view # None /\ held = None /\ mut[m] = None
    /\ cache[view] # None /\ d \in DOMAIN cache[view]
    /\ LET on == ~cache[view][d]
       IN  /\ mut' = [mut EXCEPT ![m] =
                         [pc |-> "sent", region |-> view, opts |-> view,
                          dev |-> d, on |-> on, prev |-> cache[view]]]
           /\ cache' = [cache EXCEPT ![view][d] = on]
    /\ fetch' = [fetch EXCEPT ![view] = None]
    /\ inv' = inv \ {view}
    /\ held' = m
    /\ UNCHANGED <<row, told, view, lost>>

(* The API has switched the relay and writes the row; a device of another  *)
(* region is not found.                                                    *)
Apply(m) ==
    /\ At(m, "sent")
    /\ RegionOf[mut[m].dev] = mut[m].region
    /\ row' = [row EXCEPT ![mut[m].dev] = mut[m].on]
    /\ Becomes(m, "ok")
    /\ UNCHANGED <<told, page, cache, inv, fetch, lost>>

(* The API answers with an error, or the answer is lost.                   *)
Refuse(m) ==
    /\ At(m, "sent") \/ At(m, "ok")
    /\ Becomes(m, "error")
    /\ UNCHANGED <<row, told, page, cache, inv, fetch, lost>>

(* The region left as it is, if m is settled for another than its own.     *)
Crossed(m) == {mut[m].region} \ {mut[m].opts}

(* onSuccess and onSettled.                                                *)
Succeed(m) ==
    /\ At(m, "ok")
    /\ UNCHANGED <<row, told, page, cache>>
    /\ Invalidate({mut[m].opts}, Crossed(m))
    /\ Settles(m)

(* Mutant of FailControl: invalidate as onSuccess, not as onSettled.       *)
FailUnsettled(m) ==
    /\ At(m, "error")
    /\ cache' = [cache EXCEPT ![mut[m].opts] = mut[m].prev]
    /\ Settles(m)
    /\ lost' = lost \cup Crossed(m)
    /\ UNCHANGED <<row, told, page, inv, fetch>>

(* onError and onSettled: the list goes back to what it was, and is        *)
(* invalidated.                                                            *)
FailControl(m) ==
    /\ At(m, "error")
    /\ cache' = [cache EXCEPT ![mut[m].opts] = mut[m].prev]
    /\ Invalidate({mut[m].opts}, Crossed(m))
    /\ Settles(m)
    /\ UNCHANGED <<row, told, page>>

(* The refetch that the mutation waits for is over, or given up.           *)
Settle(m) ==
    /\ At(m, "settling")
    /\ fetch[mut[m].opts] = None
    /\ mut' = [mut EXCEPT ![m] = None]
    /\ held' = IF held = m THEN None ELSE held
    /\ UNCHANGED <<row, told, view, cache, inv, fetch, lost>>

------------------------------------------------------------------------------
(* The row is written by the schedule runner, whose event is about all     *)
(* regions if it comes, or by anybody else, the page's own sync included.  *)
WriteElsewhere(d, event) ==
    /\ row' = [row EXCEPT ![d] = ~@]
    /\ told' = (told \/ event)
    /\ lost' = IF event THEN lost ELSE lost \cup {RegionOf[d]}
    /\ UNCHANGED <<page, cache, inv, fetch, mut>>

Receive ==
    /\ told
    /\ told' = FALSE
    /\ UNCHANGED <<row, page, cache, mut>>
    /\ Invalidate(Region, {})

Next ==
    \/ Poll \/ Leave \/ Open \/ Receive
    \/ \E r \in Region :
           Serve(r) \/ Deliver(r) \/ FetchFails(r) \/ Collect(r) \/ Select(r)
    \/ \E m \in Slot, d \in Device : Toggle(m, d)
    \/ \E m \in Slot : Apply(m) \/ Refuse(m) \/ Succeed(m) \/ FailControl(m) \/ Settle(m)
    \/ \E d \in Device, event \in BOOLEAN : WriteElsewhere(d, event)

Spec == Init /\ [][Next]_vars

------------------------------------------------------------------------------
(* A mutation that will still invalidate its list, or has to.              *)
Pending(r) ==
    \E m \in Slot : mut[m] # None /\ mut[m].pc # "settling" /\ mut[m].region = r

(* What the list of r is going to be, as things stand.                     *)
Coming(r) == IF fetch[r] \in Lists THEN fetch[r] ELSE cache[r]

Followed(r) ==
    \/ Coming(r) \in {None, Rows(r)}
    \/ r \in inv /\ fetch[r] = None
    \/ fetch[r] = Asked
    \/ told
    \/ Pending(r)

(* A region's list shows the rows, or is going to be put right without     *)
(* waiting for the next poll, through optimistic switches, rollbacks of    *)
(* overlapping mutations, fetches cancelled or given up and late answers;  *)
(* unless something was lost (a first load, or one of a tab not shown, was *)
(* joined too late), or the tab was changed under a mutation.              *)
CacheFollows == \A r \in Region \ lost : Followed(r)

CacheInv == TypeOK /\ CacheFollows
==============================================================================
