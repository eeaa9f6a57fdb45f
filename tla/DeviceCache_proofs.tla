-------------------------- MODULE DeviceCache_proofs --------------------------
(***************************************************************************)
(* CacheInv is inductive: every way to give up a fetch, to lift an         *)
(* invalidation or to overwrite a list has its excuse in Followed or lost. *)
(***************************************************************************)
EXTENDS DeviceCache, TLAPS

(* What the API returns for a region is a list.                            *)
LEMMA RowsAreLists ==
    ASSUME TypeOK, NEW r \in Region
    PROVE  Rows(r) \in Lists
BY DEF TypeOK, Rows, Lists, DevicesOf

(* So is a list with one of its devices switched.                          *)
LEMMA SwitchedIsAList ==
    ASSUME NEW l \in Lists, NEW d \in DOMAIN l, NEW on \in BOOLEAN
    PROVE  [l EXCEPT ![d] = on] \in Lists
BY DEF Lists

(* A mutation that is not None and not settling has its region and list.   *)
LEMMA InFlight ==
    ASSUME TypeOK, NEW m \in Slot, mut[m] # None, mut[m].pc # "settling"
    PROVE  mut[m] \in Control
BY DEF TypeOK, Control, Settling

(* Invalidating, and mounting a component, keep the query state typed.     *)
LEMMA InvalidateType ==
    ASSUME TypeOK, NEW R \in SUBSET Region, NEW missed \in SUBSET Region, Invalidate(R, missed)
    PROVE  /\ inv' \subseteq Region /\ lost' \subseteq Region
           /\ fetch' \in [Region -> Lists \cup {None, Asked}]
BY DEF TypeOK, Invalidate, Anew

LEMMA MountType ==
    ASSUME TypeOK, NEW r \in Region, Mount(r)
    PROVE  fetch' \in [Region -> Lists \cup {None, Asked}]
BY DEF TypeOK, Mount

LEMMA TypeStep ==
    ASSUME TypeOK, [Next]_vars
    PROVE  TypeOK'
<1> USE RegionAssumption, NoneAssumption
<1>1. CASE Poll
  BY <1>1 DEF Poll, TypeOK, page
<1>2. CASE Leave
  BY <1>2 DEF Leave, TypeOK
<1>3. CASE Open
  BY <1>3, MountType DEF Open, TypeOK
<1>4. CASE Receive
  BY <1>4, InvalidateType DEF Receive, TypeOK, page
<1>5. ASSUME NEW r \in Region, Serve(r) PROVE TypeOK'
  BY <1>5, RowsAreLists DEF Serve, TypeOK, page
<1>6. ASSUME NEW r \in Region, Deliver(r) PROVE TypeOK'
  BY <1>6 DEF Deliver, TypeOK, page
<1>7. ASSUME NEW r \in Region, FetchFails(r) PROVE TypeOK'
  BY <1>7 DEF FetchFails, TypeOK, page
<1>8. ASSUME NEW r \in Region, Select(r) PROVE TypeOK'
  <2>1. \A m \in Slot : Rerendered(r)[m] \in Control \cup Settling \cup {None}
    BY InFlight DEF Rerendered, TypeOK, Control
  <2>2. mut' \in [Slot -> Control \cup Settling \cup {None}]
    BY <1>8, <2>1 DEF Select, Rerendered
  <2> QED
    BY <1>8, <2>2, MountType DEF Select, TypeOK
<1>9. ASSUME NEW m \in Slot, NEW d \in Device, Toggle(m, d) PROVE TypeOK'
  <2> DEFINE on == ~cache[view][d]
  <2>1. view \in Region /\ cache[view] \in Lists /\ d \in DOMAIN cache[view]
    BY <1>9 DEF Toggle, TypeOK
  <2>2. on \in BOOLEAN
    OBVIOUS
  <2>3. cache' \in [Region -> Lists \cup {None}]
    BY <1>9, <2>1, <2>2, SwitchedIsAList DEF Toggle, TypeOK
  <2>4. mut' \in [Slot -> Control \cup Settling \cup {None}]
    BY <1>9, <2>1, <2>2 DEF Toggle, TypeOK, Control
  <2> QED
    BY <1>9, <2>1, <2>3, <2>4 DEF Toggle, TypeOK
<1>10. ASSUME NEW m \in Slot, Apply(m) PROVE TypeOK'
  <2>1. mut[m] \in Control
    BY <1>10, InFlight DEF Apply, At
  <2> QED
    BY <1>10, <2>1 DEF Apply, Becomes, TypeOK, Control, page
<1>11. ASSUME NEW m \in Slot, Refuse(m) PROVE TypeOK'
  <2>1. mut[m] \in Control
    BY <1>11, InFlight DEF Refuse, At
  <2> QED
    BY <1>11, <2>1 DEF Refuse, Becomes, TypeOK, Control, page
<1>12. ASSUME NEW m \in Slot, Succeed(m) PROVE TypeOK'
  <2>1. mut[m] \in Control
    BY <1>12, InFlight DEF Succeed, At
  <2>2. mut' \in [Slot -> Control \cup Settling \cup {None}]
    BY <1>12, <2>1 DEF Succeed, Settles, TypeOK, Control, Settling
  <2>3. {mut[m].opts} \in SUBSET Region /\ Crossed(m) \in SUBSET Region
    BY <2>1 DEF Crossed, Control
  <2>4. /\ inv' \subseteq Region /\ lost' \subseteq Region
        /\ fetch' \in [Region -> Lists \cup {None, Asked}]
    BY <1>12, <2>3, InvalidateType DEF Succeed
  <2>5. cache' \in [Region -> Lists \cup {None}]
    BY <1>12, <2>1 DEF Succeed, TypeOK, Control
  <2> QED
    BY <1>12, <2>2, <2>4, <2>5 DEF Succeed, TypeOK, page
<1>13. ASSUME NEW m \in Slot, FailControl(m) PROVE TypeOK'
  <2>1. mut[m] \in Control
    BY <1>13, InFlight DEF FailControl, At
  <2>2. mut' \in [Slot -> Control \cup Settling \cup {None}]
    BY <1>13, <2>1 DEF FailControl, Settles, TypeOK, Control, Settling
  <2>3. {mut[m].opts} \in SUBSET Region /\ Crossed(m) \in SUBSET Region
    BY <2>1 DEF Crossed, Control
  <2>4. /\ inv' \subseteq Region /\ lost' \subseteq Region
        /\ fetch' \in [Region -> Lists \cup {None, Asked}]
    BY <1>13, <2>3, InvalidateType DEF FailControl
  <2>5. cache' \in [Region -> Lists \cup {None}]
    BY <1>13, <2>1 DEF FailControl, TypeOK, Control
  <2> QED
    BY <1>13, <2>2, <2>4, <2>5 DEF FailControl, TypeOK, page
<1>14. ASSUME NEW m \in Slot, Settle(m) PROVE TypeOK'
  BY <1>14 DEF Settle, TypeOK
<1>15. ASSUME NEW d \in Device, NEW event \in BOOLEAN, WriteElsewhere(d, event) PROVE TypeOK'
  BY <1>15 DEF WriteElsewhere, TypeOK, page
<1>16. ASSUME NEW r \in Region, Collect(r) PROVE TypeOK'
  BY <1>16 DEF Collect, TypeOK, page
<1>17. CASE UNCHANGED vars
  BY <1>17 DEF vars, TypeOK
<1> QED
  BY <1>1, <1>2, <1>3, <1>4, <1>5, <1>6, <1>7, <1>8, <1>9, <1>10, <1>11, <1>12, <1>13,
     <1>14, <1>15, <1>16, <1>17 DEF Next

------------------------------------------------------------------------------
(* What is followed stays so if nothing of the region changes, or only to  *)
(* more excuses.                                                           *)
LEMMA FollowedStays ==
    ASSUME NEW r \in Region, Followed(r),
           cache'[r] = cache[r], fetch'[r] = fetch[r], Rows(r)' = Rows(r),
           r \in inv => r \in inv', told => told', Pending(r) => Pending(r)'
    PROVE  Followed(r)'
BY DEF Followed, Coming

(* An invalidated region is fetched anew, or will be when it is opened, or *)
(* a fetch goes on and has the rows to bring; if not, they count as lost.  *)
LEMMA InvalidatedFollowed ==
    ASSUME TypeOK, NEW R \in SUBSET Region, NEW missed, Invalidate(R, missed),
           UNCHANGED row, NEW r \in R, r \notin lost'
    PROVE  Followed(r)'
<1>1. CASE Anew(r)
  <2>1. fetch'[r] = Asked
    BY <1>1 DEF Invalidate
  <2> QED BY <2>1 DEF Followed
<1>2. CASE ~Anew(r)
  <2>1. fetch'[r] = fetch[r] /\ r \in inv' /\ fetch[r] \notin Lists \ {Rows(r)}
    BY <1>2 DEF Invalidate
  <2>2. CASE fetch[r] \in {None, Asked}
    BY <2>1, <2>2 DEF Followed
  <2>3. CASE fetch[r] \in Lists
    <3>1. Rows(r)' = fetch'[r] /\ fetch'[r] \in Lists
      BY <2>1, <2>3 DEF Rows
    <3> QED BY <3>1 DEF Followed, Coming
  <2> QED BY <2>1, <2>2, <2>3 DEF TypeOK
<1> QED
  BY <1>1, <1>2

(* Mounting changes a fetch only to one that is asked for.                 *)
LEMMA MountedFollowed ==
    ASSUME TypeOK, NEW x \in Region, Mount(x), UNCHANGED <<row, told, cache, inv, lost>>,
           NEW r \in Region, Followed(r), Pending(r) => Pending(r)'
    PROVE  Followed(r)'
<1>1. CASE fetch'[r] = Asked
  BY <1>1 DEF Followed
<1>2. CASE fetch'[r] = fetch[r]
  BY <1>2, FollowedStays DEF Rows
<1> QED
  BY <1>1, <1>2 DEF Mount, TypeOK

(* Mutations are pending for as long as they are in flight.                *)
LEMMA PendingStays ==
    ASSUME NEW r \in Region, Pending(r),
           \A m \in Slot : mut[m] # None /\ mut[m].pc # "settling" /\ mut[m].region = r
               => mut'[m] # None /\ mut'[m].pc # "settling" /\ mut'[m].region = r
    PROVE  Pending(r)'
BY DEF Pending

(* A write to a device leaves the rows of the other regions alone.         *)
LEMMA OtherRows ==
    ASSUME TypeOK, NEW d \in Device, NEW on, row' = [row EXCEPT ![d] = on],
           NEW r \in Region, r # RegionOf[d]
    PROVE  Rows(r)' = Rows(r)
BY DEF Rows, DevicesOf, TypeOK

LEMMA FollowStep ==
    ASSUME TypeOK, CacheFollows, [Next]_vars
    PROVE  CacheFollows'
<1> SUFFICES ASSUME NEW r \in Region, r \notin lost'
             PROVE  Followed(r)'
  BY DEF CacheFollows
<1> USE RegionAssumption, NoneAssumption
<1>0. r \notin lost => Followed(r)
  BY DEF CacheFollows
<1>1. CASE Poll
  <2>1. CASE r = view
    BY <1>1, <2>1 DEF Poll, Followed, TypeOK
  <2>2. CASE r # view
    BY <1>0, <1>1, <2>2, FollowedStays DEF Poll, Rows, Pending
  <2> QED BY <2>1, <2>2
<1>2. CASE Leave
  BY <1>0, <1>2, FollowedStays DEF Leave, Rows, Pending
<1>3. CASE Open
  BY <1>0, <1>3, MountedFollowed DEF Open, Pending
<1>4. CASE Receive
  BY <1>4, InvalidatedFollowed DEF Receive
<1>5. ASSUME NEW x \in Region, Serve(x) PROVE Followed(r)'
  <2>1. CASE r = x
    <3>1. fetch'[r] = Rows(r)' /\ Rows(r)' \in Lists
      BY <1>5, <2>1, RowsAreLists DEF Serve, TypeOK, Rows
    <3> QED BY <3>1 DEF Followed, Coming
  <2>2. CASE r # x
    BY <1>0, <1>5, <2>2, FollowedStays DEF Serve, Rows, Pending, TypeOK
  <2> QED BY <2>1, <2>2
<1>6. ASSUME NEW x \in Region, Deliver(x) PROVE Followed(r)'
  <2>0. Followed(r) /\ Rows(r)' = Rows(r) /\ (Pending(r) => Pending(r)')
    BY <1>0, <1>6 DEF Deliver, Rows, Pending
  <2>1. CASE r = x
    <3>1. Coming(r)' = Coming(r)
      BY <1>6, <2>1 DEF Deliver, Coming, TypeOK
    <3>2. Coming(r) \in {None, Rows(r)} \/ told \/ Pending(r)
      BY <1>6, <2>0, <2>1 DEF Deliver, Followed
    <3> QED BY <1>6, <2>0, <3>1, <3>2 DEF Deliver, Followed
  <2>2. CASE r # x
    BY <1>6, <2>0, <2>2, FollowedStays DEF Deliver
  <2> QED BY <2>1, <2>2
<1>7. ASSUME NEW x \in Region, FetchFails(x) PROVE Followed(r)'
  BY <1>0, <1>7, FollowedStays DEF FetchFails, Rows, Pending
<1>8. ASSUME NEW x \in Region, Select(x) PROVE Followed(r)'
  <2>1. Pending(r) => Pending(r)'
    <3>1. \A m \in Slot : mut[m] # None /\ mut[m].pc # "settling" =>
              mut'[m] # None /\ mut'[m].pc = mut[m].pc /\ mut'[m].region = mut[m].region
      <4> SUFFICES ASSUME NEW m \in Slot, mut[m] # None, mut[m].pc # "settling"
                   PROVE  mut'[m] # None /\ mut'[m].pc = mut[m].pc
                              /\ mut'[m].region = mut[m].region
        OBVIOUS
      <4>1. mut[m] \in Control
        BY InFlight
      <4>2. [mut[m] EXCEPT !.opts = x] \in Control
        BY <4>1 DEF Control
      <4>3. mut'[m] \in {mut[m], [mut[m] EXCEPT !.opts = x]}
        BY <1>8 DEF Select, Rerendered
      <4> QED BY <4>1, <4>2, <4>3 DEF Control
    <3> QED BY <3>1, PendingStays
  <2> QED BY <1>0, <1>8, <2>1, MountedFollowed DEF Select
<1>9. ASSUME NEW m \in Slot, NEW d \in Device, Toggle(m, d) PROVE Followed(r)'
  <2>0. mut'[m] \in Control /\ mut'[m].pc = "sent" /\ mut'[m].region = view
    <3>1. view \in Region /\ cache[view] \in Lists
      BY <1>9 DEF Toggle, TypeOK
    <3> QED BY <1>9, <3>1 DEF Toggle, Control, TypeOK
  <2>1. CASE r = view
    <3>1. Pending(r)'
      BY <2>0, <2>1 DEF Pending
    <3> QED BY <3>1 DEF Followed
  <2>2. CASE r # view
    <3>1. Pending(r) => Pending(r)'
      BY <1>9, PendingStays DEF Toggle, TypeOK
    <3> QED BY <1>0, <1>9, <2>2, <3>1, FollowedStays DEF Toggle, Rows
  <2> QED BY <2>1, <2>2
<1>10. ASSUME NEW m \in Slot, Apply(m) PROVE Followed(r)'
  <2>1. mut[m] \in Control /\ mut[m].pc # "settling"
    BY <1>10, InFlight DEF Apply, At
  <2>2. mut' = [mut EXCEPT ![m] = [mut[m] EXCEPT !.pc = "ok"]] /\ mut'[m] # None
    <3>1. [mut[m] EXCEPT !.pc = "ok"] \in Control
      BY <2>1 DEF Control
    <3> QED BY <1>10, <3>1 DEF Apply, Becomes, TypeOK
  <2>3. Pending(r) => Pending(r)'
    BY <2>1, <2>2, PendingStays DEF TypeOK, Control
  <2>4. CASE r = mut[m].region
    BY <1>10, <2>1, <2>3, <2>4 DEF Followed, Pending, Apply, At
  <2>5. CASE r # mut[m].region
    <3>1. Rows(r)' = Rows(r)
      BY <1>10, <2>1, <2>5, OtherRows DEF Apply, Control
    <3> QED BY <1>0, <1>10, <2>3, <3>1, FollowedStays DEF Apply
  <2> QED BY <2>4, <2>5
<1>11. ASSUME NEW m \in Slot, Refuse(m) PROVE Followed(r)'
  <2>1. mut[m] \in Control
    BY <1>11, InFlight DEF Refuse, At
  <2>2. mut' = [mut EXCEPT ![m] = [mut[m] EXCEPT !.pc = "error"]] /\ mut'[m] # None
    <3>1. [mut[m] EXCEPT !.pc = "error"] \in Control
      BY <2>1 DEF Control
    <3> QED BY <1>11, <3>1 DEF Refuse, Becomes, TypeOK
  <2>3. Pending(r) => Pending(r)'
    BY <2>1, <2>2, PendingStays DEF TypeOK, Control
  <2> QED BY <1>0, <1>11, <2>3, FollowedStays DEF Refuse, Rows
<1>12. ASSUME NEW m \in Slot, mut[m] \in Control, Settles(m),
              Invalidate({mut[m].opts}, Crossed(m)), UNCHANGED <<row, told>>,
              \A x \in Region \ {mut[m].opts} : cache'[x] = cache[x]
       PROVE  Followed(r)'
  <2>0. mut[m].opts \in Region
    BY <1>12 DEF Control
  <2>1. CASE r = mut[m].opts
    BY <1>12, <2>0, <2>1, InvalidatedFollowed
  <2>2. CASE r # mut[m].opts
    <3>1. r # mut[m].region
      BY <1>12, <2>2 DEF Invalidate, Crossed
    <3>2. Pending(r) => Pending(r)'
      BY <1>12, <3>1, PendingStays DEF Settles, TypeOK
    <3>3. r \notin lost /\ fetch'[r] = fetch[r] /\ (r \in inv => r \in inv')
      BY <1>12, <2>2 DEF Invalidate
    <3> QED BY <1>0, <1>12, <2>2, <3>2, <3>3, FollowedStays DEF Rows
  <2> QED BY <2>1, <2>2
<1>13. ASSUME NEW m \in Slot, Succeed(m) PROVE Followed(r)'
  <2>1. mut[m] \in Control
    BY <1>13, InFlight DEF Succeed, At
  <2> QED BY <1>12, <1>13, <2>1 DEF Succeed
<1>14. ASSUME NEW m \in Slot, FailControl(m) PROVE Followed(r)'
  <2>1. mut[m] \in Control
    BY <1>14, InFlight DEF FailControl, At
  <2> QED BY <1>12, <1>14, <2>1 DEF FailControl, TypeOK
<1>15. ASSUME NEW m \in Slot, Settle(m) PROVE Followed(r)'
  <2>1. Pending(r) => Pending(r)'
    BY <1>15, PendingStays DEF Settle, At, TypeOK
  <2> QED BY <1>0, <1>15, <2>1, FollowedStays DEF Settle, Rows
<1>16. ASSUME NEW d \in Device, NEW event \in BOOLEAN, WriteElsewhere(d, event)
       PROVE  Followed(r)'
  <2>1. CASE event
    BY <1>16, <2>1 DEF WriteElsewhere, Followed
  <2>2. CASE ~event
    <3>1. r \notin lost /\ r # RegionOf[d]
      BY <1>16, <2>2 DEF WriteElsewhere
    <3>2. Rows(r)' = Rows(r)
      BY <1>16, <3>1, OtherRows DEF WriteElsewhere
    <3> QED BY <1>0, <1>16, <2>2, <3>1, <3>2, FollowedStays DEF WriteElsewhere, Pending
  <2> QED BY <2>1, <2>2
<1>17. ASSUME NEW x \in Region, Collect(x) PROVE Followed(r)'
  <2>1. CASE r = x
    <3>1. cache'[r] = None /\ fetch'[r] = None
      BY <1>17, <2>1 DEF Collect, TypeOK
    <3> QED BY <3>1 DEF Followed, Coming
  <2>2. CASE r # x
    BY <1>0, <1>17, <2>2, FollowedStays DEF Collect, Rows, Pending, TypeOK
  <2> QED BY <2>1, <2>2
<1>18. CASE UNCHANGED vars
  BY <1>0, <1>18, FollowedStays DEF vars, Rows, Pending
<1> QED
  BY <1>1, <1>2, <1>3, <1>4, <1>5, <1>6, <1>7, <1>8, <1>9, <1>10, <1>11, <1>13, <1>14,
     <1>15, <1>16, <1>17, <1>18 DEF Next

------------------------------------------------------------------------------
(* For any regions, devices and mutations in flight: the list of a region  *)
(* shows its rows or is about to be put right (useDeviceMutations,         *)
(* useDevices and useScheduleNotification together), unless the page was   *)
(* not told of a change, was told while it waited for an answer read       *)
(* before it (of a first load, or of a list not shown), or changed the tab *)
(* under a mutation.                                                       *)
THEOREM CacheIsFollowed == Spec => []CacheInv
<1>1. Init => CacheInv
  BY RegionAssumption DEF Init, CacheInv, TypeOK, CacheFollows, Followed, Coming
<1>2. CacheInv /\ [Next]_vars => CacheInv'
  BY TypeStep, FollowStep DEF CacheInv
<1> QED
  BY <1>1, <1>2, PTL DEF Spec
==============================================================================
