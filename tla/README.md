# Verification of web-relay-controller

TLA+ modules, TLC configurations and TLAPS proofs for the relay controller in
`src/`: a NestJS API (`src/apps/api`) that switches relays behind TCP gateways
for users, for schedules and for a health job; the PostgreSQL schema
(`src/packages/prisma-db`); and the React client (`src/apps/web`).

Everything in the API is a handler that Node's event loop interleaves with all
others at every `await`. No handler that writes uses a transaction or a lock
(lists read their rows and their count in one transaction). Nearly every
question below is of that kind: what a handler read before an `await`, and what
of it is still true after.

Contents: [the system](#the-system), [the modules](#the-modules),
[what the runs show](#what-the-runs-show), [what is proved](#what-is-proved),
[what is not modelled](#what-is-not-modelled), [the plan](#the-plan).

## The system

| component | state | operations | interacts with |
|---|---|---|---|
| DevicesService, DevicesRepository | device rows: endpoint, `isOn`, `isOnline` | create, update, remove, control, sync | RelayService (TCP), regions and schedules (cascade) |
| RelayService | none; one socket per command | setRelay, readRelay, checkOnlineAndRead, testConnection; CONNECT and READ timeouts | SG-3021TIL gateways |
| DeviceOnlineJob | none | every minute: read all rows, check all in parallel, write each result | RelayService, device rows |
| ScheduleRunnerJob | none | every minute: find due schedules, command their devices in parallel, write `isOn`, emit an event | RelayService, schedule and device rows, SseService |
| SchedulesService, SchedulesRepository | schedule rows | create, update, toggle, remove, findActiveToday | device rows |
| SseService, EventsController | open connections | emit, stream | ScheduleRunnerJob, web client |
| AuthTokensService, TokenCleanupJob | refresh-token rows | issue, rotate, reuse detection, logout, nightly cleanup | user rows (cascade, foreign key) |
| AuthService, AuthAttemptService | login-attempt rows | login, isBlocked, recordAttempt | token rows |
| UsersService | user rows: role, region | create, update, remove | token rows (cascade), region rows (SetNull) |
| Access: guards, JwtStrategy, region checks; `AdminRoute`, menus, pages | the claims in a token; the user a page shows | admit or refuse a request; offer or hide it | every controller; user rows, token rotation |
| RegionsService, image service, LocalStorageService | region rows, image files | CRUD, upload, remove | disk, device rows (cascade) |
| Web session (`fetcher`, `tokenStore`, `session-restore`, `auth-store`) | access and refresh token of a page, `refreshPromise` | request, refresh, restore, logout | API, Web Storage |
| Web device cache (`useDevices`, `useDeviceMutations`) | query cache | poll, invalidate, optimistic control and rollback | API |
| Schedule notification (`useScheduleNotification`) | SSE connection | connect, reconnect, invalidate | SseService, device cache, web session |
| Pages and forms (users, devices, schedules, regions) | the list, an open form, a question before a deletion, pending calls | open, type, submit, dismiss, delete, refetch | the API's rows, which others change too |

Hard behaviours, and what makes each component correct:

- **Devices and relays.** The shown state (`isOn`) is a copy of a physical
  contact that is moved by commands, by schedules and by hand. Commands time
  out and may still be carried out; answers are acted on after any delay; rows
  are rewired or deleted under a running handler. Correct means: what is
  written was observed, a deleted device stays deleted, every handler returns,
  and an undisturbed system converges.
- **Refresh tokens.** Rotation is three database calls. Correct means: the old
  token is spent before the next exists, an ended session stays ended, no token
  outlives its user, a reused token ends the user's sessions.
- **Login throttle.** The count precedes a slow check and an insert. Correct
  means: the limit is passed by no more than the logins in flight.
- **Schedule rows.** `update` and `toggle` decide on a row they read earlier.
  Correct means: no field loses an answered request, a schedule keeps a time to
  act on, a toggle turns it.
- **Schedule runner.** The query is by UTC date, the schedule in local time;
  runs may overlap; a crash may hit between the row and the event. Correct
  means: exactly what is due is taken on, and open pages follow.
- **Region images.** A file and the row that names it are written one after the
  other. Correct means: the row's file is there, and no file outlives its row.
- **Access.** What a request may do is decided by the claims in the token, what
  a page offers by the user it got from the login or from `/auth/me`; both were
  copied from a row that others change. Correct means: all three agree until
  the row changes, and the rules on roles and regions hold of the rows.
- **Forms.** A form is filled from a list that ages, may be dismissed while it
  is saved, and is settled by whichever answer comes. Correct means: what was
  typed is what is stored, nobody else's edit is undone, nothing is made twice,
  and the list then shows it.

`PROJECT.json` lists each hazard with its line.

## The modules

Each module is one component, cut at its awaits: a step is what runs between
two of them. `MC<Module>` gives the constants their values for TLC and
`<Module>_proofs` holds the proofs. Operators that begin with the comment
"Mutant of X" are plausible bugs of `X`; every property is known to fail when
one of them takes the place of the operator it names.

**DeviceRelay** is the core: the device rows, the relays, and a `task` per
worker with the program counter of its handler and the row it read (`dev`,
`rel`). Workers are the request slots, which also stand for the relay stage of
schedule tasks, and one per device for the parallel checks of the online job.
`wire` holds commands that are written to a socket and not settled; they
outlive their handler. `witnessed` is a history variable: the states a worker's
relay has had since the handler got its evidence (an `O` answer, or a reading).
`Control`, `Sync`, `Create`, `Update`, `Remove` start handlers; `Send`,
`Execute`, `Lose`, `Answer`, `Fail` are `setRelay`; `Connect`, `Read` and their
failures are `checkOnlineAndRead`; `WriteRow`, `RowGone`, `DatabaseError` the
update; `JobStart`, `JobJoin` the job's `allSettled` barrier; `Crash`, `Drift`,
`Unplug`, `Plug` the environment. Simplifications: the region check of a
handler looks at the token and the URL only, so an admitted request is any
request; a read and the delete that follows it are one step, since ids never
come back; a region's cascade is several `Remove`s.

**Mirror** is what DeviceRelay promises about the shown state, with no handlers,
sockets, timers or crashes: a worker takes a job for a device and notes the
relay its row names at that moment; it sees that relay's state, having moved it
or not; it reports it, if the device still exists; or the job is dropped.
Relays move, devices are registered, rewired and forgotten. DeviceRelay
implements it (`ImplementsMirror`) with `shown` its `isOn` and the jobs read
off the tasks (`jobs`): a handler has a job from its snapshot on, and has seen
its relay once it is `acked`, or waits to `join` or `write`.

**AuthTokens** has a row state per token (unborn, live, revoked, gone), the
users, and per slot the token a handler has read. `Rotate`, `RotateRevoke`,
`RotateIssue` are the three calls of `rotate`. History variables: `session`
(the login a token descends from) and `flushed` (sessions a reuse detection
meant to end). `SerialSpec` is the same system whose clients refresh a session
once at a time, which is what `refreshPromise` in `fetcher.ts` is for.

**LoginThrottle** is one address: its failure rows with the minute and reason
of each, and the logins in flight. Both clocks, the API's (`since`) and the
database's (`createdAt`), are one.

**ScheduleRows** has the rows and, per slot, the body of a request and the data
it will send. A request body is partial (`Keep`). `asked` is a history
variable, and so is `stale`: per handler, the fields of its row that others have
written since it read it.

**ScheduleRunner** has a UTC clock of (day, minute), the rows with their date
ranges and times, and the runs in flight, each with the devices it has still to
command, write or announce. `Local` is the server's wall clock, `OFFSET`
minutes ahead. A minute that turns while the process is down is missed for
good. What a command does on the wire is DeviceRelay's part.

**ScheduleFeed** EXTENDS ScheduleRunner and composes it with `SseService` and
the pages: an event under way to a page (`told`), a page that is to fetch
(`stale`), a fetch whose answer is under way (`fetch`) and the cache (`shown`).
A page starts without data, and an event that finds its first fetch under way
joins it (`JoinFirstFetch`); later ones give the fetch up and start another
(`Refetch`). Other handlers' writes to `isOn` come in as `WriteElsewhere`.
`missed` is a history variable: the pages that since their last fetch have lost
an event or an answer, or had an event too late for their first fetch.

**WebSession** EXTENDS AuthTokens and composes it with the open pages of one
browser. A slot of AuthTokens is a page and the caller in it: `fetcher`,
`restore` (session-restore), `notify` (the hook's own refresh, which does not
share `refreshPromise`), `login`, `logout`; `call` is how far each call is,
and what comes back. `mem`, `sess` and `local` are tokenStore's variable and
the two storages; `local` is shared by all pages. `Load` is what a reload, a
reopened tab and fetcher's `window.location` all do. `MaxServed` bounds the
handlers the API runs at once. `clean` is a history variable: the pages to
which none of these has happened since their login, each of which can cost a
page its session and is marked in the module where it happens:

- two refreshes of the page overlap (fetcher's and the hook's), so that one
  token is sent twice;
- a refresh or a logout is cut short by a reload, or a refresh returns after the
  next login;
- another page writes to a localStorage in use (`tokenStore.set` writes there
  whenever anything is there, also for a login that was not to be kept);
- the token is kept in both storages, or two pages share a session.

**DeviceCache** is the devices page and its query cache: per region a list, an
invalidation mark and the fetch in flight; the mutations of
`useDeviceMutations` with the list they keep for a rollback (`prev`) and the
region whose closures will settle them (`opts`); the tab (`view`) and
DeviceGrid's lock (`held`). React Query is external and modelled from its
documented behaviour as this code uses it: `invalidateQueries` refetches what
is on the page and marks the rest; it gives up a fetch in flight only if the
query is on the page and has a list already, so that a first load is joined
(`Anew`); the answer of a fetch that goes on lifts the mark, however old the
rows it read; a list that nobody shows or fetches is dropped after `gcTime`
(`Collect`), and the next load is a first one again; `setQueryData` lifts the mark; a failed fetch leaves the query invalid; a
mutation in flight is given the options of the last render of its component,
and DeviceGrid is rendered without a `key` for another region. What a sync
writes, and who creates, changes and removes devices, counts as a write from
elsewhere (the forms are EditForms');
`isOnline`, which no command changes, is left out. `lost` is a history
variable: regions with a change the page was not told of (another user's
command, a failed fetch) or was told of only to wait for an answer from before
it (a first load, or a fetch of a tab not shown), which the next poll repairs,
or whose command was settled for another region.

**RegionImages** has the rows' image paths, the files on disk and, per slot, an
upload or a removal with the old path it read and the name of the file it
saved. A name is the region and the millisecond. A save, a delete and a row
write may each fail; a failed or interrupted save may leave a part of the file,
and `LocalStorageService.delete` passes over its errors. Its properties hold
but for named cases, each a history variable: `twice` (names given to two
uploads in one millisecond), `broken` (a handler was cut short, or its row
write failed, after it had deleted the file the row names; the next upload
mends it) and `littered` (regions whose handlers overlapped, failed or died,
and so may have left a file that nobody deletes).

**Users** has the profile (role, region) in each user's row, the regions that
exist, and per slot a handler between its read and its write: `create`,
`update` with the role it read or was sent (`effectiveRole`), `remove` behind
`SELF_DELETE`; and `DropRegion`, the schema's SetNull. Who calls is an admin by
the claims, hence anybody who was one (`granted`), since a demotion ends no
session.

**Access** EXTENDS Users with the sessions: the claims that a login read and
every rotation hands on from the old token, and the user the page shows. Guards
(`RoleAllows`) and services (`RegionAllows`) look at the claims only; the menus,
the routes (`AdminRoute`, `Rendered`) and the calls each page makes (`Asks`) at
the shown user only; `Entitled` is the permission matrix of `src/README.md`.
`late` is a history variable: the row has changed since the login read it. How
tokens are rotated is AuthTokens' part; here a session is live, between the two
writes of a rotation, or ended.

**EditForms** is one of the four pages that edit: the rows, the list and the
fetch that brings it, the modal form (`seen`, what it was opened with, and
`now`, what it shows), the question before a deletion, and per kind of call how
far it is: sent, answered or refused, waiting for the refetch its `onSuccess`
returns, uploading an image. The page's kind is a variable that never changes,
and an operator per kind holds what differs: the inputs that are enabled, what
must be filled in, which fields are sent, whether `onSuccess` awaits the list.
Each kind has two fields, those whose rules differ (a user's role and region, a
schedule's name and times, a region's name and image, any two of a device). A
handler of the server is one step here; how handlers interleave is the other
modules' subject. History variables: `saving` (the pending call is this form's),
`made` (what it has made already), `took` (the row as a call left it), and
`missed` (others changed a row, an answer was lost or an image uploaded: the
list need not show it).

## What the runs show

| run | checks | shows |
|---|---|---|
| relay_handlers | IInv, ObservedBeforeShown, GoneForGood, ImplementsMirror | two handlers and the job on one device, created and deleted under them, with every fault: no timeout, refusal, failed read, late command or crash changes what is shown to something nobody saw, and no late write brings a row back; all of it implements the mirror |
| relay_rewire | Evidence, HandlersReturn, EventuallySynced, ImplementsMirror | a device moved between two relays while handlers hold the old endpoint; every handler returns; without new orders and faults the job makes the shown state true for good; the mirror again, with a relay to mistake for another |
| tokens | IInv, SpentBeforeIssue, LiveHasUser, OverIsFinal | rotation, reuse, logout, cleanup, expiry, deletion and crashes interleaved: two usable tokens never come of one rotation, no token of a deleted user lives on, and a session without a live token gets one again only from a rotation that was past its read by then, one each |
| throttle | ThrottleInv, GuessesBounded | wrong logins in a window, its edges included, are at most LIMIT - 1 plus the logins in flight |
| schedules | FieldInv, LastAskedWins, CheckInv, TimeRequired, TogglesTurn | overlapping partial updates and toggles lose no field; a schedule loses its last time only to an update under which another wrote one of the two; a toggle turns the schedule unless `enabled` was written under it |
| feed | FeedInv, PagesCatchUp, TakesWhatIsDue | the query by UTC date and the check by local time together choose exactly what is due; a page that lost nothing follows the rows through its first load, polls, late answers, events, reconnections, overlapping runs and crashes; one that lost events catches up by polling |
| web | WebInv, CleanPageKeepsSession | two pages that share a localStorage: a page without mishap keeps its session through expiries, rotations, lost replies of others, reloads and restores; and the invariant it is proved by holds |
| web_live | CleanPageKeepsSession, PageNoticesEnd, LogoutEndsSession | one page, with handlers that overlap in the API: a page whose session is over on the server finds its way to the login form; an answered logout has ended the session, unless a refresh came between |
| cache | CacheInv | first loads, optimistic switches, overlapping commands and their rollbacks, events, polls, tab changes and dropped lists: the shown list is right, or about to be put right, unless something was lost |
| images | ImageInv, ImageIsThere, NothingLeftBehind | three uploads and removals of a region in every overlap, with failures, crashes and equal milliseconds: overlap alone never takes a row's image away, and without overlap and failure no file is left behind |
| access | IInv, InStep, RegionlessAdmins, AdminLeft | two user handlers in every overlap, a region deleted under them, and a session through login, rotations and page loads: until its row changes, a live session may do just what the permission matrix says and its pages offer nothing the API refuses; an admin is given a region only by an update that names no role and has read a user's row; the last admin goes only by a PATCH that says so, or by a removal ordered by somebody who has lost the role since |
| forms | FormInv, ListFollows, SavedAsShown, OthersEditsSurvive, NotMadeTwice | each of the four pages, from its first load on, with calls that overlap, forms dismissed and reopened while they are saved, lost answers, cancelled and failed refetches and another admin: what a form shows is stored, what others changed survives, a user or region is not made twice, and the settled list is the rows, but for the cases the properties name |

Several hazards are such that the code does go wrong: two toggles cancel out, a
session outlives reuse detection, two admins remove each other. There the
property says by which step it may happen, of which handler and after which
other, and excludes every other way; the hazard's note in `PROJECT.json` says
what is excused, and what is left over (other devices behind `allSettled`, a
second schedule of a device, schedules and devices made twice or overwritten).

No run expects a violation. Where the code or a comment says more than the code
does, the property states what does hold, and these were met on the way:

- `schema.prisma` calls `isOn` the relay's current state. Two handlers that
  write in the other order than their commands leave it wrong until the job's
  next minute; `ImplementsMirror` and `EventuallySynced` are what holds.
- `relay.service.ts` says a gateway takes one command at a time. Nothing
  serialises them.
- Two refreshes of one token at once give two live tokens (`rotate` reads, then
  revokes without looking again); `SingleFlightSuffices` is what holds. A
  rotation past its read survives reuse detection and a logout, and brings back
  one token; `OverIsFinal` says that no other rotation begins then.
- The nightly cleanup deletes revoked rows whose tokens still verify; using one
  is then `TOKEN_INVALID` and not a reuse.
- `auth.controller.ts` says a logout revokes the refresh token. If the access
  token has expired, the request waits for fetcher's refresh and is then
  repeated with the body it had: it names the token that the refresh has
  replaced, and the session lives on. `LogoutEndsSession` excludes just that.
- The fifteen minutes of the throttle slide: five failures block until the
  first of the five is fifteen minutes old, and refusals count as failures.
- Two overlapping updates may each clear the time the other relies on. That,
  an update under which another wrote one of the times, is the one way a
  schedule comes to be without (`TimeRequired`).
- A comment of `useScheduleNotification.ts` says that an event refreshes isOn
  in the device list. While the list is loading for the first time it does not:
  the invalidation joins the load, whose answer may be from before the event,
  and the list stays behind until the next poll. So does the list
  of any page on which a row is created before it has come, until it is fetched
  again.
- If the tab is changed while a command is pending, the other region is
  invalidated, and rolled back to this region's list, and this one keeps the
  optimistic switch until its next poll (`useDeviceMutations.ts` says that a
  command ends in the server's state).
- An upload deletes the old image before the row names the new one: if the row
  cannot be written, the region is left with the name of a deleted file.
- A changed role, region or password ends no session: claims lag behind the row
  until the next login, while `/auth/me` shows the new row at once. Two admins
  who remove each other leave none. A region's deletion leaves its users without
  one, which a comment of `DevicesPage.tsx` says cannot be.
- `LoginPage` sends everybody to `/regions`, and `AdminRoute` a user who is no
  admin from there to `/regions` again: an empty page, until they use the menu.
- A late answer closes, or puts its error into, whichever form is open then. A
  schedule's name cannot be cleared; its form overwrites every field, and what
  is typed while it is saved is lost. A user who was made an admin meanwhile
  loses the region that is being given without a word. A region whose image was
  refused cannot be sent again, for its name is taken. An uploaded image is not
  refetched. A device or schedule whose answer was lost is made twice.

**Bounds.** Two request slots let any two handlers interleave, and every hazard
of DeviceRelay is between two handlers, or a handler and the job; the same
handlers with more slots only repeat the pair. One run of the online job at a
time: a run is bounded by the socket timeouts (8 s) and cron's minute.
`relay_handlers` starts without a device, so that one is created, written and
deleted in the run; `relay_rewire` has two relays on one gateway: that one
gateway answers while another is down is no case of its own, since any attempt
may fail while another succeeds. Three tokens hold a login and two rotations, or two
sessions. The throttle has a limit and a window of two and five rows, enough to
pass the limit with every slot and to let rows leave the window. Schedules have
one time besides NULL: the rule is about having one. The runner has a day of
two minutes, an offset of one, two days (and ranges over three), two runs that may overlap, and rows
that are on at midnight and off then or a minute later, in ranges that end at,
start at or straddle the turn of a day. `web` has two pages, two tokens (two
logins, or one and its rotation), one handler at a time in the API, the overlap
being of the pages (`MaxServed`), and three calls in flight (`MaxCalls`, beside
those of pages that load); `web_live` has one page, all five of its calls in
flight if it likes, and two handlers. `cache` has two regions, one of them without a device, since what matters
of the other is that it is the other; one device, whose list has then two
values; and two commands, which is what leaving the page and opening it again
takes, the tab being changed while one is in flight (`MaxAcross`). `images` has
one region, since handlers of different regions share no file and no row, three
handlers (two uploads and a removal, or a third upload that starts from what the
first left) and three milliseconds. `access` has two users, the least that can
remove each other, two slots, one session, and two regions of which requests
name one (`Named`), the other being where nobody belongs. `forms` has two rows,
so that a form is reopened for another row than the one being saved; two
submits or confirmed deletions (`MaxCalls`), which is what a second form beside
a pending call takes, or a retry; one change by somebody else (`MaxOthers`); an
image is one value, a schedule's name given or not; a user's own row and a
second deletion while one is pending are left out; and the id of a deleted row
may be given out again, which with autoincrement it is not. Behaviours end where ids, rows or minutes run out, hence
`CHECK_DEADLOCK FALSE`; DeviceRelay never stops and is checked for deadlock.

**Fairness.** In DeviceRelay a handler is driven on by the event loop and by
the timers of `sendCommand`, so each worker's next step or failure is weakly
fair; cron starts runs; the network settles a command (delivers or loses it).
No order, fault or repair is fair. In ScheduleFeed the process manager restarts
the API, the promises of a run settle, and a page that polls every 30 s is
answered again and again (strong fairness of `Serve` and `Answer`, since single
fetches may fail for ever otherwise); connecting is not fair, and PagesCatchUp
holds without it. In WebSession every call is settled, by an answer, an error
or a loss; a page acts on what comes back; access tokens expire, after fifteen
minutes; and a page in use asks for something again and again, since the device
pages poll and so meet the 401. The hook's refresh, login, logout and reloads
are not fair.

## What is proved

`tlapm` checks every leaf. The theorems hold for all values of the constants
that satisfy the named ASSUMEs.

- `DeviceRelay_proofs`: `Invariance`, `WritesRestOnEvidence`,
  `ShownOnlyIfObserved`, `DeletionIsFinal`, and `RefinesMirror`: the initial
  states are the mirror's, and under the invariant each step is a step of the
  mirror (a command that is carried out for a handler that still waits is
  `See`, a reading `Look`, `WriteRow` `Report`, an error or a crash `Drop`) or
  changes no job. Evidence is not inductive alone: a
  worker could be handed the answer to a command of an earlier handler in its
  slot. `CommandOfItsSlot` (a command on the wire is its slot's, and what the
  waiting handler asked) and `HeldAtStep` (what a handler knows at each step)
  close the induction. Assumed: slots are no devices, each relay has a gateway.
- `WebSession_proofs`, first about AuthTokens alone: `Invariance`, `NoOrphanSessions`, `RotationSpendsFirst`,
  `SessionsEndForGood`, `SingleFlightSuffices`. `KnownSessions` and
  `KnownTokens` say that handlers work on issued tokens of known sessions;
  `SingleFlightSuffices` is about `SerialSpec`: if clients refresh a session
  once at a time, it has one live token at most; `RotationOwnsSession` (a
  rotation under way is the only one of its session and no other token of it is
  live) carries it. No run checks it.
- `WebSession_proofs`, then about the pages: `PagesAreClients` (composed with
  the pages, the API takes only steps of AuthTokens, so all of the above holds
  of it), `WebInvariance` and `CleanPagesKeepTheirSession`. The property says
  that a clean page's token is not spent; what it takes to keep that is
  `CleanInv`: the storages follow the page (`Stored`), no other page has a token
  of its session and no handler but its own, which it waits for, works on one
  (`Alone`), and
  one refresh at a time is under way, whose token is the session's live one
  until rotate spends it (`Refreshes`). `LoginIsNew` (the token a login brings
  is known to nobody else) is what lets a page become clean; `HeldIsIssued` (no
  page, storage or handler has a token not issued yet) is what makes it new;
  `CallsAreServed` and `PageInStep` tie handlers to calls and calls to the
  state of their page. The proof has a step for each action of a page, each of
  which must leave the other clean pages alone (`PageEffect`), and for each of
  the API, which disturbs one session at most (`ServerEffect`). Assumed: a slot
  is a page and a caller, and `None` is no token. `LogoutsEndSessions` is from
  the same invariant. That the logout's own token is dead when its answer is
  there (`LogoutTold`; no step revives a token, `NeverLiveAgain`) is not enough:
  another token of the session might be live, or be about to be issued. `Sole`
  excludes the first, and is why `CleanInv` goes on while a page logs out, when
  its token may be revoked at any moment (`Intact` is what a logout gives up);
  `Alone` excludes the second.
- `ScheduleRows_proofs`: `FieldInvariance`, `NoFieldIsLost`,
  `CheckInvariance`, `CheckKeepsATime`, `UndisturbedTogglesTurn`. `CheckStillHolds`:
  what `update` checked and `toggle` read is still so when they write, but for
  the fields that others have written under them (`stale`). The last two hold
  however many handlers overlap: of two toggles the first turns the schedule,
  and an update keeps a time unless one of the two was written under it.
- `ScheduleFeed_proofs`: `RunsTakeWhatIsDue` rests on the lemma that the query
  by UTC date loses nothing of the local date when the wall clock is up to a
  day ahead of UTC. West of UTC it would lose the last day of a range; the
  repository only names Asia/Seoul, in a comment of `schedule-runner.job.ts`,
  and sets TZ nowhere. `FeedIsFollowed` is inductive as it stands: every way of
  losing an event or an answer is in `missed`, and a fetch that was answered
  before a row was written is undone by the event that follows the row, unless
  it is the page's first, when the event counts as missed.
- `DeviceCache_proofs`: `CacheIsFollowed`. `CacheInv` is inductive, too; the
  argument is by who will put a list right: a command in flight (`Pending`),
  whose end invalidates; the fetch that the invalidation starts, or the mark it
  leaves; and `lost` for a fetch that goes on with rows from before it, a first
  load or one off the page, whose answer lifts the mark. Assumed:
  `None` and `Asked` are no lists, regions or mutations.
- `RegionImages_proofs`: `ImageInvariance`, `ImagesExist`, `UploadsLeaveNoLitter`. `Fresh` (what
  is saved and not in a row yet is on disk and known to its handler alone, or
  its name was given twice) carries the first: nobody deletes it before the row
  names it. `Tidy` (a region that is not littered has one handler, which knows
  the row's image and has deleted it by the time it writes) carries the second.
  Assumed: there is a region, and `None` is no file.
- `Access_proofs`: `Invariance`, `SessionsInStep`, `AdminsStayRegionless`,
  `LastAdminIsKept`. `Follows` (claims and the shown user are the row's until it
  changes, and a live session has a row) carries the first, with two lemmas
  about pure operators: guards and services together are the permission matrix
  (`ChecksAreTheMatrix`), and pages offer only what they admit
  (`PagesOfferWhatIsAdmitted`). `JobsRegular` (what a handler will write obeys
  the rule on regions for the role it knows, and its caller has been an admin)
  carries the second and the third: an update that writes a region for an admin
  names no role and has read a user's row, and who removes the last admin is
  another, who has lost the role since. Assumed:
  requests name regions (`NamedAssumption`), and the values for nothing and for
  a field left out are neither users, regions, roles nor profiles
  (`ValueAssumption`, `ProfileAssumption`).
- `Access_proofs`, then about LoginThrottle: `ThrottleInvariance`,
  `GuessesAreBounded`. The bound is on the guesses of a closed window, counted by
  their age not by the query, and fails if the query's edge moves in. A row and a login past the check are counted together: a
  rejected login turns one into the other, and a check admits only below the
  limit.
- `EditForms_proofs`: `FormInvariance`, `ListsFollow`, `SavesWhatItShows`,
  `OthersEditsStay`, `NothingMadeTwice`. An answer is about what was typed and
  read long before it, so `FormInv` keeps what relates the two: a form that
  waits for its own call shows what that call carries, but on the schedules
  page, whose inputs stay enabled (`ShowsWhatItSent`); the call is for the row
  the form was opened for (`SavesItsRow`); and a call that was carried out left
  in its row what it named, but for the region of an admin and an image not
  there yet (`TookWhatWasSent`). The first and the third give `SavedAsShown`,
  the first two `OthersEditsSurvive`: a field that is not edited is not sent and
  `Patch` keeps it. `NotMadeTwice` rests on what the server looks up before it
  inserts, an id that has no row and a name that is free. `ListFollows` is of a
  page at rest and inductive only with `FetchFollows`: a fetch that was read
  before a call was carried out is cancelled when that call succeeds
  (`Invalidated`), or, as the page's first, counts as `missed`, and until then
  the call is still `done`. Assumed: the page is
  one of the four, the bounds are numbers, and `None` and `Keep` are no row,
  value or name (`PageAssumption`, `BoundsAssumption`, `NoneAssumption`).

Only model-checked: the liveness properties `HandlersReturn`, `EventuallySynced`,
`PagesCatchUp` and `PageNoticesEnd` (fairness and ENABLED are out of reach of the
prover). Every invariant and every action property of the runs, and the
refinement, is a theorem. That `SerialSpec`, of `SingleFlightSuffices`, is what
the pages do is not proved as a refinement: two refreshes of one page may
overlap, and `CleanInv` is what holds of a page where they do not.

## What is not modelled

Signatures, hashes and password checks (a token is its own identity, a password
is right or wrong); wording of messages; pagination and listing; layout; the
parsing of the SSE stream and its heartbeats; image bytes and their preparation
in the browser; DTO validation beyond which fields are present; the landing and
error pages, badges and icons; the saved login id; deployment and seed. The
error filter has no state: the error paths that lead to it are the `Fail`,
`RowGone` and `Abort` actions. `isOnline` is in DeviceRelay and left out of
DeviceCache; a name that must be free is looked up before it is written, and a
race there ends at the database's constraint, so EditForms' server has one step
for both.

## The plan

Done: DeviceRelay and Mirror, AuthTokens, LoginThrottle, ScheduleRows,
ScheduleRunner and ScheduleFeed, WebSession, DeviceCache, RegionImages, Users and
Access, EditForms. Left:

1. DeviceCache and EditForms composed: the devices page's forms and its
   optimistic switches share one list.
