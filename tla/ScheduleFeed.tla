----------------------------- MODULE ScheduleFeed -----------------------------
(***************************************************************************)
(* ScheduleRunner's events on their way to the open pages.  SseService     *)
(* broadcasts to who is connected and keeps nothing; useScheduleNotifica-  *)
(* tion answers an event by invalidating the device queries, which are     *)
(* also polled.  A query's answer shows the rows as the server read them,  *)
(* a while before the page gets it.                                        *)
(***************************************************************************)
EXTENDS ScheduleRunner

CONSTANT Client     \* open pages, each with its query cache

ASSUME NoFetchAssumption == Null \notin [Device -> BOOLEAN]

VARIABLES
    connected,  \* pages whose GET /events is open
    told,       \* pages with an event under way to them
    stale,      \* pages that are to fetch the devices
    fetch,      \* per page, the answer under way, or Null
    shown,      \* per page, Device.isOn as its cache has it, or Null until
                \* the first answer
    missed      \* history: pages that since their last fetch lost an event
                \* or an answer, or had an event too late for their first
                \* fetch, or whose rows others have written

feed == <<connected, told, stale, fetch, shown, missed>>
fvars == <<vars, feed>>

FeedTypeOK ==
    /\ TypeOK
    /\ connected \subseteq Client
    /\ told \subseteq connected
    /\ stale \subseteq Client
    /\ fetch \in [Client -> [Device -> BOOLEAN] \cup {Null}]
    /\ shown \in [Client -> [Device -> BOOLEAN] \cup {Null}]
    /\ missed \subseteq Client

FeedInit ==
    /\ Init
    /\ connected = {}
    /\ told = {}
    /\ stale = {}
    /\ fetch = [c \in Client |-> Null]
    /\ shown = [c \in Client |-> Null]
    /\ missed = {}

------------------------------------------------------------------------------
(* SseService.emit: whoever is not connected will not hear of it.          *)
Broadcast(n, d) ==
    /\ Emit(n, d)
    /\ told' = connected
    /\ missed' = missed \cup (Client \ connected)
    /\ UNCHANGED <<connected, stale, fetch, shown>>

(* Mutant of Receive: the notification is shown and the cache left alone.  *)
ReceiveAndNotify(c) ==
    /\ c \in told
    /\ told' = told \ {c}
    /\ UNCHANGED <<vars, connected, stale, fetch, shown, missed>>

(* invalidateQueries gives up the fetch under way and starts another.      *)
Refetch(c) ==
    /\ stale' = stale \cup {c}
    /\ fetch' = [fetch EXCEPT ![c] = Null]
    /\ UNCHANGED missed

(* The first fetch of a page is not given up: React Query cancels only for *)
(* a query that has data.  It may have read the rows before the event.     *)
JoinFirstFetch(c) ==
    /\ missed' = IF fetch[c] = isOn THEN missed ELSE missed \cup {c}
    /\ UNCHANGED <<stale, fetch>>

Receive(c) ==
    /\ c \in told
    /\ told' = told \ {c}
    /\ IF shown[c] = Null /\ fetch[c] # Null THEN JoinFirstFetch(c) ELSE Refetch(c)
    /\ UNCHANGED <<vars, connected, shown>>

(* Mutant of Serve: no refetchInterval.                                    *)
ServeInvalidated(c) ==
    /\ up
    /\ c \in stale
    /\ fetch[c] = Null
    /\ fetch' = [fetch EXCEPT ![c] = isOn]
    /\ stale' = stale \ {c}
    /\ missed' = missed \ {c}
    /\ UNCHANGED <<vars, connected, told, shown>>

(* The API answers an invalidated query or a poll with the rows as they    *)
(* are.                                                                    *)
Serve(c) ==
    /\ up
    /\ fetch[c] = Null
    /\ fetch' = [fetch EXCEPT ![c] = isOn]
    /\ stale' = stale \ {c}
    /\ missed' = missed \ {c}
    /\ UNCHANGED <<vars, connected, told, shown>>

Answer(c) ==
    /\ fetch[c] # Null
    /\ shown' = [shown EXCEPT ![c] = fetch[c]]
    /\ fetch' = [fetch EXCEPT ![c] = Null]
    /\ UNCHANGED <<vars, connected, told, stale, missed>>

(* The fetch fails with its retry; the cache keeps what it had.            *)
FetchFails(c) ==
    /\ fetch[c] # Null \/ c \in stale
    /\ fetch' = [fetch EXCEPT ![c] = Null]
    /\ stale' = stale \ {c}
    /\ missed' = missed \cup {c}
    /\ UNCHANGED <<vars, connected, told, shown>>

(* Connecting fetches nothing.                                             *)
Connect(c) ==
    /\ up
    /\ c \notin connected
    /\ connected' = connected \cup {c}
    /\ UNCHANGED <<vars, told, stale, fetch, shown, missed>>

(* The connection breaks, with the event on it.                            *)
Disconnect(c) ==
    /\ c \in connected
    /\ connected' = connected \ {c}
    /\ told' = told \ {c}
    /\ missed' = IF c \in told THEN missed \cup {c} ELSE missed
    /\ UNCHANGED <<vars, stale, fetch, shown>>

(* A crash breaks every connection, and the events of rows already written *)
(* are never sent.                                                         *)
CrashFeed ==
    /\ Crash
    /\ connected' = {}
    /\ told' = {}
    /\ missed' = Client
    /\ UNCHANGED <<stale, fetch, shown>>

(* The device handlers write Device.isOn and send no event (DeviceRelay).  *)
WriteElsewhere(d, on) ==
    /\ d \in devices
    /\ isOn' = [isOn EXCEPT ![d] = on]
    /\ missed' = Client
    /\ UNCHANGED <<clock, up, sched, devices, run, connected, told, stale, fetch, shown>>

FeedNext ==
    \/ (Tick \/ RunStep \/ Edits \/ Start) /\ UNCHANGED feed
    \/ \E n \in Run, d \in Device : Broadcast(n, d)
    \/ \E c \in Client :
           Receive(c) \/ Serve(c) \/ Answer(c) \/ FetchFails(c) \/ Connect(c) \/ Disconnect(c)
    \/ CrashFeed
    \/ \E d \in Device, on \in BOOLEAN : WriteElsewhere(d, on)

FeedSpec == FeedInit /\ [][FeedNext]_fvars

------------------------------------------------------------------------------
(* The event of a row just written is still to come.                       *)
ToBeTold(d) == \E n \in Run : At(n, d, "emit")

(* What is going to be shown on page c, as things stand.                   *)
Coming(c) == IF fetch[c] = Null THEN shown[c] ELSE fetch[c]

(* A page that lost nothing shows, or is about to show, what the runner    *)
(* wrote, or it is going to be told: the event follows the row, and undoes *)
(* a fetch that was answered before the row was written.                   *)
PagesFollow ==
    \A c \in Client \ missed, d \in Device :
        \/ Coming(c) = Null \/ Coming(c)[d] = isOn[d]
        \/ c \in told \cup stale \/ ToBeTold(d)

FeedInv == FeedTypeOK /\ PagesFollow

(* PM2 restarts the API, the runner's promises settle, and the API and    *)
(* the network answer a page that polls for ever (refetchInterval) ever    *)
(* again.  No fairness for cron, for users or for connecting.              *)
Fairness ==
    /\ WF_fvars(Start /\ UNCHANGED feed)
    /\ \A n \in Run, d \in Device :
           /\ WF_fvars((Command(n, d) \/ Write(n, d) \/ Fails(n, d)) /\ UNCHANGED feed)
           /\ WF_fvars(Broadcast(n, d))
    /\ \A c \in Client : WF_fvars(Receive(c)) /\ SF_fvars(Serve(c)) /\ SF_fvars(Answer(c))

FairFeedSpec == FeedSpec /\ Fairness

(* Once the rows are left alone, every page comes to show them for good,   *)
(* whatever events it lost or had too early.                               *)
Shows(c, d) == shown[c] # Null /\ shown[c][d] = isOn[d]
PagesCatchUp ==
    \A d \in Device : <>[][UNCHANGED isOn[d]]_isOn => <>[](\A c \in Client : Shows(c, d))
==============================================================================
