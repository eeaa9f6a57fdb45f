------------------------------ MODULE WebSession ------------------------------
(***************************************************************************)
(* The open pages of one browser as clients of AuthTokens: tokenStore, the *)
(* refreshes of fetcher, of session-restore and of useScheduleNotification *)
(* (which does not share fetcher's refreshPromise), login and logout.      *)
(* Requests and replies may be lost, a page may be reloaded or closed and  *)
(* opened again at any time, and all pages share one localStorage.         *)
(*                                                                         *)
(* A slot of AuthTokens is a page and the caller in it; it serves one call *)
(* after the other.                                                        *)
(***************************************************************************)
EXTENDS AuthTokens

CONSTANTS
    Page,
    MaxServed,  \* bounds the handlers the API runs at once
    MaxCalls    \* bounds the calls in flight when the browser makes another

Refresher == {"fetcher", "restore", "notify"}
Caller == Refresher \cup {"login", "logout"}

ASSUME SlotsAssumption == Request = Page \X Caller
ASSUME BoundsAssumption == MaxServed \in Nat /\ MaxCalls \in Nat

VARIABLES
    mem,        \* tokenStore's refreshToken, per page
    fresh,      \* pages whose accessToken is there and not expired
    sess,       \* rrctrl_rt in the page's sessionStorage
    local,      \* rrctrl_rt in the localStorage of the browser
    user,       \* pages whose AuthContext has a user
    call,       \* the call of each caller, and what comes back
    clean       \* history: pages to which no mishap has happened since
                \* their login (see Mishap)

store == <<mem, fresh, sess, local>>
wvars == <<vars, store, user, call, clean>>

CallState == {"idle", "sent", "served", "answered", "failed", "lost", "me"}
NoCall == [pc |-> "idle", tok |-> None]

WebTypeOK ==
    /\ TypeOK
    /\ mem \in [Page -> Token \cup {None}]
    /\ fresh \subseteq Page
    /\ sess \in [Page -> Token \cup {None}]
    /\ local \in Token \cup {None}
    /\ user \subseteq Page
    /\ call \in [Request -> [pc: CallState, tok: Token \cup {None}]]
    /\ clean \subseteq Page

WebInit ==
    /\ Init
    /\ mem = [p \in Page |-> None]
    /\ fresh = {}
    /\ sess = [p \in Page |-> None]
    /\ local = None
    /\ user = {}
    /\ call = [q \in Request |-> NoCall]
    /\ clean = {}

At(q, pc) == call[q].pc = pc
Refreshing(p) == \E c \in Refresher : ~At(<<p, c>>, "idle")
LoggingOut(p) == ~At(<<p, "logout">>, "idle")

(* The API takes another request.                                          *)
Accepts == Cardinality({q \in Request : ~Idle(q)}) < MaxServed

(* The browser makes another call.                                         *)
Makes == Cardinality({q \in Request : ~At(q, "idle")}) <= MaxCalls

Comes(q, pc, t) == call' = [call EXCEPT ![q] = [pc |-> pc, tok |-> t]]
Returns(q) == call' = [call EXCEPT ![q] = NoCall]

------------------------------------------------------------------------------
(* tokenStore.                                                             *)

(* Mutant of Set: the storages keep the token of the login.                *)
SetMemoryOnly(p, t) ==
    /\ mem' = [mem EXCEPT ![p] = t]
    /\ fresh' = fresh \cup {p}
    /\ UNCHANGED <<sess, local>>

(* set: the token replaces the one in localStorage, if there is one there  *)
(* (whoever put it there), or else the one in sessionStorage.              *)
Set(p, t) ==
    /\ mem' = [mem EXCEPT ![p] = t]
    /\ fresh' = fresh \cup {p}
    /\ local' = IF local # None THEN t ELSE None
    /\ sess' = IF local = None /\ sess[p] # None THEN [sess EXCEPT ![p] = t] ELSE sess

Clear(p) ==
    /\ mem' = [mem EXCEPT ![p] = None]
    /\ fresh' = fresh \ {p}
    /\ sess' = [sess EXCEPT ![p] = None]
    /\ local' = None

(* Writing to a localStorage in use is a mishap for the other pages, and   *)
(* for a page that has its own token in sessionStorage.                    *)
CleanAfterSet(p) ==
    IF local = None THEN clean ELSE IF sess[p] = None THEN clean \cap {p} ELSE {}

CleanAfterClear(p) == IF local = None THEN clean \ {p} ELSE {}

------------------------------------------------------------------------------
(* The page is loaded, with s in its sessionStorage: everything in memory  *)
(* is gone, calls are abandoned, and session-restore refreshes what the    *)
(* storages hold.                                                          *)
Load(p, s, l) ==
    LET rt == IF s # None THEN s ELSE l
    IN  /\ Idle(<<p, "restore">>)
        /\ mem' = [mem EXCEPT ![p] = rt]
        /\ fresh' = fresh \ {p}
        /\ sess' = [sess EXCEPT ![p] = s]
        /\ local' = l
        /\ user' = user \ {p}
        /\ call' = [q \in Request |->
                       IF q[1] # p THEN call[q]
                       ELSE IF q[2] = "restore" /\ rt # None
                            THEN [pc |-> "sent", tok |-> rt] ELSE NoCall]
        \* A mishap: a refresh or a logout is cut short, or two pages share a
        \* session.
        /\ clean' = {x \in clean :
                        IF x = p THEN /\ ~Refreshing(p) /\ ~LoggingOut(p)
                                      /\ s = sess[p] /\ l = local
                        ELSE l = local /\ (rt = None \/ session[mem[x]] # session[rt])}
        /\ UNCHANGED vars

Reload(p) == Load(p, sess[p], local)
Reopen(p) == sess[p] # None /\ Load(p, None, local)

(* A call goes out; its slot has finished with the one before.             *)
Send(p, c, t) ==
    /\ At(<<p, c>>, "idle")
    /\ Idle(<<p, c>>)
    /\ Makes
    /\ Comes(<<p, c>>, "sent", t)

(* The access token has expired, and requests of a page in use, or its GET *)
(* /events, come back with 401.  (A 401 that comes back late, after the    *)
(* token was replaced, is the expiry of the new one.)  fetcher makes one   *)
(* refresh for all of them, refreshPromise: its caller is not idle.        *)
FetcherRefresh(p) ==
    /\ p \in user \/ At(<<p, "restore">>, "me")
    /\ p \notin fresh /\ mem[p] # None
    /\ Send(p, "fetcher", mem[p])
    /\ clean' = IF Refreshing(p) THEN clean \ {p} ELSE clean
    /\ UNCHANGED <<vars, store, user>>

(* The hook refreshes by itself.                                           *)
NotifyRefresh(p) ==
    /\ p \in user
    /\ p \notin fresh /\ mem[p] # None
    /\ Send(p, "notify", mem[p])
    /\ clean' = IF Refreshing(p) THEN clean \ {p} ELSE clean
    /\ UNCHANGED <<vars, store, user>>

(* fetcher goes to /login.  The storages are cleared if fetcher did, and   *)
(* if session-restore or the logout waits for it, which do when it throws. *)
Leave(p, cleared) ==
    IF cleared \/ At(<<p, "restore">>, "me") \/ LoggingOut(p)
        THEN Load(p, None, None)
        ELSE Reload(p)

(* Mutant of FetcherLeaves: the request fails and the page stays.          *)
FetcherStays(p) ==
    /\ p \in user /\ p \notin fresh /\ mem[p] = None
    /\ UNCHANGED wvars

(* A 401, and there is no refresh token.                                   *)
FetcherLeaves(p) ==
    /\ p \in user \/ At(<<p, "restore">>, "me")
    /\ p \notin fresh /\ mem[p] = None
    /\ At(<<p, "fetcher">>, "idle")
    /\ Leave(p, FALSE)

------------------------------------------------------------------------------
(* POST /auth/refresh reaches the API: rotate, to the end of its read.     *)
Arrive(q) ==
    /\ q[2] \in Refresher /\ At(q, "sent") /\ Accepts
    /\ LET t == call[q].tok
       IN  \/ (Rotate(q, t) \/ RotateReused(q, t)) /\ Comes(q, "served", t)
           \/ /\ st[t] = "gone" \/ t \in expired
              /\ Comes(q, "failed", t)
              /\ UNCHANGED vars
    /\ UNCHANGED <<store, user, clean>>

(* Mutant of ArriveLogout: the token is not looked for.                    *)
ArriveLogoutOnly(p) ==
    /\ At(<<p, "logout">>, "sent") /\ p \in fresh /\ Accepts
    /\ Comes(<<p, "logout">>, "answered", call[<<p, "logout">>].tok)
    /\ UNCHANGED <<vars, store, user, clean>>

(* POST /auth/logout reaches the API, with an access token: before that it *)
(* waits for fetcher's refresh, and comes back with the same body.         *)
ArriveLogout(p) ==
    LET q == <<p, "logout">>
        t == call[q].tok
    IN  /\ At(q, "sent") /\ p \in fresh /\ Accepts
        /\ \/ Logout(q, t) /\ Comes(q, "served", t)
           \/ st[t] # "live" /\ Comes(q, "answered", t) /\ UNCHANGED vars
        /\ UNCHANGED <<store, user, clean>>

(* What the API replies, if the page still waits for it.                   *)
Reply(q, pc, t) == IF At(q, "served") THEN Comes(q, pc, t) ELSE UNCHANGED call

Serve(q) ==
    /\ \/ RotateRevoke(q) /\ UNCHANGED call
       \/ \E t \in Token : (LoginIssue(q, t) \/ RotateIssue(q, t)) /\ Reply(q, "answered", t)
       \/ LogoutRevoke(q) /\ Reply(q, "answered", call[q].tok)
       \/ RevokeAll(q) /\ Reply(q, "failed", call[q].tok)
       \/ Abort(q) /\ Reply(q, "failed", call[q].tok)
    /\ UNCHANGED <<store, user, clean>>

(* The request, or what came back, is lost and fetch rejects: only fetcher *)
(* makes a difference between that and an error from the API.              *)
Lose(q) ==
    LET pc == IF q[2] = "fetcher" THEN "lost" ELSE "failed"
    IN  /\ call[q].pc \in {"sent", "answered", "failed"} \ {pc}
        /\ Comes(q, pc, call[q].tok)
        /\ UNCHANGED <<vars, store, user, clean>>

------------------------------------------------------------------------------
(* A refresh returns to fetcher or to the hook; session-restore goes on to *)
(* GET /auth/me.                                                           *)
Refreshed(p, c) ==
    /\ At(<<p, c>>, "answered")
    /\ Set(p, call[<<p, c>>].tok)
    /\ IF c = "restore" THEN Comes(<<p, c>>, "me", None) ELSE Returns(<<p, c>>)
    /\ clean' = CleanAfterSet(p)
    /\ UNCHANGED <<vars, user>>

(* fetcher's refresh is refused, and the tokens are cleared; or it never   *)
(* came back, and they are kept.                                           *)
FetcherFails(p) ==
    /\ call[<<p, "fetcher">>].pc \in {"failed", "lost"}
    /\ Leave(p, At(<<p, "fetcher">>, "failed"))

(* The hook clears the tokens and stops; the page stays.                   *)
NotifyFails(p) ==
    /\ At(<<p, "notify">>, "failed")
    /\ Clear(p)
    /\ Returns(<<p, "notify">>)
    /\ clean' = CleanAfterClear(p)
    /\ UNCHANGED <<vars, user>>

(* session-restore: /auth/refresh failed, or /auth/me did.                 *)
RestoreFails(p) ==
    /\ call[<<p, "restore">>].pc \in {"failed", "me"}
    /\ Clear(p)
    /\ Returns(<<p, "restore">>)
    /\ clean' = CleanAfterClear(p)
    /\ UNCHANGED <<vars, user>>

Restored(p) ==
    /\ At(<<p, "restore">>, "me")
    /\ p \in fresh
    /\ Returns(<<p, "restore">>)
    /\ user' = user \cup {p}
    /\ UNCHANGED <<vars, store, clean>>

------------------------------------------------------------------------------
(* The login form, shown once the session is found not to be restored.     *)
SubmitLogin(p, u) ==
    /\ p \notin user
    /\ At(<<p, "restore">>, "idle") /\ At(<<p, "login">>, "idle")
    /\ Accepts /\ Makes
    /\ Login(<<p, "login">>, u)
    /\ Comes(<<p, "login">>, "served", None)
    /\ UNCHANGED <<store, user, clean>>

(* setAuth, then persist or persistSession.                                *)
LoggedIn(p, keep) ==
    LET t == call[<<p, "login">>].tok
    IN  /\ At(<<p, "login">>, "answered")
        /\ mem' = [mem EXCEPT ![p] = t]
        /\ fresh' = fresh \cup {p}
        /\ sess' = [sess EXCEPT ![p] = IF keep THEN None ELSE t]
        /\ local' = IF keep \/ local # None THEN t ELSE None
        /\ user' = user \cup {p}
        /\ Returns(<<p, "login">>)
        \* A mishap: an older refresh is still to return, or the token of
        \* this session is kept in both storages.
        /\ clean' = (IF local # None THEN {} ELSE clean \ {p})
                    \cup (IF Refreshing(p) \/ (~keep /\ local # None) THEN {} ELSE {p})
        /\ UNCHANGED <<vars>>

LoginFails(p) ==
    /\ At(<<p, "login">>, "failed")
    /\ Returns(<<p, "login">>)
    /\ UNCHANGED <<vars, store, user, clean>>

StartLogout(p) ==
    /\ p \in user /\ mem[p] # None
    /\ Send(p, "logout", mem[p])
    /\ UNCHANGED <<vars, store, user, clean>>

(* clearAuth, whatever the API answered; at once without a refresh token.  *)
LoggedOut(p) ==
    /\ \/ call[<<p, "logout">>].pc \in {"answered", "failed"}
       \/ p \in user /\ mem[p] = None /\ At(<<p, "logout">>, "idle")
    /\ Clear(p)
    /\ user' = user \ {p}
    /\ Returns(<<p, "logout">>)
    /\ clean' = CleanAfterClear(p)
    /\ UNCHANGED <<vars>>

------------------------------------------------------------------------------
AccessExpires(p) ==
    /\ p \in fresh
    /\ fresh' = fresh \ {p}
    /\ UNCHANGED <<vars, mem, sess, local, user, call, clean>>

(* The nightly cleanup, and a session that ends with its user.  (One that  *)
(* ends by age is refused like one whose row is gone.)                     *)
SessionEnds ==
    /\ Purge \/ \E u \in User : DeleteUser(u)
    /\ UNCHANGED <<store, user, call, clean>>

PageStep(p) ==
    \/ FetcherRefresh(p) \/ FetcherLeaves(p) \/ NotifyRefresh(p)
    \/ \E c \in Refresher : Refreshed(p, c)
    \/ FetcherFails(p) \/ NotifyFails(p) \/ RestoreFails(p) \/ Restored(p)
    \/ \E keep \in BOOLEAN : LoggedIn(p, keep)
    \/ LoginFails(p) \/ LoggedOut(p) \/ ArriveLogout(p)

CallStep(q) == Arrive(q) \/ Serve(q) \/ Lose(q)

WebNext ==
    \/ \E p \in Page :
        \/ PageStep(p)
        \/ (\E u \in User : SubmitLogin(p, u)) \/ StartLogout(p)
        \/ Reload(p) \/ Reopen(p) \/ AccessExpires(p)
    \/ \E q \in Request : CallStep(q)
    \/ SessionEnds

WebSpec == WebInit /\ [][WebNext]_wvars

------------------------------------------------------------------------------
(* A page to which no mishap has happened keeps its session, through       *)
(* expiries, rotations, reloads and restores: its storages agree with its  *)
(* memory, it sends the token it has, that token has not been used, and no *)
(* other token of the session is live.  Only reuse detection provoked by   *)
(* others (flushed), cleanup, the end of the user and a logout take it     *)
(* away.                                                                   *)
KeepsSession(p) ==
    LET t == mem[p]
        s == session[t]
    IN  /\ t # None
        /\ sess[p] \in {None, t}
        /\ sess[p] = None => local \in {None, t}
        /\ \A c \in Refresher : At(<<p, c>>, "sent") => call[<<p, c>>].tok = t
        /\ (\A c \in Refresher : call[<<p, c>>].pc \in {"idle", "me", "sent"}) =>
               /\ s \notin flushed => st[t] # "revoked"
               /\ \A x \in Token : st[x] = "live" /\ session[x] = s => x = t

CleanPageKeepsSession == \A p \in clean : LoggingOut(p) \/ KeepsSession(p)

(* Why it does (WebInv, inductive).  Every token that a page, a call or a  *)
(* handler has was issued.                                                 *)
Issued(t) == t # None => st[t] # "unborn"

HeldIsIssued ==
    /\ \A x \in Page : Issued(mem[x]) /\ Issued(sess[x])
    /\ Issued(local)
    /\ \A q \in Request : Issued(call[q].tok) /\ Issued(task[q].tok)

(* A call is served while its handler runs; a handler whose call is idle   *)
(* was abandoned by its page.  What is sent, and what comes back, has a    *)
(* token.                                                                  *)
Serves(c, h) ==
    /\ c = "login" => h.pc = "loginIssue"
    /\ c = "logout" => h.pc = "logoutRevoke"
    /\ c \in Refresher => h.pc \in {"rotateRevoke", "rotateIssue", "revokeAll"}

CallsAreServed ==
    \A q \in Request :
        /\ ~Idle(q) => Serves(q[2], task[q]) /\ call[q].pc \in {"idle", "served"}
        /\ At(q, "served") => ~Idle(q) /\ task[q].tok = call[q].tok
        /\ Idle(q) => task[q].tok = None
        /\ call[q].pc \in {"sent", "answered"} => call[q].tok # None

PageInStep ==
    \A x \in Page :
        /\ ~At(<<x, "login">>, "idle") => x \notin user /\ At(<<x, "restore">>, "idle")
        /\ ~At(<<x, "restore">>, "idle") => x \notin user
        /\ LoggingOut(x) => x \in user

(* No token of session s but t is live; and it counts.                     *)
Sole(t, s) ==
    /\ session[t] = s
    /\ \A x \in Token : st[x] = "live" /\ session[x] = s => x = t

Intact(t, s) == Sole(t, s) /\ (s \notin flushed => st[t] # "revoked")

OfSession(t, s) == t # None /\ session[t] = s

(* Page x and its calls in C have no token of session s.                   *)
Away(x, C, s) ==
    /\ ~OfSession(mem[x], s) /\ ~OfSession(sess[x], s)
    /\ \A c \in Caller : ~OfSession(task[<<x, c>>].tok, s)
    /\ \A c \in C : ~OfSession(call[<<x, c>>].tok, s)

(* The token t that a login has brought to page p is new to everybody.     *)
IsNew(p, t) ==
    /\ Intact(t, t)
    /\ ~OfSession(local, t)
    /\ Away(p, Caller \ {"login"}, t)
    /\ \A x \in Page \ {p} : Away(x, Caller, t)

LoginIsNew ==
    \A p \in Page : At(<<p, "login">>, "answered") => IsNew(p, call[<<p, "login">>].tok)

(* A clean page is alone with its session, refreshes it once at a time,    *)
(* and its storages follow, also while it logs out; but its token may then *)
(* have been revoked.                                                      *)
Alone(p) ==
    LET s == session[mem[p]]
    IN  /\ \A x \in Page \ {p} : Away(x, Caller, s)
        /\ \A c \in Caller : OfSession(task[<<p, c>>].tok, s) =>
               c # "login" /\ At(<<p, c>>, "served")
        /\ \A c, d \in Refresher : ~At(<<p, c>>, "idle") /\ ~At(<<p, d>>, "idle") => c = d

Stored(p) ==
    /\ mem[p] # None
    /\ sess[p] \in {None, mem[p]}
    /\ sess[p] = None => local = mem[p]

Refreshes(p) ==
    LET t == mem[p]
        s == session[t]
    IN  /\ \A c \in Refresher :
               /\ call[<<p, c>>].pc \in {"sent", "served"} => call[<<p, c>>].tok = t
               /\ At(<<p, c>>, "answered") =>
                      /\ Sole(call[<<p, c>>].tok, s)
                      /\ LoggingOut(p) \/ Intact(call[<<p, c>>].tok, s)
        /\ (\A c \in Refresher : call[<<p, c>>].pc \in {"idle", "me", "sent", "served"}) =>
               /\ Sole(t, s)
               /\ ~LoggingOut(p) /\ s \notin flushed /\ st[t] = "revoked" =>
                      \E c \in Refresher : task[<<p, c>>].pc = "rotateIssue"
                                           /\ task[<<p, c>>].tok = t

CleanInv == \A p \in clean : Stored(p) /\ Alone(p) /\ Refreshes(p)

(* The token of a logout that was answered is live no longer.              *)
LogoutTold ==
    \A p \in Page :
        At(<<p, "logout">>, "answered") => st[call[<<p, "logout">>].tok] # "live"

WebInv == WebTypeOK /\ IInv /\ HeldIsIssued /\ CallsAreServed /\ PageInStep
          /\ LoginIsNew /\ CleanInv /\ LogoutTold

(* Node and the network settle every call, a page acts on what comes back, *)
(* access tokens live 15 minutes, and a page in use asks for something     *)
(* again and again (the device pages poll).                                *)
WebFairness ==
    /\ \A q \in Request : WF_wvars(CallStep(q))
    /\ \A p \in Page :
        /\ WF_wvars(AccessExpires(p))
        /\ WF_wvars(FetcherRefresh(p)) /\ WF_wvars(FetcherLeaves(p)) /\ WF_wvars(FetcherFails(p))
        /\ WF_wvars(NotifyFails(p))
        /\ WF_wvars(\E c \in Refresher : Refreshed(p, c))

FairWebSpec == WebSpec /\ WebFairness

(* A page in use whose session is over on the server does not stay open    *)
(* for ever, showing what it cannot refresh: it goes to the login form.    *)
Stranded(p) == p \in user /\ (mem[p] = None \/ Over(session[mem[p]]))

PageNoticesEnd == \A p \in Page : Stranded(p) ~> ~Stranded(p)

(* A logout that the API has answered has ended the session of a page to   *)
(* which no mishap has happened, unless a refresh is under way or has      *)
(* replaced the token it names: fetcher's, for which the request waits     *)
(* when the access token has expired and which leaves it the body it had,  *)
(* or the hook's.                                                          *)
LogoutEndsSession ==
    [][\A p \in Page :
        LET q == <<p, "logout">>
        IN  (/\ p \in clean /\ ~Refreshing(p)
             /\ LoggedOut(p) /\ At(q, "answered") /\ call[q].tok = mem[p])
                => Over(session[mem[p]])]_wvars
==============================================================================
