------------------------------ MODULE Sessions ------------------------------
(***************************************************************************)
(* Refresh sessions of one account: the documents of the server            *)
(* (authController), the cookie that all tabs of a browser share, and in   *)
(* every tab the sign-in state (authSlice) and the queue of requests that  *)
(* wait for a new access token (api.ts).                                   *)
(*                                                                         *)
(* A refresh replaces the session of the cookie by a new one of the same   *)
(* family, in three writes with other handlers in between.  One that finds *)
(* its session replaced already takes it for a replay and gives the whole  *)
(* family up.  The client asks for one when an answer is 401 and when a    *)
(* page loads; on any failure it signs out.  A tab that is signed out asks *)
(* too: App posts its push subscription on every change of the sign-in, and *)
(* the 401 leads a refresh.  It is refused when there is no cookie; when   *)
(* there is one, the tab is signed in.                                     *)
(*                                                                         *)
(* Left out: the expiry of a session after thirty days, the passwords, and *)
(* the keys of LoginPage (a login may succeed and not sign in).  An access *)
(* token may run out at any time; the server asks nothing else of it.  The *)
(* sign-out button calls no endpoint.                                      *)
(***************************************************************************)
EXTENDS Integers, Sequences, FiniteSets

CONSTANTS
  Tabs,
  Requests,     \* bound: requests of the tabs, each made once
  TabOf,        \* the tab of each request
  Slots,        \* bound: numbers of logins and refreshes under way
  MaxSessions,  \* bound: sessions and calls that may create one
  MaxFaults     \* bound: lost answers, failed writes, reloads during a refresh

ASSUME RequestsAssumption == TabOf \in [Requests -> Tabs]
ASSUME TabsAssumption == "gone" \notin Tabs
ASSUME BoundsAssumption == Slots \subseteq Nat /\ MaxSessions \in Nat /\ MaxFaults \in Nat

VARIABLES
  sessions,    \* the RefreshSession documents
  cookie,      \* the session of the refreshToken cookie, or 0
  hasSession,  \* localStorage, shared like the cookie
  tabs,        \* each tab is out, in, or loading: signed in without a token yet
  requests,    \* phase of each request
  calls,       \* logins and refreshes under way, on either side
  faults,      \* faults so far
  orphans,     \* history: sessions created by a refresh that then failed
  disturbed    \* history: families revoked, or met by a fault or a second refresh

history == <<orphans, disturbed>>
client == <<tabs, requests, hasSession, cookie>>
vars == <<sessions, client, calls, faults, history>>

Idle == [kind |-> "none", tab |-> "none", lead |-> "none", pc |-> "idle",
         from |-> 0, new |-> 0, out |-> FALSE]
RefreshKinds == {"silent", "bootstrap"}

Family(s) == IF s = 0 THEN 0 ELSE sessions[s].family
Usable(s) == ~sessions[s].used /\ ~sessions[s].revoked
Revoked(f) == [s \in DOMAIN sessions |->
  IF sessions[s].family = f THEN [sessions[s] EXCEPT !.revoked = TRUE] ELSE sessions[s]]

(* A refresh of this tab; isRefreshing is set while there is a silent one. *)
Under(c, kind, t) == calls[c].kind = kind /\ calls[c].tab = t
\* Mutant: the flag is not looked at.
NeverRefreshing(t) == FALSE
Refreshing(t) == \E c \in Slots : Under(c, "silent", t)

Init ==
  /\ sessions = <<>> /\ cookie = 0 /\ hasSession = FALSE
  /\ tabs = [t \in Tabs |-> "out"]
  /\ requests = [r \in Requests |-> "new"]
  /\ calls = [c \in Slots |-> Idle]
  /\ faults = 0 /\ orphans = {} /\ disturbed = {}

Fault == faults < MaxFaults /\ faults' = faults + 1
Disturb(F) == disturbed' = disturbed \cup (F \ {0})

------------------------------------------------------------------------------
(* The client.                                                             *)

(* loginSuccess and logout, with the access token kept in api.ts. *)
SignIn(t) == tabs' = [tabs EXCEPT ![t] = "in"] /\ hasSession' = TRUE
SignOut(t) == tabs' = [tabs EXCEPT ![t] = "out"] /\ hasSession' = FALSE

(* Slots have no meaning of their own: the first free one is taken. *)
Free(c) == calls[c] = Idle /\ \A d \in Slots : d < c => calls[d] # Idle

(* A call sends the cookie of the moment.  History: whether its tab was     *)
(* signed out; and its family is disturbed when another tab, or the other   *)
(* kind of refresh, is at work on it.                                       *)
Start(c, kind, t, r) ==
  LET from == IF kind = "login" THEN 0 ELSE cookie
      creating == {d \in Slots : calls[d].pc \in {"sent", "found"}}
  IN  /\ Free(c) /\ Len(sessions) + Cardinality(creating) < MaxSessions
      /\ calls' = [calls EXCEPT ![c] =
           [kind |-> kind, tab |-> t, lead |-> r, pc |-> "sent", from |-> from, new |-> 0,
            out |-> tabs[t] = "out"]]
      /\ Disturb({Family(from) : d \in {d \in Slots :
                    calls[d].kind \in RefreshKinds /\ calls[d].from = from /\ ~Under(d, kind, t)}})

Login(c, t) ==
  /\ tabs[t] = "out" /\ \A d \in Slots : ~Under(d, "login", t)
  /\ Start(c, "login", t, "none")
  /\ UNCHANGED <<sessions, client, faults, orphans>>

(* The button of Sidebar. *)
Logout(t) ==
  /\ tabs[t] # "out"
  /\ SignOut(t)
  /\ UNCHANGED <<sessions, cookie, requests, calls, faults, history>>

(* The message of revokeUser, which comes some time after a revocation, or *)
(* never when the socket of the tab is down.                               *)
Revoking == \E s \in DOMAIN sessions : sessions[s].revoked
ForceDisconnect(t) ==
  /\ tabs[t] # "out" /\ Revoking
  /\ SignOut(t)
  /\ UNCHANGED <<sessions, cookie, requests, calls, faults, history>>

(* A page loads again: what it was doing goes on at the server alone, and   *)
(* the start of App asks for a token when there was a sign-in.              *)
Reload(t) ==
  LET mine == {d \in Slots : calls[d].tab = t}
      left == [d \in Slots |-> IF d \in mine THEN [calls[d] EXCEPT !.tab = "gone"] ELSE calls[d]]
  IN  /\ IF mine = {} THEN UNCHANGED faults ELSE Fault
      /\ tabs' = [tabs EXCEPT ![t] = IF hasSession THEN "loading" ELSE "out"]
      /\ requests' = [r \in Requests |->
           IF TabOf[r] = t /\ requests[r] # "new" THEN "over" ELSE requests[r]]
      /\ calls' = left
      /\ Disturb({Family(calls[d].from) : d \in mine})
      /\ UNCHANGED <<sessions, cookie, hasSession, orphans>>

(* The effect of App on mount. *)
Bootstrap(c, t) ==
  /\ hasSession /\ tabs[t] = "loading"
  /\ \A d \in Slots : ~Under(d, "bootstrap", t)
  /\ Start(c, "bootstrap", t, "none")
  /\ UNCHANGED <<sessions, client, faults, orphans>>

(* A request goes out; without a token while the page is loading, whose     *)
(* first request is the refresh of Bootstrap, and when the tab is signed    *)
(* out: the push subscription, on mount and after a sign-out.               *)
Send(r) ==
  /\ requests[r] = "new"
  /\ tabs[TabOf[r]] = "loading" => \E c \in Slots : Under(c, "bootstrap", TabOf[r])
  /\ requests' = [requests EXCEPT ![r] = IF tabs[TabOf[r]] = "in" THEN "sent" ELSE "bare"]
  /\ UNCHANGED <<sessions, tabs, hasSession, cookie, calls, faults, history>>

(* It is answered, or fails for good: the leader's second try is also given *)
(* up on a 401.                                                             *)
Serve(r) ==
  /\ requests[r] \in {"sent", "bare", "resent"}
  /\ requests' = [requests EXCEPT ![r] = "over"]
  /\ UNCHANGED <<sessions, tabs, hasSession, cookie, calls, faults, history>>

(* The answer is 401, there being no token or one that has run out: the    *)
(* request waits for the refresh under way, or leads one.                  *)
Unauthorized(r) == requests[r] \in {"sent", "bare"}
Queue(r) ==
  /\ Unauthorized(r) /\ Refreshing(TabOf[r])
  /\ requests' = [requests EXCEPT ![r] = "queued"]
  /\ UNCHANGED <<sessions, tabs, hasSession, cookie, calls, faults, history>>

Lead(c, r) ==
  /\ Unauthorized(r) /\ ~Refreshing(TabOf[r])
  /\ requests' = [requests EXCEPT ![r] = "leading"]
  /\ Start(c, "silent", TabOf[r], r)
  /\ UNCHANGED <<sessions, tabs, hasSession, cookie, faults, orphans>>

(* processQueue, and the leader. *)
\* Mutant: the queue is left alone when the refresh fails.
SettledOnce(c, first, others) == [r \in Requests |->
  CASE r = calls[c].lead -> first
    [] Under(c, "silent", TabOf[r]) /\ requests[r] = "queued" /\ others # "over" -> others
    [] OTHER -> requests[r]]
Settled(c, first, others) == [r \in Requests |->
  CASE r = calls[c].lead -> first
    [] Under(c, "silent", TabOf[r]) /\ requests[r] = "queued" -> others
    [] OTHER -> requests[r]]

(* The answer to a refresh arrives. *)
Refreshed(c) ==
  /\ calls[c].kind \in RefreshKinds /\ calls[c].tab \in Tabs /\ calls[c].pc = "ok"
  /\ cookie' = calls[c].new
  /\ SignIn(calls[c].tab)
  /\ requests' = Settled(c, "resent", "sent")
  /\ calls' = [calls EXCEPT ![c] = Idle]
  /\ UNCHANGED <<sessions, faults, history>>

NotRefreshed(c) ==
  /\ calls[c].kind \in RefreshKinds /\ calls[c].tab \in Tabs /\ calls[c].pc \in {"refused", "cleared"}
  /\ cookie' = IF calls[c].pc = "cleared" THEN 0 ELSE cookie
  /\ SignOut(calls[c].tab)
  /\ requests' = Settled(c, "over", "over")
  /\ calls' = [calls EXCEPT ![c] = Idle]
  /\ UNCHANGED <<sessions, faults, history>>

(* The answer to a login; LoginPage may still find no key it can open. *)
LoggedIn(c) ==
  /\ calls[c].kind = "login" /\ calls[c].tab \in Tabs /\ calls[c].pc \in {"ok", "refused"}
  /\ \/ calls[c].pc = "ok" /\ cookie' = calls[c].new /\ SignIn(calls[c].tab)
     \/ calls[c].pc = "ok" /\ cookie' = calls[c].new /\ UNCHANGED <<tabs, hasSession>>
     \/ calls[c].pc = "refused" /\ UNCHANGED <<cookie, tabs, hasSession>>
  /\ calls' = [calls EXCEPT ![c] = Idle]
  /\ UNCHANGED <<sessions, requests, faults, history>>

(* The connection breaks: the client takes it for a failure, the server    *)
(* goes on, and the cookie of its answer may still reach the browser.      *)
Lose(c) ==
  /\ Fault /\ calls[c].kind \in RefreshKinds /\ calls[c].tab \in Tabs
  /\ SignOut(calls[c].tab)
  /\ requests' = Settled(c, "over", "over")
  /\ calls' = [calls EXCEPT ![c].tab = "gone"]
  /\ Disturb({Family(calls[c].from)})
  /\ UNCHANGED <<sessions, cookie, orphans>>

Unheard(c) ==
  /\ calls[c].tab = "gone" /\ calls[c].pc \in {"ok", "refused", "cleared"}
  /\ cookie' \in {cookie} \cup (CASE calls[c].pc = "ok" -> {calls[c].new}
                                  [] calls[c].pc = "cleared" -> {0}
                                  [] OTHER -> {})
  /\ calls' = [calls EXCEPT ![c] = Idle]
  /\ UNCHANGED <<sessions, tabs, hasSession, requests, faults, history>>

------------------------------------------------------------------------------
(* The server.                                                             *)

Created(family) == Append(sessions, [family |-> family, used |-> FALSE, revoked |-> FALSE])
NextId == Len(sessions) + 1
Step(c, pc) == calls' = [calls EXCEPT ![c].pc = pc]

(* login, and signup for the first session of all: a session of a family   *)
(* of its own.                                                             *)
Issue(c) ==
  /\ calls[c].kind = "login" /\ calls[c].pc = "sent"
  /\ sessions' = Created(NextId)
  /\ calls' = [calls EXCEPT ![c].pc = "ok", ![c].new = NextId]
  /\ UNCHANGED <<client, faults, history>>
HandleSignup(c) == sessions = <<>> /\ Issue(c)
HandleLogin(c) == sessions # <<>> /\ Issue(c)

(* refresh: the session of the cookie is read. *)
Find(c) ==
  /\ calls[c].kind \in RefreshKinds /\ calls[c].pc = "sent"
  /\ IF calls[c].from = 0 THEN Step(c, "refused") ELSE Usable(calls[c].from) /\ Step(c, "found")
  /\ UNCHANGED <<sessions, client, faults, history>>

(* It was replaced or revoked: the family is given up. *)
Replay(c) ==
  /\ calls[c].kind \in RefreshKinds /\ calls[c].pc = "sent"
  /\ calls[c].from # 0 /\ ~Usable(calls[c].from)
  /\ sessions' = Revoked(Family(calls[c].from))
  /\ Step(c, "cleared")
  /\ UNCHANGED <<client, faults, history>>

(* A new session of the family is created ... *)
CreateNext(c) ==
  /\ calls[c].pc = "found"
  /\ sessions' = Created(Family(calls[c].from))
  /\ calls' = [calls EXCEPT ![c].pc = "created", ![c].new = NextId]
  /\ UNCHANGED <<client, faults, history>>

(* ... and the old one is marked as used, unless somebody else did.        *)
\* Mutant: an update by id alone.
AnyState(s) == TRUE
Unused(s) == ~sessions[s].used
Replace(c) ==
  /\ calls[c].pc = "created"
  /\ IF Unused(calls[c].from)
     THEN sessions' = [sessions EXCEPT ![calls[c].from].used = TRUE] /\ Step(c, "ok")
     ELSE sessions' = Revoked(Family(calls[c].from)) /\ Step(c, "cleared")
  /\ UNCHANGED <<client, faults, history>>

(* A read or a write of the handler throws. *)
FailHandler(c) ==
  /\ Fault /\ calls[c].pc \in {"sent", "found", "created"}
  /\ Step(c, "refused")
  /\ orphans' = orphans \cup ({calls[c].new} \ {0})
  /\ Disturb({Family(calls[c].from)})
  /\ UNCHANGED <<sessions, client>>

(* The handlers that revoke every session, called from elsewhere; only the *)
(* first tells the tabs (resetIdentity does too, in a transaction).        *)
RevokeEvery ==
  /\ \E s \in DOMAIN sessions : Usable(s)
  /\ sessions' = [s \in DOMAIN sessions |-> [sessions[s] EXCEPT !.revoked = TRUE]]
  /\ Disturb({Family(s) : s \in DOMAIN sessions})
  /\ UNCHANGED <<client, calls, faults, orphans>>
LogoutAll == RevokeEvery
ChangePassword == RevokeEvery
ResetPassword == RevokeEvery

(* One session, from the list of sessions or by the logout endpoint.       *)
RevokeOne(s) ==
  /\ Usable(s)
  /\ sessions' = [sessions EXCEPT ![s].revoked = TRUE]
  /\ Disturb({Family(s)})
  /\ UNCHANGED <<client, calls, faults, orphans>>
RevokeSession(s) == RevokeOne(s)
LogoutEndpoint(s) == RevokeOne(s)

------------------------------------------------------------------------------
ServerStep(c) == HandleSignup(c) \/ HandleLogin(c) \/ Find(c) \/ Replay(c) \/ CreateNext(c) \/ Replace(c)
Answered(c) == Refreshed(c) \/ NotRefreshed(c) \/ LoggedIn(c) \/ Unheard(c)

Next ==
  \/ \E t \in Tabs : Logout(t) \/ ForceDisconnect(t) \/ Reload(t)
  \/ \E r \in Requests : Send(r) \/ Serve(r) \/ Queue(r)
  \/ \E c \in Slots :
       \/ \E t \in Tabs : Login(c, t) \/ Bootstrap(c, t)
       \/ \E r \in Requests : Lead(c, r)
       \/ ServerStep(c) \/ Answered(c) \/ Lose(c) \/ FailHandler(c)
  \/ LogoutAll \/ ChangePassword \/ ResetPassword
  \/ \E s \in DOMAIN sessions : RevokeSession(s) \/ LogoutEndpoint(s)

Spec == Init /\ [][Next]_vars

------------------------------------------------------------------------------
(* Of every family at most one session can still be used, however many     *)
(* refreshes overlap: those in the middle of a handler, or left by one     *)
(* that failed, aside.  (The handler creates the new session before it     *)
(* retires the old one.)                                                   *)
OneUsable == \A s1, s2 \in DOMAIN sessions :
  LET settled(s) == Usable(s) /\ s \notin orphans
                      /\ \A c \in Slots : calls[c].pc = "created" => calls[c].new # s
  IN  settled(s1) /\ settled(s2) /\ Family(s1) = Family(s2) => s1 = s2

(* A refresh is refused, and its tab signed out, only in a family that was *)
(* revoked or met a fault, or that a second tab, or the start of the page, *)
(* was refreshing too: the requests of one tab share one refresh.  With no *)
(* cookie at all, the tab was signed out when it asked (App's push         *)
(* subscription), or some refusal has cleared the cookie.                  *)
RefusedForAReason == \A c \in Slots :
  calls[c].kind \in RefreshKinds /\ calls[c].pc \in {"refused", "cleared"} =>
    IF calls[c].from = 0 THEN calls[c].out \/ disturbed # {} ELSE Family(calls[c].from) \in disturbed

(* A request waits only while a refresh of its tab is under way: whatever  *)
(* becomes of that, reloads and lost answers included, nobody is left in    *)
(* the queue of api.ts.                                                     *)
NobodyWaitsInVain == \A r \in Requests :
  requests[r] \in {"queued", "leading"} => \E c \in Slots : Under(c, "silent", TabOf[r])
==============================================================================
