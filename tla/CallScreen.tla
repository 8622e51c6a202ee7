----------------------------- MODULE CallScreen -----------------------------
(***************************************************************************)
(* A call as its two clients see it (CallContext, webrtc): the screen, the *)
(* camera and the peer connection of each user, the messages to and from   *)
(* the server, and the server's entries.                                   *)
(*                                                                         *)
(* startCall, acceptCall and handleAccepted are asynchronous: the user     *)
(* may hang up, and other messages may come, while the camera or the ICE   *)
(* servers are awaited.  No message of the server names its call: a client *)
(* that gets one changes whatever call is on its screen.  The listeners    *)
(* read a copy of the screen (callStateRef) that follows after a render.   *)
(* They are attached when the user object changes, and only if there is a  *)
(* socket: on a page just loaded SyncEngine.init makes it later, so that   *)
(* the client hears nothing until its token is refreshed.  The model       *)
(* begins when both sockets are there.                                     *)
(*                                                                         *)
(* The server half is that of Calls with one socket per user, without the  *)
(* log's contents.  Candidates, the kind of call and the mute buttons are  *)
(* left out.  Calls carry a number, which the code does not have, so that  *)
(* "astray" can note the calls that met one of the cases the code does not *)
(* guard against.                                                          *)
(***************************************************************************)
EXTENDS Integers, Sequences, FiniteSets

CONSTANTS
  Users,
  DirectRooms, \* direct message rooms, each the set of its two participants
  Nowhere,
  MaxCalls,   \* bound: calls that are started
  MaxFaults,  \* bound: cameras and connections refused, dropped sockets, failed logs
  FaultyCalls \* bound: calls started before the last fault, or before listeners come

ASSUME DirectRoomsAssumption ==
  /\ \A r \in DirectRooms : r \subseteq Users /\ \E u, v \in Users : u # v /\ r = {u, v}
  /\ Nowhere \notin DirectRooms
ASSUME CallBounds == {MaxCalls, MaxFaults, FaultyCalls} \subseteq Nat

VARIABLES
  screen,       \* callState: status, room, number of the call
  ref,          \* callStateRef.current
  media,        \* webrtcManager.localStream, and every stream that runs
  pc,           \* webrtcManager.peerConnection, with the room its signals go to
  tasks,        \* each client's functions at an await
  up, down,     \* messages to and from the server
  sock,         \* whether the socket is connected
  hears,        \* the users whose listeners are attached
  activeCalls,  \* the server's entry of each user
  jobs,         \* the server's handlers at an await
  calls,        \* calls started so far; numbers them
  faults,
  astray        \* history: calls that met an unguarded case

client == <<screen, ref, media, pc, tasks>>
link == <<sock, hears>>
wire == <<up, down, link>>
serverState == <<activeCalls, jobs>>
screenVars == <<client, wire, serverState, calls, faults, astray>>

NoScreen == [status |-> "idle", room |-> Nowhere, call |-> 0]
NoMedia == [live |-> {}, local |-> 0]
NoConnection == [state |-> "none", room |-> Nowhere, call |-> 0]
NoCall == [status |-> "none", role |-> "none", room |-> Nowhere, call |-> 0]

Other(r, u) == CHOOSE v \in r : v # u
Message(type, r, c) == [type |-> type, room |-> r, call |-> c]

ScreenInit ==
  /\ screen = [u \in Users |-> NoScreen] /\ ref = screen
  /\ media = [u \in Users |-> NoMedia] /\ pc = [u \in Users |-> NoConnection]
  /\ tasks = [u \in Users |-> {}]
  /\ up = [u \in Users |-> <<>>] /\ down = [u \in Users |-> <<>>]
  /\ sock = [u \in Users |-> TRUE] /\ hears = {}
  /\ activeCalls = [u \in Users |-> NoCall] /\ jobs = {}
  /\ calls = 0 /\ faults = 0 /\ astray = {}

(* socket.emit of a client: kept until the socket is connected. *)
Emitted(u, type, r, c) == [up EXCEPT ![u] = Append(@, Message(type, r, c))]

(* getAnySocket(v)?.emit *)
Told(v, type, r, c) ==
  IF sock[v] THEN [down EXCEPT ![v] = Append(@, Message(type, r, c))] ELSE down

(* What is on the screen when something meant for call c comes. *)
Victim(u, c) == {screen[u].call} \ {0, c}
Late(u, c) == screen[u].call # c

(* A message of call c to v is lost. *)
Lost(v, c) == IF sock[v] THEN {} ELSE {c}

Fault == faults < MaxFaults /\ calls <= FaultyCalls /\ faults' = faults + 1

-----------------------------------------------------------------------------
(* What the user does.  The overlay covers the window while a call is on,  *)
(* and a click renders before anything else happens.                       *)

Shows(u, s) == screen' = [screen EXCEPT ![u] = s]
Clicked(u) == ref[u] = screen[u] /\ ref' = [ref EXCEPT ![u] = screen'[u]]

\* Mutant: the stream is forgotten and its tracks go on.
Forgotten(u) == [media EXCEPT ![u].local = 0]
(* stopLocalStream *)
Stopped(u) == [media EXCEPT ![u] = [live |-> @.live \ {@.local}, local |-> 0]]

(* handleEndCall, with the cleanup of the manager. *)
HandleEndCall(u) ==
  /\ Shows(u, NoScreen)
  /\ media' = Stopped(u)
  /\ pc' = [pc EXCEPT ![u] = NoConnection]

Task(kind, at, r, c) == [kind |-> kind, at |-> at, room |-> r, call |-> c]

(* startCall up to the camera. *)
StartCall(u, r) ==
  /\ u \in r /\ screen[u].status = "idle" /\ calls < MaxCalls
  /\ calls' = calls + 1
  /\ Shows(u, [status |-> "calling", room |-> r, call |-> calls'])
  /\ Clicked(u)
  /\ media' = Stopped(u)
  /\ tasks' = [tasks EXCEPT ![u] = @ \cup {Task("start", "media", r, calls')}]
  /\ UNCHANGED <<pc, wire, serverState, faults, astray>>

(* acceptCall up to the camera. *)
AcceptCall(u) ==
  /\ screen[u].status = "incoming"
  /\ Shows(u, [screen[u] EXCEPT !.status = "connected"])
  /\ Clicked(u)
  /\ media' = Stopped(u)
  /\ tasks' = [tasks EXCEPT ![u] =
       @ \cup {Task("accept", "media", screen[u].room, screen[u].call)}]
  /\ UNCHANGED <<pc, wire, serverState, calls, faults, astray>>

(* rejectCall and endCall, one of which the overlay offers. *)
HangUp(u) ==
  /\ screen[u].status # "idle"
  /\ up' = Emitted(u, IF screen[u].status = "incoming" THEN "reject" ELSE "end",
                   screen[u].room, screen[u].call)
  /\ HandleEndCall(u)
  /\ Clicked(u)
  /\ UNCHANGED <<tasks, down, link, serverState, calls, faults, astray>>

-----------------------------------------------------------------------------
(* What the client's functions do after an await, whatever is on the       *)
(* screen by then.                                                         *)

Resumed(u, t, next) == tasks' = [tasks EXCEPT ![u] = (@ \ {t}) \cup next]

(* getUserMedia answers: the caller asks the server for the call. *)
MediaReady(u, t) ==
  /\ t \in tasks[u] /\ t.at = "media"
  /\ media' = [media EXCEPT ![u] = [live |-> @.live \cup {t.call}, local |-> t.call]]
  /\ \/ /\ t.kind = "start"
        /\ up' = Emitted(u, "initiate", t.room, t.call)
        /\ Resumed(u, t, {})
     \/ /\ t.kind = "accept"
        /\ Resumed(u, t, {[t EXCEPT !.at = "ice"]})
        /\ UNCHANGED up
  /\ astray' = astray \cup {c \in {t.call} : Late(u, c)}
                      \cup ({media[u].local} \ {0, t.call})
  /\ UNCHANGED <<screen, ref, pc, down, link, serverState, calls, faults>>

(* getUserMedia throws, or new RTCPeerConnection on the address of a TURN   *)
(* server that is none, after the cleanup.  acceptCall rejects the call;   *)
(* handleAccepted tells nobody that the screen is closed.                  *)
TaskThrows(u, t) ==
  /\ Fault
  /\ t \in tasks[u] /\ t.at \in {"media", "ice"}
  /\ up' = IF t.kind = "accept" THEN Emitted(u, "reject", t.room, t.call) ELSE up
  /\ HandleEndCall(u)
  /\ Resumed(u, t, {})
  /\ astray' = astray \cup Victim(u, t.call) \cup {c \in {t.call} : t.kind = "answered"}
  /\ UNCHANGED <<ref, down, link, serverState, calls>>

(* initializePeerConnection: its cleanup comes first and stops the camera. *)
Connected(u, t) ==
  /\ media' = Stopped(u)
  /\ pc' = [pc EXCEPT ![u] = [state |-> "new", room |-> t.room, call |-> t.call]]

(* The ICE servers are there, or their defaults.  The callee answers the   *)
(* call; the caller makes an offer.                                        *)
IceFetched(u, t) ==
  /\ t \in tasks[u] /\ t.at = "ice"
  /\ Connected(u, t)
  /\ \/ /\ t.kind = "accept"
        /\ up' = Emitted(u, "accept", t.room, t.call)
        /\ Resumed(u, t, {})
     \/ /\ t.kind = "answered"
        /\ Resumed(u, t, {[t EXCEPT !.at = "offer"]})
        /\ UNCHANGED up
  /\ astray' = astray \cup {c \in {t.call} : Late(u, c)} \cup Victim(u, t.call)
  /\ UNCHANGED <<screen, ref, down, link, serverState, calls, faults>>

(* createOffer, whose failure is only logged.  The server forwards to the  *)
(* peer of callStateRef, who must be in the room.                          *)
CreateOffer(u, t) ==
  /\ t \in tasks[u] /\ t.at = "offer"
  /\ Resumed(u, t, {})
  /\ IF pc[u].call = t.call
     THEN /\ pc' = [pc EXCEPT ![u].state = "offered"]
          /\ up' = IF ref[u].room = t.room THEN Emitted(u, "offer", t.room, t.call) ELSE up
     ELSE UNCHANGED <<pc, up>>
  /\ UNCHANGED <<screen, ref, media, down, link, serverState, calls, faults, astray>>

(* The effect that copies the state into callStateRef. *)
CopyToRef(u) ==
  /\ ref[u] # screen[u]
  /\ ref' = [ref EXCEPT ![u] = screen[u]]
  /\ UNCHANGED <<screen, media, pc, tasks, wire, serverState, calls, faults, astray>>

-----------------------------------------------------------------------------
(* What the client's listeners do.                                         *)

(* A refreshed token makes the user a new object, and the effect runs again. *)
(* The reconnection that SyncEngine.init makes for the token is a Drop.    *)
Attach(u) ==
  /\ calls <= FaultyCalls
  /\ u \notin hears /\ hears' = hears \cup {u}
  /\ UNCHANGED <<client, up, down, sock, serverState, calls, faults, astray>>

(* A message that nobody listens to is gone. *)
Unheard(u) ==
  /\ u \notin hears /\ down[u] # <<>>
  /\ down' = [down EXCEPT ![u] = Tail(@)]
  /\ astray' = astray \cup {Head(down[u]).call}
  /\ UNCHANGED <<client, up, link, serverState, calls, faults>>

Receives(u, types) ==
  /\ u \in hears /\ down[u] # <<>> /\ Head(down[u]).type \in types
  /\ down' = [down EXCEPT ![u] = Tail(@)]

(* handleIncoming *)
HandleIncoming(u) ==
  LET m == Head(down[u]) IN
  /\ Receives(u, {"incoming"})
  /\ \/ /\ ref[u].status # "idle"
        /\ up' = Emitted(u, "reject", m.room, m.call)
        /\ UNCHANGED <<screen, astray>>
     \/ /\ ref[u].status = "idle"
        /\ Shows(u, [status |-> "incoming", room |-> m.room, call |-> m.call])
        /\ astray' = astray \cup Victim(u, m.call)
        /\ UNCHANGED up
  /\ UNCHANGED <<ref, media, pc, tasks, link, serverState, calls, faults>>

(* handleAccepted up to the ICE servers.  A screen closed since the last   *)
(* render opens again, without a room: it is taken for the message's call. *)
HandleAccepted(u) ==
  LET m == Head(down[u]) IN
  /\ Receives(u, {"accepted"})
  /\ \/ /\ ref[u].status = "calling"
        /\ Shows(u, [screen[u] EXCEPT !.status = "connected", !.call = IF @ = 0 THEN m.call ELSE @])
        /\ tasks' = [tasks EXCEPT ![u] = @ \cup {Task("answered", "ice", m.room, m.call)}]
        /\ astray' = astray \cup {c \in {m.call} : Late(u, c)} \cup Victim(u, m.call)
     \/ /\ ref[u].status # "calling"
        /\ UNCHANGED <<screen, tasks, astray>>
  /\ UNCHANGED <<ref, media, pc, up, link, serverState, calls, faults>>

(* handleRejected, handleEnded, handleBusy, handleOffline *)
HandleOver(u) ==
  LET m == Head(down[u]) IN
  /\ Receives(u, {"rejected", "ended", "busy", "offline"})
  /\ HandleEndCall(u)
  /\ astray' = astray \cup Victim(u, m.call)
  /\ UNCHANGED <<ref, tasks, up, link, serverState, calls, faults>>

\* Mutant: signals count only once the screen says connected.
HearsConnected(u) == ref[u].status = "connected" /\ pc[u].state # "none"
(* Whether a signal is listened to. *)
Hears(u) == ref[u].status # "idle" /\ pc[u].state # "none"

(* handleSignal, handleIncomingSignal *)
HandleSignal(u) ==
  LET m == Head(down[u])
  IN /\ Receives(u, {"offer", "answer"})
     /\ \/ /\ Hears(u) /\ m.type = "offer"
           /\ pc' = [pc EXCEPT ![u].state = "stable"]
           /\ up' = Emitted(u, "answer", pc[u].room, pc[u].call)
           /\ astray' = astray \cup ({pc[u].call} \ {m.call})
        \/ /\ Hears(u) /\ m.type = "answer" /\ pc[u].state = "offered"
           /\ pc' = [pc EXCEPT ![u].state = "stable"]
           /\ astray' = astray \cup ({pc[u].call} \ {m.call})
           /\ UNCHANGED up
        \/ /\ ~Hears(u) \/ (m.type = "answer" /\ pc[u].state # "offered")
           /\ UNCHANGED <<pc, up, astray>>
     /\ UNCHANGED <<screen, ref, media, tasks, link, serverState, calls, faults>>

-----------------------------------------------------------------------------
(* The server, as in Calls.                                                *)

Busy(u) == activeCalls[u] # NoCall
Job(kind, u, r, c) == [kind |-> kind, user |-> u, room |-> r, call |-> c, twin |-> FALSE]

(* A handler waits; two of a kind may. *)
Awaits(j) == jobs' = jobs \cup {IF j \in jobs THEN [j EXCEPT !.twin = TRUE] ELSE j}

Takes(u, types) ==
  /\ sock[u] /\ up[u] # <<>> /\ Head(up[u]).type \in types
  /\ up' = [up EXCEPT ![u] = Tail(@)]

(* call:initiate and call:signal look for the room first. *)
FindRoom(u) ==
  LET m == Head(up[u]) IN
  /\ Takes(u, {"initiate", "offer", "answer"})
  /\ Awaits(Job(m.type, u, m.room, m.call))
  /\ UNCHANGED <<client, down, link, activeCalls, calls, faults, astray>>

(* call:initiate after the room is found. *)
InitiateCall(j) ==
  LET u == j.user
      p == Other(j.room, u)
      entry(role) == [status |-> "calling", role |-> role, room |-> j.room, call |-> j.call]
  IN /\ j \in jobs /\ j.kind = "initiate"
     /\ jobs' = jobs \ {j}
     /\ \/ /\ Busy(u)
           /\ astray' = astray \cup {j.call}
           /\ UNCHANGED <<activeCalls, down>>
        \/ /\ ~Busy(u) /\ ~Busy(p) /\ sock[p]
           /\ activeCalls' = [activeCalls EXCEPT ![u] = entry("caller"), ![p] = entry("callee")]
           /\ down' = Told(p, "incoming", j.room, j.call)
           /\ astray' = astray \cup Lost(u, j.call)
        \/ /\ ~Busy(u) /\ (Busy(p) \/ ~sock[p])
           /\ down' = Told(u, IF Busy(p) THEN "busy" ELSE "offline", j.room, j.call)
           /\ astray' = astray \cup Lost(u, j.call)
           /\ UNCHANGED activeCalls
     /\ UNCHANGED <<client, up, link, calls, faults>>

(* call:signal after the room is found. *)
ForwardSignal(j) ==
  LET p == Other(j.room, j.user) IN
  /\ j \in jobs /\ j.kind \in {"offer", "answer"}
  /\ jobs' = jobs \ {j}
  /\ down' = Told(p, j.kind, j.room, j.call)
  /\ astray' = astray \cup Lost(p, j.call)
  /\ UNCHANGED <<client, up, link, activeCalls, calls, faults>>

(* call:accept *)
AcceptEntry(u) ==
  LET m == Head(up[u])
      c == activeCalls[u]
      p == Other(c.room, u)
  IN /\ Takes(u, {"accept"})
     /\ \/ /\ Busy(u) /\ c.room = m.room /\ c.role = "callee"
           /\ down' = Told(p, "accepted", c.room, c.call)
           /\ activeCalls' = [v \in Users |->
                IF v \in {u, p} /\ Busy(v)
                THEN [activeCalls[v] EXCEPT !.status = "connected"] ELSE activeCalls[v]]
           /\ astray' = astray \cup ({c.call} \ {m.call}) \cup Lost(p, c.call)
                               \cup ({activeCalls[p].call} \ {0, c.call})
        \/ /\ ~(Busy(u) /\ c.room = m.room /\ c.role = "callee")
           /\ UNCHANGED <<down, activeCalls, astray>>
     /\ UNCHANGED <<client, link, jobs, calls, faults>>

(* The call of m is still waiting for its room. *)
Overtaken(m) == {c \in {m.call} : \E j \in jobs : j.kind = "initiate" /\ j.call = c}

(* call:reject and call:end up to the log. *)
CloseCall(u) ==
  LET m == Head(up[u])
      c == activeCalls[u]
      p == Other(c.room, u)
  IN /\ Takes(u, {"reject", "end"})
     /\ \/ /\ Busy(u) /\ c.room = m.room
           /\ down' = Told(p, IF m.type = "reject" THEN "rejected" ELSE "ended", c.room, c.call)
           /\ Awaits(Job(m.type, u, c.room, c.call))
           /\ astray' = astray \cup ({c.call} \ {m.call}) \cup Lost(p, c.call)
                               \cup Overtaken(m)
        \/ /\ ~(Busy(u) /\ c.room = m.room)
           /\ astray' = astray \cup Overtaken(m)
           /\ UNCHANGED <<down, jobs>>
     /\ UNCHANGED <<client, link, activeCalls, calls, faults>>

Closing == {"reject", "end", "disconnect"}

\* Mutant: the peer's entry stays.
OwnEntry(j) == {j.user}
(* activeCalls.delete, twice *)
EntriesOf(j) == j.room

(* The log is written: the entries of both go, whatever they are by now. *)
RemoveCall(j) ==
  /\ j \in jobs /\ j.kind \in Closing
  /\ jobs' = jobs \ {j}
  /\ activeCalls' = [v \in Users |-> IF v \in EntriesOf(j) THEN NoCall ELSE activeCalls[v]]
  /\ astray' = astray \cup ({activeCalls[v].call : v \in EntriesOf(j)} \ {0, j.call})
  /\ UNCHANGED <<client, wire, calls, faults>>

(* The log fails and the entries stay; the disconnect handler catches it. *)
FailLog(j) ==
  /\ Fault
  /\ j \in jobs /\ j.kind \in {"reject", "end"}
  /\ jobs' = jobs \ {j}
  /\ astray' = astray \cup {j.call}
  /\ UNCHANGED <<client, wire, activeCalls, calls>>

CallsIn(q) == {q[i].call : i \in DOMAIN q}

(* A socket drops with what is on its way; the client does not listen to   *)
(* it.  The server ends the user's call.                                   *)
Drop(u) ==
  LET c == activeCalls[u]
      p == Other(c.room, u)
  IN /\ Fault
     /\ sock[u] /\ sock' = [sock EXCEPT ![u] = FALSE]
     /\ up' = [up EXCEPT ![u] = <<>>]
     /\ LET kept == [down EXCEPT ![u] = <<>>] IN
        IF Busy(u)
        THEN /\ down' = IF sock[p] THEN [kept EXCEPT ![p] = Append(@, Message("ended", c.room, c.call))]
                       ELSE kept
             /\ Awaits(Job("disconnect", u, c.room, c.call))
        ELSE down' = kept /\ UNCHANGED jobs
     /\ astray' = astray \cup CallsIn(up[u]) \cup CallsIn(down[u])
                         \cup ({c.call, screen[u].call} \ {0})
     /\ UNCHANGED <<client, hears, activeCalls, calls>>

Reconnect(u) ==
  /\ ~sock[u] /\ sock' = [sock EXCEPT ![u] = TRUE]
  /\ UNCHANGED <<client, up, down, hears, serverState, calls, faults, astray>>

ScreenNext ==
  \/ \E u \in Users :
       \/ AcceptCall(u) \/ HangUp(u) \/ CopyToRef(u)
       \/ Attach(u) \/ Unheard(u)
       \/ HandleIncoming(u) \/ HandleAccepted(u) \/ HandleOver(u) \/ HandleSignal(u)
       \/ FindRoom(u) \/ AcceptEntry(u) \/ CloseCall(u) \/ Drop(u) \/ Reconnect(u)
       \/ \E r \in DirectRooms : StartCall(u, r)
       \/ \E t \in tasks[u] :
            MediaReady(u, t) \/ TaskThrows(u, t) \/ IceFetched(u, t) \/ CreateOffer(u, t)
  \/ \E j \in jobs : InitiateCall(j) \/ ForwardSignal(j) \/ RemoveCall(j) \/ FailLog(j)

ScreenSpec == ScreenInit /\ [][ScreenNext]_screenVars

-----------------------------------------------------------------------------
(* Properties.                                                             *)

(* Nothing is on its way or under way. *)
AtRest ==
  /\ jobs = {} /\ ref = screen
  /\ \A u \in Users : sock[u] /\ up[u] = <<>> /\ down[u] = <<>> /\ tasks[u] = {}

(* Once everything has arrived, a client shows a call exactly when the     *)
(* server has it in that call, answered or not, but for the calls that met *)
(* one of the unguarded cases: a message to a client that has no listeners  *)
(* yet, a hang-up while the camera or the ICE servers are awaited, a        *)
(* message that meets a later call, a request the server refuses, two       *)
(* handlers that end calls, an answered call without a connection, a lost   *)
(* socket or log.                                                          *)
ScreensAgree ==
  AtRest => \A u \in Users :
    LET s == screen[u]
        c == activeCalls[u]
    IN \/ s.call = c.call /\ (s.status = "connected") = (c.status = "connected")
       \/ s.call \in astray \/ c.call \in astray

(* At no time does a camera run or is a connection open for a call that is *)
(* not on the screen, with the same exceptions.                            *)
NothingLeftOpen == \A u \in Users :
  media[u].live \cup ({pc[u].call} \ {0}) \subseteq {screen[u].call} \cup astray

(* Two users who see each other's call connected have exchanged offer and  *)
(* answer: the callee's connection is there before the offer comes.        *)
Negotiated ==
  AtRest => \A u \in Users :
    screen[u].status = "connected" /\ screen[u].call \notin astray =>
      pc[u].call = screen[u].call /\ pc[u].state = "stable"
=============================================================================
