-------------------------------- MODULE Calls --------------------------------
(***************************************************************************)
(* Calls and presence on the server (socketHandlers): the map of every     *)
(* user's sockets, the map of active calls with an entry for each of the   *)
(* two users, the call log, and isOnline in the database.                  *)
(*                                                                         *)
(* The handlers are asynchronous: each runs up to an await, and others run *)
(* before it goes on with what it read.  A handler that ends a call reads  *)
(* the entry, writes the log and a message, and only then removes the      *)
(* entries of the user and of the peer it read, whatever they hold now.    *)
(* A socket counts from the moment it connects, but has no 'disconnect'    *)
(* listener until the writes of the connection handler are done.           *)
(*                                                                         *)
(* Signalling, notifications and the client are left out, and a revocation *)
(* of sessions is the drop of each of a user's sockets.  The call entries  *)
(* carry a number, so that the properties can tell calls apart.            *)
(***************************************************************************)
EXTENDS Integers, Sequences, Functions

CONSTANTS
  Users,
  Rooms,
  Participants,  \* the participants of each room, in the order of the document
  Sockets,       \* bound: the connections of tabs and devices, each made once
  OwnerOf,       \* the user of each socket
  Handlers,      \* bound: handlers waiting at the same time
  MaxCalls,      \* bound: calls that ring
  MaxFaults      \* bound: failed writes, sockets that drop early, restarts

ASSUME ParticipantsAssumption ==
  /\ Participants \in [Rooms -> Seq(Users)]
  /\ \A r \in Rooms : Len(Participants[r]) > 1 /\ IsInjective(Participants[r])
ASSUME SocketsAssumption == OwnerOf \in [Sockets -> Users]
ASSUME BoundsAssumption == MaxCalls \in Nat /\ MaxFaults \in Nat

VARIABLES
  sock,         \* phase of each socket; userSockets holds the Registered ones
  isOnline,     \* User.isOnline
  activeCalls,  \* the entry of each user
  handlers,     \* handlers at an await, with what they have read
  logs,         \* the CallLog documents
  calls,        \* calls that rang so far; numbers them
  faults,       \* faults so far
  accepted,     \* history: calls the callee has answered
  overlapped,   \* history: calls that two handlers were ending at the same time
  lost,         \* history: calls gone in a restart or with a failed log
  late,         \* history: calls made for a user who had already left
  stranded      \* history: users shown online by a write that failed or a restart

history == <<accepted, overlapped, lost, late, stranded>>
vars == <<sock, isOnline, activeCalls, handlers, logs, calls, faults, history>>

\* "missed" stands for the three statuses of a call without an answer: missed,
\* cancelled (the caller ends it) and rejected.
LogStatuses == {"completed", "missed"}

NoCall == [call |-> 0, room |-> "none", peer |-> "none", role |-> "none", status |-> "none"]
Idle == [pc |-> "idle", kind |-> "none", user |-> "none", call |-> 0,
         peer |-> "none", final |-> "none", last |-> FALSE]

(* userSockets.get(userId) *)
Registered == {"joining", "dropped", "live", "deaf"}
SocketsOf(u) == {s \in Sockets : OwnerOf[s] = u /\ sock[s] \in Registered}

(* room.participants.find(p => p != userId) *)
PeerIn(r, u) ==
  LET Others == {i \in DOMAIN Participants[r] : Participants[r][i] # u}
  IN Participants[r][CHOOSE i \in Others : \A j \in Others : i <= j]

InRoom(r, u) == u \in Range(Participants[r])
Busy(u) == activeCalls[u] # NoCall
Waiting(h) == handlers[h] # Idle

Init ==
  /\ sock = [s \in Sockets |-> "new"]
  /\ isOnline = [u \in Users |-> FALSE]
  /\ activeCalls = [u \in Users |-> NoCall]
  /\ handlers = [h \in Handlers |-> Idle]
  /\ logs = {} /\ calls = 0 /\ faults = 0
  /\ accepted = {} /\ overlapped = {} /\ lost = {} /\ late = {} /\ stranded = {}

Fault == faults < MaxFaults /\ faults' = faults + 1

------------------------------------------------------------------------------
(* Sockets.                                                                *)

(* The connection handler up to its first await. *)
Connect(s) ==
  /\ sock[s] = "new"
  /\ sock' = [sock EXCEPT ![s] = "joining"]
  /\ UNCHANGED <<isOnline, activeCalls, handlers, logs, calls, faults, history>>

(* isOnline is written, the rooms are joined and the listeners are set.  A *)
(* socket that has dropped meanwhile stays in userSockets for good.        *)
MarkOnline(s) ==
  /\ sock[s] \in {"joining", "dropped"}
  /\ sock' = [sock EXCEPT ![s] = IF @ = "joining" THEN "live" ELSE "deaf"]
  /\ isOnline' = [isOnline EXCEPT ![OwnerOf[s]] = TRUE]
  /\ stranded' = stranded \ {OwnerOf[s]}
  /\ UNCHANGED <<activeCalls, handlers, logs, calls, faults, accepted, overlapped, lost, late>>

(* The write of isOnline throws, or the search of the rooms after it: no   *)
(* listener is ever set.                                                   *)
FailOnline(s) ==
  /\ Fault
  /\ sock[s] \in {"joining", "dropped"}
  /\ sock' = [sock EXCEPT ![s] = "deaf"]
  /\ isOnline' \in {isOnline, [isOnline EXCEPT ![OwnerOf[s]] = TRUE]}
  /\ UNCHANGED <<activeCalls, handlers, logs, calls, history>>

DropEarly(s) ==
  /\ Fault
  /\ sock[s] = "joining"
  /\ sock' = [sock EXCEPT ![s] = "dropped"]
  /\ UNCHANGED <<isOnline, activeCalls, handlers, logs, calls, history>>

------------------------------------------------------------------------------
(* Calls.                                                                  *)

\* Mutant: whether the peer is in a call is not asked.
CallerFree(u, p) == ~Busy(u)
Free(u, p) == ~Busy(u) /\ ~Busy(p)

(* call:initiate.  It awaits the room before it looks at the calls, so that *)
(* the socket may have closed since it asked.  A peer without sockets is    *)
(* told by a notification, and the entries are removed again at once.       *)
InitiateCall(s, r) ==
  LET u == OwnerOf[s]
      p == PeerIn(r, u)
      entry(x, role) == [call |-> calls + 1, room |-> r, peer |-> x,
                         role |-> role, status |-> "calling"]
  IN /\ sock[s] \in {"live", "closed"} /\ InRoom(r, u)
     /\ Free(u, p) /\ SocketsOf(p) # {} /\ calls < MaxCalls
     /\ activeCalls' = [activeCalls EXCEPT
          ![u] = entry(p, "caller"), ![p] = entry(u, "callee")]
     /\ calls' = calls + 1
     /\ late' = IF SocketsOf(u) = {} THEN late \cup {calls + 1} ELSE late
     /\ UNCHANGED <<sock, isOnline, handlers, logs, faults,
                    accepted, overlapped, lost, stranded>>

(* call:accept, which awaits nothing: the entries of both become connected. *)
Accept(s, r) ==
  LET u == OwnerOf[s]
      c == activeCalls[u]
  IN /\ sock[s] = "live" /\ Busy(u) /\ c.room = r /\ c.role = "callee"
     /\ activeCalls' = [x \in Users |->
          IF x \in {u, c.peer} /\ Busy(x)
          THEN [activeCalls[x] EXCEPT !.status = "connected"] ELSE activeCalls[x]]
     /\ accepted' = accepted \cup {c.call}
     /\ UNCHANGED <<sock, isOnline, handlers, logs, calls, faults, overlapped, lost, late, stranded>>

\* Mutant: a call its callee ends counts as completed, answered or not.
CalleeCompletes(c, rejects) ==
  IF c.role = "callee" /\ ~rejects THEN "completed" ELSE "missed"
FinalStatus(c, rejects) ==
  IF c.status = "connected" /\ ~rejects THEN "completed" ELSE "missed"

(* A handler that has read the call it is going to log. *)
Ending(u, kind, rejects, last) ==
  LET c == activeCalls[u]
  IN [pc |-> "log", kind |-> kind, user |-> u, call |-> c.call, peer |-> c.peer,
      final |-> FinalStatus(c, rejects), last |-> last]

InEnding(h, c) == handlers[h].pc = "log" /\ handlers[h].call = c

NoteOverlap(c) ==
  overlapped' = overlapped \cup {d \in {c} : \E h \in Handlers : InEnding(h, d)}

(* call:end and call:reject up to the log they await. *)
EndCall(s, r, rejects, h) ==
  LET u == OwnerOf[s] IN
  /\ sock[s] = "live" /\ ~Waiting(h)
  /\ Busy(u) /\ activeCalls[u].room = r
  /\ handlers' = [handlers EXCEPT ![h] = Ending(u, "end", rejects, FALSE)]
  /\ NoteOverlap(activeCalls[u].call)
  /\ UNCHANGED <<sock, isOnline, activeCalls, logs, calls, faults, accepted, lost, late, stranded>>

(* isFullyOffline, once the socket has left userSockets. *)
LastSocket(s) == SocketsOf(OwnerOf[s]) = {s}

Presence(u) ==
  [pc |-> "presence", kind |-> "disconnect", user |-> u, call |-> 0,
   peer |-> "none", final |-> "none", last |-> TRUE]

\* Mutant: only the caller's side ends it.
CallerLeaves(u) == activeCalls[u].role = "caller"
(* Which disconnects have a call to end. *)
LeavesCall(u) == Busy(u)

(* The disconnect handler up to its first await, if it has any.  It ends   *)
(* the call of the user, whichever of the user's sockets it is on.         *)
Disconnect(s, h) ==
  LET u == OwnerOf[s] IN
  /\ sock[s] = "live" /\ ~Waiting(h)
  /\ sock' = [sock EXCEPT ![s] = "closed"]
  /\ handlers' = [handlers EXCEPT ![h] =
       IF LeavesCall(u) THEN Ending(u, "disconnect", FALSE, LastSocket(s))
       ELSE IF LastSocket(s) THEN Presence(u) ELSE Idle]
  /\ IF LeavesCall(u) THEN NoteOverlap(activeCalls[u].call) ELSE UNCHANGED overlapped
  /\ UNCHANGED <<isOnline, activeCalls, logs, calls, faults, accepted, lost, late, stranded>>

------------------------------------------------------------------------------
(* What the handlers do after an await.                                    *)

(* activeCalls.delete, twice: of the user and of the peer that was read. *)
Removed(h) ==
  [u \in Users |->
     IF u \in {handlers[h].user, handlers[h].peer} THEN NoCall ELSE activeCalls[u]]

(* The entries go and the handler is done, or goes on to the presence. *)
Release(h) ==
  /\ activeCalls' = Removed(h)
  /\ handlers' = [handlers EXCEPT ![h] =
       IF handlers[h].last THEN Presence(handlers[h].user) ELSE Idle]

Log(h) == {[call |-> handlers[h].call, status |-> handlers[h].final]}

(* The log, and in call:end and call:reject a message after it, which      *)
(* nothing here reads: the two awaits are one step.                        *)
LogCall(h) ==
  /\ handlers[h].pc = "log"
  /\ logs' = logs \cup Log(h)
  /\ Release(h)
  /\ UNCHANGED <<sock, isOnline, calls, faults, history>>

(* Which handlers stop, and leave the entries, when a write throws: the    *)
(* disconnect handler catches it.                                          *)
StopsOnError(h) == handlers[h].kind = "end"

(* CallLog.create throws, or Message.create after it. *)
FailLog(h) ==
  /\ Fault
  /\ handlers[h].pc = "log"
  /\ \/ /\ StopsOnError(h)
        /\ handlers' = [handlers EXCEPT ![h] = Idle]
        /\ logs' \in {logs, logs \cup Log(h)}
        /\ UNCHANGED activeCalls
     \/ /\ ~StopsOnError(h)
        /\ Release(h)
        /\ UNCHANGED logs
  /\ lost' = IF handlers[h].kind = "disconnect" THEN lost \cup {handlers[h].call} ELSE lost
  /\ UNCHANGED <<sock, isOnline, calls, accepted, overlapped, late, stranded>>

(* isOnline is written if the user had no socket left at the disconnect. *)
MarkOffline(h) ==
  /\ handlers[h].pc = "presence"
  /\ handlers' = [handlers EXCEPT ![h] = Idle]
  /\ \/ /\ isOnline' = [isOnline EXCEPT ![handlers[h].user] = FALSE]
        /\ UNCHANGED <<stranded, faults>>
     \/ /\ Fault
        /\ stranded' = stranded \cup {handlers[h].user}
        /\ UNCHANGED isOnline
  /\ UNCHANGED <<sock, activeCalls, logs, calls, accepted, overlapped, lost, late>>

(* The process restarts: the maps are empty, the database stays. *)
Restart ==
  /\ Fault
  /\ sock' = [s \in Sockets |-> IF sock[s] = "new" THEN "new" ELSE "gone"]
  /\ activeCalls' = [u \in Users |-> NoCall]
  /\ handlers' = [h \in Handlers |-> Idle]
  /\ lost' = lost \cup {activeCalls[u].call : u \in {v \in Users : Busy(v)}}
  /\ stranded' = stranded \cup {u \in Users : isOnline[u]}
  /\ UNCHANGED <<isOnline, logs, calls, accepted, overlapped, late>>

Next ==
  \/ \E s \in Sockets : Connect(s) \/ MarkOnline(s) \/ FailOnline(s) \/ DropEarly(s)
  \/ \E s \in Sockets, r \in Rooms : InitiateCall(s, r) \/ Accept(s, r)
  \/ \E s \in Sockets, r \in Rooms, rejects \in BOOLEAN, h \in Handlers :
       EndCall(s, r, rejects, h)
  \/ \E s \in Sockets, h \in Handlers : Disconnect(s, h)
  \/ \E h \in Handlers : LogCall(h) \/ FailLog(h) \/ MarkOffline(h)
  \/ Restart

Spec == Init /\ [][Next]_vars

------------------------------------------------------------------------------
(* Properties.                                                             *)

(* Every variable has its type; a logged status is one the CallLog schema  *)
(* knows (CallLog 20).                                                     *)
TypeOK ==
  /\ sock \in [Sockets -> Registered \cup {"new", "closed", "gone"}]
  /\ isOnline \in [Users -> BOOLEAN]
  /\ activeCalls \in [Users -> {NoCall} \cup
       [call : 1..calls, room : Rooms, peer : Users,
        role : {"caller", "callee"}, status : {"calling", "connected"}]]
  /\ handlers \in [Handlers -> {Idle} \cup
       [pc : {"log", "presence"}, kind : {"end", "disconnect"}, user : Users,
        call : 0..calls, peer : Users \cup {"none"}, final : LogStatuses \cup {"none"},
        last : BOOLEAN]]
  /\ logs \subseteq [call : 1..calls, status : LogStatuses]
  /\ calls \in 0..MaxCalls /\ faults \in 0..MaxFaults
  /\ accepted \subseteq 1..calls /\ overlapped \subseteq 1..calls
  /\ lost \subseteq 1..calls /\ late \subseteq 1..calls
  /\ stranded \subseteq Users

(* A call that two handlers ended at once may cost a later call an entry:  *)
(* the slower handler removes what the users hold by then.                 *)
Disturbed(c) == \E d \in overlapped : d < c

Partner(u) == activeCalls[activeCalls[u].peer]

(* socketHandlers 526: who is in a call is in it with somebody: the        *)
(* two entries name each other, one as the caller and one as the callee,   *)
(* with one status, unless an earlier call was ended twice at once.        *)
CallsArePaired ==
  \A u \in Users : Busy(u) /\ ~Disturbed(activeCalls[u].call) =>
    /\ Partner(u).call = activeCalls[u].call /\ Partner(u).peer = u
    /\ Partner(u).role # activeCalls[u].role
    /\ Partner(u).status = activeCalls[u].status

(* socketHandlers 667: a call is logged as completed only if the callee    *)
(* had answered it, whatever ends, failures and other calls come between.  *)
CompletedWasAccepted ==
  \A l \in logs :
    l.status = "completed" /\ ~Disturbed(l.call) => l.call \in accepted

(* Every call that rang is still in somebody's entry or is in the log,     *)
(* unless a restart took it or the log of a disconnect failed.             *)
NoCallIsForgotten ==
  \A c \in 1..calls :
    \/ \E u \in Users : activeCalls[u].call = c
    \/ \E l \in logs : l.call = c
    \/ c \in lost
    \/ Disturbed(c)

(* socketHandlers 728-754: a user with no socket left is not kept busy: a  *)
(* disconnect handler is about to remove the entry.  The exception is a    *)
(* call:initiate that found its room only after the caller had left.       *)
GoneIsNotBusy ==
  \A u \in Users : Busy(u) /\ SocketsOf(u) = {} =>
    \/ \E h \in Handlers : handlers[h].kind = "disconnect" /\ handlers[h].pc = "log"
                           /\ u \in {handlers[h].user, handlers[h].peer}
    \/ activeCalls[u].call \in late

(* socketHandlers 757-759: a user with no socket left is shown offline, or *)
(* a handler is about to, whatever order the sockets came and went in.     *)
GoneIsOffline ==
  \A u \in Users : isOnline[u] /\ SocketsOf(u) = {} =>
    \/ \E h \in Handlers : handlers[h].user = u /\ handlers[h].last
    \/ u \in stranded

(* Every call that rang ends in the log, and as what it was. *)
CallsAreLogged == CompletedWasAccepted /\ NoCallIsForgotten

(* Nothing is left of a user who is gone: neither busy nor online. *)
GoneIsGone == GoneIsNotBusy /\ GoneIsOffline
==============================================================================
