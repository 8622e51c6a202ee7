------------------------------ MODULE Recovery ------------------------------
(***************************************************************************)
(* How one client catches up with the server: RecoveryCoordinator replays  *)
(* the user stream and then the stream of every room it knows, page by     *)
(* page from the sync endpoints (syncController), and CanonicalReconciler  *)
(* applies each event in one IndexedDB transaction.  Meanwhile rooms get   *)
(* events, the user gains and loses rooms, retention prunes, the app is    *)
(* paused, resumed, reloaded, logged out of and into, and requests fail.   *)
(*                                                                         *)
(* One action per await of the loop.  Everything between two awaits is one *)
(* step, because JavaScript runs it to completion; IndexedDB serialises    *)
(* the transactions of one store, and a purge is queued behind the event   *)
(* the loop is applying, so applying an event is atomic.                   *)
(*                                                                         *)
(* The server half is RoomLog's promise: contiguous numbers, old entries   *)
(* dropped from below.  The buffer of live socket events is left out: both *)
(* drain functions are empty, and nothing else reads it.  So is the        *)
(* snapshot installer: it runs only when the server answers 409, for a     *)
(* cursor ahead of the log, which CursorIsExact excludes.  The cleanup     *)
(* step is kept as an await; it touches only the outbox and its intents.   *)
(***************************************************************************)
EXTENDS Integers, Sequences, Functions

CONSTANTS
  Rooms,          \* rooms the user may be a member of
  User,           \* the user's own stream of events
  Limit,          \* events in a page (50 in the code)
  Unknown,        \* <<room, seq>> of events whose type the client lacks
  Newer,          \* <<room, seq>> of events with a version it cannot read
  MaxSequence,    \* bound: the events of each stream
  MaxGeneration   \* bound: recoveries and cancellations between two reloads

Streams == Rooms \cup {User}

ASSUME StreamsAssumption == User \notin Rooms
ASSUME LimitAssumption == Limit \in Nat \ {0}
\* The registry has a contract for every type of user event (EventContracts 268).
ASSUME UnknownAssumption == Unknown \subseteq Rooms \X Nat
ASSUME BoundsAssumption == MaxSequence \in [Streams -> Nat] /\ MaxGeneration \in Nat

VARIABLES
  latest,       \* last sequence number of each stream
  minRetained,  \* ChatRoom.minimumRetainedSequence; 0 for the user stream
  userLog,      \* the user's events: a room and whether access was granted
  idb,          \* the client's IndexedDB stores
  sync,         \* the fields of RecoveryCoordinator, and the app's state
  run           \* the recovery loop in progress

server == <<latest, minRetained, userLog>>
vars == <<latest, minRetained, userLog, idb, sync, run>>

NoRun ==
  [pc |-> "none", gen |-> 0, pass |-> 1, stream |-> User, todo |-> {},
   after |-> 0, page |-> <<>>, more |-> FALSE, goal |-> [s \in Streams |-> 0]]

FreshSync ==
  [state |-> "IDLE", gen |-> 0, promise |-> 0, app |-> "active", subscribed |-> TRUE]

(* cursor: room_cursors and user_cursor; applied: the order in which the    *)
(* rows of room_events, user_events and processed_events were written;      *)
(* rooms: room_projections; purged: the user cursor at the last purge.      *)
EmptyIdb ==
  [cursor |-> [s \in Streams |-> 0], applied |-> [s \in Streams |-> <<>>],
   rooms |-> {}, purged |-> 0]

(* The rooms a sequence of user events leaves the user in. *)
Replay(log) ==
  {r \in Rooms :
     \E i \in DOMAIN log :
       /\ log[i] = [room |-> r, granted |-> TRUE]
       /\ \A j \in i+1..Len(log) : log[j].room # r}

Member(r) == r \in Replay(userLog)

Init ==
  /\ latest = [s \in Streams |-> 0]
  /\ minRetained = [s \in Streams |-> 0]
  /\ userLog = <<>>
  /\ idb = EmptyIdb
  /\ sync = FreshSync
  /\ run = NoRun

-----------------------------------------------------------------------------
(* The server. *)

PostEvent(r) ==
  /\ latest[r] < MaxSequence[r]
  /\ latest' = [latest EXCEPT ![r] = @ + 1]
  /\ UNCHANGED <<minRetained, userLog, idb, sync, run>>

(* A membership change writes the room's event and the user's in one go.    *)
(* (A grant is what addMembers writes.  Today its contract refuses it       *)
(* (RoomServer, Payload); what the client does with one is modelled.)       *)
ChangeAccess(r) ==
  /\ latest[r] < MaxSequence[r] /\ latest[User] < MaxSequence[User]
  /\ latest' = [latest EXCEPT ![r] = @ + 1, ![User] = @ + 1]
  /\ userLog' = Append(userLog, [room |-> r, granted |-> ~Member(r)])
  /\ UNCHANGED <<minRetained, idb, sync, run>>

(* pruneRoomEvents; only events the floor still keeps have a row to find.   *)
Prune(r) ==
  /\ \E boundary \in 1..latest[r] :
       /\ boundary >= minRetained[r]
       /\ minRetained' = [minRetained EXCEPT ![r] = boundary + 1]
  /\ UNCHANGED <<latest, userLog, idb, sync, run>>

(* The first Limit retained events after a cursor, as their numbers.        *)
FirstAfter(s, after) == IF minRetained[s] > after + 1 THEN minRetained[s] ELSE after + 1

PageAfter(s, after) ==
  LET first == FirstAfter(s, after)
      count == IF latest[s] - first + 1 < Limit THEN latest[s] - first + 1 ELSE Limit
  IN [i \in 1..count |-> first + i - 1]

\* Mutant: a page is always taken to be followed by another one.
AlwaysMore(page) == Len(page) <= Limit

HasMore(page) == Len(page) = Limit

NeedsResync(s, after) ==
  \/ after < minRetained[s] /\ after # 0
  \/ after = 0 /\ minRetained[s] > 0

-----------------------------------------------------------------------------
(* RecoveryCoordinator's entry points. *)

Current == run.gen = sync.gen

(* triggerRecovery starts a loop when no promise is kept, and joins the     *)
(* promise otherwise.                                                       *)
StartOrJoin(s) ==
  IF s.promise # 0
  THEN sync' = s /\ run' = run
  ELSE /\ s.gen < MaxGeneration
       /\ sync' = [s EXCEPT !.gen = @ + 1, !.promise = s.gen + 1,
                            !.state = "RECOVERING_USER_STREAM"]
       /\ run' = [NoRun EXCEPT !.pc = "read", !.gen = s.gen + 1, !.goal = latest]

\* Mutant: cancelRecovery forgets the promise of the loop that still runs.
CancelledAndForgotten(s) == [s EXCEPT !.gen = @ + 1, !.state = "IDLE", !.promise = 0]

Cancelled(s) == [s EXCEPT !.gen = @ + 1, !.state = "IDLE"]

(* window focus, online, page show, socket connect, app start. *)
Trigger ==
  /\ sync.promise = 0
  /\ StartOrJoin(sync)
  /\ UNCHANGED <<server, idb>>

Pause ==
  /\ sync.app = "active" /\ sync.subscribed
  /\ sync.gen < MaxGeneration
  /\ sync' = [Cancelled(sync) EXCEPT !.app = "paused"]
  /\ UNCHANGED <<server, idb, run>>

Resume ==
  /\ sync.app = "paused" /\ sync.subscribed
  /\ StartOrJoin([sync EXCEPT !.app = "active"])
  /\ UNCHANGED <<server, idb>>

(* purgeAccount deletes by a key range of arrays.  The keys of user_cursor  *)
(* are not arrays, so that its row survives.                                *)
Purge(d) ==
  [EmptyIdb EXCEPT !.cursor[User] = d.cursor[User], !.purged = d.cursor[User]]

(* SyncEngine.logout: lifecycle.destroy() ends the pause/resume             *)
(* subscription; nothing renews it before the page is loaded again.         *)
Logout ==
  /\ sync.app # "loggedOut"
  /\ sync.gen < MaxGeneration
  /\ sync' = [Cancelled(sync) EXCEPT !.app = "loggedOut", !.subscribed = FALSE]
  /\ idb' = Purge(idb)
  /\ UNCHANGED <<server, run>>

Login ==
  /\ sync.app = "loggedOut"
  /\ StartOrJoin([sync EXCEPT !.app = "active"])
  /\ UNCHANGED <<server, idb>>

(* The page is loaded again: what is in memory is lost. *)
Reload ==
  /\ sync # FreshSync
  /\ sync' = [FreshSync EXCEPT !.app = IF sync.app = "loggedOut" THEN "loggedOut" ELSE "active"]
  /\ run' = NoRun
  /\ UNCHANGED <<server, idb>>

-----------------------------------------------------------------------------
(* The loop. *)

(* An error ends the loop; only the current generation records it, and only *)
(* the current generation lets go of the promise.                           *)
Throw(state) ==
  /\ run' = NoRun
  /\ sync' = IF Current THEN [sync EXCEPT !.state = state, !.promise = 0] ELSE sync

Enter(state) == sync' = [sync EXCEPT !.state = state]

ReadCursor ==
  /\ run.pc = "read"
  /\ IF Current
     THEN /\ run' = [run EXCEPT !.pc = "request", !.after = idb.cursor[run.stream]]
          /\ sync' = sync
     ELSE Throw("DIRTY")
  /\ UNCHANGED <<server, idb>>

Receive(page) ==
  /\ run' = [run EXCEPT !.pc = "apply", !.page = page, !.more = HasMore(page)]
  /\ sync' = sync

(* syncUserEvents. *)
SyncUserEvents ==
  /\ run.pc = "request" /\ run.stream = User
  /\ sync.app # "loggedOut"
  /\ Receive(PageAfter(User, run.after))
  /\ UNCHANGED <<server, idb>>

(* syncRoomEvents reads the room first and its events afterwards. *)
AuthorizeSync ==
  /\ run.pc = "request" /\ run.stream \in Rooms
  /\ sync.app # "loggedOut"
  /\ \/ ~Member(run.stream) /\ Throw("DIRTY")
     \/ /\ Member(run.stream) /\ NeedsResync(run.stream, run.after)
        /\ Receive(<<>>)
     \/ /\ Member(run.stream) /\ ~NeedsResync(run.stream, run.after)
        /\ run' = [run EXCEPT !.pc = "find"] /\ sync' = sync
  /\ UNCHANGED <<server, idb>>

FindRoomEvents ==
  /\ run.pc = "find"
  /\ Receive(PageAfter(run.stream, run.after))
  /\ UNCHANGED <<server, idb>>

RequestFails ==
  /\ run.pc \in {"request", "find"}
  /\ Throw("DIRTY")
  /\ UNCHANGED <<server, idb>>

\* Mutants of the three parts of an application.
NeverProcessed(s, seq) == FALSE
Ahead(s, seq) == seq > idb.cursor[s]
GrantOnly(e) == IF e.granted THEN idb.rooms \cup {e.room} ELSE idb.rooms

Processed(s, seq) == seq \in Range(idb.applied[s])

Contiguous(s, seq) == seq = idb.cursor[s] + 1

Project(e) == IF e.granted THEN idb.rooms \cup {e.room} ELSE idb.rooms \ {e.room}

(* applyRoomEvent, applyUserEvent: projection, event, marker and cursor in  *)
(* one transaction; an event already marked or of an unknown type does      *)
(* nothing.                                                                 *)
Apply(s, seq) ==
  idb' = IF Processed(s, seq) \/ <<s, seq>> \in Unknown THEN idb
         ELSE [idb EXCEPT
                 !.applied[s] = Append(@, seq),
                 !.cursor[s]  = IF Contiguous(s, seq) THEN seq ELSE @,
                 !.rooms      = IF s = User THEN Project(userLog[seq]) ELSE @]

ApplyEvent ==
  /\ run.pc = "apply" /\ run.page # <<>>
  /\ LET seq == Head(run.page) IN
     \/ ~Current /\ Throw("DIRTY") /\ UNCHANGED idb
     \/ /\ Current /\ <<run.stream, seq>> \in Newer /\ ~Processed(run.stream, seq)
        /\ Throw("CLIENT_UPGRADE_REQUIRED") /\ UNCHANGED idb
     \/ /\ Current /\ (<<run.stream, seq>> \notin Newer \/ Processed(run.stream, seq))
        /\ Apply(run.stream, seq)
        /\ run' = [run EXCEPT !.page = Tail(@)] /\ sync' = sync
  /\ UNCHANGED server

\* Mutant: the rooms after the first one are dropped.
FirstRoomOnly(todo) ==
  \/ \E r \in todo :
       /\ run' = [run EXCEPT !.pc = "read", !.stream = r, !.todo = {}]
       /\ sync' = sync
  \/ /\ todo = {} /\ run.pass = 1
     /\ run' = [run EXCEPT !.pc = "read", !.stream = User, !.pass = 2, !.todo = {}]
     /\ Enter("FINAL_CATCH_UP")
  \/ /\ todo = {} /\ run.pass = 2
     /\ run' = NoRun
     /\ sync' = [sync EXCEPT !.state = "READY", !.promise = IF Current THEN 0 ELSE @]

(* The rooms left, then the second pass, then READY, which no generation    *)
(* check precedes.                                                          *)
NextRoom(todo) ==
  \/ \E r \in todo :
       /\ run' = [run EXCEPT !.pc = "read", !.stream = r, !.todo = todo \ {r}]
       /\ sync' = sync
  \/ /\ todo = {} /\ run.pass = 1
     /\ run' = [run EXCEPT !.pc = "read", !.stream = User, !.pass = 2, !.todo = {}]
     /\ Enter("FINAL_CATCH_UP")
  \/ /\ todo = {} /\ run.pass = 2
     /\ run' = NoRun
     /\ sync' = [sync EXCEPT !.state = "READY", !.promise = IF Current THEN 0 ELSE @]

PageDone ==
  /\ run.pc = "apply" /\ run.page = <<>>
  /\ \/ run.more /\ run' = [run EXCEPT !.pc = "read"] /\ sync' = sync
     \/ /\ ~run.more /\ run.stream = User
        /\ run' = [run EXCEPT !.pc = IF run.pass = 1 THEN "cleanup" ELSE "rooms"]
        /\ sync' = sync
     \/ ~run.more /\ run.stream \in Rooms /\ NextRoom(run.todo)
  /\ UNCHANGED <<server, idb>>

ProcessCleanupIntents ==
  /\ run.pc = "cleanup"
  /\ run' = [run EXCEPT !.pc = "rooms"]
  /\ Enter("RECOVERING_ROOM_STREAMS")
  /\ UNCHANGED <<server, idb>>

ReadRooms ==
  /\ run.pc = "rooms"
  /\ IF idb.rooms # {} /\ ~Current THEN Throw("DIRTY") ELSE NextRoom(idb.rooms)
  /\ UNCHANGED <<server, idb>>

-----------------------------------------------------------------------------
ServerStep == \E r \in Rooms : PostEvent(r) \/ ChangeAccess(r) \/ Prune(r)

AppStep == Trigger \/ Pause \/ Resume \/ Logout \/ Login \/ Reload

LoopStep ==
  \/ ReadCursor \/ SyncUserEvents \/ AuthorizeSync \/ FindRoomEvents \/ RequestFails
  \/ ApplyEvent \/ PageDone \/ ProcessCleanupIntents \/ ReadRooms

Next == ServerStep \/ AppStep \/ LoopStep

Spec == Init /\ [][Next]_vars

(* The event loop resumes the loop after every await: a request is answered *)
(* or fails, an IndexedDB request completes.                                *)
FairSpec == Spec /\ WF_vars(LoopStep)

-----------------------------------------------------------------------------
(* Properties. *)

States ==
  {"IDLE", "RECOVERING_USER_STREAM", "RECOVERING_ROOM_STREAMS", "FINAL_CATCH_UP",
   "READY", "DIRTY", "CLIENT_UPGRADE_REQUIRED"}

(* Every variable has its shape. *)
TypeOK ==
  /\ latest \in [Streams -> Nat] /\ minRetained \in [Streams -> Nat]
  /\ userLog \in Seq([room : Rooms, granted : BOOLEAN]) /\ Len(userLog) = latest[User]
  /\ idb \in [cursor : [Streams -> Nat], applied : [Streams -> Seq(Nat)],
              rooms : SUBSET Rooms, purged : Nat]
  /\ sync \in [state : States, gen : Nat, promise : Nat, subscribed : BOOLEAN,
               app : {"active", "paused", "loggedOut"}]
  /\ run \in [pc : {"none", "read", "request", "find", "apply", "cleanup", "rooms"},
              gen : Nat, pass : {1, 2}, stream : Streams, todo : SUBSET Rooms,
              after : Nat, page : Seq(Nat), more : BOOLEAN, goal : [Streams -> Nat]]

(* CanonicalReconciler: however recovery is cancelled, repeated or raced by *)
(* retention, an event is applied at most once, and never after a later     *)
(* event of its stream.                                                     *)
AppliedOnceInOrder ==
  \A s \in Streams : \A i, j \in DOMAIN idb.applied[s] :
    i < j => idb.applied[s][i] < idb.applied[s][j]

(* CanonicalReconciler 90-100: a cursor never passes an event that was not  *)
(* applied, and never gets ahead of the server, whatever was skipped or     *)
(* pruned on the way.  (A purge keeps only the user cursor.)                *)
CursorIsExact ==
  \A s \in Streams :
    /\ \A seq \in 1..idb.cursor[s] :
         Processed(s, seq) \/ (s = User /\ seq <= idb.purged)
    /\ idb.cursor[s] <= latest[s]

(* An event is missing below an applied one only because retention dropped  *)
(* it between the two reads of syncRoomEvents, because the client did not   *)
(* know its type, or because the purge kept the user cursor.                *)
GapsAreExplained ==
  \A s \in Streams : \A i \in DOMAIN idb.applied[s] :
    \A seq \in 1..idb.applied[s][i] :
      \/ Processed(s, seq)
      \/ seq < minRetained[s]
      \/ <<s, seq>> \in Unknown
      \/ s = User /\ seq <= idb.purged

(* Nothing is passed over without a reason, by a cursor or by an event. *)
NothingPassedOver == CursorIsExact /\ GapsAreExplained

(* The rooms the client knows are exactly what the user events replayed     *)
(* since the last purge say, at every moment.                               *)
RoomsFollowUserStream ==
  idb.rooms = Replay(SubSeq(userLog, idb.purged + 1, idb.cursor[User]))

CaughtUp(r) == idb.cursor[r] >= run.goal[r]

Stuck(r) == NeedsResync(r, idb.cursor[r]) \/ <<r, idb.cursor[r] + 1>> \in Unknown

(* RecoveryCoordinator 97: a run that reports READY has brought every room  *)
(* the client knows to where the server was when the run started, unless    *)
(* the room has fallen behind retention or meets an event it cannot read.   *)
ReadyMeansCaughtUp ==
  [][(sync.state # "READY" /\ sync'.state = "READY")
       => \A r \in idb.rooms : CaughtUp(r) \/ Stuck(r)]_vars

(* RecoveryCoordinator 47: "Single-Flight Entry Point": no loop starts      *)
(* while another one is still awaiting, even one that was cancelled.        *)
SingleFlight ==
  [][(run.pc # "none" /\ run'.pc # "none") => run'.gen = run.gen]_vars

(* An event of an unknown type leaves the cursor where it is, and the page  *)
(* that starts at it is full: the next request gets the same page.          *)
Spinning ==
  /\ <<run.stream, idb.cursor[run.stream] + 1>> \in Unknown
  /\ idb.cursor[run.stream] + Limit <= latest[run.stream]

(* RecoveryCoordinator 101-175: every run ends, in READY, in an error or    *)
(* superseded, however its pages are cut and its streams grow; only a run   *)
(* that meets the same full page again and again goes on, and that one,     *)
(* too, ends once it is cancelled.                                          *)
RunsEnd == (run.pc # "none") ~> (run.pc = "none" \/ (Current /\ Spinning))
=============================================================================
