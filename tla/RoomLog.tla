------------------------------ MODULE RoomLog -------------------------------
(***************************************************************************)
(* What the event log of a room promises to the clients that replay it by  *)
(* cursor (syncController): the retained part of each room's log is a      *)
(* contiguous range floor..latest; a step appends to it or drops a prefix, *)
(* and an entry, once written, never changes.  How concurrent handlers     *)
(* come to agree on the sequence numbers is RoomServer's affair, which     *)
(* implements this specification.                                          *)
(***************************************************************************)
EXTENDS Integers

CONSTANTS Rooms, Entries

VARIABLES
  latest,   \* ChatRoom.latestSequence
  floor,    \* the first sequence number that is retained
  log       \* the retained entries, by sequence number

logVars == <<latest, floor, log>>

LogTypeOK ==
  /\ latest \in [Rooms -> Nat]
  /\ floor \in [Rooms -> Nat]
  /\ \A r \in Rooms : log[r] \in [floor[r]..latest[r] -> Entries]

LogInit ==
  /\ latest = [r \in Rooms |-> 0]
  /\ floor = [r \in Rooms |-> 1]
  /\ log = [r \in Rooms |-> [s \in 1..0 |-> s]]

(* A transaction appends the events it allocated numbers for. *)
Append(r) ==
  /\ latest'[r] > latest[r]
  /\ floor'[r] = floor[r]
  /\ log'[r] \in [floor[r]..latest'[r] -> Entries]
  /\ \A s \in DOMAIN log[r] : log'[r][s] = log[r][s]

(* Retention drops the entries below a new floor. *)
Drop(r) ==
  /\ latest'[r] = latest[r]
  /\ floor'[r] \in floor[r] + 1 .. latest[r] + 1
  /\ log'[r] = [s \in floor'[r]..latest[r] |-> log[r][s]]

Keep(r) == latest'[r] = latest[r] /\ floor'[r] = floor[r] /\ log'[r] = log[r]

(* An identity reset appends to every room of the user in one step. *)
LogNext == \A r \in Rooms : Append(r) \/ Drop(r) \/ Keep(r)

LogSpec == LogInit /\ [][LogNext]_logVars
=============================================================================
