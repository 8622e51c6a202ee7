------------------------------- MODULE Outbox -------------------------------
(***************************************************************************)
(* The outbox of one client: mutations are written to IndexedDB first and  *)
(* sent by flush(), which runs after every enqueue, on every socket        *)
(* connect and at the end of the start of the app.  Flushes run at the     *)
(* same time as one another: nothing makes flush() single-flight, and      *)
(* blockedRooms is local to a call.                                        *)
(*                                                                         *)
(* The server half is the send_message handler over                        *)
(* MessageService.createMessage (RoomServer): it refuses for good a        *)
(* payload its schema does not accept and one with another sender than the *)
(* session's, then a room that requires a rotation, that has a newer key   *)
(* or that the sender has left; it stores a message once, and does not     *)
(* answer when its transaction fails.                                      *)
(*                                                                         *)
(* Each read and write of the store may fail.  flush() logs what processItem*)
(* throws and goes on with the next row.                                   *)
(*                                                                         *)
(* SyncEngine sets none of the required versions of a row, so that         *)
(* CryptoRevalidationService.validate accepts every row and REENCRYPT_     *)
(* REQUIRED and QUARANTINED are not reached.  The requests carry no        *)
(* roomKeyVersion either: once a room refuses the client, it always does.  *)
(* CanonicalReconciler deletes a row by clientMsgId, which is not the key  *)
(* of the store (mutationId is): rows stay.  Edits, deletions and          *)
(* reactions are emitted without a callback and taken as acknowledged.     *)
(***************************************************************************)
EXTENDS Integers, FiniteSets

CONSTANTS
  Mutations,    \* mutations the user makes
  Sends,        \* those of them that are SEND_MESSAGE
  Invalid,      \* those of these that no room takes: INVALID_PAYLOAD, FORBIDDEN
  Rooms,
  RoomOf,       \* the room of each mutation
  Flushers,     \* bound: flushes running at the same time
  MaxFlushes,   \* bound: calls of flush() in all
  MaxQueued     \* bound: rows that are written

ASSUME MutationsAssumption ==
  Sends \subseteq Mutations /\ Invalid \subseteq Sends /\ RoomOf \in [Mutations -> Rooms]
ASSUME BoundsAssumption == {MaxFlushes, MaxQueued} \subseteq Nat

VARIABLES
  queue,      \* offline_queue_v3: status, order, and whether nextAttemptAt has come
  flushes,    \* the calls of flush() in progress
  wire,       \* emitted, not yet handled by the server
  started,    \* calls of flush() so far; numbers them
  stored,     \* the messages the server has created
  refusing,   \* rooms that refuse what this client sends
  begun,      \* history: mutations some flush has begun to process
  stranded    \* history: mutations left in VALIDATING, by a stop of the app or an error

vars == <<queue, flushes, wire, started, stored, refusing, begun, stranded>>

\* Mutant: a row whose attempt failed is not picked up.
NotFailed == {"PENDING", "SENDING"}

Processable == {"PENDING", "RETRYABLE_FAILURE", "SENDING"}
Statuses ==
  Processable \cup {"NONE", "VALIDATING", "ACKNOWLEDGED", "PERMANENTLY_REJECTED"}

NoFlush ==
  [pc |-> "none", id |-> 0, todo |-> {}, item |-> "none", blocked |-> {}, ack |-> "none"]

Init ==
  /\ queue = [m \in Mutations |-> [status |-> "NONE", order |-> 0, due |-> FALSE]]
  /\ flushes = [f \in Flushers |-> NoFlush]
  /\ wire = {} /\ started = 0 /\ stored = {} /\ refusing = {}
  /\ begun = {} /\ stranded = {}

Queued == {m \in Mutations : queue[m].status # "NONE"}

Start(f) ==
  /\ flushes[f].pc = "none" /\ started < MaxFlushes
  /\ started' = started + 1
  /\ flushes' = [flushes EXCEPT ![f].pc = "read", ![f].id = started + 1]

(* enqueueMutation: sequence number and row in one transaction, then flush. *)
Enqueue(m, f) ==
  /\ m \notin Queued /\ Cardinality(Queued) < MaxQueued
  /\ queue' = [queue EXCEPT
       ![m] = [status |-> "PENDING", order |-> Cardinality(Queued) + 1, due |-> TRUE]]
  /\ Start(f)
  /\ UNCHANGED <<wire, stored, refusing, begun, stranded>>

(* The socket connects, or init ends. *)
Connect(f) ==
  /\ Queued # {}
  /\ Start(f)
  /\ UNCHANGED <<queue, wire, stored, refusing, begun, stranded>>

\* Mutant: the rows come as the store returns them, by their random keys.
Unsorted(m, S) == m \in S

(* The list is sorted by the sequence number of the rows, which never       *)
(* changes: the head of what is left of it.                                 *)
First(m, S) == m \in S /\ \A n \in S : queue[m].order <= queue[n].order

Due(m) == queue[m].status \in Processable /\ queue[m].due

ReadQueue(f) ==
  /\ flushes[f].pc = "read"
  /\ flushes' = [flushes EXCEPT ![f].pc = "next",
                                ![f].todo = {m \in Mutations : Due(m)}]
  /\ UNCHANGED <<queue, wire, started, stored, refusing, begun, stranded>>

Item(f) == flushes[f].item

Write(m, status) == queue' = [queue EXCEPT ![m].status = status]

(* processItem marks the row VALIDATING whatever became of it since the     *)
(* flush read it.                                                           *)
BeginItem(f) ==
  /\ flushes[f].pc = "next"
  /\ \E m \in Mutations :
       /\ First(m, flushes[f].todo)
       /\ IF RoomOf[m] \in flushes[f].blocked
          THEN /\ flushes' = [flushes EXCEPT ![f].todo = @ \ {m}]
               /\ UNCHANGED <<queue, begun>>
          ELSE /\ flushes' = [flushes EXCEPT ![f].pc = "validate", ![f].item = m]
               /\ Write(m, "VALIDATING")
               /\ begun' = begun \cup {m}
  /\ UNCHANGED <<wire, started, stored, refusing, stranded>>

EndFlush(f) ==
  /\ flushes[f].pc = "next" /\ flushes[f].todo = {}
  /\ flushes' = [flushes EXCEPT ![f] = NoFlush]
  /\ UNCHANGED <<queue, wire, started, stored, refusing, begun, stranded>>

(* The row is SENDING before the request leaves. *)
Send(f) ==
  /\ flushes[f].pc = "validate"
  /\ Write(Item(f), "SENDING")
  /\ wire' = wire \cup {[m |-> Item(f), flush |-> flushes[f].id]}
  /\ flushes' = [flushes EXCEPT ![f].pc = "wait",
                                ![f].ack = IF Item(f) \in Sends THEN "none" ELSE "ok"]
  /\ UNCHANGED <<started, stored, refusing, begun, stranded>>

(* The next row of the list, after an outcome for this one. *)
Leave(f, blocked) ==
  flushes' = [flushes EXCEPT
    ![f] = [@ EXCEPT !.pc = "next", !.todo = flushes[f].todo \ {Item(f)}, !.item = "none",
                     !.blocked = flushes[f].blocked \cup blocked, !.ack = "none"]]

Acknowledged(f) ==
  /\ flushes[f].pc = "wait" /\ flushes[f].ack = "ok"
  /\ Write(Item(f), "ACKNOWLEDGED")
  /\ Leave(f, {})
  /\ UNCHANGED <<wire, started, stored, refusing, begun, stranded>>

Rejected(f) ==
  /\ flushes[f].pc = "wait" /\ flushes[f].ack = "refused"
  /\ Write(Item(f), "PERMANENTLY_REJECTED")
  /\ Leave(f, {})
  /\ UNCHANGED <<wire, started, stored, refusing, begun, stranded>>

AfterTimeout == "RETRYABLE_FAILURE"

(* No answer within ten seconds, or a retryable one, or the row cannot be   *)
(* written as ACKNOWLEDGED: an answer that comes later is ignored.          *)
TimeoutOrRetry(f) ==
  /\ flushes[f].pc = "wait" /\ flushes[f].ack # "refused"
  /\ queue' = [queue EXCEPT ![Item(f)].status = AfterTimeout, ![Item(f)].due = FALSE]
  /\ Leave(f, {RoomOf[Item(f)]})
  /\ UNCHANGED <<wire, started, stored, refusing, begun, stranded>>

(* A read or a write of the store fails: the row keeps the status it has,   *)
(* its room is not blocked, and a list that was not read ends the flush.    *)
StoreFails(f) ==
  /\ \/ flushes[f].pc = "read" /\ flushes' = [flushes EXCEPT ![f] = NoFlush]
        /\ UNCHANGED <<begun, stranded>>
     \/ /\ flushes[f].pc = "next"
        /\ \E m \in Mutations :
             /\ First(m, flushes[f].todo) /\ RoomOf[m] \notin flushes[f].blocked
             /\ flushes' = [flushes EXCEPT ![f].todo = @ \ {m}]
             /\ begun' = begun \cup {m}
        /\ UNCHANGED stranded
     \/ /\ flushes[f].pc = "validate" /\ Leave(f, {})
        /\ stranded' = stranded \cup {Item(f)} /\ UNCHANGED begun
     \/ flushes[f].pc = "wait" /\ Leave(f, {}) /\ UNCHANGED <<begun, stranded>>
  /\ UNCHANGED <<queue, wire, started, stored, refusing>>

(* nextAttemptAt comes; no timer flushes then. *)
BackoffEnds(m) ==
  /\ queue[m].status # "NONE" /\ ~queue[m].due
  /\ queue' = [queue EXCEPT ![m].due = TRUE]
  /\ UNCHANGED <<flushes, wire, started, stored, refusing, begun, stranded>>

Revived ==
  [m \in Mutations |->
     IF queue[m].status = "PERMANENTLY_REJECTED" /\ m \in Sends
     THEN [queue[m] EXCEPT !.status = "PENDING", !.due = TRUE]
     ELSE queue[m]]

(* init, which runs for every new access token as well: it resets the       *)
(* rejected messages; the flush at its end is Connect.                      *)
InitAgain ==
  /\ queue # Revived /\ queue' = Revived
  /\ UNCHANGED <<flushes, wire, started, stored, refusing, begun, stranded>>

(* The app stops at any point and starts again: the rows in VALIDATING are  *)
(* in nobody's list any more.                                               *)
Restart ==
  /\ \E f \in Flushers : flushes[f].pc # "none"
  /\ flushes' = [f \in Flushers |-> NoFlush]
  /\ queue' = Revived
  /\ stranded' = stranded \cup {m \in Mutations : queue[m].status = "VALIDATING"}
  /\ UNCHANGED <<wire, started, stored, refusing, begun>>

-----------------------------------------------------------------------------
(* The server. *)

\* Mutant: an answer is taken for that of whatever is waiting.
AnyAnswer(f, w) == flushes[f].pc = "wait"

Awaits(f, w) ==
  flushes[f].pc = "wait" /\ flushes[f].id = w.flush /\ Item(f) = w.m

Answer(w, ack) ==
  flushes' = [f \in Flushers |->
                IF Awaits(f, w) THEN [flushes[f] EXCEPT !.ack = ack] ELSE flushes[f]]

Refused(m) == m \in Invalid \/ RoomOf[m] \in refusing

HandleSend(w) ==
  /\ w \in wire /\ w.m \in Sends
  /\ wire' = wire \ {w}
  /\ \/ Refused(w.m) /\ Answer(w, "refused") /\ stored' = stored
     \/ /\ ~Refused(w.m)
        /\ stored' = stored \cup {w.m}
        /\ Answer(w, "ok")
     \/ Answer(w, "retry") /\ stored' = stored
     \/ UNCHANGED <<flushes, stored>>
  /\ UNCHANGED <<queue, started, refusing, begun, stranded>>

(* edit_message, delete_message, react_message: handled or lost, unanswered. *)
HandleOther(w) ==
  /\ w \in wire /\ w.m \notin Sends
  /\ wire' = wire \ {w}
  /\ UNCHANGED <<queue, flushes, started, stored, refusing, begun, stranded>>

(* The client is removed from the room, or the room's key is rotated.       *)
Refuse(r) ==
  /\ r \notin refusing
  /\ refusing' = refusing \cup {r}
  /\ UNCHANGED <<queue, flushes, wire, started, stored, begun, stranded>>

-----------------------------------------------------------------------------
FlushStep(f) ==
  \/ ReadQueue(f) \/ BeginItem(f) \/ EndFlush(f) \/ Send(f)
  \/ Acknowledged(f) \/ Rejected(f) \/ TimeoutOrRetry(f) \/ StoreFails(f)

Next ==
  \/ \E f \in Flushers :
       FlushStep(f) \/ Connect(f) \/ \E m \in Mutations : Enqueue(m, f)
  \/ \E m \in Mutations : BackoffEnds(m)
  \/ \E w \in wire : HandleSend(w) \/ HandleOther(w)
  \/ \E r \in Rooms : Refuse(r)
  \/ InitAgain \/ Restart

Spec == Init /\ [][Next]_vars

-----------------------------------------------------------------------------
(* Properties. *)

(* Every variable has its shape. *)
TypeOK ==
  /\ queue \in [Mutations -> [status : Statuses, order : Nat, due : BOOLEAN]]
  /\ flushes \in [Flushers -> [pc : {"none", "read", "next", "validate", "wait"},
                               id : Nat, todo : SUBSET Mutations,
                               item : Mutations \cup {"none"}, blocked : SUBSET Rooms,
                               ack : {"none", "ok", "retry", "refused"}]]
  /\ wire \subseteq [m : Mutations, flush : 1..MaxFlushes]
  /\ started \in 0..MaxFlushes /\ stored \subseteq Sends /\ refusing \subseteq Rooms
  /\ begun \subseteq Mutations /\ stranded \subseteq Mutations

Before(m, n) ==
  m \in Queued /\ RoomOf[m] = RoomOf[n] /\ queue[m].order < queue[n].order

IsStored(m) == m \in stored

(* OutboxService 203: a message shown as acknowledged is on the server,     *)
(* whichever of the concurrent flushes wrote the row last.                  *)
AcknowledgedIsStored ==
  \A m \in Sends : queue[m].status = "ACKNOWLEDGED" => IsStored(m)

(* OutboxService 85-88: no flush begins a mutation while an earlier one of  *)
(* its room has not been begun by any.  It may overtake one whose send      *)
(* failed, although 219 says "Stop processing this room to preserve FIFO".  *)
BegunInOrder ==
  \A n \in begun : \A m \in Mutations : Before(m, n) => m \in begun

(* A message is given up for good only when the server would refuse it: in  *)
(* a room that refuses the client, or as a payload it takes in no room.     *)
(* Losing answers, overlapping flushes and errors never cause it.           *)
RejectedOnlyIfRefused ==
  \A m \in Mutations : queue[m].status = "PERMANENTLY_REJECTED" => Refused(m)

(* What a row says has become of its message is what has, however answers  *)
(* are lost or late and flushes overlap.                                    *)
VerdictsAreTrue == AcknowledgedIsStored /\ RejectedOnlyIfRefused

InHand(m) == \E f \in Flushers : flushes[f].pc \in {"validate", "wait"} /\ Item(f) = m

(* A message that is not on the server is in the hands of a flush, in a     *)
(* status the next flush picks up, or rejected because the server refuses   *)
(* it, unless it was left in VALIDATING, a status no flush picks up: by a   *)
(* stop of the app, or by an error that flush() only logs.                  *)
NothingIsDropped ==
  \A m \in Sends \cap Queued :
    \/ IsStored(m)
    \/ queue[m].status \in Processable
    \/ InHand(m)
    \/ queue[m].status = "PERMANENTLY_REJECTED" /\ Refused(m)
    \/ m \in stranded

(* MILESTONE_4_HOSTILE_TEST_MATRIX.md:94: "App restart outbox integrity |   *)
(* Device power loss | ... | Restored": a message that the stop of the app  *)
(* interrupted is one that the next start takes up, unless it was sent.     *)
RestartRestores ==
  [][Restart => \A m \in Sends \cap Queued :
                  queue'[m].status \in Processable \cup {"ACKNOWLEDGED"}]_vars
=============================================================================
