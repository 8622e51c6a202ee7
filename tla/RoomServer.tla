----------------------------- MODULE RoomServer -----------------------------
(***************************************************************************)
(* The server's authoritative state of the group rooms: membership, room   *)
(* key state, the durable event log, the messages, the identity            *)
(* transitions and the per-user event streams, with every mutation run as  *)
(* a MongoDB transaction.                                                  *)
(*                                                                         *)
(* A transaction takes its snapshot when it starts and buffers its writes. *)
(* A handler therefore is one Begin action: it reads the committed state,  *)
(* applies the handler's checks in order and stores the documents it will  *)
(* write in tx[q].  Commit installs them.  MongoDB lets only the first of  *)
(* two overlapping writers of one document commit: a commit aborts every   *)
(* open transaction that writes one of the same documents (withTransaction *)
(* then runs the handler again, which is a new Begin; a controller answers *)
(* with an error).                                                         *)
(* A crash of the server aborts its open transactions.                     *)
(*                                                                         *)
(* The RoomSequence counter and ChatRoom.latestSequence are set together   *)
(* by allocateRoomSequence and nowhere else: they are one field, latest.   *)
(* Mutation ids are generated by the server for each call, hence fresh:    *)
(* assertUniqueMutation never finds a duplicate and is left out.           *)
(***************************************************************************)
EXTENDS Integers, FiniteSets

CONSTANTS
  Users,            \* accounts
  Rooms,            \* group rooms (direct messages are another component)
  InitialRooms,     \* the rooms that exist at the start
  Requests,         \* requests the server works on at the same time
  ClientMsgIds,     \* clientMsgId values the clients generate
  Annotations,      \* the annotation handlers in use
  NoUser, NoId,     \* absent sender, absent clientMsgId
  MaxSequence,      \* bound: sequence numbers allocated in one room
  MaxIdentity       \* bound: identityVersion of a user

ASSUME RoomsAssumption == InitialRooms \subseteq Rooms
ASSUME UsersAssumption == NoUser \notin Users /\ NoId \notin ClientMsgIds
ASSUME AnnotationsAssumption ==
  Annotations \subseteq {"REACTION_CHANGED", "READ_UPDATED", "DELIVERY_UPDATED",
                         "PINNED_MESSAGES_CHANGED"}
ASSUME BoundsAssumption == MaxSequence \in Nat /\ MaxIdentity \in Nat

VARIABLES
  room,             \* ChatRoom documents
  events,           \* RoomEvent documents
  messages,         \* Message documents
  identityVersion,  \* User.identityVersion
  transitions,      \* IdentityTransition documents
  userLatest,       \* UserSequence counters
  userEvents,       \* UserEvent documents
  tx                \* the transactions in progress, with their buffered writes

vars == <<room, events, messages, identityVersion, transitions,
          userLatest, userEvents, tx>>

Active == "ACTIVE"
RotationRequired == "ROTATION_REQUIRED"

RoomEventTypes ==
  {"MESSAGE_CREATED", "MESSAGE_EDITED", "MESSAGE_DELETED", "REACTION_CHANGED",
   "READ_UPDATED", "DELIVERY_UPDATED", "ROOM_METADATA_CHANGED",
   "MEMBERSHIP_CHANGED", "ADMIN_CHANGED", "PINNED_MESSAGES_CHANGED",
   "IDENTITY_CHANGED", "ROOM_KEY_ROTATION_REQUIRED", "ROOM_KEY_ROTATED"}

UserEventTypes ==
  {"ROOM_ACCESS_GRANTED", "ROOM_ACCESS_REVOKED", "IDENTITY_RESET"}

(* A ChatRoom document; keys[u] is the identityVersion of u's envelope in   *)
(* encryptedRoomKeys, 0 when the map has no envelope for u.                 *)
RoomDoc ==
  [exists : BOOLEAN, owner : Users, participants : SUBSET Users,
   admins : SUBSET Users, keys : [Users -> Nat], keyVersion : Nat,
   revision : Nat, crypto : {Active, RotationRequired},
   latest : Nat, minRetained : Nat]

(* A RoomEvent; user, id, kv and idv are the parts of its payload that name *)
(* a user, a clientMsgId, a room key version and an identity version.       *)
Event ==
  [room : Rooms, seq : Nat, type : RoomEventTypes, user : Users \cup {NoUser},
   id : ClientMsgIds \cup {NoId}, kv : Nat, idv : Nat]

UserEventRecord == [user : Users, seq : Nat, type : UserEventTypes]

(* A Message; msg is the sequence number its creation allocated (it stands  *)
(* for messageId), rsn its current roomSequenceNumber.                      *)
Message ==
  [room : Rooms, msg : Nat, sender : Users, id : ClientMsgIds, kv : Nat,
   content : {"original", "edited", ""}, deleted : BOOLEAN, rsn : Nat]

Transition ==
  [user : Users, room : Rooms, new : Nat, prevKv : Nat,
   status : {"PENDING", "COMPLETED"}, resolvedKv : Nat]

(* A request with the writes its transaction has buffered. *)
IsTransaction(t) ==
  /\ t \in [phase : {"idle", "validating", "ready"}, docs : {t.docs},
            evs : SUBSET Event, pruned : SUBSET Event, puts : SUBSET Message,
            trans : SUBSET Transition, resets : SUBSET Users,
            uevs : SUBSET UserEventRecord]
  /\ DOMAIN t.docs \subseteq Rooms
  /\ \A r \in DOMAIN t.docs : t.docs[r] \in RoomDoc

Empty == [r \in {} |-> r]

(* A request with no transaction. *)
Idle ==
  [phase |-> "idle", docs |-> Empty, evs |-> {}, pruned |-> {}, puts |-> {},
   trans |-> {}, resets |-> {}, uevs |-> {}]

-----------------------------------------------------------------------------
(* Event contracts: what a handler puts in the payload, and the fields the  *)
(* zod schema run by the pre-validate hook of the model requires.           *)

Payload(type) ==
  CASE type = "REACTION_CHANGED"        -> {"messageId", "emoji"}
    [] type = "PINNED_MESSAGES_CHANGED" -> {"messageId", "action"}
    [] type = "ROOM_ACCESS_GRANTED"     -> {"roomId", "addedBy", "timestamp"}
    [] OTHER                            -> {}

Schema(type) ==
  CASE type = "REACTION_CHANGED"        -> {"messageId", "userId", "emoji"}
    [] type = "PINNED_MESSAGES_CHANGED" -> {"messageId", "action", "actorId"}
    [] type = "ROOM_ACCESS_GRANTED"     -> {"roomId", "roomKeyVersion"}
    [] OTHER                            -> {}

ValidPayloads(t) ==
  \A e \in t.evs \cup t.uevs : Schema(e.type) \subseteq Payload(e.type)

-----------------------------------------------------------------------------
(* The transaction machinery. *)

Begin(q, t) == tx' = [tx EXCEPT ![q] = t]

Open(docs, evs) ==
  [phase |-> "ready", docs |-> docs, evs |-> evs, pruned |-> {}, puts |-> {},
   trans |-> {}, resets |-> {}, uevs |-> {}]

Single(r, d) == [x \in {r} |-> d]

(* allocateRoomSequence: the k numbers after latest are the transaction's.  *)
Allocate(d, k) == [d EXCEPT !.latest = @ + k]

HasRoomFor(r, k) == room[r].latest + k <= MaxSequence

Ev(r, n, type, u) ==
  [room |-> r, seq |-> room[r].latest + n, type |-> type, user |-> u,
   id |-> NoId, kv |-> 0, idv |-> 0]

UserEv(u, type) == [user |-> u, seq |-> userLatest[u] + 1, type |-> type]

Streams(t) == {e.user : e \in t.uevs}

\* Mutants of Conflicts: a write that is not part of the session.
RoomWritesUnprotected(s, t) ==
  s.resets \cap t.resets # {} \/ Streams(s) \cap Streams(t) # {}
UserStreamsUnprotected(s, t) ==
  DOMAIN s.docs \cap DOMAIN t.docs # {} \/ s.resets \cap t.resets # {}

Conflicts(s, t) ==
  \/ DOMAIN s.docs \cap DOMAIN t.docs # {}
  \/ s.resets \cap t.resets # {}
  \/ Streams(s) \cap Streams(t) # {}

\* Mutant: the idempotency key ignores deleted messages.
LiveKeyed(m, u, id) == m.sender = u /\ m.id = id /\ ~m.deleted

(* The idempotency key of a message, also the message's unique index.       *)
Keyed(m, u, id) == m.sender = u /\ m.id = id

SameMessage(m, p) == m.room = p.room /\ m.msg = p.msg

\* Mutant: the index is per room.
IndexPerRoom(t) ==
  \A p \in t.puts, m \in messages :
    m.room = p.room /\ Keyed(m, p.sender, p.id) => SameMessage(m, p)

UniqueIndex(t) ==
  \A p \in t.puts, m \in messages : Keyed(m, p.sender, p.id) => SameMessage(m, p)

SameTransition(x, y) == x.user = y.user /\ x.room = y.room /\ x.new = y.new

Commit(q) ==
  LET t == tx[q] IN
  /\ t.phase = "ready"
  /\ ValidPayloads(t)
  /\ UniqueIndex(t)
  /\ room' = [r \in Rooms |-> IF r \in DOMAIN t.docs THEN t.docs[r] ELSE room[r]]
  /\ events' = (events \ t.pruned) \cup t.evs
  /\ messages' =
       {m \in messages : \A p \in t.puts : ~SameMessage(m, p)} \cup t.puts
  /\ transitions' =
       {x \in transitions : \A y \in t.trans : ~SameTransition(x, y)} \cup t.trans
  /\ identityVersion' =
       [u \in Users |-> identityVersion[u] + (IF u \in t.resets THEN 1 ELSE 0)]
  /\ userLatest' =
       [u \in Users |-> userLatest[u] + (IF u \in Streams(t) THEN 1 ELSE 0)]
  /\ userEvents' = userEvents \cup t.uevs
  /\ tx' = [p \in Requests |->
              IF p = q \/ Conflicts(tx[p], t) THEN Idle ELSE tx[p]]

(* A failed validation, a lost connection or a crash.                       *)
Abort(q) ==
  /\ tx[q].phase # "idle"
  /\ tx' = [tx EXCEPT ![q] = Idle]
  /\ UNCHANGED <<room, events, messages, identityVersion, transitions,
                 userLatest, userEvents>>

(* What every handler has in common: an idle request, a room that exists.   *)
Handles(q, r) ==
  /\ tx[q].phase = "idle"
  /\ room[r].exists
  /\ UNCHANGED <<room, events, messages, identityVersion, transitions,
                 userLatest, userEvents>>

-----------------------------------------------------------------------------
(* Messages (MessageService).                                               *)

\* Mutant: the room's crypto state is not looked at.
AlwaysSendable(d) == TRUE

Sendable(d) == d.crypto # RotationRequired

(* The sender's key version and identity version are in the request and     *)
(* must equal the room's and the user's in the snapshot.                    *)
CreateMessage(q, u, r, id) ==
  LET d == room[r] IN
  /\ Handles(q, r)
  /\ HasRoomFor(r, 1)
  /\ u \in d.participants
  /\ Sendable(d)
  /\ ~ \E m \in messages : Keyed(m, u, id)
  /\ Begin(q,
       [Open(Single(r, Allocate(d, 1)),
             {[Ev(r, 1, "MESSAGE_CREATED", u) EXCEPT
                 !.id = id, !.kv = d.keyVersion, !.idv = identityVersion[u]]})
        EXCEPT !.puts =
          {[room |-> r, msg |-> d.latest + 1, sender |-> u, id |-> id,
            kv |-> d.keyVersion, content |-> "original", deleted |-> FALSE,
            rsn |-> d.latest + 1]}])

(* The 15 minute window may be open or closed at any time. *)
EditMessage(q, u, m) ==
  LET d == room[m.room] IN
  /\ Handles(q, m.room)
  /\ HasRoomFor(m.room, 1)
  /\ u \in d.participants
  /\ u = m.sender
  /\ Begin(q,
       [Open(Single(m.room, Allocate(d, 1)), {Ev(m.room, 1, "MESSAGE_EDITED", u)})
        EXCEPT !.puts = {[m EXCEPT !.content = "edited", !.rsn = d.latest + 1]}])

DeleteMessage(q, u, m) ==
  LET d == room[m.room] IN
  /\ Handles(q, m.room)
  /\ HasRoomFor(m.room, 1)
  /\ u \in d.participants
  /\ u = m.sender
  /\ Begin(q,
       [Open(Single(m.room, Allocate(d, 1)), {Ev(m.room, 1, "MESSAGE_DELETED", u)})
        EXCEPT !.puts = {[m EXCEPT !.content = "", !.deleted = TRUE,
                                   !.rsn = d.latest + 1]}])

(* reactToMessage, markMessagesRead, markMessagesDelivered and pinMessage   *)
(* append one event; reactions, receipts and pins themselves are left out.  *)
Annotate(q, u, r, type) ==
  LET d == room[r] IN
  /\ Handles(q, r)
  /\ HasRoomFor(r, 1)
  /\ u \in d.participants
  /\ Begin(q, Open(Single(r, Allocate(d, 1)), {Ev(r, 1, type, u)}))

-----------------------------------------------------------------------------
(* Membership (groupController, roomController).                            *)

\* Mutants: the departed member stays an admin; the key is not invalidated; the
\* map of envelopes loses its shape.
WithoutButAdmin(d, v) ==
  [d EXCEPT !.participants = @ \ {v}, !.keys[v] = 0,
            !.revision = @ + 1, !.crypto = RotationRequired]
WithoutEntry(d, v) ==
  [d EXCEPT !.participants = @ \ {v}, !.admins = @ \ {v},
            !.keys = [w \in Users \ {v} |-> @[w]],
            !.revision = @ + 1, !.crypto = RotationRequired]
WithoutRotation(d, v) ==
  [d EXCEPT !.participants = @ \ {v}, !.admins = @ \ {v}, !.keys[v] = 0,
            !.revision = @ + 1]

Without(d, v) ==
  [d EXCEPT !.participants = @ \ {v}, !.admins = @ \ {v}, !.keys[v] = 0,
            !.revision = @ + 1, !.crypto = RotationRequired]

MembershipEvents(r, u) ==
  {Ev(r, 1, "MEMBERSHIP_CHANGED", u), Ev(r, 2, "ROOM_KEY_ROTATION_REQUIRED", u)}

(* createRoom inserts one document outside any transaction; the client      *)
(* sends envelopes for the identities it knows, or none.                    *)
CreateRoom(r, u, ps) ==
  /\ ~room[r].exists
  /\ \E env \in {[v \in Users |-> IF v \in ps \cup {u} THEN identityVersion[v] ELSE 0],
                 [v \in Users |-> 0]} :
       room' = [room EXCEPT ![r] =
                  [exists |-> TRUE, owner |-> u, participants |-> ps \cup {u},
                   admins |-> {u}, keys |-> env, keyVersion |-> 1, revision |-> 1,
                   crypto |-> Active, latest |-> 0, minRetained |-> 0]]
  /\ UNCHANGED <<events, messages, identityVersion, transitions,
                 userLatest, userEvents, tx>>

AddMembers(q, u, r, new) ==
  LET d == room[r] IN
  /\ Handles(q, r)
  /\ HasRoomFor(r, 2)
  /\ u \in d.admins
  /\ new # {} /\ new \cap d.participants = {}
  /\ Begin(q,
       [Open(Single(r, Allocate([d EXCEPT !.participants = @ \cup new,
                                          !.revision = @ + 1,
                                          !.crypto = RotationRequired], 2)),
             MembershipEvents(r, u))
        EXCEPT !.uevs = {UserEv(v, "ROOM_ACCESS_GRANTED") : v \in new}])

(* The transaction in which v stops being a member of r; v is not checked   *)
(* to be one.                                                               *)
Remove(q, u, r, v) ==
  LET d == room[r] IN
  Begin(q,
    [Open(Single(r, Allocate(Without(d, v), 2)),
          MembershipEvents(r, u))
     EXCEPT !.uevs = {UserEv(v, "ROOM_ACCESS_REVOKED")}])

KickMember(q, u, r, v) ==
  /\ Handles(q, r)
  /\ HasRoomFor(r, 2)
  /\ u \in room[r].admins
  /\ v # room[r].owner
  /\ Remove(q, u, r, v)

LeaveRoom(q, u, r) ==
  /\ Handles(q, r)
  /\ HasRoomFor(r, 2)
  /\ u # room[r].owner
  /\ Remove(q, u, r, u)

RemoveMember(q, u, r, v) ==
  /\ Handles(q, r)
  /\ HasRoomFor(r, 2)
  /\ u \in room[r].admins \/ u = v
  /\ Remove(q, u, r, v)

PromoteAdmin(q, u, r, v) ==
  LET d == room[r] IN
  /\ Handles(q, r)
  /\ HasRoomFor(r, 1)
  /\ u \in d.admins
  /\ v \in d.participants \ d.admins
  /\ Begin(q, Open(Single(r, Allocate([d EXCEPT !.admins = @ \cup {v}], 1)),
                   {Ev(r, 1, "ADMIN_CHANGED", u)}))

DemoteAdmin(q, u, r, v) ==
  LET d == room[r] IN
  /\ Handles(q, r)
  /\ HasRoomFor(r, 1)
  /\ u = d.owner
  /\ v \in d.admins \ {d.owner}
  /\ Begin(q, Open(Single(r, Allocate([d EXCEPT !.admins = @ \ {v}], 1)),
                   {Ev(r, 1, "ADMIN_CHANGED", u)}))

(* Only the event of a change of name, description or colour is modelled.   *)
UpdateRoom(q, u, r) ==
  /\ Handles(q, r)
  /\ HasRoomFor(r, 1)
  /\ u \in room[r].admins
  /\ Begin(q, Open(Single(r, Allocate(room[r], 1)),
                   {Ev(r, 1, "ROOM_METADATA_CHANGED", u)}))

-----------------------------------------------------------------------------
(* Room keys and identities (cryptoController, authController).             *)

(* The client sends the membership revision it saw and an envelope for each *)
(* member it knows, wrapped for an identity version that exists.            *)
RotateKey(q, u, r, env, expectedRevision) ==
  LET d == room[r]
      matching(x) == x.room = r /\ x.status = "PENDING" /\ x.new = env[x.user]
  IN
  /\ Handles(q, r)
  /\ HasRoomFor(r, 1)
  /\ u \in d.participants
  /\ d.revision = expectedRevision
  /\ d.crypto = RotationRequired
  /\ \A v \in Users : env[v] # 0 <=> v \in d.participants
  /\ Begin(q,
       [Open(Single(r, Allocate([d EXCEPT !.keys = env, !.crypto = Active,
                                          !.keyVersion = @ + 1], 1)),
             {[Ev(r, 1, "ROOM_KEY_ROTATED", u) EXCEPT !.kv = d.keyVersion + 1]})
        EXCEPT !.phase = "validating",
               !.trans = {[x EXCEPT !.status = "COMPLETED",
                                    !.resolvedKv = d.keyVersion + 1]
                            : x \in {y \in transitions : matching(y)}}])

\* Mutant: only the set of users is compared, not their identity versions.
ValidateUsersOnly(q) ==
  /\ tx[q].phase = "validating"
  /\ tx' = [tx EXCEPT ![q].phase = "ready"]
  /\ UNCHANGED <<room, events, messages, identityVersion, transitions,
                 userLatest, userEvents>>

(* validateRoomEnvelopes reads the users outside the session: the committed *)
(* versions of this moment, not of the snapshot.                            *)
ValidateRoomEnvelopes(q) ==
  /\ tx[q].phase = "validating"
  /\ \A r \in DOMAIN tx[q].docs : \A v \in tx[q].docs[r].participants :
       tx[q].docs[r].keys[v] = identityVersion[v]
  /\ tx' = [tx EXCEPT ![q].phase = "ready"]
  /\ UNCHANGED <<room, events, messages, identityVersion, transitions,
                 userLatest, userEvents>>

RoomsOf(u) == {r \in Rooms : room[r].exists /\ u \in room[r].participants}

(* resetIdentity: one transaction over the user, a transition record and    *)
(* the events of every room the user is in, and the user's own stream.      *)
\* Mutant: the room is left usable while the transition is pending.
Unlocked(d) == d

Locked(d) == [d EXCEPT !.crypto = RotationRequired]

NeedsRotation(r) == room[r].crypto # RotationRequired

ResetEvents(r, u) ==
  {[Ev(r, 1, "IDENTITY_CHANGED", u) EXCEPT !.idv = identityVersion[u] + 1]}
  \cup (IF NeedsRotation(r) THEN {Ev(r, 2, "ROOM_KEY_ROTATION_REQUIRED", u)} ELSE {})

ResetIdentity(q, u) ==
  /\ tx[q].phase = "idle"
  /\ identityVersion[u] < MaxIdentity
  /\ \A r \in RoomsOf(u) : HasRoomFor(r, 2)
  /\ Begin(q,
       [Open([r \in RoomsOf(u) |->
                Allocate(Locked(room[r]), IF NeedsRotation(r) THEN 2 ELSE 1)],
             UNION {ResetEvents(r, u) : r \in RoomsOf(u)})
        EXCEPT !.resets = {u},
               !.uevs = {UserEv(u, "IDENTITY_RESET")},
               !.trans = {[user |-> u, room |-> r, new |-> identityVersion[u] + 1,
                           prevKv |-> room[r].keyVersion, status |-> "PENDING",
                           resolvedKv |-> 0] : r \in RoomsOf(u)}])
  /\ UNCHANGED <<room, events, messages, identityVersion, transitions,
                 userLatest, userEvents>>

-----------------------------------------------------------------------------
(* Retention: the events up to a boundary event are deleted and the room's  *)
(* minimumRetainedSequence raised past it.                                  *)

\* Mutant: the boundary event itself is taken for retained.
BoundaryRetained(boundary) == boundary

FirstRetained(boundary) == boundary + 1

PruneRoomEvents(q, r, boundary) ==
  LET d == room[r] IN
  /\ Handles(q, r)
  /\ \E e \in events : e.room = r /\ e.seq = boundary
  /\ Begin(q,
       [Open(Single(r, [d EXCEPT !.minRetained =
                          IF FirstRetained(boundary) > @ THEN FirstRetained(boundary)
                          ELSE @]), {})
        EXCEPT !.pruned = {e \in events : e.room = r /\ e.seq <= boundary}])

-----------------------------------------------------------------------------
NoDoc(u) ==
  [exists |-> FALSE, owner |-> u, participants |-> {}, admins |-> {},
   keys |-> [v \in Users |-> 0], keyVersion |-> 1, revision |-> 1,
   crypto |-> Active, latest |-> 0, minRetained |-> 0]

(* The initial rooms are as createRoom leaves them, with an up-to-date      *)
(* client's envelopes or with none.                                         *)
FreshDoc(u, ps, v0) ==
  [NoDoc(u) EXCEPT !.exists = TRUE, !.participants = ps \cup {u}, !.admins = {u},
                   !.keys = [v \in Users |-> IF v \in ps \cup {u} THEN v0 ELSE 0]]

Init ==
  /\ \E u \in Users, ps \in SUBSET Users, v0 \in {0, 1} :
       room = [r \in Rooms |->
                 IF r \in InitialRooms THEN FreshDoc(u, ps, v0) ELSE NoDoc(u)]
  /\ events = {} /\ messages = {} /\ transitions = {} /\ userEvents = {}
  /\ identityVersion = [u \in Users |-> 1]
  /\ userLatest = [u \in Users |-> 0]
  /\ tx = [q \in Requests |-> Idle]

MessageStep(q, u) ==
  \/ \E r \in Rooms, id \in ClientMsgIds : CreateMessage(q, u, r, id)
  \/ \E m \in messages : EditMessage(q, u, m)
  \/ \E m \in messages : DeleteMessage(q, u, m)
  \/ \E r \in Rooms, type \in Annotations : Annotate(q, u, r, type)

MembershipStep(q, u) ==
  \/ \E r \in Rooms, new \in SUBSET Users : AddMembers(q, u, r, new)
  \/ \E r \in Rooms, v \in Users : KickMember(q, u, r, v)
  \/ \E r \in Rooms : LeaveRoom(q, u, r)
  \/ \E r \in Rooms, v \in Users : RemoveMember(q, u, r, v)
  \/ \E r \in Rooms, v \in Users : PromoteAdmin(q, u, r, v)
  \/ \E r \in Rooms, v \in Users : DemoteAdmin(q, u, r, v)
  \/ \E r \in Rooms : UpdateRoom(q, u, r)

KeyStep(q, u) ==
  \/ \E r \in Rooms : \E rev \in 1..room[r].revision :
       \E env \in [Users -> 0..MaxIdentity] :
         /\ \A v \in Users : env[v] <= identityVersion[v]
         /\ RotateKey(q, u, r, env, rev)
  \/ ResetIdentity(q, u)

Next ==
  \/ \E r \in Rooms, u \in Users, ps \in SUBSET Users : CreateRoom(r, u, ps)
  \/ \E q \in Requests :
       \/ \E u \in Users : MessageStep(q, u) \/ MembershipStep(q, u) \/ KeyStep(q, u)
       \/ \E r \in Rooms, boundary \in 1..MaxSequence : PruneRoomEvents(q, r, boundary)
       \/ ValidateRoomEnvelopes(q)
       \/ Commit(q)
       \/ Abort(q)

Spec == Init /\ [][Next]_vars

-----------------------------------------------------------------------------
(* Properties. *)

(* Every variable holds documents of its collection's shape. *)
TypeOK ==
  /\ room \in [Rooms -> RoomDoc]
  /\ events \subseteq Event
  /\ messages \subseteq Message
  /\ identityVersion \in [Users -> Nat]
  /\ transitions \subseteq Transition
  /\ userLatest \in [Users -> Nat]
  /\ userEvents \subseteq UserEventRecord
  /\ DOMAIN tx = Requests
  /\ \A q \in Requests : IsTransaction(tx[q])

(* SequenceService, RetentionService: whatever transactions overlap, abort  *)
(* or are retried, a room's log holds every sequence number from the        *)
(* retention boundary to latestSequence exactly once, so a client that asks *)
(* for the events after its cursor never skips one.                         *)
EventLogGapFree ==
  \A r \in Rooms :
    /\ \A s \in 1..room[r].latest :
         s >= room[r].minRetained <=> \E e \in events : e.room = r /\ e.seq = s
    /\ \A e \in events : e.room = r => e.seq \in 1..room[r].latest
    /\ \A e, f \in events : e.room = r /\ f.room = r /\ e.seq = f.seq => e = f

(* UserSequence, UserEvent: a user's own stream has no gap and no duplicate *)
(* even when membership changes of several rooms and an identity reset of   *)
(* the same user overlap.                                                   *)
UserStreamGapFree ==
  \A u \in Users :
    /\ \A s \in 1..userLatest[u] : \E e \in userEvents : e.user = u /\ e.seq = s
    /\ \A e, f \in userEvents : e.user = u /\ f.user = u /\ e.seq = f.seq => e = f

(* createMessage: a message the client retries, on any number of sockets at *)
(* once, is stored once and announced by one MESSAGE_CREATED event.         *)
ExactlyOnceMessage ==
  /\ \A m, n \in messages : m.sender = n.sender /\ m.id = n.id => m = n
  /\ \A e, f \in events :
       /\ e.type = "MESSAGE_CREATED" /\ f.type = "MESSAGE_CREATED"
       /\ e.user = f.user /\ e.id = f.id
       => e = f

Precedes(e, f) == e.room = f.room /\ e.seq < f.seq

(* createMessage against membership changes, identity resets and rotations  *)
(* that commit while it runs: in the log order every client replays, a      *)
(* message after ROOM_KEY_ROTATION_REQUIRED comes after the ROOM_KEY_ROTATED *)
(* that answers it, and carries that rotation's key version.                *)
MessagesUseCurrentKey ==
  \A e, f \in events :
    /\ e.type = "ROOM_KEY_ROTATION_REQUIRED" /\ f.type = "MESSAGE_CREATED"
    /\ Precedes(e, f)
    => \E g \in events : /\ g.type = "ROOM_KEY_ROTATED" /\ g.kv = f.kv
                         /\ Precedes(e, g) /\ Precedes(g, f)

(* createMessage against resetIdentity: no message composed with the old    *)
(* identity appears in a room's log after the IDENTITY_CHANGED event of its *)
(* sender.                                                                  *)
NoStaleIdentityMessage ==
  \A e, f \in events :
    /\ e.type = "IDENTITY_CHANGED" /\ f.type = "MESSAGE_CREATED"
    /\ e.user = f.user /\ Precedes(e, f)
    => e.idv <= f.idv

CurrentEnvelopes(d) ==
  \A v \in Users : d.keys[v] = IF v \in d.participants THEN identityVersion[v] ELSE 0

(* rotateKey against everything that may overlap it: once a room's key has  *)
(* been rotated, the room is ACTIVE only while its envelopes are for exactly *)
(* its participants under their current identities.  A room that createRoom *)
(* inserts, outside any transaction, while a participant's reset is open is *)
(* missed by the reset: of such a room the code does not promise it.        *)
EnvelopesCurrent ==
  \A r \in InitialRooms :
    room[r].keyVersion > 1 /\ room[r].crypto = Active => CurrentEnvelopes(room[r])

(* resetIdentity, rotateKey: while a reset of a participant is unanswered   *)
(* (its transition PENDING and not superseded by a later reset) the room    *)
(* refuses messages; a COMPLETED one was answered by a later key version.   *)
TransitionsTracked ==
  \A x \in transitions :
    /\ /\ x.status = "PENDING"
       /\ x.user \in room[x.room].participants
       /\ x.new = identityVersion[x.user]
       => room[x.room].crypto = RotationRequired
    /\ x.status = "COMPLETED" =>
         x.prevKv < x.resolvedKv /\ x.resolvedKv <= room[x.room].keyVersion

(* groupController, roomController: promotions, demotions, kicks, leaves    *)
(* and removals that overlap never leave an admin outside the room, who     *)
(* could go on managing it.                                                 *)
AdminsAreParticipants ==
  \A r \in Rooms : room[r].admins \subseteq room[r].participants

(* The entries of the retained log of r, by sequence number. *)
LogOf(r) ==
  [s \in {e.seq : e \in {f \in events : f.room = r}} |->
     LET e == CHOOSE f \in events : f.room = r /\ f.seq = s
     IN [type |-> e.type, user |-> e.user, id |-> e.id, kv |-> e.kv, idv |-> e.idv]]

Log == INSTANCE RoomLog WITH
  Entries <- [type : RoomEventTypes, user : Users \cup {NoUser},
              id : ClientMsgIds \cup {NoId}, kv : Nat, idv : Nat],
  latest <- [r \in Rooms |-> room[r].latest],
  floor <- [r \in Rooms |-> IF room[r].minRetained = 0 THEN 1 ELSE room[r].minRetained],
  log <- [r \in Rooms |-> LogOf(r)]

(* SequenceService, RoomEventService, RetentionService: the transactions    *)
(* implement the log the clients replay.  A step appends at latestSequence  *)
(* or drops a prefix the boundary already covers, and an event that is kept *)
(* never changes.                                                           *)
ImplementsRoomLog == Log!LogSpec

(* Every handler that changes who is in a room also advances the membership *)
(* revision a rotation must quote and stops the room's messages until the   *)
(* rotation: an ACTIVE room has the participants its key was made for.      *)
MembershipForcesRotation ==
  [][\A r \in Rooms :
       room[r].exists /\ room'[r].participants # room[r].participants =>
         /\ room'[r].revision > room[r].revision
         /\ room'[r].crypto = RotationRequired]_vars

=============================================================================
