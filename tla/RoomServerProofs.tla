-------------------------- MODULE RoomServerProofs --------------------------
(* Proofs about RoomServer for any number of users, rooms and overlapping   *)
(* requests.                                                                *)
EXTENDS RoomServer, TLAPS

-----------------------------------------------------------------------------
(* The inductive invariant.  Beside the properties it says how the writes   *)
(* an open transaction has buffered relate to the committed documents: they *)
(* stay so because the commit of any other writer of one of its documents   *)
(* aborts it.                                                               *)

LogBase ==
  \A r \in Rooms :
    /\ room[r].minRetained <= room[r].latest + 1
    /\ ~room[r].exists => room[r].latest = 0 /\ room[r].minRetained = 0

(* The new events of a room are those from latest to the buffered latest,   *)
(* the pruned ones those below the buffered boundary.                       *)
TxLog(t) ==
  /\ \A e \in t.evs : e.room \in DOMAIN t.docs
  /\ \A e, f \in t.evs : e.room = f.room /\ e.seq = f.seq => e = f
  /\ \A e \in t.pruned : e.room \in DOMAIN t.docs
  /\ \A r \in DOMAIN t.docs :
       /\ room[r].exists /\ t.docs[r].exists
       /\ room[r].latest <= t.docs[r].latest
       /\ room[r].minRetained <= t.docs[r].minRetained
       /\ t.docs[r].minRetained <= room[r].latest + 1
       /\ \A s \in Nat : room[r].latest < s /\ s <= t.docs[r].latest <=>
                          \E e \in t.evs : e.room = r /\ e.seq = s
       /\ \A e \in events : e.room = r =>
            (e \in t.pruned <=> e.seq < t.docs[r].minRetained)

TxAdmins(t) ==
  \A r \in DOMAIN t.docs : t.docs[r].admins \subseteq t.docs[r].participants

StreamBase ==
  \A e \in userEvents : 1 <= e.seq /\ e.seq <= userLatest[e.user]

(* At most one new event a stream, with the stream's next number. *)
TxStreams(t) ==
  /\ \A e \in t.uevs : e.seq = userLatest[e.user] + 1
  /\ \A e, f \in t.uevs : e.user = f.user => e = f

Announced(e, ms) ==
  e.type = "MESSAGE_CREATED" =>
    \E m \in ms : m.room = e.room /\ m.msg = e.seq /\ Keyed(m, e.user, e.id)

MessageBase ==
  /\ \A m \in messages : m.msg <= room[m.room].latest
  /\ \A m, n \in messages : SameMessage(m, n) => m = n
  /\ \A m, n \in messages : Keyed(m, n.sender, n.id) => m = n
  /\ \A e \in events : Announced(e, messages)

(* One message at most is written, a new one or a new form of an old one.   *)
TxMessages(t) ==
  /\ \A p, o \in t.puts : p = o
  /\ \A p \in t.puts :
       /\ p.room \in DOMAIN t.docs
       /\ p.msg <= t.docs[p.room].latest
       /\ \A m \in messages : SameMessage(m, p) => Keyed(m, p.sender, p.id)
  /\ \A e \in t.evs : Announced(e, t.puts)

GoodTx(t) ==
  IsTransaction(t) /\ TxLog(t) /\ TxAdmins(t) /\ TxStreams(t) /\ TxMessages(t)

IInv ==
  /\ TypeOK
  /\ EventLogGapFree /\ LogBase
  /\ AdminsAreParticipants
  /\ UserStreamGapFree /\ StreamBase
  /\ MessageBase
  /\ \A q \in Requests : GoodTx(tx[q])

-----------------------------------------------------------------------------
(* The shapes of the pieces the handlers build transactions from. *)

LEMMA OpenType ==
  ASSUME NEW docs, NEW evs
  PROVE  /\ Open(docs, evs).phase = "ready"
         /\ Open(docs, evs).docs = docs
         /\ Open(docs, evs).evs = evs
         /\ Open(docs, evs).pruned = {} /\ Open(docs, evs).puts = {}
         /\ Open(docs, evs).trans = {} /\ Open(docs, evs).resets = {}
         /\ Open(docs, evs).uevs = {}
BY DEF Open

LEMMA IdleType == IsTransaction(Idle)
BY DEF IsTransaction, Idle, Empty

LEMMA SingleType ==
  ASSUME NEW r \in Rooms, NEW d \in RoomDoc
  PROVE  DOMAIN Single(r, d) = {r} /\ Single(r, d)[r] = d
BY DEF Single

LEMMA EvType ==
  ASSUME TypeOK, NEW r \in Rooms, NEW n \in Nat, NEW type \in RoomEventTypes,
         NEW u \in Users
  PROVE  Ev(r, n, type, u) \in Event
<1>1. room[r].latest + n \in Nat
  BY DEF TypeOK, RoomDoc
<1> QED
  BY <1>1 DEF Ev, Event

LEMMA WithoutType ==
  ASSUME NEW d \in RoomDoc, NEW v \in Users
  PROVE  /\ Without(d, v) \in RoomDoc
         /\ Without(d, v).latest = d.latest
         /\ Without(d, v).minRetained = d.minRetained
         /\ Without(d, v).exists = d.exists
         /\ Without(d, v).admins = d.admins \ {v}
         /\ Without(d, v).participants = d.participants \ {v}
<1>1. [d.keys EXCEPT ![v] = 0] \in [Users -> Nat]
  BY DEF RoomDoc
<1>2. Without(d, v) = [d EXCEPT !.participants = @ \ {v}, !.admins = @ \ {v},
                               !.keys = [d.keys EXCEPT ![v] = 0],
                               !.revision = @ + 1, !.crypto = RotationRequired]
  BY DEF Without, RoomDoc
<1>3. d.revision + 1 \in Nat
  BY DEF RoomDoc
<1>4. /\ Without(d, v).latest = d.latest /\ Without(d, v).minRetained = d.minRetained
      /\ Without(d, v).exists = d.exists /\ Without(d, v).admins = d.admins \ {v}
      /\ Without(d, v).participants = d.participants \ {v}
  BY <1>2 DEF RoomDoc
<1>5. Without(d, v) \in RoomDoc
  <2> DEFINE p == d.participants \ {v}
             a == d.admins \ {v}
             k == [d.keys EXCEPT ![v] = 0]
             n == d.revision + 1
  <2>1. p \in SUBSET Users /\ a \in SUBSET Users /\ k \in [Users -> Nat] /\ n \in Nat
    BY <1>1, <1>3 DEF RoomDoc
  <2>2. Without(d, v) = [d EXCEPT !.participants = p, !.admins = a, !.keys = k,
                                  !.revision = n, !.crypto = RotationRequired]
    BY <1>2
  <2> HIDE DEF p, a, k, n
  <2>3. Without(d, v) =
          [exists |-> d.exists, owner |-> d.owner, participants |-> p, admins |-> a, keys |-> k,
           keyVersion |-> d.keyVersion, revision |-> n, crypto |-> RotationRequired,
           latest |-> d.latest, minRetained |-> d.minRetained]
    BY <2>2 DEF RoomDoc
  <2>4. /\ d.exists \in BOOLEAN /\ d.owner \in Users /\ d.keyVersion \in Nat
        /\ d.latest \in Nat /\ d.minRetained \in Nat
    BY DEF RoomDoc
  <2> QED BY <2>1, <2>3, <2>4 DEF RoomDoc
<1> QED
  BY <1>4, <1>5

-----------------------------------------------------------------------------
(* A handler's transaction is good as soon as its parts are.                *)

LEMMA BeginStep ==
  ASSUME IInv, NEW q \in Requests, NEW t, GoodTx(t), Begin(q, t),
         UNCHANGED <<room, events, messages, identityVersion, transitions,
                     userLatest, userEvents>>
  PROVE  IInv'
<1>1. tx' = [tx EXCEPT ![q] = t] /\ DOMAIN tx = Requests
  BY DEF Begin, IInv, TypeOK
<1>2. \A p \in Requests : tx'[p] = t \/ tx'[p] = tx[p]
  BY <1>1
<1>3. \A p \in Requests : GoodTx(tx'[p])
  BY <1>2 DEF IInv
<1>4. (\A p \in Requests : GoodTx(tx[p]))'
  BY <1>3 DEF GoodTx, TxLog, TxAdmins, TxStreams, TxMessages
<1>5. TypeOK'
  BY <1>1, <1>2 DEF IInv, TypeOK, GoodTx
<1> QED
  BY <1>4, <1>5 DEF IInv, EventLogGapFree, LogBase, AdminsAreParticipants,
     UserStreamGapFree, StreamBase, MessageBase

LEMMA IdleGood == GoodTx(Idle)
BY IdleType DEF GoodTx, TxLog, TxAdmins, TxStreams, TxMessages, Idle, Empty

LEMMA CommitStep ==
  ASSUME IInv, NEW q \in Requests, Commit(q)
  PROVE  IInv'
<1> DEFINE t == tx[q]
<1>g. GoodTx(t)
  BY DEF IInv
<1>t. IsTransaction(t)
  BY <1>g DEF GoodTx
<1>d. DOMAIN t.docs \subseteq Rooms /\ \A r \in DOMAIN t.docs : t.docs[r] \in RoomDoc
  BY <1>t DEF IsTransaction
<1>s. /\ t.evs \subseteq Event /\ t.pruned \subseteq Event /\ t.puts \subseteq Message
      /\ t.trans \subseteq Transition /\ t.uevs \subseteq UserEventRecord
  BY <1>t DEF IsTransaction
<1>o. /\ room \in [Rooms -> RoomDoc] /\ events \subseteq Event
      /\ messages \subseteq Message /\ userEvents \subseteq UserEventRecord
      /\ userLatest \in [Users -> Nat]
  BY DEF IInv, TypeOK
<1>r. /\ \A r \in DOMAIN t.docs : room'[r] = t.docs[r]
      /\ \A r \in Rooms \ DOMAIN t.docs : room'[r] = room[r]
  BY <1>d DEF Commit
<1>e. events' = (events \ t.pruned) \cup t.evs
  BY DEF Commit
<1>m. messages' = {m \in messages : \A p \in t.puts : ~SameMessage(m, p)} \cup t.puts
  BY DEF Commit
<1>u. \A u \in Users : userLatest'[u] = userLatest[u] + (IF u \in Streams(t) THEN 1 ELSE 0)
  BY DEF Commit
<1>v. userEvents' = userEvents \cup t.uevs
  BY DEF Commit
<1>x. /\ DOMAIN tx' = Requests
      /\ \A p \in Requests : \/ tx'[p] = Idle
                             \/ tx'[p] = tx[p] /\ ~Conflicts(tx[p], t)
  BY DEF Commit
<1>1. TypeOK'
  <2>1. room' \in [Rooms -> RoomDoc]
    BY <1>d, <1>o DEF Commit
  <2>2. identityVersion' \in [Users -> Nat]
    BY DEF Commit, IInv, TypeOK
  <2>3. userLatest' \in [Users -> Nat]
    BY <1>o DEF Commit
  <2>4. \A p \in Requests : IsTransaction(tx'[p])
    BY <1>x, IdleType DEF IInv, GoodTx
  <2>5. events' \subseteq Event /\ messages' \subseteq Message /\ userEvents' \subseteq UserEventRecord
    BY <1>e, <1>m, <1>v, <1>s, <1>o
  <2>6. transitions' \subseteq Transition
    BY <1>s DEF Commit, IInv, TypeOK
  <2> QED
    BY <2>1, <2>2, <2>3, <2>4, <2>5, <2>6, <1>x DEF TypeOK, IsTransaction
<1>i. /\ EventLogGapFree /\ LogBase /\ AdminsAreParticipants
      /\ UserStreamGapFree /\ StreamBase /\ MessageBase
      /\ \A p \in Requests : GoodTx(tx[p])
  BY DEF IInv
<1>l. TxLog(t) /\ TxAdmins(t) /\ TxStreams(t) /\ TxMessages(t)
  BY <1>g DEF GoodTx
<1>k. \A r \in Rooms \ DOMAIN t.docs : \A e \in Event :
        e.room = r => (e \in events' <=> e \in events)
  BY <1>e, <1>l, <1>s, <1>o DEF TxLog
<1>2. EventLogGapFree'
  <2> SUFFICES ASSUME NEW r \in Rooms
      PROVE /\ \A s \in 1..room'[r].latest :
                 s >= room'[r].minRetained <=> \E e \in events' : e.room = r /\ e.seq = s
            /\ \A e \in events' : e.room = r => e.seq \in 1..room'[r].latest
            /\ \A e, f \in events' : e.room = r /\ f.room = r /\ e.seq = f.seq => e = f
    BY DEF EventLogGapFree
  <2>0. events' \subseteq Event
    BY <1>1 DEF TypeOK
  <2>1. CASE r \notin DOMAIN t.docs
    BY <2>0, <2>1, <1>k, <1>r, <1>i, <1>o DEF EventLogGapFree
  <2>2. CASE r \in DOMAIN t.docs
    <3> DEFINE old == room[r].latest
               new == t.docs[r].latest
               kept == t.docs[r].minRetained
    <3>1. /\ old \in Nat /\ new \in Nat /\ kept \in Nat /\ room[r].minRetained \in Nat
          /\ room'[r].latest = new /\ room'[r].minRetained = kept
      BY <2>2, <1>d, <1>r, <1>o DEF RoomDoc
    <3>2. old <= new /\ room[r].minRetained <= kept /\ kept <= old + 1
      BY <2>2, <1>l DEF TxLog
    <3>3. \A s \in Nat : old < s /\ s <= new <=> \E e \in t.evs : e.room = r /\ e.seq = s
      BY <2>2, <1>l DEF TxLog
    <3>4. \A e \in events : e.room = r => (e \in t.pruned <=> e.seq < kept)
      BY <2>2, <1>l DEF TxLog
    <3>5. \A e \in events : e.room = r => e.seq \in 1..old
      BY <1>i DEF EventLogGapFree
    <3>6. \A e \in t.evs : e.room = r => e.seq \in Nat /\ old < e.seq /\ e.seq <= new
      BY <3>3, <1>s DEF Event
    <3>7. ASSUME NEW s \in 1..new
          PROVE  s >= kept <=> \E e \in events' : e.room = r /\ e.seq = s
      <4>1. CASE s <= old
        <5>1. s >= room[r].minRetained <=> \E e \in events : e.room = r /\ e.seq = s
          BY <4>1, <3>1, <1>i DEF EventLogGapFree
        <5> QED
          BY <5>1, <4>1, <3>1, <3>2, <3>4, <3>6, <1>e
      <4>2. CASE s > old
        <5>1. \E e \in t.evs : e.room = r /\ e.seq = s
          BY <4>2, <3>1, <3>3
        <5> QED
          BY <5>1, <4>2, <3>1, <3>2, <1>e
      <4> QED
        BY <4>1, <4>2, <3>1
    <3>8. \A e \in events' : e.room = r => e.seq \in 1..new
      BY <3>1, <3>2, <3>5, <3>6, <1>e
    <3>9. \A e, f \in events' : e.room = r /\ f.room = r /\ e.seq = f.seq => e = f
      <4>1. \A e, f \in events : e.room = r /\ f.room = r /\ e.seq = f.seq => e = f
        BY <1>i DEF EventLogGapFree
      <4>2. \A e, f \in t.evs : e.room = r /\ f.room = r /\ e.seq = f.seq => e = f
        BY <1>l DEF TxLog
      <4>3. \A e \in events, f \in t.evs : e.room = r /\ f.room = r => e.seq # f.seq
        BY <3>1, <3>5, <3>6
      <4> QED
        BY <4>1, <4>2, <4>3, <1>e
    <3> QED
      BY <3>1, <3>7, <3>8, <3>9
  <2> QED
    BY <2>1, <2>2
<1>3. LogBase'
  <2> SUFFICES ASSUME NEW r \in Rooms
      PROVE /\ room'[r].minRetained <= room'[r].latest + 1
            /\ ~room'[r].exists => room'[r].latest = 0 /\ room'[r].minRetained = 0
    BY DEF LogBase
  <2>1. CASE r \notin DOMAIN t.docs
    BY <2>1, <1>r, <1>i DEF LogBase
  <2>2. CASE r \in DOMAIN t.docs
    <3>1. t.docs[r] \in RoomDoc /\ room[r] \in RoomDoc /\ room'[r] = t.docs[r]
      BY <2>2, <1>d, <1>r, <1>o
    <3> QED
      BY <3>1, <2>2, <1>l DEF TxLog, RoomDoc
  <2> QED
    BY <2>1, <2>2
<1>4. AdminsAreParticipants'
  BY <1>r, <1>i, <1>l DEF AdminsAreParticipants, TxAdmins
<1>5. UserStreamGapFree' /\ StreamBase'
  <2>1. \A e \in t.uevs : e.user \in Users /\ e.user \in Streams(t)
                          /\ e.seq = userLatest[e.user] + 1
    BY <1>l, <1>s DEF TxStreams, Streams, UserEventRecord
  <2>2. \A e \in userEvents : e.user \in Users /\ e.seq \in Nat /\ 1 <= e.seq
                              /\ e.seq <= userLatest[e.user]
    BY <1>o, <1>i DEF StreamBase, UserEventRecord
  <2>3. \A u \in Users : userLatest[u] \in Nat /\ userLatest'[u] \in Nat
                         /\ userLatest[u] <= userLatest'[u]
    BY <1>o, <1>u
  <2>4. StreamBase'
    BY <2>1, <2>2, <2>3, <1>o, <1>u, <1>v DEF StreamBase
  <2>5. ASSUME NEW u \in Users, NEW s \in 1..userLatest'[u]
        PROVE  \E e \in userEvents' : e.user = u /\ e.seq = s
    <3>1. CASE s <= userLatest[u]
      BY <3>1, <2>3, <1>i, <1>v DEF UserStreamGapFree
    <3>2. CASE s > userLatest[u]
      <4>1. u \in Streams(t) /\ s = userLatest[u] + 1
        BY <3>2, <2>3, <1>u
      <4> QED
        BY <4>1, <2>1, <1>v DEF Streams
    <3> QED
      BY <3>1, <3>2, <2>3
  <2>6. ASSUME NEW u \in Users, NEW e \in userEvents', NEW f \in userEvents',
               e.user = u, f.user = u, e.seq = f.seq
        PROVE  e = f
    <3>1. CASE e \in userEvents /\ f \in userEvents
      BY <3>1, <2>6, <1>i DEF UserStreamGapFree
    <3>2. CASE e \in t.uevs /\ f \in t.uevs
      BY <3>2, <2>6, <1>l DEF TxStreams
    <3>3. CASE \/ e \in userEvents /\ f \in t.uevs
               \/ e \in t.uevs /\ f \in userEvents
      BY <3>3, <2>6, <2>1, <2>2, <2>3
    <3> QED
      BY <3>1, <3>2, <3>3, <1>v
  <2> QED
    BY <2>4, <2>5, <2>6 DEF UserStreamGapFree
<1>6. MessageBase'
  <2>1. \A p \in t.puts : /\ p \in Message /\ p.room \in DOMAIN t.docs
                          /\ p.msg <= room'[p.room].latest
                          /\ \A m \in messages : SameMessage(m, p) => Keyed(m, p.sender, p.id)
    BY <1>l, <1>s, <1>r DEF TxMessages
  <2>2. \A p, o \in t.puts : p = o
    BY <1>l DEF TxMessages
  <2>3. \A r \in Rooms : room[r].latest \in Nat /\ room'[r].latest \in Nat
                         /\ room[r].latest <= room'[r].latest
    <3>1. ASSUME NEW r \in Rooms
          PROVE  room[r].latest \in Nat /\ room'[r].latest \in Nat
                 /\ room[r].latest <= room'[r].latest
      <4>1. room[r] \in RoomDoc /\ room'[r] \in RoomDoc
        BY <1>1, <1>o DEF TypeOK
      <4>2. room[r].latest <= room'[r].latest
        BY <4>1, <1>r, <1>l DEF TxLog, RoomDoc
      <4> QED
        BY <4>1, <4>2 DEF RoomDoc
    <3> QED
      BY <3>1
  <2>4. \A m \in messages' : m.msg <= room'[m.room].latest
    <3>1. \A m \in messages : m.msg \in Nat /\ m.room \in Rooms /\ m.msg <= room[m.room].latest
      BY <1>o, <1>i DEF MessageBase, Message
    <3> QED
      BY <3>1, <2>1, <2>3, <1>m
  <2>5. \A m, n \in messages' : SameMessage(m, n) => m = n
    <3>1. \A m, n \in messages : SameMessage(m, n) => m = n
      BY <1>i DEF MessageBase
    <3> QED
      BY <3>1, <2>2, <1>m DEF SameMessage
  <2>6. \A m, n \in messages' : Keyed(m, n.sender, n.id) => m = n
    <3>1. \A m, n \in messages : Keyed(m, n.sender, n.id) => m = n
      BY <1>i DEF MessageBase
    <3>2. \A p \in t.puts, m \in messages : Keyed(m, p.sender, p.id) => SameMessage(m, p)
      BY DEF Commit, UniqueIndex
    <3> QED
      BY <3>1, <3>2, <2>2, <1>m DEF Keyed
  <2>7. \A e \in events' : Announced(e, messages')
    <3>1. \A e \in t.evs : Announced(e, messages')
      BY <1>l, <1>m DEF TxMessages, Announced
    <3>2. ASSUME NEW e \in events, e.type = "MESSAGE_CREATED"
          PROVE  \E m \in messages' : m.room = e.room /\ m.msg = e.seq /\ Keyed(m, e.user, e.id)
      <4>1. PICK m \in messages : m.room = e.room /\ m.msg = e.seq /\ Keyed(m, e.user, e.id)
        BY <3>2, <1>i DEF MessageBase, Announced
      <4>2. CASE \A p \in t.puts : ~SameMessage(m, p)
        BY <4>1, <4>2, <1>m
      <4>3. CASE \E p \in t.puts : SameMessage(m, p)
        BY <4>1, <4>3, <2>1, <1>m DEF SameMessage, Keyed
      <4> QED
        BY <4>2, <4>3
    <3> QED
      BY <3>1, <3>2, <1>e DEF Announced
  <2> QED
    BY <2>4, <2>5, <2>6, <2>7 DEF MessageBase
<1>7. (\A p \in Requests : GoodTx(tx[p]))'
  <2> SUFFICES ASSUME NEW p \in Requests
      PROVE  GoodTx(tx[p])'
    OBVIOUS
  <2>1. CASE tx'[p] = Idle
    BY <2>1, IdleType DEF GoodTx, TxLog, TxAdmins, TxStreams, TxMessages, Idle, Empty
  <2>2. CASE tx'[p] = tx[p] /\ ~Conflicts(tx[p], t)
    <3> DEFINE o == tx[p]
    <3>1. IsTransaction(o) /\ TxLog(o) /\ TxAdmins(o) /\ TxStreams(o) /\ TxMessages(o)
      BY <1>i DEF GoodTx
    <3>2. DOMAIN o.docs \cap DOMAIN t.docs = {} /\ Streams(o) \cap Streams(t) = {}
      BY <2>2 DEF Conflicts
    <3>3. \A r \in DOMAIN o.docs : r \in Rooms /\ r \notin DOMAIN t.docs /\ room'[r] = room[r]
      BY <3>1, <3>2, <1>r DEF IsTransaction
    <3>4. TxLog(o)'
      <4>1. \A r \in DOMAIN o.docs : \A e \in events' : e.room = r => e \in events
        BY <3>3, <1>e, <1>l DEF TxLog
      <4>2. \A r \in DOMAIN o.docs :
              /\ room'[r].exists /\ o.docs[r].exists
              /\ room'[r].latest <= o.docs[r].latest
              /\ room'[r].minRetained <= o.docs[r].minRetained
              /\ o.docs[r].minRetained <= room'[r].latest + 1
        BY <3>3, <3>1 DEF TxLog
      <4>3. \A r \in DOMAIN o.docs :
              \A s \in Nat : room'[r].latest < s /\ s <= o.docs[r].latest <=>
                             \E e \in o.evs : e.room = r /\ e.seq = s
        BY <3>3, <3>1 DEF TxLog
      <4>4. \A r \in DOMAIN o.docs : \A e \in events' : e.room = r =>
              (e \in o.pruned <=> e.seq < o.docs[r].minRetained)
        BY <4>1, <3>1 DEF TxLog
      <4>5. /\ \A e \in o.evs : e.room \in DOMAIN o.docs
            /\ \A e, f \in o.evs : e.room = f.room /\ e.seq = f.seq => e = f
            /\ \A e \in o.pruned : e.room \in DOMAIN o.docs
        BY <3>1 DEF TxLog
      <4> QED
        BY <4>2, <4>3, <4>4, <4>5, <2>2 DEF TxLog
    <3>5. TxAdmins(o)'
      BY <3>1, <2>2 DEF TxAdmins
    <3>6. TxStreams(o)'
      <4>1. \A e \in o.uevs : e.user \in Users /\ e.user \notin Streams(t)
        BY <3>1, <3>2 DEF Streams, IsTransaction, UserEventRecord
      <4>2. \A e \in o.uevs : userLatest'[e.user] = userLatest[e.user]
        BY <4>1, <1>u, <1>o
      <4> QED
        BY <4>2, <3>1, <2>2 DEF TxStreams
    <3>7. TxMessages(o)'
      <4>1. \A c \in o.puts : \A m \in messages' : SameMessage(m, c) => m \in messages
        BY <3>1, <3>3, <1>l, <1>m DEF TxMessages, SameMessage
      <4> QED
        BY <4>1, <3>1, <2>2 DEF TxMessages, Announced
    <3> QED
      BY <3>1, <3>4, <3>5, <3>6, <3>7, <2>2 DEF GoodTx, IsTransaction
  <2> QED
    BY <2>1, <2>2, <1>x
<1> QED
  BY <1>1, <1>2, <1>3, <1>4, <1>5, <1>6, <1>7 DEF IInv

LEMMA AbortStep ==
  ASSUME IInv, NEW q \in Requests, Abort(q)
  PROVE  IInv'
BY IdleGood, BeginStep DEF Abort, Begin

LEMMA ValidateStep ==
  ASSUME IInv, NEW q \in Requests, ValidateRoomEnvelopes(q)
  PROVE  IInv'
<1> DEFINE t == [tx[q] EXCEPT !.phase = "ready"]
<1>1. GoodTx(tx[q])
  BY DEF IInv
<1>2. /\ IsTransaction(t)
      /\ t.docs = tx[q].docs /\ t.evs = tx[q].evs /\ t.pruned = tx[q].pruned
      /\ t.puts = tx[q].puts /\ t.uevs = tx[q].uevs
  BY <1>1 DEF GoodTx, IsTransaction
<1>3. GoodTx(t)
  BY <1>1, <1>2 DEF GoodTx, TxLog, TxAdmins, TxStreams, TxMessages
<1>4. Begin(q, t)
  BY DEF ValidateRoomEnvelopes, Begin
<1> QED
  BY <1>3, <1>4, BeginStep DEF ValidateRoomEnvelopes

LEMMA CreateRoomStep ==
  ASSUME IInv, NEW r \in Rooms, NEW u \in Users, NEW ps \in SUBSET Users,
         CreateRoom(r, u, ps)
  PROVE  IInv'
<1>1. PICK env \in [Users -> Nat] :
        room' = [room EXCEPT ![r] =
                  [exists |-> TRUE, owner |-> u, participants |-> ps \cup {u},
                   admins |-> {u}, keys |-> env, keyVersion |-> 1, revision |-> 1,
                   crypto |-> Active, latest |-> 0, minRetained |-> 0]]
  BY DEF CreateRoom, IInv, TypeOK
<1>2. /\ ~room[r].exists /\ room \in [Rooms -> RoomDoc]
      /\ UNCHANGED <<events, messages, identityVersion, transitions,
                     userLatest, userEvents, tx>>
  BY DEF CreateRoom, IInv, TypeOK
<1>3. room[r].latest = 0 /\ room[r].minRetained = 0
  BY <1>2 DEF IInv, LogBase
<1>4. /\ room'[r].exists /\ room'[r].latest = 0 /\ room'[r].minRetained = 0
      /\ room'[r].admins = {u} /\ room'[r].participants = ps \cup {u}
      /\ room'[r] \in RoomDoc
  BY <1>1, <1>2 DEF RoomDoc
<1>5. \A x \in Rooms \ {r} : room'[x] = room[x]
  BY <1>1, <1>2
<1>6. \A x \in Rooms : /\ room'[x].latest = room[x].latest
                       /\ room'[x].minRetained = room[x].minRetained
  BY <1>3, <1>4, <1>5
<1>7. TypeOK'
  <2>1. room' \in [Rooms -> RoomDoc]
    BY <1>1, <1>2, <1>4
  <2> QED
    BY <2>1, <1>2 DEF IInv, TypeOK, IsTransaction
<1>8. EventLogGapFree' /\ LogBase'
  BY <1>2, <1>4, <1>5, <1>6 DEF IInv, EventLogGapFree, LogBase
<1>9. AdminsAreParticipants'
  BY <1>4, <1>5 DEF IInv, AdminsAreParticipants
<1>10. UserStreamGapFree' /\ StreamBase'
  BY <1>2 DEF IInv, UserStreamGapFree, StreamBase
<1>11. MessageBase'
  BY <1>2, <1>6 DEF IInv, MessageBase, TypeOK, Message
<1>12. ASSUME NEW p \in Requests
       PROVE  GoodTx(tx[p])'
  <2>1. GoodTx(tx[p]) /\ tx'[p] = tx[p]
    BY <1>2 DEF IInv
  <2>2. \A x \in DOMAIN tx[p].docs : x \in Rooms /\ room'[x] = room[x]
    BY <2>1, <1>2, <1>5 DEF GoodTx, TxLog, IsTransaction
  <2>3. TxLog(tx[p])'
    BY <2>1, <2>2, <1>2 DEF GoodTx, TxLog
  <2>4. TxAdmins(tx[p])' /\ TxStreams(tx[p])' /\ TxMessages(tx[p])'
    BY <2>1, <1>2 DEF GoodTx, TxAdmins, TxStreams, TxMessages
  <2> QED
    BY <2>1, <2>3, <2>4 DEF GoodTx, IsTransaction
<1> QED
  BY <1>7, <1>8, <1>9, <1>10, <1>11, <1>12 DEF IInv

-----------------------------------------------------------------------------
(* Handlers that write one room. *)

LEMMA SingleRoom ==
  ASSUME IInv, NEW r \in Rooms, room[r].exists, NEW d \in RoomDoc, d.exists,
         d.minRetained = room[r].minRetained, room[r].latest <= d.latest,
         d.admins \subseteq d.participants,
         NEW t, t.docs = Single(r, d), t.pruned = {},
         \A e \in t.evs : e.room = r,
         \A e, f \in t.evs : e.seq = f.seq => e = f,
         \A s \in Nat : room[r].latest < s /\ s <= d.latest <=> \E e \in t.evs : e.seq = s
  PROVE  TxLog(t) /\ TxAdmins(t)
<1>1. DOMAIN t.docs = {r} /\ t.docs[r] = d
  BY SingleType
<1>2. room[r] \in RoomDoc
  BY DEF IInv, TypeOK
<1>3. \A e \in events : e.room = r => ~(e.seq < d.minRetained)
  <2>1. ASSUME NEW e \in events, e.room = r
        PROVE  ~(e.seq < d.minRetained)
    <3>1. e.seq \in 1..room[r].latest
      BY <2>1 DEF IInv, EventLogGapFree
    <3>2. e.seq >= room[r].minRetained
      BY <3>1, <2>1 DEF IInv, EventLogGapFree
    <3> QED
      BY <3>1, <3>2, <1>2 DEF RoomDoc
  <2> QED
    BY <2>1
<1>4. room[r].minRetained <= room[r].latest + 1
  BY DEF IInv, LogBase
<1>5. TxLog(t)
  BY <1>1, <1>2, <1>3, <1>4 DEF TxLog, RoomDoc
<1> QED
  BY <1>1, <1>5 DEF TxAdmins

LEMMA OneEvent ==
  ASSUME IInv, NEW r \in Rooms, room[r].exists, NEW d \in RoomDoc, d.exists,
         d.minRetained = room[r].minRetained, d.latest = room[r].latest + 1,
         d.admins \subseteq d.participants,
         NEW e, e.room = r, e.seq = room[r].latest + 1,
         NEW t, t.docs = Single(r, d), t.pruned = {}, t.evs = {e}
  PROVE  TxLog(t) /\ TxAdmins(t)
<1>1. room[r].latest \in Nat
  BY DEF IInv, TypeOK, RoomDoc
<1>2. \A s \in Nat : room[r].latest < s /\ s <= d.latest <=> \E f \in t.evs : f.seq = s
  BY <1>1
<1> QED
  BY <1>1, <1>2, SingleRoom

LEMMA TwoEvents ==
  ASSUME IInv, NEW r \in Rooms, room[r].exists, NEW d \in RoomDoc, d.exists,
         d.minRetained = room[r].minRetained, d.latest = room[r].latest + 2,
         d.admins \subseteq d.participants,
         NEW e, e.room = r, e.seq = room[r].latest + 1,
         NEW f, f.room = r, f.seq = room[r].latest + 2,
         NEW t, t.docs = Single(r, d), t.pruned = {}, t.evs = {e, f}
  PROVE  TxLog(t) /\ TxAdmins(t)
<1>1. room[r].latest \in Nat
  BY DEF IInv, TypeOK, RoomDoc
<1>2. \A s \in Nat : room[r].latest < s /\ s <= d.latest <=> \E x \in t.evs : x.seq = s
  BY <1>1
<1>3. \A x, y \in t.evs : x.seq = y.seq => x = y
  BY <1>1
<1> QED
  BY <1>1, <1>2, <1>3, SingleRoom

LEMMA SingleOpen ==
  ASSUME NEW r \in Rooms, NEW d \in RoomDoc, NEW evs \in SUBSET Event
  PROVE  IsTransaction(Open(Single(r, d), evs))
<1> DEFINE docs == Single(r, d)
           t == [phase |-> "ready", docs |-> docs, evs |-> evs, pruned |-> {},
                 puts |-> {}, trans |-> {}, resets |-> {}, uevs |-> {}]
<1>1. DOMAIN docs = {r} /\ docs[r] = d
  BY SingleType
<1> HIDE DEF docs
<1>2. Open(docs, evs) = t
  BY DEF Open
<1>3. t \in [phase : {"idle", "validating", "ready"}, docs : {t.docs},
             evs : SUBSET Event, pruned : SUBSET Event, puts : SUBSET Message,
             trans : SUBSET Transition, resets : SUBSET Users,
             uevs : SUBSET UserEventRecord]
  OBVIOUS
<1>4. IsTransaction(t)
  BY <1>1, <1>3 DEF IsTransaction
<1> QED
  BY <1>2, <1>4 DEF docs

LEMMA RoomFacts ==
  ASSUME IInv, NEW r \in Rooms
  PROVE  /\ room[r] \in RoomDoc
         /\ room[r].latest \in Nat
         /\ room[r].admins \subseteq room[r].participants
BY DEF IInv, TypeOK, RoomDoc, AdminsAreParticipants

LEMMA AllocateFacts ==
  ASSUME NEW d \in RoomDoc, NEW k \in Nat
  PROVE  /\ Allocate(d, k) \in RoomDoc
         /\ Allocate(d, k).latest = d.latest + k
         /\ Allocate(d, k).minRetained = d.minRetained
         /\ Allocate(d, k).exists = d.exists
         /\ Allocate(d, k).admins = d.admins
         /\ Allocate(d, k).participants = d.participants
BY DEF Allocate, RoomDoc

LEMMA EvFacts ==
  ASSUME IInv, NEW r \in Rooms, NEW n \in Nat, NEW type \in RoomEventTypes,
         NEW u \in Users
  PROVE  /\ Ev(r, n, type, u) \in Event
         /\ Ev(r, n, type, u).room = r
         /\ Ev(r, n, type, u).seq = room[r].latest + n
         /\ Ev(r, n, type, u).type = type
BY EvType DEF Ev, IInv

(* A handler that appends one event and changes one document. *)
LEMMA PlainStep ==
  ASSUME IInv, NEW q \in Requests, NEW r \in Rooms, NEW d \in RoomDoc,
         NEW type \in RoomEventTypes \ {"MESSAGE_CREATED"}, NEW u \in Users,
         Handles(q, r), d.exists, d.latest = room[r].latest + 1,
         d.minRetained = room[r].minRetained, d.admins \subseteq d.participants,
         Begin(q, Open(Single(r, d), {Ev(r, 1, type, u)}))
  PROVE  IInv'
<1> DEFINE e == Ev(r, 1, type, u)
           t == Open(Single(r, d), {e})
<1>1. e \in Event /\ e.room = r /\ e.seq = room[r].latest + 1 /\ e.type = type
  BY EvFacts
<1>2. IsTransaction(t)
  BY <1>1, SingleOpen
<1>3. /\ t.docs = Single(r, d) /\ t.evs = {e} /\ t.pruned = {}
      /\ t.puts = {} /\ t.uevs = {}
  BY OpenType
<1>4. TxLog(t) /\ TxAdmins(t)
  BY <1>1, <1>3, OneEvent DEF Handles
<1>5. TxStreams(t) /\ TxMessages(t)
  BY <1>1, <1>3 DEF TxStreams, TxMessages, Announced
<1> QED
  BY <1>2, <1>4, <1>5, BeginStep DEF GoodTx, Handles

LEMMA AnnotateStep ==
  ASSUME IInv, NEW q \in Requests, NEW u \in Users, NEW r \in Rooms,
         NEW type \in Annotations, Annotate(q, u, r, type)
  PROVE  IInv'
<1>1. type \in RoomEventTypes \ {"MESSAGE_CREATED"}
  BY AnnotationsAssumption DEF RoomEventTypes
<1>2. room[r].exists
  BY DEF Annotate, Handles
<1> QED
  BY <1>1, <1>2, RoomFacts, AllocateFacts, PlainStep DEF Annotate

LEMMA UpdateRoomStep ==
  ASSUME IInv, NEW q \in Requests, NEW u \in Users, NEW r \in Rooms,
         UpdateRoom(q, u, r)
  PROVE  IInv'
<1>1. room[r].exists
  BY DEF UpdateRoom, Handles
<1> QED
  BY <1>1, RoomFacts, AllocateFacts, PlainStep DEF UpdateRoom, RoomEventTypes

LEMMA PromoteAdminStep ==
  ASSUME IInv, NEW q \in Requests, NEW u \in Users, NEW r \in Rooms, NEW v \in Users,
         PromoteAdmin(q, u, r, v)
  PROVE  IInv'
<1> DEFINE d == [room[r] EXCEPT !.admins = @ \cup {v}]
<1>1. /\ d \in RoomDoc /\ d.exists /\ d.latest = room[r].latest
      /\ d.minRetained = room[r].minRetained /\ d.admins \subseteq d.participants
  BY RoomFacts DEF PromoteAdmin, Handles, RoomDoc
<1>2. /\ Handles(q, r) /\ "ADMIN_CHANGED" \in RoomEventTypes \ {"MESSAGE_CREATED"}
      /\ Begin(q, Open(Single(r, Allocate(d, 1)), {Ev(r, 1, "ADMIN_CHANGED", u)}))
  BY DEF PromoteAdmin, RoomEventTypes
<1> HIDE DEF d
<1>3. /\ Allocate(d, 1) \in RoomDoc /\ Allocate(d, 1).exists
      /\ Allocate(d, 1).latest = room[r].latest + 1
      /\ Allocate(d, 1).minRetained = room[r].minRetained
      /\ Allocate(d, 1).admins \subseteq Allocate(d, 1).participants
  BY <1>1, AllocateFacts
<1> QED
  BY <1>2, <1>3, PlainStep

LEMMA DemoteAdminStep ==
  ASSUME IInv, NEW q \in Requests, NEW u \in Users, NEW r \in Rooms, NEW v \in Users,
         DemoteAdmin(q, u, r, v)
  PROVE  IInv'
<1> DEFINE d == [room[r] EXCEPT !.admins = @ \ {v}]
<1>1. /\ d \in RoomDoc /\ d.exists /\ d.latest = room[r].latest
      /\ d.minRetained = room[r].minRetained /\ d.admins \subseteq d.participants
  BY RoomFacts DEF DemoteAdmin, Handles, RoomDoc
<1>2. /\ Handles(q, r) /\ "ADMIN_CHANGED" \in RoomEventTypes \ {"MESSAGE_CREATED"}
      /\ Begin(q, Open(Single(r, Allocate(d, 1)), {Ev(r, 1, "ADMIN_CHANGED", u)}))
  BY DEF DemoteAdmin, RoomEventTypes
<1> HIDE DEF d
<1>3. /\ Allocate(d, 1) \in RoomDoc /\ Allocate(d, 1).exists
      /\ Allocate(d, 1).latest = room[r].latest + 1
      /\ Allocate(d, 1).minRetained = room[r].minRetained
      /\ Allocate(d, 1).admins \subseteq Allocate(d, 1).participants
  BY <1>1, AllocateFacts
<1> QED
  BY <1>2, <1>3, PlainStep

-----------------------------------------------------------------------------
(* Handlers that write more than a room and its events. *)

LEMMA WithStreams ==
  ASSUME NEW o, IsTransaction(o), NEW x \in SUBSET UserEventRecord
  PROVE  LET t == [o EXCEPT !.uevs = x] IN
         /\ IsTransaction(t)
         /\ t.docs = o.docs /\ t.evs = o.evs /\ t.pruned = o.pruned
         /\ t.puts = o.puts /\ t.uevs = x
BY DEF IsTransaction

LEMMA WithMessages ==
  ASSUME NEW o, IsTransaction(o), NEW x \in SUBSET Message
  PROVE  LET t == [o EXCEPT !.puts = x] IN
         /\ IsTransaction(t)
         /\ t.docs = o.docs /\ t.evs = o.evs /\ t.pruned = o.pruned
         /\ t.puts = x /\ t.uevs = o.uevs
BY DEF IsTransaction

LEMMA WithTransitions ==
  ASSUME NEW o, IsTransaction(o), NEW x \in SUBSET Transition
  PROVE  LET t == [o EXCEPT !.phase = "validating", !.trans = x] IN
         /\ IsTransaction(t)
         /\ t.docs = o.docs /\ t.evs = o.evs /\ t.pruned = o.pruned
         /\ t.puts = o.puts /\ t.uevs = o.uevs
BY DEF IsTransaction

(* A change of membership: two room events, one event in each stream of vs. *)
LEMMA MembershipStepGood ==
  ASSUME IInv, NEW q \in Requests, NEW r \in Rooms, NEW d \in RoomDoc,
         NEW u \in Users, NEW vs \in SUBSET Users, NEW type \in UserEventTypes,
         Handles(q, r), d.exists, d.latest = room[r].latest,
         d.minRetained = room[r].minRetained, d.admins \subseteq d.participants,
         Begin(q, [Open(Single(r, Allocate(d, 2)), MembershipEvents(r, u))
                   EXCEPT !.uevs = {UserEv(v, type) : v \in vs}])
  PROVE  IInv'
<1> DEFINE e == Ev(r, 1, "MEMBERSHIP_CHANGED", u)
           f == Ev(r, 2, "ROOM_KEY_ROTATION_REQUIRED", u)
           d2 == Allocate(d, 2)
           o == Open(Single(r, d2), {e, f})
           x == {UserEv(v, type) : v \in vs}
           t == [o EXCEPT !.uevs = x]
<1>1. /\ e \in Event /\ e.room = r /\ e.seq = room[r].latest + 1 /\ e.type # "MESSAGE_CREATED"
      /\ f \in Event /\ f.room = r /\ f.seq = room[r].latest + 2 /\ f.type # "MESSAGE_CREATED"
  BY EvFacts DEF RoomEventTypes
<1>2. /\ d2 \in RoomDoc /\ d2.exists /\ d2.latest = room[r].latest + 2
      /\ d2.minRetained = room[r].minRetained /\ d2.admins \subseteq d2.participants
  BY AllocateFacts
<1>3. /\ x \subseteq UserEventRecord
      /\ \A y \in x : y.seq = userLatest[y.user] + 1
      /\ \A y, z \in x : y.user = z.user => y = z
  BY DEF UserEv, UserEventRecord, IInv, TypeOK
<1>4. IsTransaction(o)
  BY <1>1, <1>2, SingleOpen
<1>5. o.docs = Single(r, d2) /\ o.evs = {e, f} /\ o.pruned = {} /\ o.puts = {}
  BY OpenType
<1>6. Begin(q, t)
  BY DEF MembershipEvents
<1> HIDE DEF e, f, d2, o, x
<1>7. /\ IsTransaction(t) /\ t.docs = o.docs /\ t.evs = o.evs /\ t.pruned = o.pruned
      /\ t.puts = o.puts /\ t.uevs = x
  BY <1>3, <1>4, WithStreams
<1> HIDE DEF t
<1>8. TxLog(t) /\ TxAdmins(t)
  BY <1>1, <1>2, <1>5, <1>7, TwoEvents DEF Handles
<1>9. TxStreams(t) /\ TxMessages(t)
  BY <1>1, <1>3, <1>5, <1>7 DEF TxStreams, TxMessages, Announced
<1> QED
  BY <1>6, <1>7, <1>8, <1>9, BeginStep DEF GoodTx, Handles

LEMMA JoinedType ==
  ASSUME NEW c \in RoomDoc, NEW new \in SUBSET Users
  PROVE  LET d == [c EXCEPT !.participants = @ \cup new, !.revision = @ + 1,
                            !.crypto = RotationRequired] IN
         /\ d \in RoomDoc
         /\ d.latest = c.latest /\ d.minRetained = c.minRetained /\ d.exists = c.exists
         /\ d.admins = c.admins /\ d.participants = c.participants \cup new
<1>1. c.revision + 1 \in Nat /\ c.participants \cup new \in SUBSET Users
  BY DEF RoomDoc
<1> QED
  BY <1>1 DEF RoomDoc

LEMMA RotatedType ==
  ASSUME NEW c \in RoomDoc, NEW env \in [Users -> Nat]
  PROVE  LET d == [c EXCEPT !.keys = env, !.crypto = Active, !.keyVersion = @ + 1] IN
         /\ d \in RoomDoc
         /\ d.latest = c.latest /\ d.minRetained = c.minRetained /\ d.exists = c.exists
         /\ d.admins = c.admins /\ d.participants = c.participants
<1>1. c.keyVersion + 1 \in Nat
  BY DEF RoomDoc
<1> QED
  BY <1>1 DEF RoomDoc

LEMMA AddMembersStep ==
  ASSUME IInv, NEW q \in Requests, NEW u \in Users, NEW r \in Rooms,
         NEW new \in SUBSET Users, AddMembers(q, u, r, new)
  PROVE  IInv'
<1> DEFINE d == [room[r] EXCEPT !.participants = @ \cup new, !.revision = @ + 1,
                                !.crypto = RotationRequired]
<1>1. /\ d \in RoomDoc /\ d.exists /\ d.latest = room[r].latest
      /\ d.minRetained = room[r].minRetained /\ d.admins \subseteq d.participants
  <2>1. /\ d \in RoomDoc /\ d.exists = room[r].exists /\ d.latest = room[r].latest
        /\ d.minRetained = room[r].minRetained /\ d.admins = room[r].admins
        /\ d.participants = room[r].participants \cup new
    BY RoomFacts, JoinedType
  <2> QED
    BY <2>1, RoomFacts DEF AddMembers, Handles
<1>2. /\ Handles(q, r)
      /\ Begin(q, [Open(Single(r, Allocate(d, 2)), MembershipEvents(r, u))
                   EXCEPT !.uevs = {UserEv(v, "ROOM_ACCESS_GRANTED") : v \in new}])
      /\ "ROOM_ACCESS_GRANTED" \in UserEventTypes
  BY DEF AddMembers, UserEventTypes
<1> HIDE DEF d
<1> QED
  BY <1>1, <1>2, MembershipStepGood

LEMMA RemoveStep ==
  ASSUME IInv, NEW q \in Requests, NEW u \in Users, NEW r \in Rooms, NEW v \in Users,
         Handles(q, r), Remove(q, u, r, v)
  PROVE  IInv'
<1> DEFINE d == Without(room[r], v)
<1>1. /\ d \in RoomDoc /\ d.exists /\ d.latest = room[r].latest
      /\ d.minRetained = room[r].minRetained /\ d.admins \subseteq d.participants
  BY RoomFacts, WithoutType DEF Handles
<1>2. {UserEv(v, "ROOM_ACCESS_REVOKED")} = {UserEv(w, "ROOM_ACCESS_REVOKED") : w \in {v}}
  OBVIOUS
<1>3. /\ Begin(q, [Open(Single(r, Allocate(d, 2)), MembershipEvents(r, u))
                   EXCEPT !.uevs = {UserEv(w, "ROOM_ACCESS_REVOKED") : w \in {v}}])
      /\ "ROOM_ACCESS_REVOKED" \in UserEventTypes
  BY <1>2 DEF Remove, UserEventTypes
<1> HIDE DEF d
<1> QED
  BY <1>1, <1>3, MembershipStepGood

LEMMA RotateKeyStep ==
  ASSUME IInv, NEW q \in Requests, NEW u \in Users, NEW r \in Rooms,
         NEW env \in [Users -> Nat], NEW rev \in Nat, RotateKey(q, u, r, env, rev)
  PROVE  IInv'
<1> DEFINE d == Allocate([room[r] EXCEPT !.keys = env, !.crypto = Active,
                                         !.keyVersion = @ + 1], 1)
           e == [Ev(r, 1, "ROOM_KEY_ROTATED", u) EXCEPT !.kv = room[r].keyVersion + 1]
           x == {[y EXCEPT !.status = "COMPLETED", !.resolvedKv = room[r].keyVersion + 1]
                   : y \in {z \in transitions :
                              z.room = r /\ z.status = "PENDING" /\ z.new = env[z.user]}}
           o == Open(Single(r, d), {e})
           t == [o EXCEPT !.phase = "validating", !.trans = x]
<1>1. /\ d \in RoomDoc /\ d.exists /\ d.latest = room[r].latest + 1
      /\ d.minRetained = room[r].minRetained /\ d.admins \subseteq d.participants
  <2> DEFINE d1 == [room[r] EXCEPT !.keys = env, !.crypto = Active, !.keyVersion = @ + 1]
  <2>1. /\ d1 \in RoomDoc /\ d1.exists /\ d1.latest = room[r].latest
        /\ d1.minRetained = room[r].minRetained /\ d1.admins \subseteq d1.participants
    <3>1. /\ d1 \in RoomDoc /\ d1.exists = room[r].exists /\ d1.latest = room[r].latest
          /\ d1.minRetained = room[r].minRetained /\ d1.admins = room[r].admins
          /\ d1.participants = room[r].participants
      BY RoomFacts, RotatedType
    <3> QED
      BY <3>1, RoomFacts DEF RotateKey, Handles
  <2>2. d = Allocate(d1, 1)
    OBVIOUS
  <2> HIDE DEF d1, d
  <2>3. /\ Allocate(d1, 1) \in RoomDoc /\ Allocate(d1, 1).exists
        /\ Allocate(d1, 1).latest = room[r].latest + 1
        /\ Allocate(d1, 1).minRetained = room[r].minRetained
        /\ Allocate(d1, 1).admins \subseteq Allocate(d1, 1).participants
    <3>1. d1 \in RoomDoc /\ 1 \in Nat
      BY <2>1
    <3>2. /\ Allocate(d1, 1) \in RoomDoc
          /\ Allocate(d1, 1).latest = d1.latest + 1
          /\ Allocate(d1, 1).minRetained = d1.minRetained
          /\ Allocate(d1, 1).exists = d1.exists
          /\ Allocate(d1, 1).admins = d1.admins
          /\ Allocate(d1, 1).participants = d1.participants
      BY <3>1, AllocateFacts
    <3> QED
      BY <2>1, <3>2
  <2> QED
    BY <2>2, <2>3
<1>2. /\ e \in Event /\ e.room = r /\ e.seq = room[r].latest + 1
      /\ e.type # "MESSAGE_CREATED"
  <2>1. room[r].keyVersion + 1 \in Nat
    BY RoomFacts DEF RoomDoc
  <2>2. /\ Ev(r, 1, "ROOM_KEY_ROTATED", u) \in Event
        /\ Ev(r, 1, "ROOM_KEY_ROTATED", u).room = r
        /\ Ev(r, 1, "ROOM_KEY_ROTATED", u).seq = room[r].latest + 1
        /\ Ev(r, 1, "ROOM_KEY_ROTATED", u).type # "MESSAGE_CREATED"
    BY EvFacts DEF RoomEventTypes
  <2> QED
    BY <2>1, <2>2 DEF Event
<1>3. x \subseteq Transition
  <2>1. room[r].keyVersion + 1 \in Nat
    BY RoomFacts DEF RoomDoc
  <2> QED
    BY <2>1 DEF IInv, TypeOK, Transition
<1>4. IsTransaction(o)
  BY <1>1, <1>2, SingleOpen
<1>5. o.docs = Single(r, d) /\ o.evs = {e} /\ o.pruned = {} /\ o.puts = {} /\ o.uevs = {}
  BY OpenType
<1>6. Begin(q, t) /\ Handles(q, r)
  BY DEF RotateKey
<1> HIDE DEF d, e, o, x
<1>7. /\ IsTransaction(t) /\ t.docs = o.docs /\ t.evs = o.evs /\ t.pruned = o.pruned
      /\ t.puts = o.puts /\ t.uevs = o.uevs
  BY <1>3, <1>4, WithTransitions
<1> HIDE DEF t
<1>8. TxLog(t) /\ TxAdmins(t)
  BY <1>1, <1>2, <1>5, <1>6, <1>7, OneEvent DEF Handles
<1>9. TxStreams(t) /\ TxMessages(t)
  BY <1>2, <1>5, <1>7 DEF TxStreams, TxMessages, Announced
<1> QED
  BY <1>6, <1>7, <1>8, <1>9, BeginStep DEF GoodTx, Handles

(* A handler that appends one event and writes one message, new or old.     *)
LEMMA MessageStepGood ==
  ASSUME IInv, NEW q \in Requests, NEW r \in Rooms, NEW e \in Event, NEW p \in Message,
         Handles(q, r), e.room = r, e.seq = room[r].latest + 1,
         p.room = r, p.msg <= room[r].latest + 1,
         \A m \in messages : SameMessage(m, p) => Keyed(m, p.sender, p.id),
         Announced(e, {p}),
         Begin(q, [Open(Single(r, Allocate(room[r], 1)), {e}) EXCEPT !.puts = {p}])
  PROVE  IInv'
<1> DEFINE d == Allocate(room[r], 1)
           o == Open(Single(r, d), {e})
           t == [o EXCEPT !.puts = {p}]
<1>1. /\ d \in RoomDoc /\ d.latest = room[r].latest + 1 /\ d.minRetained = room[r].minRetained
      /\ d.exists = room[r].exists /\ d.admins = room[r].admins
      /\ d.participants = room[r].participants
  BY RoomFacts, AllocateFacts
<1>2. IsTransaction(o)
  BY <1>1, SingleOpen
<1>3. o.docs = Single(r, d) /\ o.evs = {e} /\ o.pruned = {} /\ o.uevs = {}
  BY OpenType
<1>4. Begin(q, t)
  OBVIOUS
<1> HIDE DEF d, o
<1>5. /\ IsTransaction(t) /\ t.docs = o.docs /\ t.evs = o.evs /\ t.pruned = o.pruned
      /\ t.puts = {p} /\ t.uevs = o.uevs
  BY <1>2, WithMessages
<1> HIDE DEF t
<1>6. room[r].exists /\ d.exists /\ d.admins \subseteq d.participants
  BY <1>1, RoomFacts DEF Handles
<1>7. TxLog(t) /\ TxAdmins(t)
  BY <1>1, <1>3, <1>5, <1>6, OneEvent
<1>8. TxStreams(t)
  BY <1>3, <1>5 DEF TxStreams
<1>9. TxMessages(t)
  <2>1. DOMAIN t.docs = {r} /\ t.docs[r] = d
    <3>1. DOMAIN Single(r, d) = {r} /\ Single(r, d)[r] = d
      BY <1>1, SingleType
    <3>2. t.docs = Single(r, d)
      BY <1>3, <1>5
    <3> QED
      BY <3>1, <3>2
  <2>2. p.msg <= t.docs[p.room].latest
    BY <2>1, <1>1
  <2> QED
    BY <2>1, <2>2, <1>3, <1>5 DEF TxMessages
<1> QED
  BY <1>4, <1>5, <1>7, <1>8, <1>9, BeginStep DEF GoodTx, Handles

LEMMA CreateMessageStep ==
  ASSUME IInv, NEW q \in Requests, NEW u \in Users, NEW r \in Rooms,
         NEW id \in ClientMsgIds, CreateMessage(q, u, r, id)
  PROVE  IInv'
<1> DEFINE c == Ev(r, 1, "MESSAGE_CREATED", u)
           e == [c EXCEPT !.id = id, !.kv = room[r].keyVersion, !.idv = identityVersion[u]]
           p == [room |-> r, msg |-> room[r].latest + 1, sender |-> u, id |-> id,
                 kv |-> room[r].keyVersion, content |-> "original", deleted |-> FALSE,
                 rsn |-> room[r].latest + 1]
<1>1. room[r].keyVersion \in Nat /\ room[r].latest \in Nat /\ identityVersion[u] \in Nat
  BY RoomFacts DEF RoomDoc, IInv, TypeOK
<1>2. c \in Event /\ c.room = r /\ c.seq = room[r].latest + 1 /\ c.user = u
  BY EvFacts DEF RoomEventTypes, Ev
<1>3. Handles(q, r)
      /\ Begin(q, [Open(Single(r, Allocate(room[r], 1)), {e}) EXCEPT !.puts = {p}])
  BY DEF CreateMessage
<1> HIDE DEF c
<1>4. e \in Event /\ e.room = r /\ e.seq = room[r].latest + 1 /\ e.user = u /\ e.id = id
  BY <1>1, <1>2 DEF Event
<1>5. p \in Message /\ p.room = r /\ p.msg = room[r].latest + 1 /\ p.sender = u /\ p.id = id
  BY <1>1 DEF Message
<1> HIDE DEF e, p
<1>6. \A m \in messages : ~SameMessage(m, p)
  <2>1. ASSUME NEW m \in messages, m.room = r
        PROVE  m.msg # room[r].latest + 1
    <3>1. m.msg <= room[m.room].latest
      BY DEF IInv, MessageBase
    <3>2. m.msg \in Nat
      BY DEF IInv, TypeOK, Message
    <3> QED
      BY <3>1, <3>2, <2>1, <1>1
  <2> QED
    BY <2>1, <1>5 DEF SameMessage
<1>7. Announced(e, {p})
  BY <1>4, <1>5 DEF Announced, Keyed
<1>8. p.msg <= room[r].latest + 1
  BY <1>1, <1>5
<1> QED
  BY <1>3, <1>4, <1>5, <1>6, <1>7, <1>8, MessageStepGood

(* An edit and a deletion keep the identity of the message they write.      *)
LEMMA RewriteStep ==
  ASSUME IInv, NEW q \in Requests, NEW u \in Users, NEW m \in messages,
         NEW type \in RoomEventTypes \ {"MESSAGE_CREATED"}, NEW p \in Message,
         p.room = m.room, p.msg = m.msg, p.sender = m.sender, p.id = m.id,
         Handles(q, m.room),
         Begin(q, [Open(Single(m.room, Allocate(room[m.room], 1)),
                        {Ev(m.room, 1, type, u)}) EXCEPT !.puts = {p}])
  PROVE  IInv'
<1> DEFINE r == m.room
           e == Ev(r, 1, type, u)
<1>1. m \in Message /\ r \in Rooms
  BY DEF IInv, TypeOK, Message
<1>2. e \in Event /\ e.room = r /\ e.seq = room[r].latest + 1 /\ e.type # "MESSAGE_CREATED"
  BY <1>1, EvFacts
<1>3. Begin(q, [Open(Single(r, Allocate(room[r], 1)), {e}) EXCEPT !.puts = {p}])
  OBVIOUS
<1> HIDE DEF e
<1>4. \A n \in messages : SameMessage(n, p) => Keyed(n, p.sender, p.id)
  BY DEF IInv, MessageBase, SameMessage, Keyed
<1>5. p.msg <= room[r].latest + 1
  <2>1. m.msg <= room[r].latest /\ m.msg \in Nat /\ room[r].latest \in Nat
    BY <1>1, RoomFacts DEF IInv, MessageBase, Message
  <2> QED
    BY <2>1
<1>6. Announced(e, {p})
  BY <1>2 DEF Announced
<1> HIDE DEF r
<1>7. p.room = r /\ Handles(q, r)
  BY DEF r
<1> QED
  BY <1>1, <1>2, <1>3, <1>4, <1>5, <1>6, <1>7, MessageStepGood

LEMMA EditMessageStep ==
  ASSUME IInv, NEW q \in Requests, NEW u \in Users, NEW m \in messages,
         EditMessage(q, u, m)
  PROVE  IInv'
<1> DEFINE p == [m EXCEPT !.content = "edited", !.rsn = room[m.room].latest + 1]
<1>1. m \in Message /\ room[m.room].latest + 1 \in Nat
  <2>1. m \in Message /\ m.room \in Rooms
    BY DEF IInv, TypeOK, Message
  <2> QED
    BY <2>1, RoomFacts
<1>2. p \in Message /\ p.room = m.room /\ p.msg = m.msg /\ p.sender = m.sender /\ p.id = m.id
  BY <1>1 DEF Message
<1>3. /\ Handles(q, m.room) /\ "MESSAGE_EDITED" \in RoomEventTypes \ {"MESSAGE_CREATED"}
      /\ Begin(q, [Open(Single(m.room, Allocate(room[m.room], 1)),
                        {Ev(m.room, 1, "MESSAGE_EDITED", u)}) EXCEPT !.puts = {p}])
  BY DEF EditMessage, RoomEventTypes
<1> HIDE DEF p
<1> QED
  BY <1>2, <1>3, RewriteStep

LEMMA DeleteMessageStep ==
  ASSUME IInv, NEW q \in Requests, NEW u \in Users, NEW m \in messages,
         DeleteMessage(q, u, m)
  PROVE  IInv'
<1> DEFINE p == [m EXCEPT !.content = "", !.deleted = TRUE, !.rsn = room[m.room].latest + 1]
<1>1. m \in Message /\ room[m.room].latest + 1 \in Nat
  <2>1. m \in Message /\ m.room \in Rooms
    BY DEF IInv, TypeOK, Message
  <2> QED
    BY <2>1, RoomFacts
<1>2. p \in Message /\ p.room = m.room /\ p.msg = m.msg /\ p.sender = m.sender /\ p.id = m.id
  BY <1>1 DEF Message
<1>3. /\ Handles(q, m.room) /\ "MESSAGE_DELETED" \in RoomEventTypes \ {"MESSAGE_CREATED"}
      /\ Begin(q, [Open(Single(m.room, Allocate(room[m.room], 1)),
                        {Ev(m.room, 1, "MESSAGE_DELETED", u)}) EXCEPT !.puts = {p}])
  BY DEF DeleteMessage, RoomEventTypes
<1> HIDE DEF p
<1> QED
  BY <1>2, <1>3, RewriteStep

LEMMA PruneStep ==
  ASSUME IInv, NEW q \in Requests, NEW r \in Rooms, NEW boundary \in Nat,
         PruneRoomEvents(q, r, boundary)
  PROVE  IInv'
<1> DEFINE d == [room[r] EXCEPT !.minRetained =
                   IF FirstRetained(boundary) > @ THEN FirstRetained(boundary) ELSE @]
           x == {e \in events : e.room = r /\ e.seq <= boundary}
           o == Open(Single(r, d), {})
           t == [o EXCEPT !.pruned = x]
<1>1. PICK b \in events : b.room = r /\ b.seq = boundary
  BY DEF PruneRoomEvents
<1>2. boundary \in 1..room[r].latest
  BY <1>1 DEF IInv, EventLogGapFree
<1>3. boundary >= room[r].minRetained
  BY <1>1, <1>2 DEF IInv, EventLogGapFree
<1>4. room[r].minRetained \in Nat /\ room[r].latest \in Nat
  BY RoomFacts DEF RoomDoc
<1>5. d = [room[r] EXCEPT !.minRetained = boundary + 1]
  BY <1>3, <1>4 DEF FirstRetained
<1>6. /\ d \in RoomDoc /\ d.latest = room[r].latest /\ d.minRetained = boundary + 1
      /\ d.exists = room[r].exists /\ d.admins = room[r].admins
      /\ d.participants = room[r].participants
  BY <1>5, RoomFacts DEF RoomDoc
<1>7. x \subseteq Event
  BY DEF IInv, TypeOK
<1>8. Begin(q, t) /\ Handles(q, r)
  BY DEF PruneRoomEvents
<1>9. IsTransaction(o)
  BY <1>6, SingleOpen
<1>10. o.docs = Single(r, d) /\ o.evs = {} /\ o.puts = {} /\ o.uevs = {}
  BY OpenType
<1>11. \A e \in events : e.seq \in Nat
  BY DEF IInv, TypeOK, Event
<1>12. \A e \in x : e.room = r
  OBVIOUS
<1>13. \A e \in events : e.room = r => (e \in x <=> e.seq < boundary + 1)
  BY <1>11
<1> HIDE DEF d, o, x
<1>14. /\ IsTransaction(t) /\ t.docs = o.docs /\ t.evs = o.evs /\ t.pruned = x
       /\ t.puts = o.puts /\ t.uevs = o.uevs
  BY <1>7, <1>9 DEF IsTransaction
<1> HIDE DEF t
<1>15. DOMAIN t.docs = {r} /\ t.docs[r] = d
  <2>1. DOMAIN Single(r, d) = {r} /\ Single(r, d)[r] = d
    BY <1>6, SingleType
  <2> QED
    BY <2>1, <1>10, <1>14
<1>16. TxLog(t)
  <2>1. room[r].exists /\ d.exists
    BY <1>6, <1>8 DEF Handles
  <2>2. /\ room[r].minRetained <= d.minRetained /\ d.minRetained <= room[r].latest + 1
        /\ room[r].latest <= d.latest
    BY <1>2, <1>3, <1>4, <1>6
  <2>3. \A s \in Nat : ~(room[r].latest < s /\ s <= d.latest)
    BY <1>4, <1>6
  <2> QED
    BY <2>1, <2>2, <2>3, <1>6, <1>10, <1>12, <1>13, <1>14, <1>15 DEF TxLog
<1>17. TxAdmins(t)
  BY <1>6, <1>15, RoomFacts DEF TxAdmins
<1>18. TxStreams(t) /\ TxMessages(t)
  BY <1>10, <1>14 DEF TxStreams, TxMessages
<1> QED
  BY <1>8, <1>14, <1>16, <1>17, <1>18, BeginStep DEF GoodTx, Handles

LEMMA LockedType ==
  ASSUME NEW c \in RoomDoc
  PROVE  /\ Locked(c) \in RoomDoc
         /\ Locked(c).latest = c.latest /\ Locked(c).minRetained = c.minRetained
         /\ Locked(c).exists = c.exists
         /\ Locked(c).admins = c.admins /\ Locked(c).participants = c.participants
BY DEF Locked, RoomDoc

(* The events of one room in a reset. *)
LEMMA ResetEventFacts ==
  ASSUME IInv, NEW u \in Users, NEW r \in Rooms
  PROVE  LET k == IF NeedsRotation(r) THEN 2 ELSE 1 IN
         /\ ResetEvents(r, u) \subseteq Event
         /\ \A e \in ResetEvents(r, u) : e.room = r /\ e.type # "MESSAGE_CREATED"
         /\ \A s \in Nat : room[r].latest < s /\ s <= room[r].latest + k <=>
                            \E e \in ResetEvents(r, u) : e.seq = s
         /\ \A e, f \in ResetEvents(r, u) : e.seq = f.seq => e = f
<1> DEFINE c == Ev(r, 1, "IDENTITY_CHANGED", u)
           a == [c EXCEPT !.idv = identityVersion[u] + 1]
           b == Ev(r, 2, "ROOM_KEY_ROTATION_REQUIRED", u)
<1>1. /\ c \in Event /\ c.room = r /\ c.seq = room[r].latest + 1 /\ c.type # "MESSAGE_CREATED"
      /\ b \in Event /\ b.room = r /\ b.seq = room[r].latest + 2 /\ b.type # "MESSAGE_CREATED"
  BY EvFacts DEF RoomEventTypes
<1>2. ResetEvents(r, u) = IF NeedsRotation(r) THEN {a, b} ELSE {a}
  BY DEF ResetEvents
<1>3. identityVersion[u] + 1 \in Nat
  BY DEF IInv, TypeOK
<1> HIDE DEF b, c
<1>4. a \in Event /\ a.room = r /\ a.seq = room[r].latest + 1 /\ a.type # "MESSAGE_CREATED"
  BY <1>1, <1>3 DEF Event
<1> HIDE DEF a
<1>5. room[r].latest \in Nat
  BY RoomFacts
<1>6. CASE NeedsRotation(r)
  BY <1>1, <1>2, <1>4, <1>5, <1>6
<1>7. CASE ~NeedsRotation(r)
  BY <1>2, <1>4, <1>5, <1>7
<1> QED
  BY <1>6, <1>7

LEMMA ResetIdentityStep ==
  ASSUME IInv, NEW q \in Requests, NEW u \in Users, ResetIdentity(q, u)
  PROVE  IInv'
<1> DEFINE new(r) == Allocate(Locked(room[r]), IF NeedsRotation(r) THEN 2 ELSE 1)
           docs == [r \in RoomsOf(u) |-> new(r)]
           evs == UNION {ResetEvents(r, u) : r \in RoomsOf(u)}
           y == [user |-> u, seq |-> userLatest[u] + 1, type |-> "IDENTITY_RESET"]
           x == {[user |-> u, room |-> r, new |-> identityVersion[u] + 1,
                  prevKv |-> room[r].keyVersion, status |-> "PENDING",
                  resolvedKv |-> 0] : r \in RoomsOf(u)}
           o == Open(docs, evs)
           t == [o EXCEPT !.resets = {u}, !.uevs = {y}, !.trans = x]
<1>1. RoomsOf(u) \subseteq Rooms /\ \A r \in RoomsOf(u) : room[r].exists
  BY DEF RoomsOf
<1>2. \A r \in RoomsOf(u) :
        /\ new(r) \in RoomDoc
        /\ new(r).latest = room[r].latest + (IF NeedsRotation(r) THEN 2 ELSE 1)
        /\ new(r).minRetained = room[r].minRetained
        /\ new(r).exists = room[r].exists
        /\ new(r).admins = room[r].admins /\ new(r).participants = room[r].participants
  <2>1. ASSUME NEW r \in RoomsOf(u), NEW k \in {1, 2}
        PROVE  LET n == Allocate(Locked(room[r]), k) IN
               /\ n \in RoomDoc /\ n.latest = room[r].latest + k
               /\ n.minRetained = room[r].minRetained /\ n.exists = room[r].exists
               /\ n.admins = room[r].admins /\ n.participants = room[r].participants
    <3>1. room[r] \in RoomDoc
      BY <1>1, RoomFacts
    <3> QED
      BY <3>1, LockedType, AllocateFacts
  <2> QED
    BY <2>1
<1>3. y \in UserEventRecord
  BY DEF UserEventRecord, UserEventTypes, IInv, TypeOK
<1>4. x \subseteq Transition
  <2>1. \A r \in RoomsOf(u) : room[r].keyVersion \in Nat
    BY <1>1, RoomFacts DEF RoomDoc
  <2> QED
    BY <2>1, <1>1 DEF Transition, IInv, TypeOK
<1>5. Begin(q, t) /\ UNCHANGED <<room, events, messages, identityVersion, transitions,
                               userLatest, userEvents>>
  BY DEF ResetIdentity, UserEv
<1>6. evs \subseteq Event
  BY <1>1, ResetEventFacts
<1>7. \A r \in RoomsOf(u) : \A e : e \in evs /\ e.room = r <=> e \in ResetEvents(r, u)
  BY <1>1, ResetEventFacts
<1>8. \A e \in evs : e.room \in RoomsOf(u) /\ e.type # "MESSAGE_CREATED"
  BY <1>1, ResetEventFacts
<1>9. DOMAIN docs = RoomsOf(u) /\ \A r \in RoomsOf(u) : docs[r] = new(r)
  OBVIOUS
<1> HIDE DEF new, docs, evs, x, y
<1>10. IsTransaction(o)
  <2>1. o = [phase |-> "ready", docs |-> docs, evs |-> evs, pruned |-> {}, puts |-> {},
             trans |-> {}, resets |-> {}, uevs |-> {}]
    BY DEF Open
  <2>2. o \in [phase : {"idle", "validating", "ready"}, docs : {o.docs},
               evs : SUBSET Event, pruned : SUBSET Event, puts : SUBSET Message,
               trans : SUBSET Transition, resets : SUBSET Users,
               uevs : SUBSET UserEventRecord]
    BY <2>1, <1>6
  <2> QED
    BY <2>1, <2>2, <1>1, <1>2, <1>9 DEF IsTransaction
<1>11. o.docs = docs /\ o.evs = evs /\ o.pruned = {} /\ o.puts = {}
  BY OpenType
<1> HIDE DEF o
<1>12. /\ IsTransaction(t) /\ t.docs = docs /\ t.evs = evs /\ t.pruned = {}
       /\ t.puts = {} /\ t.uevs = {y}
  BY <1>3, <1>4, <1>10, <1>11 DEF IsTransaction
<1> HIDE DEF t
<1>13. TxLog(t)
  <2>1. \A e, f \in evs : e.room = f.room /\ e.seq = f.seq => e = f
    BY <1>1, <1>7, <1>8, ResetEventFacts
  <2>2. ASSUME NEW r \in RoomsOf(u)
        PROVE  /\ room[r].exists /\ docs[r].exists
               /\ room[r].latest <= docs[r].latest
               /\ room[r].minRetained <= docs[r].minRetained
               /\ docs[r].minRetained <= room[r].latest + 1
               /\ \A s \in Nat : room[r].latest < s /\ s <= docs[r].latest <=>
                                  \E e \in evs : e.room = r /\ e.seq = s
               /\ \A e \in events : e.room = r => ~(e.seq < docs[r].minRetained)
    <3>1. /\ room[r].latest \in Nat /\ room[r].minRetained \in Nat
          /\ room[r].minRetained <= room[r].latest + 1
      BY <1>1, RoomFacts DEF RoomDoc, IInv, LogBase
    <3>2. room[r].exists /\ docs[r].exists
      BY <1>1, <1>2, <1>9
    <3>3. /\ docs[r].latest = room[r].latest + (IF NeedsRotation(r) THEN 2 ELSE 1)
          /\ docs[r].minRetained = room[r].minRetained
      BY <1>2, <1>9
    <3>4. \A s \in Nat : room[r].latest < s /\ s <= docs[r].latest <=>
                         \E e \in evs : e.room = r /\ e.seq = s
      BY <1>1, <1>7, <3>3, ResetEventFacts
    <3>5. ASSUME NEW e \in events, e.room = r
          PROVE  ~(e.seq < room[r].minRetained)
      <4>1. e.seq \in 1..room[r].latest
        BY <1>1, <3>5 DEF IInv, EventLogGapFree
      <4>2. e.seq >= room[r].minRetained
        BY <4>1, <1>1, <3>5 DEF IInv, EventLogGapFree
      <4> QED
        BY <4>1, <4>2, <3>1
    <3> QED
      BY <3>1, <3>2, <3>3, <3>4, <3>5
  <2> QED
    BY <2>1, <2>2, <1>8, <1>9, <1>12 DEF TxLog
<1>14. TxAdmins(t)
  BY <1>1, <1>2, <1>9, <1>12, RoomFacts DEF TxAdmins
<1>15. TxStreams(t)
  BY <1>12 DEF TxStreams, y
<1>16. TxMessages(t)
  BY <1>8, <1>12 DEF TxMessages, Announced
<1> QED
  BY <1>5, <1>12, <1>13, <1>14, <1>15, <1>16, BeginStep DEF GoodTx

-----------------------------------------------------------------------------
(* The invariant and what follows from it. *)

LEMMA InitInvariant ==
  ASSUME Init
  PROVE  IInv
<1>1. PICK o \in Users, ps \in SUBSET Users, v0 \in {0, 1} :
        room = [r \in Rooms |-> IF r \in InitialRooms THEN FreshDoc(o, ps, v0) ELSE NoDoc(o)]
  BY DEF Init
<1>2. /\ events = {} /\ messages = {} /\ transitions = {} /\ userEvents = {}
      /\ identityVersion = [u \in Users |-> 1]
      /\ userLatest = [u \in Users |-> 0]
      /\ tx = [q \in Requests |-> Idle]
  BY DEF Init
<1>3. /\ NoDoc(o) \in RoomDoc /\ ~NoDoc(o).exists
      /\ NoDoc(o).latest = 0 /\ NoDoc(o).minRetained = 0 /\ NoDoc(o).admins = {}
  BY DEF NoDoc, RoomDoc
<1>4. /\ FreshDoc(o, ps, v0) \in RoomDoc
      /\ FreshDoc(o, ps, v0).latest = 0 /\ FreshDoc(o, ps, v0).minRetained = 0
      /\ FreshDoc(o, ps, v0).exists
      /\ FreshDoc(o, ps, v0).admins \subseteq FreshDoc(o, ps, v0).participants
  <2>1. [v \in Users |-> IF v \in ps \cup {o} THEN v0 ELSE 0] \in [Users -> Nat]
    OBVIOUS
  <2>2. ps \cup {o} \in SUBSET Users /\ {o} \in SUBSET Users
    OBVIOUS
  <2> QED
    BY <2>1, <2>2, <1>3 DEF FreshDoc, NoDoc, RoomDoc
<1>5. \A r \in Rooms : /\ room[r] \in RoomDoc
                       /\ room[r].latest = 0 /\ room[r].minRetained = 0
                       /\ room[r].admins \subseteq room[r].participants
  BY <1>1, <1>3, <1>4
<1>6. room \in [Rooms -> RoomDoc]
  BY <1>1, <1>3, <1>4
<1>7. \A q \in Requests : GoodTx(tx[q])
  BY <1>2, IdleGood
<1>8. TypeOK
  BY <1>2, <1>6, IdleType DEF TypeOK
<1> QED
  BY <1>2, <1>5, <1>7, <1>8 DEF IInv, EventLogGapFree, LogBase, AdminsAreParticipants,
     UserStreamGapFree, StreamBase, MessageBase

LEMMA NextInvariant ==
  ASSUME IInv, [Next]_vars
  PROVE  IInv'
<1>1. ASSUME NEW r \in Rooms, NEW u \in Users, NEW ps \in SUBSET Users, CreateRoom(r, u, ps)
      PROVE  IInv'
  BY <1>1, CreateRoomStep
<1>2. ASSUME NEW q \in Requests, NEW u \in Users, MessageStep(q, u)
      PROVE  IInv'
  BY <1>2, CreateMessageStep, EditMessageStep, DeleteMessageStep, AnnotateStep
     DEF MessageStep
<1>3. ASSUME NEW q \in Requests, NEW u \in Users, MembershipStep(q, u)
      PROVE  IInv'
  BY <1>3, AddMembersStep, RemoveStep, PromoteAdminStep, DemoteAdminStep, UpdateRoomStep
     DEF MembershipStep, KickMember, LeaveRoom, RemoveMember
<1>4. ASSUME NEW q \in Requests, NEW u \in Users, KeyStep(q, u)
      PROVE  IInv'
  <2>1. ASSUME NEW r \in Rooms, NEW rev \in 1..room[r].revision,
               NEW env \in [Users -> 0..MaxIdentity], RotateKey(q, u, r, env, rev)
        PROVE  IInv'
    <3>1. env \in [Users -> Nat] /\ rev \in Nat
      BY BoundsAssumption
    <3> QED
      BY <2>1, <3>1, RotateKeyStep
  <2> QED
    BY <1>4, <2>1, ResetIdentityStep DEF KeyStep
<1>5. ASSUME NEW q \in Requests, NEW r \in Rooms, NEW boundary \in 1..MaxSequence,
             PruneRoomEvents(q, r, boundary)
      PROVE  IInv'
  <2>1. boundary \in Nat
    BY BoundsAssumption
  <2> QED
    BY <1>5, <2>1, PruneStep
<1>6. ASSUME NEW q \in Requests, ValidateRoomEnvelopes(q) \/ Commit(q) \/ Abort(q)
      PROVE  IInv'
  BY <1>6, ValidateStep, CommitStep, AbortStep
<1>7. CASE UNCHANGED vars
  BY <1>7 DEF vars, IInv, TypeOK, EventLogGapFree, LogBase, AdminsAreParticipants,
     UserStreamGapFree, StreamBase, MessageBase, GoodTx, TxLog, TxAdmins, TxStreams,
     TxMessages, IsTransaction
<1> QED
  BY <1>1, <1>2, <1>3, <1>4, <1>5, <1>6, <1>7 DEF Next

(* The invariant that makes the others inductive: what an open transaction  *)
(* has buffered fits the committed documents.                               *)
THEOREM InvariantHolds == Spec => []IInv
BY InitInvariant, NextInvariant, PTL DEF Spec

(* Every handler keeps every collection's documents well formed. *)
THEOREM TypeCorrect == Spec => []TypeOK
<1>1. IInv => TypeOK
  BY DEF IInv
<1> QED
  BY <1>1, InvariantHolds, PTL

(* However many transactions overlap, abort or are retried, no room's log   *)
(* has a gap or a duplicate above its retention boundary.                   *)
THEOREM LogIsGapFree == Spec => []EventLogGapFree
<1>1. IInv => EventLogGapFree
  BY DEF IInv
<1> QED
  BY <1>1, InvariantHolds, PTL

(* Nor has any user's own stream. *)
THEOREM StreamIsGapFree == Spec => []UserStreamGapFree
<1>1. IInv => UserStreamGapFree
  BY DEF IInv
<1> QED
  BY <1>1, InvariantHolds, PTL

(* A message a client retries is stored once and announced once.            *)
THEOREM MessagesAreStoredOnce == Spec => []ExactlyOnceMessage
<1>1. ASSUME IInv
      PROVE  ExactlyOnceMessage
  <2>1. ASSUME NEW m \in messages, NEW n \in messages, m.sender = n.sender, m.id = n.id
        PROVE  m = n
    BY <1>1, <2>1 DEF IInv, MessageBase, Keyed
  <2>2. ASSUME NEW e \in events, NEW f \in events, e.type = "MESSAGE_CREATED",
               f.type = "MESSAGE_CREATED", e.user = f.user, e.id = f.id
        PROVE  e = f
    <3>1. PICK m \in messages : m.room = e.room /\ m.msg = e.seq /\ Keyed(m, e.user, e.id)
      BY <1>1, <2>2 DEF IInv, MessageBase, Announced
    <3>2. PICK n \in messages : n.room = f.room /\ n.msg = f.seq /\ Keyed(n, f.user, f.id)
      BY <1>1, <2>2 DEF IInv, MessageBase, Announced
    <3>3. m = n
      BY <3>1, <3>2, <2>1, <2>2 DEF Keyed
    <3>4. e.room \in Rooms
      BY <1>1 DEF IInv, TypeOK, Event
    <3> QED
      BY <1>1, <3>1, <3>2, <3>3, <3>4 DEF IInv, EventLogGapFree
  <2> QED
    BY <2>1, <2>2 DEF ExactlyOnceMessage
<1> QED
  BY <1>1, InvariantHolds, PTL

(* No overlap of promotions and removals leaves an admin outside the room.  *)
THEOREM AdminsStayInside == Spec => []AdminsAreParticipants
<1>1. IInv => AdminsAreParticipants
  BY DEF IInv
<1> QED
  BY <1>1, InvariantHolds, PTL

-----------------------------------------------------------------------------
(* Room keys, identities and the log the rooms promise their clients.       *)

(* The inductive invariant, beside IInv.  Its first part is about what has  *)
(* been committed, its second about what open transactions have buffered.   *)

(* An ACTIVE room has answered every call for a rotation in its log, and    *)
(* with the key version it has now.                                         *)
RotationsAnswered ==
  \A r \in Rooms : room[r].crypto = Active =>
    \A e \in events : e.room = r /\ e.type = "ROOM_KEY_ROTATION_REQUIRED" =>
      \E g \in events : /\ g.type = "ROOM_KEY_ROTATED" /\ g.kv = room[r].keyVersion
                        /\ Precedes(e, g)

(* No event and no transition names an identity the user does not have yet. *)
IdentityBase ==
  /\ \A e \in events : e.type = "IDENTITY_CHANGED" =>
       e.user \in Users /\ e.idv <= identityVersion[e.user]
  /\ \A x \in transitions : x.new <= identityVersion[x.user]

TransitionBase ==
  \A x \in transitions :
    room[x.room].exists /\ x.prevKv <= room[x.room].keyVersion

InitialRoomsStay == \A r \in InitialRooms : room[r].exists

(* How a document changes: a change of membership locks the room, and only  *)
(* a rotation unlocks one.                                                  *)
TxDocs(t) ==
  \A r \in DOMAIN t.docs :
    LET d == t.docs[r] IN
    /\ room[r].keyVersion <= d.keyVersion
    /\ d.latest = room[r].latest \/ d.minRetained = room[r].minRetained
    /\ d.participants # room[r].participants =>
         room[r].revision < d.revision /\ d.crypto = RotationRequired
    /\ d.participants \ room[r].participants \subseteq Streams(t)
    /\ d.crypto = Active =>
         /\ t.resets = {}
         /\ \/ room[r].crypto = Active /\ d.keyVersion = room[r].keyVersion
            \/ \E g \in t.evs : /\ g.room = r /\ g.type = "ROOM_KEY_ROTATED"
                                /\ g.kv = d.keyVersion

(* What the new events say still fits the room. *)
TxEvents(t) ==
  \A f \in t.evs :
    /\ f.type = "ROOM_KEY_ROTATION_REQUIRED" => t.docs[f.room].crypto = RotationRequired
    /\ f.type = "IDENTITY_CHANGED" =>
         f.user \in t.resets /\ f.idv <= identityVersion[f.user] + 1
    /\ f.type = "MESSAGE_CREATED" =>
         /\ t.evs = {f}
         /\ room[f.room].crypto = Active /\ f.kv = room[f.room].keyVersion
         /\ \A e \in events : e.type = "IDENTITY_CHANGED" /\ e.room = f.room
                              /\ e.user = f.user => e.idv <= f.idv

(* The envelopes of a rotated room, checked by the time it may commit.      *)
TxEnvelopes(t) ==
  \A r \in DOMAIN t.docs \cap InitialRooms :
    LET d == t.docs[r] IN
    d.crypto = Active /\ d.keyVersion > 1 =>
      /\ \A v \in Users \ d.participants : d.keys[v] = 0
      /\ t.phase = "ready" => \A v \in d.participants : d.keys[v] = identityVersion[v]

(* A transaction that leaves a room ACTIVE answers its pending transitions: *)
(* before the envelopes are validated those they name, and then, as these   *)
(* are the current ones, those of the current identities.                   *)
TxResolves(t) ==
  \A r \in DOMAIN t.docs : t.docs[r].crypto = Active =>
    \A x \in transitions :
      /\ x.room = r /\ x.status = "PENDING" /\ x.user \in t.docs[r].participants
      /\ x.new = IF t.phase = "ready" THEN identityVersion[x.user]
                 ELSE t.docs[r].keys[x.user]
      => \E y \in t.trans : SameTransition(x, y)

TxTransitions(t) ==
  \A y \in t.trans :
    /\ y.room \in DOMAIN t.docs
    /\ y.new <= identityVersion[y.user] + (IF y.user \in t.resets THEN 1 ELSE 0)
    /\ y.prevKv <= t.docs[y.room].keyVersion
    /\ y.status = "PENDING" => t.docs[y.room].crypto = RotationRequired
    /\ y.status = "COMPLETED" =>
         y.prevKv < y.resolvedKv /\ y.resolvedKv <= t.docs[y.room].keyVersion

(* A reset writes every initial room the user is in: who joins one while it *)
(* is open writes the user's stream, as the reset does.                     *)
TxResets(t) ==
  /\ t.resets \subseteq Streams(t)
  /\ \A u \in t.resets, r \in InitialRooms :
       u \in room[r].participants => r \in DOMAIN t.docs

KeyTx(t) ==
  /\ TxDocs(t) /\ TxEvents(t) /\ TxEnvelopes(t) /\ TxResolves(t)
  /\ TxTransitions(t) /\ TxResets(t)

KeyInv ==
  /\ MessagesUseCurrentKey /\ RotationsAnswered
  /\ NoStaleIdentityMessage /\ IdentityBase
  /\ EnvelopesCurrent /\ InitialRoomsStay
  /\ TransitionsTracked /\ TransitionBase
  /\ \A q \in Requests : KeyTx(tx[q])

-----------------------------------------------------------------------------
(* A step that opens, ends or moves a transaction on keeps the invariant if *)
(* what is now open is right.                                               *)
LEMMA KeyBeginStep ==
  ASSUME IInv, KeyInv, NEW q \in Requests, NEW t, KeyTx(t), Begin(q, t),
         UNCHANGED <<room, events, messages, identityVersion, transitions,
                     userLatest, userEvents>>
  PROVE  KeyInv'
<1>1. \A p \in Requests : tx'[p] = t \/ tx'[p] = tx[p]
  BY DEF Begin, IInv, TypeOK
<1>2. \A p \in Requests : KeyTx(tx'[p])
  BY <1>1 DEF KeyInv
<1>3. (\A p \in Requests : KeyTx(tx[p]))'
  <2> SUFFICES ASSUME NEW p \in Requests
      PROVE  KeyTx(tx[p])'
    OBVIOUS
  <2>1. KeyTx(tx'[p])
    BY <1>2
  <2>2. TxDocs(tx[p])' /\ TxEvents(tx[p])' /\ TxTransitions(tx[p])'
    BY <2>1 DEF KeyTx, TxDocs, TxEvents, TxTransitions, Streams
  <2>3. TxEnvelopes(tx[p])' /\ TxResolves(tx[p])' /\ TxResets(tx[p])'
    BY <2>1 DEF KeyTx, TxEnvelopes, TxResolves, TxResets, Streams
  <2> QED
    BY <2>2, <2>3 DEF KeyTx
<1>4. /\ MessagesUseCurrentKey' /\ RotationsAnswered'
      /\ NoStaleIdentityMessage' /\ IdentityBase'
  BY DEF KeyInv, MessagesUseCurrentKey, RotationsAnswered, NoStaleIdentityMessage,
         IdentityBase, Precedes
<1>5. /\ EnvelopesCurrent' /\ InitialRoomsStay' /\ TransitionsTracked' /\ TransitionBase'
  BY DEF KeyInv, EnvelopesCurrent, CurrentEnvelopes, InitialRoomsStay, TransitionsTracked,
         TransitionBase
<1> QED
  BY <1>3, <1>4, <1>5 DEF KeyInv

LEMMA IdleKeys == KeyTx(Idle)
BY DEF KeyTx, TxDocs, TxEvents, TxEnvelopes, TxResolves, TxTransitions, TxResets,
       Idle, Empty, Streams

LEMMA KeyAbortStep ==
  ASSUME IInv, KeyInv, NEW q \in Requests, Abort(q)
  PROVE  KeyInv'
BY IdleKeys, KeyBeginStep DEF Abort, Begin

LEMMA KeyValidateStep ==
  ASSUME IInv, KeyInv, NEW q \in Requests, ValidateRoomEnvelopes(q)
  PROVE  KeyInv'
<1> DEFINE t == [tx[q] EXCEPT !.phase = "ready"]
<1>1. KeyTx(tx[q]) /\ IsTransaction(tx[q])
  BY DEF KeyInv, IInv, GoodTx
<1>2. /\ t.docs = tx[q].docs /\ t.evs = tx[q].evs /\ t.trans = tx[q].trans
      /\ t.resets = tx[q].resets /\ t.uevs = tx[q].uevs /\ t.phase = "ready"
  BY <1>1 DEF IsTransaction
<1>3. Begin(q, t)
  BY DEF ValidateRoomEnvelopes, Begin
<1>4. /\ tx[q].phase = "validating"
      /\ \A r \in DOMAIN tx[q].docs : \A v \in tx[q].docs[r].participants :
           tx[q].docs[r].keys[v] = identityVersion[v]
  BY DEF ValidateRoomEnvelopes
<1> HIDE DEF t
<1>5. TxDocs(t) /\ TxEvents(t) /\ TxTransitions(t) /\ TxResets(t)
  BY <1>1, <1>2 DEF KeyTx, TxDocs, TxEvents, TxTransitions, TxResets, Streams
<1>6. TxEnvelopes(t)
  BY <1>1, <1>2, <1>4 DEF KeyTx, TxEnvelopes
<1>7. TxResolves(t)
  BY <1>1, <1>2, <1>4 DEF KeyTx, TxResolves
<1> QED
  BY <1>3, <1>5, <1>6, <1>7, KeyBeginStep DEF KeyTx, ValidateRoomEnvelopes

LEMMA KeyCreateRoomStep ==
  ASSUME IInv, KeyInv, NEW r \in Rooms, NEW u \in Users, NEW ps \in SUBSET Users,
         CreateRoom(r, u, ps)
  PROVE  KeyInv'
<1>1. /\ ~room[r].exists /\ room \in [Rooms -> RoomDoc]
      /\ UNCHANGED <<events, messages, identityVersion, transitions,
                     userLatest, userEvents, tx>>
  BY DEF CreateRoom, IInv, TypeOK
<1>2. room'[r].exists /\ \A x \in Rooms \ {r} : room'[x] = room[x]
  BY <1>1 DEF CreateRoom
<1>3. r \notin InitialRooms
  BY <1>1 DEF KeyInv, InitialRoomsStay
<1>4. \A e \in events : e.room \in Rooms /\ e.room # r
  <2>1. room[r].latest = 0
    BY <1>1 DEF IInv, LogBase
  <2>2. \A e \in events : e.room = r => e.seq \in 1..0
    BY <2>1 DEF IInv, EventLogGapFree
  <2> QED
    BY <2>2 DEF IInv, TypeOK, Event
<1>5. \A x \in transitions : x.room \in Rooms /\ x.room # r
  BY <1>1 DEF KeyInv, TransitionBase, IInv, TypeOK, Transition
<1>6. MessagesUseCurrentKey' /\ NoStaleIdentityMessage' /\ IdentityBase'
  BY <1>1 DEF KeyInv, MessagesUseCurrentKey, NoStaleIdentityMessage, IdentityBase, Precedes
<1>7. RotationsAnswered'
  BY <1>1, <1>2, <1>4 DEF KeyInv, RotationsAnswered, Precedes
<1>8. EnvelopesCurrent' /\ InitialRoomsStay'
  BY <1>1, <1>2, <1>3, RoomsAssumption
     DEF KeyInv, EnvelopesCurrent, CurrentEnvelopes, InitialRoomsStay
<1>9. TransitionsTracked' /\ TransitionBase'
  BY <1>1, <1>2, <1>5 DEF KeyInv, TransitionsTracked, TransitionBase
<1>10. ASSUME NEW p \in Requests
       PROVE  KeyTx(tx[p])'
  <2>1. KeyTx(tx[p]) /\ tx'[p] = tx[p] /\ TxLog(tx[p]) /\ IsTransaction(tx[p])
    BY <1>1 DEF KeyInv, IInv, GoodTx
  <2>2. \A x \in DOMAIN tx[p].docs : x \in Rooms /\ room'[x] = room[x]
    BY <2>1, <1>1, <1>2 DEF TxLog, IsTransaction
  <2>3. \A e \in tx[p].evs : e.room \in DOMAIN tx[p].docs
    BY <2>1 DEF TxLog
  <2>4. TxDocs(tx[p])' /\ TxEnvelopes(tx[p])' /\ TxResolves(tx[p])' /\ TxTransitions(tx[p])'
    BY <2>1, <2>2, <1>1 DEF KeyTx, TxDocs, TxEnvelopes, TxResolves, TxTransitions, Streams
  <2>5. TxEvents(tx[p])'
    BY <2>1, <2>2, <2>3, <1>1 DEF KeyTx, TxEvents
  <2>6. TxResets(tx[p])'
    BY <2>1, <1>1, <1>2, <1>3, RoomsAssumption DEF KeyTx, TxResets, Streams
  <2> QED
    BY <2>4, <2>5, <2>6 DEF KeyTx
<1> QED
  BY <1>6, <1>7, <1>8, <1>9, <1>10 DEF KeyInv

-----------------------------------------------------------------------------
(* The commit of a transaction. *)

(* What a commit does to one room, whatever the transaction writes.         *)
LEMMA CommitFacts ==
  ASSUME IInv, KeyInv, NEW q \in Requests, Commit(q)
  PROVE  LET t == tx[q] IN
         /\ t.phase = "ready" /\ IsTransaction(t) /\ TxLog(t) /\ KeyTx(t)
         /\ \A r \in DOMAIN t.docs : room'[r] = t.docs[r]
         /\ \A r \in Rooms \ DOMAIN t.docs : room'[r] = room[r]
         /\ \A e \in events' : e \in t.evs \/ (e \in events /\ e \notin t.pruned)
         /\ \A e \in t.evs : e \in events' /\ e \in Event /\ e.room \in DOMAIN t.docs
         /\ \A e \in t.evs : room[e.room].latest < e.seq
         /\ \A e \in events : e \in Event /\ e.seq <= room[e.room].latest
         /\ \A e \in events, g \in events :
              Precedes(e, g) /\ e \in events' => g \in events'
         /\ \A u \in Users : /\ identityVersion[u] \in Nat /\ identityVersion'[u] \in Nat
                             /\ u \in t.resets => identityVersion'[u] = identityVersion[u] + 1
                             /\ u \notin t.resets => identityVersion'[u] = identityVersion[u]
         /\ \A x \in transitions' :
              \/ x \in t.trans
              \/ x \in transitions /\ \A y \in t.trans : ~SameTransition(x, y)
<1> DEFINE t == tx[q]
<1>1. t.phase = "ready" /\ IsTransaction(t) /\ TxLog(t) /\ KeyTx(t)
  BY DEF Commit, KeyInv, IInv, GoodTx
<1>2. /\ DOMAIN t.docs \subseteq Rooms /\ t.evs \subseteq Event
      /\ \A r \in DOMAIN t.docs : t.docs[r] \in RoomDoc
  BY <1>1 DEF IsTransaction
<1>3. /\ \A r \in DOMAIN t.docs : room'[r] = t.docs[r]
      /\ \A r \in Rooms \ DOMAIN t.docs : room'[r] = room[r]
  BY <1>2 DEF Commit
<1>4. events' = (events \ t.pruned) \cup t.evs
  BY DEF Commit
<1>5. ASSUME NEW e \in t.evs
      PROVE  e.room \in DOMAIN t.docs /\ room[e.room].latest < e.seq
  <2>1. e.room \in DOMAIN t.docs /\ e.seq \in Nat
    BY <1>1, <1>2 DEF TxLog, Event
  <2> QED
    BY <2>1, <1>1 DEF TxLog
<1>6. ASSUME NEW e \in events
      PROVE  e \in Event /\ e.seq <= room[e.room].latest
  <2>1. e \in Event /\ e.room \in Rooms
    BY DEF IInv, TypeOK, Event
  <2>2. e.seq \in 1..room[e.room].latest
    BY <2>1 DEF IInv, EventLogGapFree
  <2> QED
    BY <2>1, <2>2
<1>7. ASSUME NEW e \in events, NEW g \in events, Precedes(e, g), e \in events'
      PROVE  g \in events'
  <2>1. e \notin t.evs
    <3>1. e.seq \in Nat /\ room[e.room].latest \in Nat
      BY <1>6 DEF Event, IInv, TypeOK, RoomDoc
    <3> QED
      BY <3>1, <1>5, <1>6
  <2>2. e \notin t.pruned
    BY <2>1, <1>4, <1>7
  <2>3. CASE g \in t.pruned
    <3>1. g.room \in DOMAIN t.docs /\ e.room = g.room /\ e.seq < g.seq
      BY <2>3, <1>1, <1>7 DEF TxLog, Precedes
    <3>2. g.seq < t.docs[g.room].minRetained /\ ~(e.seq < t.docs[g.room].minRetained)
      BY <2>2, <2>3, <3>1, <1>1 DEF TxLog
    <3>3. e.seq \in Nat /\ g.seq \in Nat /\ t.docs[g.room].minRetained \in Nat
      BY <3>1, <1>2, <1>6 DEF Event, RoomDoc
    <3> QED
      BY <3>1, <3>2, <3>3
  <2> QED
    BY <2>3, <1>4
<1>8. \A u \in Users : /\ identityVersion[u] \in Nat /\ identityVersion'[u] \in Nat
                       /\ u \in t.resets => identityVersion'[u] = identityVersion[u] + 1
                       /\ u \notin t.resets => identityVersion'[u] = identityVersion[u]
  BY DEF Commit, IInv, TypeOK
<1>9. \A x \in transitions' :
        \/ x \in t.trans
        \/ x \in transitions /\ \A y \in t.trans : ~SameTransition(x, y)
  BY DEF Commit
<1> QED
  BY <1>1, <1>2, <1>3, <1>4, <1>5, <1>6, <1>7, <1>8, <1>9

LEMMA KeyCommitEvents ==
  ASSUME IInv, KeyInv, NEW q \in Requests, Commit(q)
  PROVE  /\ MessagesUseCurrentKey' /\ RotationsAnswered'
         /\ NoStaleIdentityMessage' /\ IdentityBase'
<1> DEFINE t == tx[q]
<1>1. TxDocs(t) /\ TxEvents(t) /\ TxTransitions(t) /\ IsTransaction(t)
  BY CommitFacts DEF KeyTx
<1>2. /\ \A r \in DOMAIN t.docs : room'[r] = t.docs[r]
      /\ \A r \in Rooms \ DOMAIN t.docs : room'[r] = room[r]
  BY CommitFacts
<1>3. /\ \A e \in events' : e \in t.evs \/ e \in events
      /\ \A e \in t.evs : e \in events' /\ e \in Event /\ e.room \in DOMAIN t.docs
      /\ \A e \in t.evs : room[e.room].latest < e.seq
      /\ \A e \in events : e \in Event /\ e.seq <= room[e.room].latest
  BY CommitFacts
<1>4. \A e \in events, g \in events : Precedes(e, g) /\ e \in events' => g \in events'
  BY CommitFacts
<1>5. \A r \in Rooms : room[r].latest \in Nat
  BY RoomFacts
<1>6. \A e \in events, f \in t.evs : e.room = f.room => Precedes(e, f)
  BY <1>3, <1>5 DEF Event, Precedes
<1>7. \A e \in t.evs, f \in events : ~Precedes(e, f)
  BY <1>3, <1>5 DEF Event, Precedes
<1>8. DOMAIN t.docs \subseteq Rooms
  BY <1>1 DEF IsTransaction
<1>9. \A f \in t.evs : f.type = "MESSAGE_CREATED" =>
        /\ t.evs = {f}
        /\ room[f.room].crypto = Active /\ f.kv = room[f.room].keyVersion
        /\ \A e \in events : e.type = "IDENTITY_CHANGED" /\ e.room = f.room
                             /\ e.user = f.user => e.idv <= f.idv
  BY <1>1 DEF TxEvents
<1> HIDE DEF t
<1>10. MessagesUseCurrentKey'
  <2> SUFFICES ASSUME NEW e \in events', NEW f \in events',
                      e.type = "ROOM_KEY_ROTATION_REQUIRED", f.type = "MESSAGE_CREATED",
                      Precedes(e, f)
      PROVE  \E g \in events' : /\ g.type = "ROOM_KEY_ROTATED" /\ g.kv = f.kv
                                /\ Precedes(e, g) /\ Precedes(g, f)
    BY DEF MessagesUseCurrentKey, Precedes
  <2>1. CASE e \in events /\ f \in events
    <3>1. PICK g \in events : /\ g.type = "ROOM_KEY_ROTATED" /\ g.kv = f.kv
                              /\ Precedes(e, g) /\ Precedes(g, f)
      BY <2>1 DEF KeyInv, MessagesUseCurrentKey
    <3> QED
      BY <2>1, <3>1, <1>4
  <2>2. CASE e \in events /\ f \in t.evs
    <3>1. room[f.room].crypto = Active /\ f.kv = room[f.room].keyVersion /\ e.room = f.room
      BY <2>2, <1>9 DEF Precedes
    <3>2. f.room \in Rooms
      BY <2>2, <1>3, <1>8
    <3>3. PICK g \in events : /\ g.type = "ROOM_KEY_ROTATED" /\ g.kv = f.kv
                              /\ Precedes(e, g)
      BY <2>2, <3>1, <3>2 DEF KeyInv, RotationsAnswered
    <3>4. Precedes(g, f)
      BY <2>2, <3>1, <3>3, <1>6 DEF Precedes
    <3> QED
      BY <2>2, <3>3, <3>4, <1>4
  <2>3. CASE e \in t.evs /\ f \in events
    BY <2>3, <1>7
  <2>4. CASE e \in t.evs /\ f \in t.evs
    BY <2>4, <1>9
  <2> QED
    BY <2>1, <2>2, <2>3, <2>4, <1>3
<1>11. RotationsAnswered'
  <2> SUFFICES ASSUME NEW r \in Rooms, room'[r].crypto = Active,
                      NEW e \in events', e.room = r, e.type = "ROOM_KEY_ROTATION_REQUIRED"
      PROVE  \E g \in events' : /\ g.type = "ROOM_KEY_ROTATED" /\ g.kv = room'[r].keyVersion
                                /\ Precedes(e, g)
    BY DEF RotationsAnswered, Precedes
  <2>1. e \notin t.evs
    BY <1>1, <1>2, <1>3 DEF TxEvents, Active, RotationRequired
  <2>2. e \in events
    BY <2>1, <1>3
  <2>3. CASE room[r].crypto = Active /\ room'[r].keyVersion = room[r].keyVersion
    <3>1. PICK g \in events : /\ g.type = "ROOM_KEY_ROTATED" /\ g.kv = room[r].keyVersion
                              /\ Precedes(e, g)
      BY <2>2, <2>3 DEF KeyInv, RotationsAnswered
    <3> QED
      BY <2>2, <2>3, <3>1, <1>4
  <2>4. CASE \E g \in t.evs : /\ g.room = r /\ g.type = "ROOM_KEY_ROTATED"
                              /\ g.kv = room'[r].keyVersion
    BY <2>2, <2>4, <1>3, <1>6
  <2> QED
    BY <2>3, <2>4, <1>1, <1>2 DEF TxDocs
<1>12. NoStaleIdentityMessage'
  <2> SUFFICES ASSUME NEW e \in events', NEW f \in events',
                      e.type = "IDENTITY_CHANGED", f.type = "MESSAGE_CREATED",
                      e.user = f.user, Precedes(e, f)
      PROVE  e.idv <= f.idv
    BY DEF NoStaleIdentityMessage, Precedes
  <2>1. CASE e \in events /\ f \in events
    BY <2>1 DEF KeyInv, NoStaleIdentityMessage
  <2>2. CASE e \in events /\ f \in t.evs
    BY <2>2, <1>9 DEF Precedes
  <2>3. CASE e \in t.evs /\ f \in events
    BY <2>3, <1>7
  <2>4. CASE e \in t.evs /\ f \in t.evs
    BY <2>4, <1>9
  <2> QED
    BY <2>1, <2>2, <2>3, <2>4, <1>3
<1>13. IdentityBase'
  <2>1. \A u \in Users : /\ identityVersion[u] \in Nat /\ identityVersion'[u] \in Nat
                         /\ u \in t.resets => identityVersion'[u] = identityVersion[u] + 1
                         /\ u \notin t.resets => identityVersion'[u] = identityVersion[u]
    BY CommitFacts DEF t
  <2>2. t.resets \subseteq Users /\ t.trans \subseteq Transition
    BY <1>1 DEF IsTransaction
  <2>3. ASSUME NEW e \in events', e.type = "IDENTITY_CHANGED"
        PROVE  e.user \in Users /\ e.idv <= identityVersion'[e.user]
    <3>1. e.idv \in Nat
      BY <1>3 DEF Event
    <3>2. CASE e \in t.evs
      <4>1. e.user \in t.resets /\ e.idv <= identityVersion[e.user] + 1
        BY <2>3, <3>2, <1>1 DEF TxEvents
      <4> QED
        BY <4>1, <2>1, <2>2
    <3>3. CASE e \in events
      <4>1. e.user \in Users /\ e.idv <= identityVersion[e.user]
        BY <2>3, <3>3 DEF KeyInv, IdentityBase
      <4> QED
        BY <4>1, <3>1, <2>1
    <3> QED
      BY <3>2, <3>3, <1>3
  <2>4. ASSUME NEW x \in transitions'
        PROVE  x.new <= identityVersion'[x.user]
    <3>1. x \in Transition /\ (x \in t.trans \/ x \in transitions)
      BY <2>2, CommitFacts DEF IInv, TypeOK, t
    <3>2. x.new \in Nat /\ x.user \in Users
      BY <3>1 DEF Transition
    <3>3. CASE x \in t.trans
      <4>1. x.new <= identityVersion[x.user] + (IF x.user \in t.resets THEN 1 ELSE 0)
        BY <3>3, <1>1 DEF TxTransitions
      <4> QED
        BY <4>1, <3>2, <2>1
    <3>4. CASE x \in transitions
      <4>1. x.new <= identityVersion[x.user]
        BY <3>4 DEF KeyInv, IdentityBase
      <4> QED
        BY <4>1, <3>2, <2>1
    <3> QED
      BY <3>1, <3>3, <3>4
  <2> QED
    BY <2>3, <2>4 DEF IdentityBase
<1> QED
  BY <1>10, <1>11, <1>12, <1>13

LEMMA KeyCommitRooms ==
  ASSUME IInv, KeyInv, NEW q \in Requests, Commit(q)
  PROVE  /\ EnvelopesCurrent' /\ InitialRoomsStay'
         /\ TransitionsTracked' /\ TransitionBase'
<1> DEFINE t == tx[q]
<1>1. /\ TxDocs(t) /\ TxEnvelopes(t) /\ TxResolves(t) /\ TxTransitions(t) /\ TxResets(t)
      /\ IsTransaction(t) /\ TxLog(t) /\ t.phase = "ready"
  BY CommitFacts DEF KeyTx
<1>2. /\ \A r \in DOMAIN t.docs : room'[r] = t.docs[r]
      /\ \A r \in Rooms \ DOMAIN t.docs : room'[r] = room[r]
  BY CommitFacts
<1>3. \A u \in Users : /\ identityVersion[u] \in Nat /\ identityVersion'[u] \in Nat
                       /\ u \in t.resets => identityVersion'[u] = identityVersion[u] + 1
                       /\ u \notin t.resets => identityVersion'[u] = identityVersion[u]
  BY CommitFacts
<1>4. \A x \in transitions' :
        \/ x \in t.trans
        \/ x \in transitions /\ \A y \in t.trans : ~SameTransition(x, y)
  BY CommitFacts
<1>5. /\ DOMAIN t.docs \subseteq Rooms /\ t.trans \subseteq Transition /\ t.resets \subseteq Users
      /\ \A r \in DOMAIN t.docs : t.docs[r] \in RoomDoc
  BY <1>1 DEF IsTransaction
<1>6. room \in [Rooms -> RoomDoc] /\ transitions \subseteq Transition
  BY DEF IInv, TypeOK
<1> HIDE DEF t
<1>7. EnvelopesCurrent'
  <2> SUFFICES ASSUME NEW r \in InitialRooms, room'[r].keyVersion > 1, room'[r].crypto = Active,
                      NEW v \in Users
      PROVE  room'[r].keys[v] = IF v \in room'[r].participants THEN identityVersion'[v] ELSE 0
    BY DEF EnvelopesCurrent, CurrentEnvelopes
  <2>1. r \in Rooms
    BY RoomsAssumption
  <2>2. CASE r \in DOMAIN t.docs
    <3>1. t.resets = {}
      BY <2>2, <1>1, <1>2 DEF TxDocs
    <3>2. /\ v \notin room'[r].participants => room'[r].keys[v] = 0
          /\ v \in room'[r].participants => room'[r].keys[v] = identityVersion[v]
      BY <2>2, <1>1, <1>2 DEF TxEnvelopes
    <3> QED
      BY <3>1, <3>2, <1>3
  <2>3. CASE r \notin DOMAIN t.docs
    <3>1. room[r].keys[v] = IF v \in room[r].participants THEN identityVersion[v] ELSE 0
      BY <2>1, <2>3, <1>2 DEF KeyInv, EnvelopesCurrent, CurrentEnvelopes
    <3>2. v \in room[r].participants => v \notin t.resets
      BY <2>3, <1>1 DEF TxResets
    <3> QED
      BY <2>1, <2>3, <3>1, <3>2, <1>2, <1>3
  <2> QED
    BY <2>2, <2>3
<1>8. InitialRoomsStay'
  BY <1>1, <1>2, RoomsAssumption DEF KeyInv, InitialRoomsStay, TxLog
<1>9. \A r \in Rooms : /\ room[r].keyVersion \in Nat /\ room'[r].keyVersion \in Nat
                       /\ room[r].keyVersion <= room'[r].keyVersion
                       /\ room[r].exists => room'[r].exists
  <2> SUFFICES ASSUME NEW r \in Rooms
      PROVE  /\ room[r].keyVersion \in Nat /\ room'[r].keyVersion \in Nat
             /\ room[r].keyVersion <= room'[r].keyVersion
             /\ room[r].exists => room'[r].exists
    OBVIOUS
  <2>1. CASE r \in DOMAIN t.docs
    BY <2>1, <1>1, <1>2, <1>5, <1>6 DEF TxDocs, TxLog, RoomDoc
  <2>2. CASE r \notin DOMAIN t.docs
    BY <2>2, <1>2, <1>6 DEF RoomDoc
  <2> QED
    BY <2>1, <2>2
<1>10. TransitionBase'
  <2> SUFFICES ASSUME NEW x \in transitions'
      PROVE  room'[x.room].exists /\ x.prevKv <= room'[x.room].keyVersion
    BY DEF TransitionBase
  <2>1. CASE x \in t.trans
    BY <2>1, <1>1, <1>2 DEF TxTransitions, TxLog
  <2>2. CASE x \in transitions
    <3>1. x.room \in Rooms /\ x.prevKv \in Nat
      BY <2>2, <1>6 DEF Transition
    <3>2. room[x.room].exists /\ x.prevKv <= room[x.room].keyVersion
      BY <2>2 DEF KeyInv, TransitionBase
    <3> QED
      BY <3>1, <3>2, <1>9
  <2> QED
    BY <2>1, <2>2, <1>4
<1>11. TransitionsTracked'
  <2>1. ASSUME NEW x \in transitions', x.status = "COMPLETED"
        PROVE  x.prevKv < x.resolvedKv /\ x.resolvedKv <= room'[x.room].keyVersion
    <3>1. CASE x \in t.trans
      BY <2>1, <3>1, <1>1, <1>2 DEF TxTransitions
    <3>2. CASE x \in transitions
      <4>1. x.room \in Rooms /\ x.resolvedKv \in Nat
        BY <3>2, <1>6 DEF Transition
      <4>2. x.prevKv < x.resolvedKv /\ x.resolvedKv <= room[x.room].keyVersion
        BY <2>1, <3>2 DEF KeyInv, TransitionsTracked
      <4> QED
        BY <4>1, <4>2, <1>9
    <3> QED
      BY <3>1, <3>2, <1>4
  <2>2. ASSUME NEW x \in transitions', x.status = "PENDING",
               x.user \in room'[x.room].participants, x.new = identityVersion'[x.user]
        PROVE  room'[x.room].crypto = RotationRequired
    <3>1. CASE x \in t.trans
      BY <2>2, <3>1, <1>1, <1>2 DEF TxTransitions
    <3>2. CASE x \in transitions /\ \A y \in t.trans : ~SameTransition(x, y)
      <4>1. x.user \in Users /\ x.room \in Rooms /\ x.new \in Nat
        BY <3>2, <1>6 DEF Transition
      <4>2. x.new <= identityVersion[x.user]
        BY <3>2 DEF KeyInv, IdentityBase
      <4>3. x.user \notin t.resets /\ x.new = identityVersion[x.user]
        BY <2>2, <4>1, <4>2, <1>3
      <4>4. CASE x.room \in DOMAIN t.docs
        <5>1. t.docs[x.room].crypto # Active
          BY <2>2, <3>2, <4>3, <4>4, <1>1, <1>2 DEF TxResolves
        <5> QED
          BY <4>4, <5>1, <1>2, <1>5 DEF RoomDoc
      <4>5. CASE x.room \notin DOMAIN t.docs
        BY <2>2, <3>2, <4>1, <4>3, <4>5, <1>2 DEF KeyInv, TransitionsTracked
      <4> QED
        BY <4>4, <4>5
    <3> QED
      BY <3>1, <3>2, <1>4
  <2> QED
    BY <2>1, <2>2 DEF TransitionsTracked
<1> QED
  BY <1>7, <1>8, <1>10, <1>11

(* What another open transaction has buffered stays right: it shares no     *)
(* room, no reset user and no stream with the one that commits.             *)
LEMMA KeyCommitOthers ==
  ASSUME IInv, KeyInv, NEW q \in Requests, Commit(q), NEW p \in Requests
  PROVE  KeyTx(tx[p])'
<1> DEFINE t == tx[q]
           o == tx[p]
<1>1. CASE tx'[p] = Idle
  BY <1>1 DEF KeyTx, TxDocs, TxEvents, TxEnvelopes, TxResolves, TxTransitions, TxResets,
              Idle, Empty, Streams
<1>2. CASE tx'[p] = o /\ ~Conflicts(o, t)
  <2>1. /\ TxDocs(o) /\ TxEvents(o) /\ TxEnvelopes(o) /\ TxResolves(o)
        /\ TxTransitions(o) /\ TxResets(o) /\ TxLog(o) /\ IsTransaction(o)
    BY DEF KeyInv, KeyTx, IInv, GoodTx
  <2>2. /\ TxDocs(t) /\ TxTransitions(t) /\ TxResets(t) /\ IsTransaction(t)
    BY CommitFacts DEF KeyTx
  <2>3. /\ \A r \in DOMAIN t.docs : room'[r] = t.docs[r]
        /\ \A r \in Rooms \ DOMAIN t.docs : room'[r] = room[r]
    BY CommitFacts
  <2>4. /\ \A e \in events' : e \in t.evs \/ e \in events
        /\ \A e \in t.evs : e.room \in DOMAIN t.docs
    BY CommitFacts
  <2>5. \A u \in Users : /\ identityVersion[u] \in Nat /\ identityVersion'[u] \in Nat
                         /\ u \in t.resets => identityVersion'[u] = identityVersion[u] + 1
                         /\ u \notin t.resets => identityVersion'[u] = identityVersion[u]
    BY CommitFacts
  <2>6. /\ DOMAIN o.docs \cap DOMAIN t.docs = {} /\ o.resets \cap t.resets = {}
        /\ Streams(o) \cap Streams(t) = {}
    BY <1>2 DEF Conflicts
  <2>7. /\ DOMAIN o.docs \subseteq Rooms /\ o.evs \subseteq Event
        /\ o.trans \subseteq Transition /\ o.resets \subseteq Users
        /\ \A r \in DOMAIN o.docs : o.docs[r] \in RoomDoc
    BY <2>1 DEF IsTransaction
  <2>8. \A r \in DOMAIN o.docs : room'[r] = room[r] /\ r \notin DOMAIN t.docs
    BY <2>3, <2>6, <2>7
  <2>9. \A x \in transitions' : x \in t.trans \/ x \in transitions
    BY CommitFacts
  <2>10. Streams(o)' = Streams(o) /\ tx'[p] = o
    BY <1>2 DEF Streams
  <2>11. \A r \in InitialRooms : r \in Rooms /\ room[r] \in RoomDoc
    BY RoomsAssumption DEF IInv, TypeOK
  <2> HIDE DEF t, o
  <2>12. TxDocs(o)'
    BY <2>1, <2>8, <2>10 DEF TxDocs, o, Streams
  <2>13. TxEvents(o)'
    <3> SUFFICES ASSUME NEW f \in o.evs
        PROVE
          /\ f.type = "ROOM_KEY_ROTATION_REQUIRED" => o.docs[f.room].crypto = RotationRequired
          /\ f.type = "IDENTITY_CHANGED" =>
               f.user \in o.resets /\ f.idv <= identityVersion'[f.user] + 1
          /\ f.type = "MESSAGE_CREATED" =>
               /\ o.evs = {f}
               /\ room'[f.room].crypto = Active /\ f.kv = room'[f.room].keyVersion
               /\ \A e \in events' : e.type = "IDENTITY_CHANGED" /\ e.room = f.room
                                    /\ e.user = f.user => e.idv <= f.idv
      BY <2>10 DEF TxEvents, o
    <3>1. f.type = "ROOM_KEY_ROTATION_REQUIRED" => o.docs[f.room].crypto = RotationRequired
      BY <2>1 DEF TxEvents
    <3>2. ASSUME f.type = "IDENTITY_CHANGED"
          PROVE  f.user \in o.resets /\ f.idv <= identityVersion'[f.user] + 1
      <4>1. f.user \in o.resets /\ f.idv <= identityVersion[f.user] + 1 /\ f.idv \in Nat
        BY <3>2, <2>1, <2>7 DEF TxEvents, Event
      <4> QED
        BY <4>1, <2>5, <2>6, <2>7
    <3>3. ASSUME f.type = "MESSAGE_CREATED"
          PROVE  /\ o.evs = {f}
                 /\ room'[f.room].crypto = Active /\ f.kv = room'[f.room].keyVersion
                 /\ \A e \in events' : e.type = "IDENTITY_CHANGED" /\ e.room = f.room
                                      /\ e.user = f.user => e.idv <= f.idv
      <4>1. f.room \in DOMAIN o.docs
        BY <2>1 DEF TxLog
      <4>2. \A e \in events' : e.room = f.room => e \in events
        BY <4>1, <2>4, <2>8
      <4> QED
        BY <3>3, <4>1, <4>2, <2>1, <2>8 DEF TxEvents
    <3> QED
      BY <3>1, <3>2, <3>3
  <2>14. TxEnvelopes(o)'
    <3> SUFFICES ASSUME NEW r \in DOMAIN o.docs \cap InitialRooms,
                        o.docs[r].crypto = Active, o.docs[r].keyVersion > 1
        PROVE  /\ \A v \in Users \ o.docs[r].participants : o.docs[r].keys[v] = 0
               /\ o.phase = "ready" =>
                    \A v \in o.docs[r].participants : o.docs[r].keys[v] = identityVersion'[v]
      BY <2>10 DEF TxEnvelopes, o
    <3>1. o.docs[r].participants = room[r].participants /\ o.docs[r].participants \subseteq Users
      BY <2>1, <2>7 DEF TxDocs, Active, RotationRequired, RoomDoc
    <3>2. \A v \in o.docs[r].participants : v \notin t.resets
      BY <3>1, <2>2, <2>8 DEF TxResets
    <3> QED
      BY <3>1, <3>2, <2>1, <2>5 DEF TxEnvelopes
  <2>15. TxResolves(o)'
    <3> SUFFICES ASSUME NEW r \in DOMAIN o.docs, o.docs[r].crypto = Active,
                        NEW x \in transitions', x.room = r, x.status = "PENDING",
                        x.user \in o.docs[r].participants,
                        x.new = IF o.phase = "ready" THEN identityVersion'[x.user]
                                ELSE o.docs[r].keys[x.user]
        PROVE  \E y \in o.trans : SameTransition(x, y)
      BY <2>10 DEF TxResolves, o, SameTransition
    <3>1. x \in transitions
      BY <2>2, <2>8, <2>9 DEF TxTransitions
    <3>2. x.user \in Users /\ x.new \in Nat
      BY <3>1 DEF IInv, TypeOK, Transition
    <3>3. x.new <= identityVersion[x.user]
      BY <3>1 DEF KeyInv, IdentityBase
    <3>4. o.phase = "ready" => x.new = identityVersion[x.user]
      BY <3>2, <3>3, <2>5
    <3> QED
      BY <3>1, <3>4, <2>1 DEF TxResolves
  <2>16. TxTransitions(o)'
    <3> SUFFICES ASSUME NEW y \in o.trans
        PROVE  y.new <= identityVersion'[y.user] + (IF y.user \in o.resets THEN 1 ELSE 0)
      BY <2>1, <2>10 DEF TxTransitions, o
    <3>1. y.new \in Nat /\ y.user \in Users
      BY <2>7 DEF Transition
    <3>2. y.new <= identityVersion[y.user] + (IF y.user \in o.resets THEN 1 ELSE 0)
      BY <2>1 DEF TxTransitions
    <3> QED
      BY <3>1, <3>2, <2>5
  <2>17. TxResets(o)'
    <3> SUFFICES ASSUME NEW u \in o.resets, NEW r \in InitialRooms, u \in room'[r].participants
        PROVE  r \in DOMAIN o.docs
      BY <2>1, <2>10 DEF TxResets, o
    <3>1. u \in Streams(o) /\ u \notin Streams(t)
      BY <2>1, <2>6 DEF TxResets
    <3>2. u \in room[r].participants
      BY <3>1, <2>2, <2>3, <2>11 DEF TxDocs
    <3> QED
      BY <3>2, <2>1 DEF TxResets
  <2> QED
    BY <2>12, <2>13, <2>14, <2>15, <2>16, <2>17 DEF KeyTx, o
<1> QED
  BY <1>1, <1>2 DEF Commit

LEMMA KeyCommitStep ==
  ASSUME IInv, KeyInv, NEW q \in Requests, Commit(q)
  PROVE  KeyInv'
<1>1. (\A p \in Requests : KeyTx(tx[p]))'
  BY KeyCommitOthers
<1> QED
  BY <1>1, KeyCommitEvents, KeyCommitRooms DEF KeyInv

-----------------------------------------------------------------------------
(* The handlers that leave a room's keys and participants alone.            *)

LEMMA PlainKeys ==
  ASSUME IInv, KeyInv, NEW r \in Rooms, NEW d \in RoomDoc,
         d.participants = room[r].participants, d.keys = room[r].keys,
         d.keyVersion = room[r].keyVersion, d.crypto = room[r].crypto,
         d.latest = room[r].latest \/ d.minRetained = room[r].minRetained,
         NEW t, t.docs = Single(r, d), t.trans = {}, t.resets = {}, t.phase = "ready",
         TxEvents(t)
  PROVE  KeyTx(t)
<1>1. DOMAIN t.docs = {r} /\ t.docs[r] = d /\ room[r] \in RoomDoc
  BY SingleType, RoomFacts, SMTT(30)
<1>2. TxDocs(t)
  BY <1>1 DEF TxDocs, RoomDoc
<1>3. TxEnvelopes(t)
  BY <1>1 DEF TxEnvelopes, KeyInv, EnvelopesCurrent, CurrentEnvelopes, RoomDoc
<1>4. TxResolves(t)
  BY <1>1 DEF TxResolves, KeyInv, TransitionsTracked, Active, RotationRequired
<1>5. TxTransitions(t) /\ TxResets(t)
  BY DEF TxTransitions, TxResets
<1> QED
  BY <1>2, <1>3, <1>4, <1>5 DEF KeyTx

LEMMA AllocateKeys ==
  ASSUME NEW d \in RoomDoc, NEW k \in Nat
  PROVE  /\ Allocate(d, k).keys = d.keys /\ Allocate(d, k).keyVersion = d.keyVersion
         /\ Allocate(d, k).crypto = d.crypto /\ Allocate(d, k).revision = d.revision
BY DEF Allocate, RoomDoc

(* The types of event about which TxEvents says nothing. *)
PlainTypes ==
  RoomEventTypes \ {"MESSAGE_CREATED", "IDENTITY_CHANGED", "ROOM_KEY_ROTATION_REQUIRED"}

(* One plain event, and a document with other admins at most. *)
LEMMA KeyPlainStep ==
  ASSUME IInv, KeyInv, NEW q \in Requests, NEW r \in Rooms, NEW c \in RoomDoc,
         NEW type \in PlainTypes, NEW u \in Users, Handles(q, r),
         c.participants = room[r].participants, c.keys = room[r].keys,
         c.keyVersion = room[r].keyVersion, c.crypto = room[r].crypto,
         c.minRetained = room[r].minRetained,
         Begin(q, Open(Single(r, Allocate(c, 1)), {Ev(r, 1, type, u)}))
  PROVE  KeyInv'
<1> DEFINE d == Allocate(c, 1)
           e == Ev(r, 1, type, u)
           t == Open(Single(r, d), {e})
<1>1. /\ d \in RoomDoc /\ d.participants = room[r].participants /\ d.keys = room[r].keys
      /\ d.keyVersion = room[r].keyVersion /\ d.crypto = room[r].crypto
      /\ d.minRetained = room[r].minRetained
  BY AllocateFacts, AllocateKeys
<1>2. e.type = type
  BY DEF Ev
<1>3. /\ t.docs = Single(r, d) /\ t.evs = {e} /\ t.trans = {} /\ t.resets = {}
      /\ t.phase = "ready"
  BY OpenType
<1> HIDE DEF d, e, t
<1>4. TxEvents(t)
  BY <1>2, <1>3 DEF TxEvents, PlainTypes
<1>5. KeyTx(t)
  BY <1>1, <1>3, <1>4, PlainKeys
<1> QED
  BY <1>5, KeyBeginStep DEF d, e, t, Handles

LEMMA KeyAnnotateStep ==
  ASSUME IInv, KeyInv, NEW q \in Requests, NEW u \in Users, NEW r \in Rooms,
         NEW type \in Annotations, Annotate(q, u, r, type)
  PROVE  KeyInv'
<1>1. type \in PlainTypes
  BY AnnotationsAssumption DEF PlainTypes, RoomEventTypes
<1> QED
  BY <1>1, RoomFacts, KeyPlainStep DEF Annotate

LEMMA KeyUpdateRoomStep ==
  ASSUME IInv, KeyInv, NEW q \in Requests, NEW u \in Users, NEW r \in Rooms,
         UpdateRoom(q, u, r)
  PROVE  KeyInv'
BY RoomFacts, KeyPlainStep DEF UpdateRoom, PlainTypes, RoomEventTypes

LEMMA KeyPromoteAdminStep ==
  ASSUME IInv, KeyInv, NEW q \in Requests, NEW u \in Users, NEW r \in Rooms, NEW v \in Users,
         PromoteAdmin(q, u, r, v)
  PROVE  KeyInv'
<1> DEFINE c == [room[r] EXCEPT !.admins = @ \cup {v}]
<1>1. /\ c \in RoomDoc /\ c.participants = room[r].participants /\ c.keys = room[r].keys
      /\ c.keyVersion = room[r].keyVersion /\ c.crypto = room[r].crypto
      /\ c.minRetained = room[r].minRetained
  BY RoomFacts DEF RoomDoc
<1>2. /\ Handles(q, r) /\ "ADMIN_CHANGED" \in PlainTypes
      /\ Begin(q, Open(Single(r, Allocate(c, 1)), {Ev(r, 1, "ADMIN_CHANGED", u)}))
  BY DEF PromoteAdmin, PlainTypes, RoomEventTypes
<1> HIDE DEF c
<1> QED
  BY <1>1, <1>2, KeyPlainStep

LEMMA KeyDemoteAdminStep ==
  ASSUME IInv, KeyInv, NEW q \in Requests, NEW u \in Users, NEW r \in Rooms, NEW v \in Users,
         DemoteAdmin(q, u, r, v)
  PROVE  KeyInv'
<1> DEFINE c == [room[r] EXCEPT !.admins = @ \ {v}]
<1>1. /\ c \in RoomDoc /\ c.participants = room[r].participants /\ c.keys = room[r].keys
      /\ c.keyVersion = room[r].keyVersion /\ c.crypto = room[r].crypto
      /\ c.minRetained = room[r].minRetained
  BY RoomFacts DEF RoomDoc
<1>2. /\ Handles(q, r) /\ "ADMIN_CHANGED" \in PlainTypes
      /\ Begin(q, Open(Single(r, Allocate(c, 1)), {Ev(r, 1, "ADMIN_CHANGED", u)}))
  BY DEF DemoteAdmin, PlainTypes, RoomEventTypes
<1> HIDE DEF c
<1> QED
  BY <1>1, <1>2, KeyPlainStep

(* One event and one message. *)
LEMMA KeyMessageStep ==
  ASSUME IInv, KeyInv, NEW q \in Requests, NEW r \in Rooms, NEW e, NEW p, Handles(q, r),
         \/ e.type \in PlainTypes
         \/ /\ e.type = "MESSAGE_CREATED" /\ e.room = r
            /\ room[r].crypto = Active /\ e.kv = room[r].keyVersion
            /\ e.user \in Users /\ e.idv = identityVersion[e.user],
         Begin(q, [Open(Single(r, Allocate(room[r], 1)), {e}) EXCEPT !.puts = {p}])
  PROVE  KeyInv'
<1> DEFINE d == Allocate(room[r], 1)
           t == [Open(Single(r, d), {e}) EXCEPT !.puts = {p}]
<1>1. /\ d \in RoomDoc /\ d.participants = room[r].participants /\ d.keys = room[r].keys
      /\ d.keyVersion = room[r].keyVersion /\ d.crypto = room[r].crypto
      /\ d.minRetained = room[r].minRetained
  BY RoomFacts, AllocateFacts, AllocateKeys
<1>2. /\ t.docs = Single(r, d) /\ t.evs = {e} /\ t.trans = {} /\ t.resets = {}
      /\ t.phase = "ready"
  BY DEF Open
<1> HIDE DEF d, t
<1>3. TxEvents(t)
  BY <1>2 DEF TxEvents, PlainTypes, KeyInv, IdentityBase
<1>4. KeyTx(t)
  BY <1>1, <1>2, <1>3, PlainKeys
<1> QED
  BY <1>4, KeyBeginStep DEF d, t, Handles

LEMMA KeyCreateMessageStep ==
  ASSUME IInv, KeyInv, NEW q \in Requests, NEW u \in Users, NEW r \in Rooms,
         NEW id \in ClientMsgIds, CreateMessage(q, u, r, id)
  PROVE  KeyInv'
<1> DEFINE c == Ev(r, 1, "MESSAGE_CREATED", u)
           e == [c EXCEPT !.id = id, !.kv = room[r].keyVersion, !.idv = identityVersion[u]]
           p == [room |-> r, msg |-> room[r].latest + 1, sender |-> u, id |-> id,
                 kv |-> room[r].keyVersion, content |-> "original", deleted |-> FALSE,
                 rsn |-> room[r].latest + 1]
<1>1. /\ e.type = "MESSAGE_CREATED" /\ e.room = r /\ e.kv = room[r].keyVersion
      /\ e.user = u /\ e.idv = identityVersion[u]
  BY DEF Ev
<1>2. room[r].crypto = Active
  BY RoomFacts DEF CreateMessage, Sendable, RoomDoc
<1>3. Handles(q, r)
      /\ Begin(q, [Open(Single(r, Allocate(room[r], 1)), {e}) EXCEPT !.puts = {p}])
  BY DEF CreateMessage
<1> HIDE DEF e, p
<1> QED
  BY <1>1, <1>2, <1>3, KeyMessageStep

LEMMA KeyEditMessageStep ==
  ASSUME IInv, KeyInv, NEW q \in Requests, NEW u \in Users, NEW m \in messages,
         EditMessage(q, u, m)
  PROVE  KeyInv'
<1> DEFINE e == Ev(m.room, 1, "MESSAGE_EDITED", u)
           p == [m EXCEPT !.content = "edited", !.rsn = room[m.room].latest + 1]
<1>1. e.type \in PlainTypes /\ m.room \in Rooms
  BY DEF Ev, PlainTypes, RoomEventTypes, IInv, TypeOK, Message
<1>2. Handles(q, m.room)
      /\ Begin(q, [Open(Single(m.room, Allocate(room[m.room], 1)), {e}) EXCEPT !.puts = {p}])
  BY DEF EditMessage
<1> HIDE DEF e, p
<1> QED
  BY <1>1, <1>2, KeyMessageStep

LEMMA KeyDeleteMessageStep ==
  ASSUME IInv, KeyInv, NEW q \in Requests, NEW u \in Users, NEW m \in messages,
         DeleteMessage(q, u, m)
  PROVE  KeyInv'
<1> DEFINE e == Ev(m.room, 1, "MESSAGE_DELETED", u)
           p == [m EXCEPT !.content = "", !.deleted = TRUE, !.rsn = room[m.room].latest + 1]
<1>1. e.type \in PlainTypes /\ m.room \in Rooms
  BY DEF Ev, PlainTypes, RoomEventTypes, IInv, TypeOK, Message
<1>2. Handles(q, m.room)
      /\ Begin(q, [Open(Single(m.room, Allocate(room[m.room], 1)), {e}) EXCEPT !.puts = {p}])
  BY DEF DeleteMessage
<1> HIDE DEF e, p
<1> QED
  BY <1>1, <1>2, KeyMessageStep

LEMMA KeyPruneStep ==
  ASSUME IInv, KeyInv, NEW q \in Requests, NEW r \in Rooms, NEW boundary \in Nat,
         PruneRoomEvents(q, r, boundary)
  PROVE  KeyInv'
<1> DEFINE n == IF FirstRetained(boundary) > room[r].minRetained
                THEN FirstRetained(boundary) ELSE room[r].minRetained
           d == [room[r] EXCEPT !.minRetained = n]
           pr == {e \in events : e.room = r /\ e.seq <= boundary}
           t == [Open(Single(r, d), {}) EXCEPT !.pruned = pr]
<1>1. n \in Nat
  BY RoomFacts DEF FirstRetained, RoomDoc
<1>2. /\ d \in RoomDoc /\ d.participants = room[r].participants /\ d.keys = room[r].keys
      /\ d.keyVersion = room[r].keyVersion /\ d.crypto = room[r].crypto
      /\ d.latest = room[r].latest
  BY <1>1, RoomFacts DEF RoomDoc
<1>3. /\ t.docs = Single(r, d) /\ t.evs = {} /\ t.trans = {} /\ t.resets = {}
      /\ t.phase = "ready"
  BY DEF Open
<1>4. Begin(q, t)
  <2>1. [room[r] EXCEPT !.minRetained = IF FirstRetained(boundary) > @
                                        THEN FirstRetained(boundary) ELSE @] = d
    BY RoomFacts DEF RoomDoc
  <2> QED
    BY <2>1 DEF PruneRoomEvents
<1> HIDE DEF d, t
<1>5. TxEvents(t)
  BY <1>3 DEF TxEvents
<1>6. KeyTx(t)
  BY <1>2, <1>3, <1>5, PlainKeys
<1> QED
  BY <1>4, <1>6, KeyBeginStep DEF PruneRoomEvents, Handles

-----------------------------------------------------------------------------
(* The handlers that change who is in a room: the room is locked, and who   *)
(* joins is told in their own stream.                                       *)
LEMMA KeyMembershipStep ==
  ASSUME IInv, KeyInv, NEW q \in Requests, NEW r \in Rooms, NEW d \in RoomDoc,
         NEW u \in Users, NEW vs \in SUBSET Users, NEW type \in UserEventTypes,
         Handles(q, r), d.minRetained = room[r].minRetained,
         d.keyVersion = room[r].keyVersion, d.crypto = RotationRequired,
         room[r].revision < d.revision, d.participants \ room[r].participants \subseteq vs,
         Begin(q, [Open(Single(r, Allocate(d, 2)), MembershipEvents(r, u))
                   EXCEPT !.uevs = {UserEv(v, type) : v \in vs}])
  PROVE  KeyInv'
<1> DEFINE n == Allocate(d, 2)
           e == Ev(r, 1, "MEMBERSHIP_CHANGED", u)
           f == Ev(r, 2, "ROOM_KEY_ROTATION_REQUIRED", u)
           x == {UserEv(v, type) : v \in vs}
           t == [Open(Single(r, n), {e, f}) EXCEPT !.uevs = x]
<1>1. /\ n \in RoomDoc /\ n.minRetained = room[r].minRetained
      /\ n.keyVersion = room[r].keyVersion /\ n.crypto = RotationRequired
      /\ room[r].revision < n.revision /\ n.participants = d.participants
  BY AllocateFacts, AllocateKeys
<1>2. /\ e.type = "MEMBERSHIP_CHANGED" /\ e.room = r
      /\ f.type = "ROOM_KEY_ROTATION_REQUIRED" /\ f.room = r
  BY DEF Ev
<1>3. /\ t.docs = Single(r, n) /\ t.evs = {e, f} /\ t.trans = {} /\ t.resets = {} /\ t.uevs = x
  BY DEF Open
<1>4. \A v \in vs : UserEv(v, type) \in x /\ UserEv(v, type).user = v
  BY DEF UserEv
<1>5. Begin(q, t)
  BY DEF MembershipEvents
<1> HIDE DEF n, e, f, x, t
<1>6. DOMAIN t.docs = {r} /\ t.docs[r] = n
  BY <1>1, <1>3, SingleType
<1>7. vs \subseteq Streams(t)
  BY <1>3, <1>4 DEF Streams
<1>8. room[r].keyVersion \in Nat /\ RotationRequired # Active
  BY RoomFacts DEF RoomDoc, RotationRequired, Active
<1>9. TxDocs(t)
  BY <1>1, <1>6, <1>7, <1>8 DEF TxDocs
<1>10. TxEvents(t)
  BY <1>1, <1>2, <1>3, <1>6 DEF TxEvents
<1>11. TxEnvelopes(t) /\ TxResolves(t)
  BY <1>1, <1>6, <1>8 DEF TxEnvelopes, TxResolves
<1>12. TxTransitions(t) /\ TxResets(t)
  BY <1>3 DEF TxTransitions, TxResets
<1> QED
  BY <1>5, <1>9, <1>10, <1>11, <1>12, KeyBeginStep DEF KeyTx, Handles

LEMMA KeyAddMembersStep ==
  ASSUME IInv, KeyInv, NEW q \in Requests, NEW u \in Users, NEW r \in Rooms,
         NEW new \in SUBSET Users, AddMembers(q, u, r, new)
  PROVE  KeyInv'
<1> DEFINE d == [room[r] EXCEPT !.participants = @ \cup new, !.revision = @ + 1,
                                !.crypto = RotationRequired]
<1>1. d \in RoomDoc
  BY RoomFacts, JoinedType
<1>2. /\ d.minRetained = room[r].minRetained /\ d.keyVersion = room[r].keyVersion
      /\ d.crypto = RotationRequired /\ room[r].revision < d.revision
      /\ d.participants \ room[r].participants \subseteq new
  BY RoomFacts DEF RoomDoc
<1>3. /\ Handles(q, r) /\ "ROOM_ACCESS_GRANTED" \in UserEventTypes
      /\ Begin(q, [Open(Single(r, Allocate(d, 2)), MembershipEvents(r, u))
                   EXCEPT !.uevs = {UserEv(v, "ROOM_ACCESS_GRANTED") : v \in new}])
  BY DEF AddMembers, UserEventTypes
<1> HIDE DEF d
<1> QED
  BY <1>1, <1>2, <1>3, KeyMembershipStep

LEMMA KeyRemoveStep ==
  ASSUME IInv, KeyInv, NEW q \in Requests, NEW u \in Users, NEW r \in Rooms, NEW v \in Users,
         Handles(q, r), Remove(q, u, r, v)
  PROVE  KeyInv'
<1> DEFINE d == Without(room[r], v)
<1>1. d \in RoomDoc /\ d.minRetained = room[r].minRetained
      /\ d.participants = room[r].participants \ {v}
  BY RoomFacts, WithoutType
<1>2. /\ d.keyVersion = room[r].keyVersion /\ d.crypto = RotationRequired
      /\ room[r].revision < d.revision
  BY RoomFacts DEF Without, RoomDoc
<1>3. {UserEv(v, "ROOM_ACCESS_REVOKED")} = {UserEv(w, "ROOM_ACCESS_REVOKED") : w \in {v}}
  OBVIOUS
<1>4. /\ "ROOM_ACCESS_REVOKED" \in UserEventTypes
      /\ Begin(q, [Open(Single(r, Allocate(d, 2)), MembershipEvents(r, u))
                   EXCEPT !.uevs = {UserEv(w, "ROOM_ACCESS_REVOKED") : w \in {v}}])
  BY <1>3 DEF Remove, UserEventTypes
<1> HIDE DEF d
<1> QED
  BY <1>1, <1>2, <1>4, KeyMembershipStep

-----------------------------------------------------------------------------
(* Rotations and resets. *)

LEMMA RotatedKeys ==
  ASSUME NEW c \in RoomDoc, NEW env \in [Users -> Nat]
  PROVE  LET d == [c EXCEPT !.keys = env, !.crypto = Active, !.keyVersion = @ + 1] IN
         /\ d.keys = env /\ d.crypto = Active /\ d.keyVersion = c.keyVersion + 1
         /\ d.revision = c.revision
BY DEF RoomDoc

LEMMA KeyRotateStep ==
  ASSUME IInv, KeyInv, NEW q \in Requests, NEW u \in Users, NEW r \in Rooms,
         NEW env \in [Users -> Nat], NEW rev \in Nat, RotateKey(q, u, r, env, rev),
         \A v \in Users : env[v] <= identityVersion[v]
  PROVE  KeyInv'
<1> DEFINE d1 == [room[r] EXCEPT !.keys = env, !.crypto = Active, !.keyVersion = @ + 1]
           d == Allocate(d1, 1)
           e == [Ev(r, 1, "ROOM_KEY_ROTATED", u) EXCEPT !.kv = room[r].keyVersion + 1]
           S == {z \in transitions : z.room = r /\ z.status = "PENDING" /\ z.new = env[z.user]}
           done(y) == [y EXCEPT !.status = "COMPLETED", !.resolvedKv = room[r].keyVersion + 1]
           x == {done(y) : y \in S}
           t == [Open(Single(r, d), {e}) EXCEPT !.phase = "validating", !.trans = x]
<1>1. /\ d \in RoomDoc /\ d.keys = env /\ d.crypto = Active
      /\ d.keyVersion = room[r].keyVersion + 1 /\ d.participants = room[r].participants
      /\ d.minRetained = room[r].minRetained
  <2>1. /\ d1 \in RoomDoc /\ d1.minRetained = room[r].minRetained
        /\ d1.participants = room[r].participants
    BY RoomFacts, RotatedType
  <2>2. d1.keys = env /\ d1.crypto = Active /\ d1.keyVersion = room[r].keyVersion + 1
    BY RoomFacts, RotatedKeys
  <2> HIDE DEF d1
  <2> QED
    BY <2>1, <2>2, AllocateFacts, AllocateKeys
<1>2. e.type = "ROOM_KEY_ROTATED" /\ e.room = r /\ e.kv = room[r].keyVersion + 1
  BY DEF Ev
<1>3. /\ t.docs = Single(r, d) /\ t.evs = {e} /\ t.trans = x /\ t.resets = {}
      /\ t.phase = "validating"
  BY DEF Open
<1>4. room[r].keyVersion \in Nat /\ transitions \subseteq Transition
  BY RoomFacts DEF RoomDoc, IInv, TypeOK
<1>5. \A y \in S : /\ done(y).user = y.user /\ done(y).room = r /\ done(y).new = y.new
                   /\ done(y).prevKv = y.prevKv /\ done(y).status = "COMPLETED"
                   /\ done(y).resolvedKv = room[r].keyVersion + 1
  BY <1>4 DEF Transition
<1>6. Begin(q, t) /\ Handles(q, r)
  BY DEF RotateKey
<1>7. \A v \in Users : env[v] # 0 <=> v \in room[r].participants
  BY DEF RotateKey
<1>8. \A y \in S : y \in transitions /\ y.room = r /\ y.new = env[y.user]
  OBVIOUS
<1>9. \A z \in transitions : z.room = r /\ z.status = "PENDING" /\ z.new = env[z.user]
        => z \in S
  OBVIOUS
<1>10. \A y \in S : done(y) \in x
  OBVIOUS
<1>11. \A z \in x : \E y \in S : z = done(y)
  OBVIOUS
<1> HIDE DEF d1, d, e, S, done, x, t
<1>12. DOMAIN t.docs = {r} /\ t.docs[r] = d
  <2>1. d \in RoomDoc
    BY <1>1
  <2>2. DOMAIN Single(r, d) = {r} /\ Single(r, d)[r] = d
    BY <2>1, SingleType
  <2> QED
    BY <2>2, <1>3
<1>13. TxDocs(t)
  BY <1>1, <1>2, <1>3, <1>4, <1>12 DEF TxDocs
<1>14. TxEvents(t)
  BY <1>2, <1>3 DEF TxEvents
<1>15. TxEnvelopes(t)
  BY <1>1, <1>3, <1>7, <1>12 DEF TxEnvelopes
<1>16. TxResolves(t)
  <2> SUFFICES ASSUME NEW z \in transitions, z.room = r, z.status = "PENDING",
                      z.new = d.keys[z.user]
      PROVE  \E y \in t.trans : SameTransition(z, y)
    BY <1>3, <1>12 DEF TxResolves
  <2>1. z \in S
    BY <1>1, <1>9
  <2> QED
    BY <2>1, <1>3, <1>5, <1>8, <1>10 DEF SameTransition
<1>17. TxTransitions(t)
  <2> SUFFICES ASSUME NEW y \in S
      PROVE  /\ done(y).room \in DOMAIN t.docs
             /\ done(y).new <= identityVersion[done(y).user]
                               + (IF done(y).user \in t.resets THEN 1 ELSE 0)
             /\ done(y).prevKv <= t.docs[done(y).room].keyVersion
             /\ done(y).status = "COMPLETED"
             /\ done(y).prevKv < done(y).resolvedKv
             /\ done(y).resolvedKv <= t.docs[done(y).room].keyVersion
    BY <1>3, <1>11 DEF TxTransitions
  <2>1. y \in Transition /\ y.user \in Users /\ y.new \in Nat /\ y.prevKv \in Nat
    BY <1>4, <1>8 DEF Transition
  <2>2. y.new <= identityVersion[y.user] /\ identityVersion[y.user] \in Nat
    BY <2>1, <1>8 DEF IInv, TypeOK
  <2>3. y.prevKv <= room[r].keyVersion
    BY <1>8 DEF KeyInv, TransitionBase
  <2> QED
    BY <2>1, <2>2, <2>3, <1>1, <1>3, <1>4, <1>5, <1>12
<1>18. TxResets(t)
  BY <1>3 DEF TxResets
<1> QED
  BY <1>6, <1>13, <1>14, <1>15, <1>16, <1>17, <1>18, KeyBeginStep DEF KeyTx, Handles

LEMMA LockedKeys ==
  ASSUME NEW c \in RoomDoc, NEW k \in Nat
  PROVE  LET d == Allocate(Locked(c), k) IN
         /\ d \in RoomDoc /\ d.minRetained = c.minRetained
         /\ d.participants = c.participants /\ d.keyVersion = c.keyVersion
         /\ d.crypto = RotationRequired
<1>1. /\ Locked(c) \in RoomDoc /\ Locked(c).minRetained = c.minRetained
      /\ Locked(c).participants = c.participants
  BY LockedType
<1>2. Locked(c).keyVersion = c.keyVersion /\ Locked(c).crypto = RotationRequired
  BY DEF Locked, RoomDoc
<1> QED
  BY <1>1, <1>2, AllocateFacts, AllocateKeys

LEMMA KeyResetStep ==
  ASSUME IInv, KeyInv, NEW q \in Requests, NEW u \in Users, ResetIdentity(q, u)
  PROVE  KeyInv'
<1> DEFINE new(r) == Allocate(Locked(room[r]), IF NeedsRotation(r) THEN 2 ELSE 1)
           docs == [r \in RoomsOf(u) |-> new(r)]
           evs == UNION {ResetEvents(r, u) : r \in RoomsOf(u)}
           y == UserEv(u, "IDENTITY_RESET")
           x == {[user |-> u, room |-> r, new |-> identityVersion[u] + 1,
                  prevKv |-> room[r].keyVersion, status |-> "PENDING",
                  resolvedKv |-> 0] : r \in RoomsOf(u)}
           t == [Open(docs, evs) EXCEPT !.resets = {u}, !.uevs = {y}, !.trans = x]
<1>1. RoomsOf(u) \subseteq Rooms /\ identityVersion[u] \in Nat
  BY DEF RoomsOf, IInv, TypeOK
<1>2. \A r \in RoomsOf(u) :
        /\ new(r) \in RoomDoc /\ new(r).minRetained = room[r].minRetained
        /\ new(r).participants = room[r].participants
        /\ new(r).keyVersion = room[r].keyVersion /\ new(r).crypto = RotationRequired
        /\ room[r].keyVersion \in Nat
  <2> SUFFICES ASSUME NEW r \in RoomsOf(u)
      PROVE  /\ new(r) \in RoomDoc /\ new(r).minRetained = room[r].minRetained
             /\ new(r).participants = room[r].participants
             /\ new(r).keyVersion = room[r].keyVersion /\ new(r).crypto = RotationRequired
             /\ room[r].keyVersion \in Nat
    OBVIOUS
  <2>1. room[r] \in RoomDoc
    BY <1>1, RoomFacts
  <2>2. (IF NeedsRotation(r) THEN 2 ELSE 1) \in Nat
    OBVIOUS
  <2> QED
    BY <2>1, <2>2, LockedKeys DEF RoomDoc
<1>3. \A r \in RoomsOf(u) : \A e \in ResetEvents(r, u) :
        /\ e.room = r
        /\ \/ e.type = "IDENTITY_CHANGED" /\ e.user = u /\ e.idv = identityVersion[u] + 1
           \/ e.type = "ROOM_KEY_ROTATION_REQUIRED"
  BY DEF ResetEvents, Ev
<1>4. /\ t.docs = docs /\ t.evs = evs /\ t.resets = {u} /\ t.uevs = {y} /\ t.trans = x
  BY DEF Open
<1>5. DOMAIN docs = RoomsOf(u) /\ \A r \in RoomsOf(u) : docs[r] = new(r)
  OBVIOUS
<1>6. y.user = u
  BY DEF UserEv
<1>7. \A e \in evs : \E r \in RoomsOf(u) : e \in ResetEvents(r, u)
  OBVIOUS
<1>8. \A z \in x : /\ z.user = u /\ z.room \in RoomsOf(u) /\ z.new = identityVersion[u] + 1
                   /\ z.prevKv = room[z.room].keyVersion /\ z.status = "PENDING"
  OBVIOUS
<1>9. Begin(q, t) /\ UNCHANGED <<room, events, messages, identityVersion, transitions,
                               userLatest, userEvents>>
  BY DEF ResetIdentity
<1> HIDE DEF new, docs, evs, y, x, t
<1>10. RotationRequired # Active
  BY DEF RotationRequired, Active
<1>11. TxDocs(t)
  BY <1>2, <1>4, <1>5, <1>10 DEF TxDocs
<1>12. TxEvents(t)
  BY <1>1, <1>2, <1>3, <1>4, <1>5, <1>7 DEF TxEvents
<1>13. TxEnvelopes(t) /\ TxResolves(t)
  BY <1>2, <1>4, <1>5, <1>10 DEF TxEnvelopes, TxResolves
<1>14. TxTransitions(t)
  BY <1>1, <1>2, <1>4, <1>5, <1>8 DEF TxTransitions
<1>15. TxResets(t)
  BY <1>4, <1>5, <1>6, RoomsAssumption DEF TxResets, Streams, RoomsOf, KeyInv, InitialRoomsStay
<1> QED
  BY <1>9, <1>11, <1>12, <1>13, <1>14, <1>15, KeyBeginStep DEF KeyTx

-----------------------------------------------------------------------------
(* The invariant and what follows from it. *)

LEMMA KeyInit ==
  ASSUME Init
  PROVE  KeyInv
<1>1. PICK o \in Users, ps \in SUBSET Users, v0 \in {0, 1} :
        room = [r \in Rooms |-> IF r \in InitialRooms THEN FreshDoc(o, ps, v0) ELSE NoDoc(o)]
  BY DEF Init
<1>2. /\ events = {} /\ transitions = {} /\ tx = [q \in Requests |-> Idle]
  BY DEF Init
<1>3. FreshDoc(o, ps, v0).exists /\ FreshDoc(o, ps, v0).keyVersion = 1
  BY DEF FreshDoc, NoDoc
<1>4. \A r \in InitialRooms : room[r].exists /\ room[r].keyVersion = 1
  BY <1>1, <1>3, RoomsAssumption
<1>5. \A q \in Requests : KeyTx(tx[q])
  BY <1>2, IdleKeys
<1> QED
  BY <1>2, <1>4, <1>5
     DEF KeyInv, MessagesUseCurrentKey, RotationsAnswered, NoStaleIdentityMessage,
         IdentityBase, EnvelopesCurrent, InitialRoomsStay, TransitionsTracked, TransitionBase

LEMMA KeyNext ==
  ASSUME IInv, KeyInv, [Next]_vars
  PROVE  KeyInv'
<1>1. ASSUME NEW r \in Rooms, NEW u \in Users, NEW ps \in SUBSET Users, CreateRoom(r, u, ps)
      PROVE  KeyInv'
  BY <1>1, KeyCreateRoomStep
<1>2. ASSUME NEW q \in Requests, NEW u \in Users, MessageStep(q, u)
      PROVE  KeyInv'
  BY <1>2, KeyCreateMessageStep, KeyEditMessageStep, KeyDeleteMessageStep, KeyAnnotateStep
     DEF MessageStep
<1>3. ASSUME NEW q \in Requests, NEW u \in Users, MembershipStep(q, u)
      PROVE  KeyInv'
  BY <1>3, KeyAddMembersStep, KeyRemoveStep, KeyPromoteAdminStep, KeyDemoteAdminStep,
     KeyUpdateRoomStep DEF MembershipStep, KickMember, LeaveRoom, RemoveMember
<1>4. ASSUME NEW q \in Requests, NEW u \in Users, KeyStep(q, u)
      PROVE  KeyInv'
  <2>1. ASSUME NEW r \in Rooms, NEW rev \in 1..room[r].revision,
               NEW env \in [Users -> 0..MaxIdentity], RotateKey(q, u, r, env, rev),
               \A v \in Users : env[v] <= identityVersion[v]
        PROVE  KeyInv'
    <3>1. env \in [Users -> Nat] /\ rev \in Nat
      BY BoundsAssumption
    <3> QED
      BY <2>1, <3>1, KeyRotateStep
  <2> QED
    BY <1>4, <2>1, KeyResetStep DEF KeyStep
<1>5. ASSUME NEW q \in Requests, NEW r \in Rooms, NEW boundary \in 1..MaxSequence,
             PruneRoomEvents(q, r, boundary)
      PROVE  KeyInv'
  <2>1. boundary \in Nat
    BY BoundsAssumption
  <2> QED
    BY <1>5, <2>1, KeyPruneStep
<1>6. ASSUME NEW q \in Requests, ValidateRoomEnvelopes(q) \/ Commit(q) \/ Abort(q)
      PROVE  KeyInv'
  BY <1>6, KeyValidateStep, KeyCommitStep, KeyAbortStep
<1>7. CASE UNCHANGED vars
  <2>1. (\A q \in Requests : KeyTx(tx[q]))'
    BY <1>7 DEF vars, KeyInv, KeyTx, TxDocs, TxEvents, TxEnvelopes, TxResolves,
                TxTransitions, TxResets, Streams
  <2>2. /\ MessagesUseCurrentKey' /\ RotationsAnswered'
        /\ NoStaleIdentityMessage' /\ IdentityBase'
    BY <1>7 DEF vars, KeyInv, MessagesUseCurrentKey, RotationsAnswered,
                NoStaleIdentityMessage, IdentityBase, Precedes
  <2>3. EnvelopesCurrent' /\ InitialRoomsStay' /\ TransitionsTracked' /\ TransitionBase'
    BY <1>7 DEF vars, KeyInv, EnvelopesCurrent, CurrentEnvelopes, InitialRoomsStay,
                TransitionsTracked, TransitionBase
  <2> QED
    BY <2>1, <2>2, <2>3 DEF KeyInv
<1> QED
  BY <1>1, <1>2, <1>3, <1>4, <1>5, <1>6, <1>7 DEF Next

(* What open transactions have buffered about keys, identities and members  *)
(* fits the committed documents, whichever of them commits next.            *)
THEOREM KeyInvariantHolds == Spec => []KeyInv
<1>1. Init => KeyInv
  BY KeyInit
<1>2. IInv /\ KeyInv /\ [Next]_vars => KeyInv'
  BY KeyNext
<1> QED
  BY <1>1, <1>2, InvariantHolds, PTL DEF Spec

(* In the order every client replays, a message after a call for a rotation *)
(* comes after the rotation that answers it and carries its key version.    *)
THEOREM MessagesFollowRotations == Spec => []MessagesUseCurrentKey
<1>1. KeyInv => MessagesUseCurrentKey
  BY DEF KeyInv
<1> QED
  BY <1>1, KeyInvariantHolds, PTL

(* No message composed with an old identity follows its sender's reset.     *)
THEOREM MessagesFollowResets == Spec => []NoStaleIdentityMessage
<1>1. KeyInv => NoStaleIdentityMessage
  BY DEF KeyInv
<1> QED
  BY <1>1, KeyInvariantHolds, PTL

(* A rotated room is ACTIVE only with the envelopes of exactly its          *)
(* participants under their current identities, although validation reads   *)
(* the users outside the transaction.                                       *)
THEOREM EnvelopesStayCurrent == Spec => []EnvelopesCurrent
<1>1. KeyInv => EnvelopesCurrent
  BY DEF KeyInv
<1> QED
  BY <1>1, KeyInvariantHolds, PTL

(* A room with an unanswered reset of a participant takes no messages, and  *)
(* a completed transition was answered by a later key.                      *)
THEOREM ResetsAreAnswered == Spec => []TransitionsTracked
<1>1. KeyInv => TransitionsTracked
  BY DEF KeyInv
<1> QED
  BY <1>1, KeyInvariantHolds, PTL

(* A step that does not commit leaves the logs and the rooms that exist     *)
(* alone; createRoom starts an empty log where there was none.              *)
LEMMA OnlyCommitsWrite ==
  ASSUME IInv, [Next]_vars, ~\E q \in Requests : Commit(q), NEW r \in Rooms
  PROVE  /\ events' = events
         /\ room[r].exists => room'[r] = room[r]
         /\ room'[r].latest = room[r].latest /\ room'[r].minRetained = room[r].minRetained
<1>1. ASSUME NEW x \in Rooms, NEW u \in Users, NEW ps \in SUBSET Users, CreateRoom(x, u, ps)
      PROVE  /\ events' = events
             /\ room[r].exists => room'[r] = room[r]
             /\ room'[r].latest = room[r].latest
             /\ room'[r].minRetained = room[r].minRetained
  <2>1. room[x].latest = 0 /\ room[x].minRetained = 0 /\ room \in [Rooms -> RoomDoc]
    BY <1>1 DEF CreateRoom, IInv, LogBase, TypeOK
  <2>2. room'[x].latest = 0 /\ room'[x].minRetained = 0
    BY <1>1, <2>1 DEF CreateRoom
  <2>3. r # x => room'[r] = room[r]
    BY <1>1, <2>1 DEF CreateRoom
  <2>4. events' = events /\ ~room[x].exists
    BY <1>1 DEF CreateRoom
  <2> QED
    BY <2>1, <2>2, <2>3, <2>4
<1>2. ASSUME NEW q \in Requests, NEW u \in Users,
             MessageStep(q, u) \/ MembershipStep(q, u) \/ KeyStep(q, u)
      PROVE  room' = room /\ events' = events
  BY <1>2 DEF MessageStep, CreateMessage, EditMessage, DeleteMessage, Annotate,
     MembershipStep, AddMembers, KickMember, LeaveRoom, RemoveMember, PromoteAdmin,
     DemoteAdmin, UpdateRoom, KeyStep, RotateKey, ResetIdentity, Handles
<1>3. ASSUME NEW q \in Requests,
             \/ \E x \in Rooms, boundary \in 1..MaxSequence : PruneRoomEvents(q, x, boundary)
             \/ ValidateRoomEnvelopes(q)
             \/ Abort(q)
      PROVE  room' = room /\ events' = events
  BY <1>3 DEF PruneRoomEvents, Handles, ValidateRoomEnvelopes, Abort
<1>4. CASE UNCHANGED vars
  BY <1>4 DEF vars
<1> QED
  BY <1>1, <1>2, <1>3, <1>4 DEF Next

(* Whoever joins or leaves a room, the membership revision moves on and the *)
(* room is locked in the same step.                                         *)
THEOREM MembershipIsRotated == Spec => MembershipForcesRotation
<1>1. ASSUME IInv, KeyInv, [Next]_vars, NEW r \in Rooms, room[r].exists,
             room'[r].participants # room[r].participants
      PROVE  room'[r].revision > room[r].revision /\ room'[r].crypto = RotationRequired
  <2>1. CASE \E q \in Requests : Commit(q)
    <3>1. PICK q \in Requests : Commit(q)
      BY <2>1
    <3>2. r \in DOMAIN tx[q].docs /\ room'[r] = tx[q].docs[r]
      BY <1>1, <3>1, CommitFacts
    <3>3. tx[q].docs[r] \in RoomDoc /\ room[r] \in RoomDoc /\ TxDocs(tx[q])
      BY <1>1, <3>1, <3>2, CommitFacts, RoomFacts DEF KeyTx, IsTransaction
    <3> QED
      BY <1>1, <3>2, <3>3 DEF TxDocs, RoomDoc
  <2>2. CASE ~\E q \in Requests : Commit(q)
    BY <1>1, <2>2, OnlyCommitsWrite
  <2> QED
    BY <2>1, <2>2
<1>2. IInv /\ KeyInv /\ [Next]_vars =>
        [\A r \in Rooms :
           room[r].exists /\ room'[r].participants # room[r].participants =>
             /\ room'[r].revision > room[r].revision
             /\ room'[r].crypto = RotationRequired]_vars
  BY <1>1
<1> QED
  BY <1>2, InvariantHolds, KeyInvariantHolds, PTL DEF Spec, MembershipForcesRotation

-----------------------------------------------------------------------------
(* The refinement of RoomLog: the mapping, by name. *)

EntrySet ==
  [type : RoomEventTypes, user : Users \cup {NoUser},
   id : ClientMsgIds \cup {NoId}, kv : Nat, idv : Nat]

EntryOf(e) == [type |-> e.type, user |-> e.user, id |-> e.id, kv |-> e.kv, idv |-> e.idv]

Floor(r) == IF room[r].minRetained = 0 THEN 1 ELSE room[r].minRetained

(* The abstract log of a room is a function on its retained range, and each *)
(* event of the room is its entry.                                          *)
LogIsRange ==
  \A r \in Rooms :
    /\ LogOf(r) \in [Floor(r)..room[r].latest -> EntrySet]
    /\ \A e \in events : e.room = r => LogOf(r)[e.seq] = EntryOf(e)

LEMMA RangeLemma == IInv => LogIsRange
<1> SUFFICES ASSUME IInv, NEW r \in Rooms
    PROVE  /\ LogOf(r) \in [Floor(r)..room[r].latest -> EntrySet]
           /\ \A e \in events : e.room = r => LogOf(r)[e.seq] = EntryOf(e)
  BY DEF LogIsRange
<1> DEFINE Own == {e \in events : e.room = r}
           Seqs == {e.seq : e \in Own}
           At(s) == CHOOSE f \in events : f.room = r /\ f.seq = s
<1>1. room[r].latest \in Nat /\ room[r].minRetained \in Nat
  BY RoomFacts DEF RoomDoc
<1>2. \A e \in Own : e \in Event /\ e.room = r /\ e.seq \in 1..room[r].latest
  BY DEF IInv, TypeOK, EventLogGapFree
<1>3. \A s \in 1..room[r].latest :
        s >= room[r].minRetained <=> \E e \in events : e.room = r /\ e.seq = s
  BY DEF IInv, EventLogGapFree
<1>4. \A e, f \in events : e.room = r /\ f.room = r /\ e.seq = f.seq => e = f
  BY DEF IInv, EventLogGapFree
<1>5. \A e \in Own : At(e.seq) = e
  <2> SUFFICES ASSUME NEW e \in Own
      PROVE  At(e.seq) = e
    OBVIOUS
  <2>1. At(e.seq) \in events /\ At(e.seq).room = r /\ At(e.seq).seq = e.seq
    OBVIOUS
  <2> QED
    BY <2>1, <1>4
<1>6. Seqs = Floor(r)..room[r].latest
  <2>1. \A s \in Seqs : s \in Floor(r)..room[r].latest
    <3> SUFFICES ASSUME NEW e \in Own
        PROVE  e.seq \in Floor(r)..room[r].latest
      OBVIOUS
    <3>1. e.seq \in 1..room[r].latest /\ e.seq >= room[r].minRetained
      BY <1>2, <1>3
    <3> QED
      BY <3>1, <1>1 DEF Floor
  <2>2. \A s \in Floor(r)..room[r].latest : s \in Seqs
    <3> SUFFICES ASSUME NEW s \in Floor(r)..room[r].latest
        PROVE  s \in Seqs
      OBVIOUS
    <3>1. s \in 1..room[r].latest /\ s >= room[r].minRetained
      BY <1>1 DEF Floor
    <3> QED
      BY <3>1, <1>3
  <2> QED
    BY <2>1, <2>2
<1>7. LogOf(r) = [s \in Seqs |-> EntryOf(At(s))]
  BY DEF LogOf, EntryOf
<1>8. \A e \in Own : EntryOf(e) \in EntrySet
  BY <1>2 DEF EntryOf, EntrySet, Event
<1>9. \A s \in Seqs : \E e \in Own : s = e.seq
  OBVIOUS
<1>10. \A e \in Own : e.seq \in Seqs
  OBVIOUS
<1>11. \A e \in events : e.room = r => e \in Own
  OBVIOUS
<1> HIDE DEF Own, Seqs, At
<1>12. \A s \in Seqs : EntryOf(At(s)) \in EntrySet
  BY <1>5, <1>8, <1>9
<1>13. LogOf(r) \in [Floor(r)..room[r].latest -> EntrySet]
  BY <1>6, <1>7, <1>12
<1>14. \A e \in Own : LogOf(r)[e.seq] = EntryOf(e)
  BY <1>5, <1>7, <1>10
<1> QED
  BY <1>11, <1>13, <1>14

-----------------------------------------------------------------------------
(* What a step does to the retained range of a room. *)

(* A step appends to a room's log or drops a prefix of it, not both.        *)
LEMMA RangeStep ==
  ASSUME IInv, KeyInv, [Next]_vars, NEW r \in Rooms
  PROVE  /\ room[r].latest <= room'[r].latest
         /\ room[r].minRetained <= room'[r].minRetained
         /\ room'[r].minRetained <= room[r].latest + 1
         /\ room'[r].latest = room[r].latest \/ room'[r].minRetained = room[r].minRetained
         /\ \A e \in events : e.room = r /\ e.seq >= room'[r].minRetained => e \in events'
<1>1. /\ room[r].latest \in Nat /\ room[r].minRetained \in Nat
      /\ room[r].minRetained <= room[r].latest + 1
  BY RoomFacts DEF RoomDoc, IInv, LogBase
<1>2. CASE ~\E q \in Requests : Commit(q)
  BY <1>1, <1>2, OnlyCommitsWrite
<1>3. CASE \E q \in Requests : Commit(q)
  <2>1. PICK q \in Requests : Commit(q)
    BY <1>3
  <2>2. TxLog(tx[q]) /\ TxDocs(tx[q]) /\ IsTransaction(tx[q])
    BY <2>1, CommitFacts DEF KeyTx
  <2>3. /\ r \in DOMAIN tx[q].docs => room'[r] = tx[q].docs[r]
        /\ r \notin DOMAIN tx[q].docs => room'[r] = room[r]
    BY <2>1, CommitFacts
  <2>4. events' = (events \ tx[q].pruned) \cup tx[q].evs
    BY <2>1 DEF Commit
  <2>5. CASE r \in DOMAIN tx[q].docs
    <3>1. tx[q].docs[r].minRetained \in Nat
      BY <2>2, <2>5 DEF IsTransaction, RoomDoc
    <3>2. \A e \in events : e.room = r => (e \in tx[q].pruned <=> e.seq < room'[r].minRetained)
      BY <2>2, <2>3, <2>5 DEF TxLog
    <3>3. \A e \in events : e.room = r => e.seq \in Nat
      BY DEF IInv, TypeOK, Event
    <3>4. \A e \in events : e.room = r /\ e.seq >= room'[r].minRetained => e \in events'
      BY <2>3, <2>4, <2>5, <3>1, <3>2, <3>3
    <3> QED
      BY <1>1, <2>2, <2>3, <2>5, <3>4 DEF TxLog, TxDocs
  <2>6. CASE r \notin DOMAIN tx[q].docs
    BY <1>1, <2>2, <2>3, <2>4, <2>6 DEF TxLog
  <2> QED
    BY <2>5, <2>6
<1> QED
  BY <1>2, <1>3

(* On the numbers both the old and the new range hold, the logs agree: an   *)
(* entry that is kept never changes.                                        *)
LEMMA EntriesStay ==
  ASSUME IInv, KeyInv, [Next]_vars, LogIsRange, LogIsRange', NEW r \in Rooms,
         NEW s \in Nat, Floor(r)' <= s, s <= room[r].latest
  PROVE  s \in Floor(r)..room[r].latest /\ LogOf(r)'[s] = LogOf(r)[s]
<1>1. /\ room[r].latest \in Nat /\ room[r].minRetained \in Nat
      /\ room[r].minRetained <= room'[r].minRetained
      /\ \A e \in events : e.room = r /\ e.seq >= room'[r].minRetained => e \in events'
  BY RoomFacts, RangeStep DEF RoomDoc
<1>2. room'[r].minRetained \in Nat
  <2>1. IInv'
    BY NextInvariant
  <2> QED
    BY <2>1 DEF IInv, TypeOK, RoomDoc
<1>3. s \in 1..room[r].latest /\ s >= room'[r].minRetained /\ s \in Floor(r)..room[r].latest
  BY <1>1, <1>2 DEF Floor
<1>4. PICK e \in events : e.room = r /\ e.seq = s
  BY <1>1, <1>2, <1>3 DEF IInv, EventLogGapFree
<1>5. e \in events'
  BY <1>1, <1>3, <1>4
<1>6. LogOf(r)[s] = EntryOf(e)
  BY <1>4 DEF LogIsRange
<1>7. LogOf(r)'[s] = EntryOf(e)
  BY <1>4, <1>5 DEF LogIsRange, EntryOf
<1> QED
  BY <1>3, <1>6, <1>7

LEMMA RefinesRoom ==
  ASSUME IInv, KeyInv, [Next]_vars, LogIsRange, LogIsRange', NEW r \in Rooms
  PROVE  Log!Append(r) \/ Log!Drop(r) \/ Log!Keep(r)
<1>1. /\ room[r].latest \in Nat /\ room[r].minRetained \in Nat
      /\ room'[r].latest \in Nat /\ room'[r].minRetained \in Nat
  <2>1. IInv'
    BY NextInvariant
  <2> QED
    BY <2>1, RoomFacts DEF IInv, TypeOK, RoomDoc
<1>2. /\ room[r].latest <= room'[r].latest
      /\ room[r].minRetained <= room'[r].minRetained
      /\ room'[r].minRetained <= room[r].latest + 1
      /\ room'[r].latest = room[r].latest \/ room'[r].minRetained = room[r].minRetained
  BY RangeStep
<1>3. /\ LogOf(r) \in [Floor(r)..room[r].latest -> EntrySet]
      /\ LogOf(r)' \in [Floor(r)'..room'[r].latest -> EntrySet]
  BY DEF LogIsRange
<1>4. \A s \in Nat : Floor(r)' <= s /\ s <= room[r].latest => LogOf(r)'[s] = LogOf(r)[s]
  BY EntriesStay
<1>5. /\ Floor(r) \in Nat /\ Floor(r)' \in Nat
      /\ Floor(r) <= Floor(r)' /\ Floor(r)' <= room[r].latest + 1
  BY <1>1, <1>2 DEF Floor
<1>6. CASE room'[r].latest > room[r].latest
  <2>1. Floor(r)' = Floor(r)
    BY <1>1, <1>2, <1>6 DEF Floor
  <2>2. \A s \in DOMAIN LogOf(r) : LogOf(r)'[s] = LogOf(r)[s]
    BY <1>1, <1>3, <1>4, <1>5, <2>1
  <2> QED
    BY <1>3, <1>6, <2>1, <2>2 DEF Log!Append, Floor, EntrySet
<1>7. CASE room'[r].latest = room[r].latest /\ Floor(r)' # Floor(r)
  <2>1. LogOf(r)' = [s \in Floor(r)'..room[r].latest |-> LogOf(r)[s]]
    BY <1>1, <1>3, <1>4, <1>5, <1>7
  <2>2. Floor(r)' \in Floor(r) + 1 .. room[r].latest + 1
    BY <1>1, <1>5, <1>7
  <2> QED
    BY <1>7, <2>1, <2>2 DEF Log!Drop, Floor
<1>8. CASE room'[r].latest = room[r].latest /\ Floor(r)' = Floor(r)
  <2>1. LogOf(r)' = LogOf(r)
    BY <1>1, <1>3, <1>4, <1>5, <1>8
  <2> QED
    BY <1>8, <2>1 DEF Log!Keep, Floor
<1> QED
  BY <1>1, <1>2, <1>6, <1>7, <1>8

LEMMA RefinesInit ==
  ASSUME Init
  PROVE  Log!LogInit
<1>1. PICK o \in Users, ps \in SUBSET Users, v0 \in {0, 1} :
        room = [r \in Rooms |-> IF r \in InitialRooms THEN FreshDoc(o, ps, v0) ELSE NoDoc(o)]
  BY DEF Init
<1>2. events = {}
  BY DEF Init
<1>3. \A r \in Rooms : room[r].latest = 0 /\ room[r].minRetained = 0
  BY <1>1 DEF FreshDoc, NoDoc
<1>4. \A r \in Rooms : LogOf(r) = [s \in 1..0 |-> s]
  BY <1>2 DEF LogOf
<1> QED
  BY <1>3, <1>4 DEF Log!LogInit

(* Whatever transactions overlap, abort or are retried, what the clients    *)
(* replay is the log RoomLog promises: appended at its end, dropped from    *)
(* below, and never rewritten.                                              *)
THEOREM ServerImplementsLog == Spec => ImplementsRoomLog
<1>1. Init => Log!LogInit
  BY RefinesInit
<1>2. IInv /\ KeyInv /\ LogIsRange /\ LogIsRange' /\ [Next]_vars => [Log!LogNext]_(Log!logVars)
  BY RefinesRoom DEF Log!LogNext
<1>3. Spec => []LogIsRange
  BY RangeLemma, InvariantHolds, PTL
<1> QED
  BY <1>1, <1>2, <1>3, InvariantHolds, KeyInvariantHolds, PTL
     DEF Spec, ImplementsRoomLog, Log!LogSpec

=============================================================================
