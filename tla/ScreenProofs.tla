---------------------------- MODULE ScreenProofs ----------------------------
(***************************************************************************)
(* What the user sees: why the list of the open room shows what it should  *)
(* (ChatView), and why the screens of a call come to agree with the server *)
(* and with each other (CallScreen), for any rooms, pages, users, calls    *)
(* and faults.  Each of the two components has an inductive invariant of   *)
(* its own, from which its properties follow.                              *)
(***************************************************************************)
EXTENDS ChatView, CallScreen, SequenceTheorems, TLAPS

-----------------------------------------------------------------------------
(* The open room.  A page knows the events of its room up to the number it *)
(* was served at, and none of them later than the server did.  While the   *)
(* list was not overtaken it is a page of the open room with all events    *)
(* since, and what a page or an event says of a message is never older     *)
(* than what is there.                                                     *)

MessageType == [room : Rooms, key : Keys \cup {Nobody}, edited : BOOLEAN, deleted : BOOLEAN]
EventType == [type : {"created", "edited", "deleted"}, m : Nat]
EntryType == [m : Nat, text : {"first", "edited", "blank"}, deleted : BOOLEAN]
PageType ==
  [kind : {"none", "fetch", "more"}, room : Rooms \cup {NoRoom}, live : BOOLEAN,
   phase : {"idle", "asked", "served"}, base : Seq(EntryType), items : Seq(EntryType),
   full : BOOLEAN, at : Nat]

Typed ==
  /\ stored \in Seq(MessageType) /\ Len(stored) <= MaxMessages
  /\ log \in [Rooms -> Seq(EventType)] /\ cursor \in [Rooms -> Nat]
  /\ list \in Seq(EntryType) /\ current \in Rooms \cup {NoRoom}
  /\ pages \in [Slots -> PageType]
  /\ rows \in [Keys -> {"none", "open", "acked", "rejected"}] /\ overlay \subseteq Keys
  /\ \A d \in deletions : d \in [key : Keys, m : Nat, sent : BOOLEAN]
  /\ overtaken \in BOOLEAN /\ unordered \in BOOLEAN

-----------------------------------------------------------------------------
(* The server. *)

(* The event is among the first n of a room. *)
Occurs(r, n, type, m) == \E i \in 1..n : log[r][i] = [type |-> type, m |-> m]

(* Events are of messages of their room, created once and before anything  *)
(* else happens to them; what an event says has happened.                  *)
EventSound(r, i) ==
  LET e == log[r][i] IN
  /\ e.m \in Messages /\ stored[e.m].room = r
  /\ e.type = "edited" => stored[e.m].edited
  /\ e.type = "deleted" => stored[e.m].deleted
  /\ e.type # "created" => Occurs(r, i - 1, "created", e.m)
  /\ e.type = "created" => \A j \in 1..Len(log[r]) : log[r][j] = e => i = j

LogSound ==
  /\ \A r \in Rooms : cursor[r] <= Len(log[r])
  /\ \A r \in Rooms : \A i \in 1..Len(log[r]) : EventSound(r, i)
  /\ \A m \in Messages : Occurs(stored[m].room, Len(log[stored[m].room]), "created", m)

(* A message of this client is stored once, and was sent. *)
KeysSound ==
  /\ \A m \in Messages : stored[m].key # Nobody =>
       /\ rows[stored[m].key] # "none" /\ RoomOf[stored[m].key] = stored[m].room
  /\ \A m, n \in Messages : stored[m].key = stored[n].key /\ stored[m].key # Nobody => m = n

-----------------------------------------------------------------------------
(* The pages. *)

Under(s, m) == pages[s].kind = "more" => m < pages[s].base[1].m

(* A page holds messages of its room in their order, and below its base.   *)
ItemsInOrder(s) ==
  LET p == pages[s] IN
  /\ \A i \in DOMAIN p.items :
       p.items[i].m \in Messages /\ stored[p.items[i].m].room = p.room /\ Under(s, p.items[i].m)
  /\ \A i, j \in DOMAIN p.items : i < j => p.items[i].m < p.items[j].m

(* It has all there was from its first message on, ... *)
ItemsComplete(s) ==
  LET p == pages[s] IN
  \A m \in Messages :
    /\ stored[m].room = p.room /\ ~stored[m].deleted /\ Occurs(p.room, p.at, "created", m)
    /\ Under(s, m) /\ (p.items = <<>> \/ m >= p.items[1].m)
    => \E i \in DOMAIN p.items : p.items[i].m = m

(* ... and says of it what the events before it say. *)
ItemsFresh(s) ==
  LET p == pages[s] IN
  \A i \in DOMAIN p.items :
    /\ Occurs(p.room, p.at, "edited", p.items[i].m) => p.items[i].text # "first"
    /\ ~Occurs(p.room, p.at, "deleted", p.items[i].m)

BaseSound(s) ==
  pages[s].kind = "more" =>
    /\ pages[s].base # <<>> /\ \A i \in DOMAIN pages[s].base : pages[s].base[i].m \in Messages

PageSound(s) ==
  /\ pages[s].phase # "idle" => pages[s].room \in Rooms
  /\ BaseSound(s)
  /\ pages[s].phase = "served" =>
       /\ pages[s].at <= Len(log[pages[s].room])
       /\ ItemsInOrder(s) /\ ItemsComplete(s) /\ ItemsFresh(s)

PagesSound == \A s \in Slots : PageSound(s)

-----------------------------------------------------------------------------
(* The list. *)

ListKnown == \A i \in DOMAIN list : list[i].m \in Messages

Distinct(l) == \A i, j \in DOMAIN l : l[i].m = l[j].m => i = j

(* A list to page back from: no message twice, and none of the room below  *)
(* the first.                                                              *)
BaseOrdered(s) ==
  pages[s].kind = "more" =>
    /\ Distinct(pages[s].base)
    /\ \A i \in DOMAIN pages[s].base :
         stored[pages[s].base[i].m].room = pages[s].room =>
           pages[s].base[i].m >= pages[s].base[1].m

(* Unless a page was asked for below a first that was not the oldest.      *)
OnceEach == unordered \/ (Distinct(list) /\ \A s \in Slots : BaseOrdered(s))

(* What the list must have, and what it must say. *)
Complete ==
  \A m \in Messages :
    /\ stored[m].room = current /\ Projected(m) /\ ~stored[m].deleted
    /\ list = <<>> \/ m >= list[1].m
    => \E i \in DOMAIN list : list[i].m = m

Fresh ==
  \A m \in Messages : \A i \in DOMAIN list : list[i].m = m /\ stored[m].room = current =>
    /\ Applied("edited", m) => list[i].deleted \/ list[i].text # "first"
    /\ Applied("deleted", m) => list[i].deleted

UpToDate == overtaken \/ unordered \/ (Complete /\ Fresh)

-----------------------------------------------------------------------------
(* The mutations of the user. *)

DeletionsSound == \A d \in deletions :
  /\ d.m = 0 => d.key \in hasty
  /\ d.m # 0 => d.m \in Messages /\ stored[d.m].key = d.key
  /\ d.key \in overlay => d.key \in hasty \cup replayed

OverlaySound ==
  /\ \A k \in Keys : rows[k] = "none" => k \notin overlay
  /\ \A m \in Messages : stored[m].key \in overlay /\ Applied("created", m) =>
       stored[m].key \in replayed

VInv ==
  /\ Typed /\ LogSound /\ KeysSound /\ PagesSound
  /\ ListKnown /\ OnceEach /\ UpToDate /\ DeletionsSound /\ OverlaySound

-----------------------------------------------------------------------------
(* What the server does: messages stay what they are, and are at most      *)
(* edited or deleted; the events of a room are added to.                   *)

StoredKeeps ==
  /\ Len(stored) <= Len(stored')
  /\ \A m \in 1..Len(stored) :
       /\ stored'[m].room = stored[m].room /\ stored'[m].key = stored[m].key
       /\ stored[m].edited => stored'[m].edited
       /\ stored[m].deleted => stored'[m].deleted

LogKeeps == \A r \in Rooms :
  /\ Len(log[r]) <= Len(log'[r])
  /\ \A i \in 1..Len(log[r]) : log'[r][i] = log[r][i]

ServerKeeps == StoredKeeps /\ LogKeeps

(* One event more. *)
LEMMA Logged ==
  ASSUME Typed, NEW r \in Rooms, NEW t \in {"created", "edited", "deleted"}, NEW m \in Nat, Log(r, t, m)
  PROVE  /\ log' \in [Rooms -> Seq(EventType)]
         /\ \A q \in Rooms : q # r => log'[q] = log[q]
         /\ Len(log'[r]) = Len(log[r]) + 1
         /\ \A i \in 1..Len(log[r]) : log'[r][i] = log[r][i]
         /\ log'[r][Len(log[r]) + 1] = [type |-> t, m |-> m]
         /\ LogKeeps
<1> DEFINE e == [type |-> t, m |-> m]
<1>1. e \in EventType
  BY DEF EventType
<1>2. log \in [Rooms -> Seq(EventType)]
  BY DEF Typed
<1>3. log[r] \in Seq(EventType)
  BY <1>2
<1>4. log' = [log EXCEPT ![r] = Append(log[r], e)]
  BY DEF Log
<1>5. /\ Append(log[r], e) \in Seq(EventType) /\ Len(Append(log[r], e)) = Len(log[r]) + 1
      /\ \A i \in 1..Len(log[r]) : Append(log[r], e)[i] = log[r][i]
      /\ Append(log[r], e)[Len(log[r]) + 1] = e
  <2> HIDE DEF e
  <2> QED BY <1>1, <1>3
<1>6. /\ log'[r] = Append(log[r], e) /\ \A q \in Rooms : q # r => log'[q] = log[q]
  BY <1>2, <1>4
<1>7. log' \in [Rooms -> Seq(EventType)]
  BY <1>2, <1>4, <1>5
<1>8. LogKeeps
  <2> SUFFICES ASSUME NEW q \in Rooms
               PROVE  Len(log[q]) <= Len(log'[q]) /\ \A i \in 1..Len(log[q]) : log'[q][i] = log[q][i]
    BY DEF LogKeeps
  <2>1. Len(log[q]) \in Nat
    BY <1>2
  <2>2. CASE q = r
    BY <2>1, <2>2, <1>5, <1>6
  <2>3. CASE q # r
    BY <2>1, <2>3, <1>6
  <2> QED BY <2>2, <2>3
<1> QED BY <1>5, <1>6, <1>7, <1>8

(* What was there of an event is there afterwards, and nothing new of the  *)
(* first events of a room.                                                 *)
LEMMA SameEvents ==
  ASSUME LogKeeps, Typed, NEW r \in Rooms, NEW n \in Nat, n <= Len(log[r]),
         NEW t, NEW m
  PROVE  (\E i \in 1..n : log'[r][i] = [type |-> t, m |-> m])
           <=> (\E i \in 1..n : log[r][i] = [type |-> t, m |-> m])
<1>1. Len(log[r]) \in Nat
  BY DEF Typed
<1>2. \A i \in 1..n : log'[r][i] = log[r][i]
  BY <1>1 DEF LogKeeps
<1> QED BY <1>2

LEMMA EventStep ==
  ASSUME Typed, stored' \in Seq(MessageType), LogSound, StoredKeeps, UNCHANGED cursor,
         NEW r \in Rooms, NEW t \in {"created", "edited", "deleted"}, NEW m \in DOMAIN stored',
         Log(r, t, m), stored'[m].room = r,
         IF t = "created" THEN m \notin Messages /\ DOMAIN stored' = Messages \cup {m}
         ELSE m \in Messages /\ DOMAIN stored' = Messages,
         t = "edited" => stored'[m].edited,
         t = "deleted" => stored'[m].deleted
  PROVE  ServerKeeps /\ LogSound' /\ log' \in [Rooms -> Seq(EventType)]
<1> DEFINE e == [type |-> t, m |-> m]
<1> USE DEF Messages
<1>1. m \in Nat /\ stored \in Seq(MessageType) /\ stored' \in Seq(MessageType)
  BY DEF Typed
<1>2. /\ \A q \in Rooms : q # r => log'[q] = log[q]
      /\ Len(log'[r]) = Len(log[r]) + 1
      /\ \A i \in 1..Len(log[r]) : log'[r][i] = log[r][i]
      /\ log'[r][Len(log[r]) + 1] = e
      /\ LogKeeps /\ log' \in [Rooms -> Seq(EventType)]
  BY <1>1, Logged
<1>3. ASSUME NEW q \in Rooms
      PROVE  Len(log[q]) \in Nat /\ Len(log'[q]) \in Nat /\ cursor[q] \in Nat /\ Len(log[q]) <= Len(log'[q])
  BY <1>2 DEF Typed, LogKeeps
<1>4. ASSUME NEW q \in Rooms, NEW i \in 1..Len(log[q])
      PROVE  log'[q][i] = log[q][i] /\ i \in 1..Len(log'[q]) /\ i \in Nat
  BY <1>2, <1>3 DEF LogKeeps
<1>5. ASSUME NEW n \in Messages
      PROVE  /\ n \in DOMAIN stored' /\ stored'[n].room = stored[n].room /\ stored[n].room \in Rooms
             /\ stored[n].edited => stored'[n].edited
             /\ stored[n].deleted => stored'[n].deleted
  <2>1. n \in 1..Len(stored) /\ n \in 1..Len(stored') /\ stored[n] \in MessageType
    BY <1>1 DEF StoredKeeps
  <2>2. stored[n].room \in Rooms
    BY <2>1 DEF MessageType
  <2> QED BY <1>1, <2>1, <2>2 DEF StoredKeeps
<1>6. \A q \in Rooms : cursor'[q] <= Len(log'[q])
  <2> TAKE q \in Rooms
  <2>1. cursor[q] <= Len(log[q]) /\ cursor'[q] = cursor[q]
    BY DEF LogSound
  <2> QED BY <1>3, <2>1
<1>7. ASSUME NEW q \in Rooms, NEW i \in 1..Len(log[q])
      PROVE  EventSound(q, i)
  BY DEF LogSound
(* The new event is not one of those before, when it creates its message. *)
<1>8. ASSUME t = "created", NEW q \in Rooms, NEW i \in 1..Len(log[q])
      PROVE  log[q][i] # e
  BY <1>7, <1>8 DEF EventSound
<1>9. ASSUME NEW q \in Rooms, NEW i \in 1..Len(log[q])
      PROVE  EventSound(q, i)'
  <2> DEFINE f == log[q][i]
  <2>1. log'[q][i] = f /\ i \in Nat /\ i - 1 \in Nat /\ i - 1 <= Len(log[q])
    BY <1>3, <1>4
  <2>2. /\ f.m \in Messages /\ stored[f.m].room = q
        /\ f.type = "edited" => stored[f.m].edited
        /\ f.type = "deleted" => stored[f.m].deleted
        /\ f.type # "created" => \E j \in 1..(i - 1) : log[q][j] = [type |-> "created", m |-> f.m]
        /\ f.type = "created" => \A j \in 1..Len(log[q]) : log[q][j] = f => i = j
    BY <1>7 DEF EventSound, Occurs
  <2>3. /\ f.m \in DOMAIN stored' /\ stored'[f.m].room = q
        /\ f.type = "edited" => stored'[f.m].edited
        /\ f.type = "deleted" => stored'[f.m].deleted
    BY <2>2, <1>5
  <2>4. f.type # "created" => \E j \in 1..(i - 1) : log'[q][j] = [type |-> "created", m |-> f.m]
    <3> SUFFICES ASSUME f.type # "created"
                 PROVE  \E j \in 1..(i - 1) : log'[q][j] = [type |-> "created", m |-> f.m]
      OBVIOUS
    <3>1. PICK j \in 1..(i - 1) : log[q][j] = [type |-> "created", m |-> f.m]
      BY <2>2
    <3>2. j \in 1..Len(log[q])
      BY <2>1, <1>3
    <3> QED BY <3>1, <3>2, <1>4
  <2>5. f.type = "created" => \A j \in 1..Len(log'[q]) : log'[q][j] = f => i = j
    <3> SUFFICES ASSUME f.type = "created", NEW j \in 1..Len(log'[q]), log'[q][j] = f
                 PROVE  i = j
      OBVIOUS
    <3>1. CASE j \in 1..Len(log[q])
      BY <3>1, <2>2, <1>4
    <3>2. CASE j \notin 1..Len(log[q])
      <4>1. q = r /\ j = Len(log[r]) + 1
        BY <3>2, <1>2, <1>3
      <4>2. f = e
        BY <4>1, <1>2
      <4>3. t = "created"
        BY <4>2
      <4> QED BY <4>2, <4>3, <1>8
    <3> QED BY <3>1, <3>2
  <2> HIDE DEF f
  <2> QED BY <2>1, <2>3, <2>4, <2>5 DEF EventSound, Occurs
<1>10. \A k \in {Len(log[r]) + 1} : EventSound(r, k)'
  <2> DEFINE n == Len(log[r]) + 1
  <2>1. log'[r][n] = e /\ e.m = m /\ e.type = t /\ n - 1 = Len(log[r])
    BY <1>2, <1>3
  <2>2. t # "created" => \E j \in 1..Len(log[r]) : log'[r][j] = [type |-> "created", m |-> m]
    <3> SUFFICES ASSUME t # "created"
                 PROVE  \E j \in 1..Len(log[r]) : log'[r][j] = [type |-> "created", m |-> m]
      OBVIOUS
    <3>1. m \in Messages /\ stored[m].room = r
      BY <1>5
    <3>2. PICK j \in 1..Len(log[r]) : log[r][j] = [type |-> "created", m |-> m]
      BY <3>1 DEF LogSound, Occurs
    <3> QED BY <3>2, <1>4
  <2>3. t = "created" => \A j \in 1..Len(log'[r]) : log'[r][j] = e => j = n
    <3> SUFFICES ASSUME t = "created", NEW j \in 1..Len(log'[r]), log'[r][j] = e, j # n
                 PROVE  FALSE
      OBVIOUS
    <3>1. j \in 1..Len(log[r])
      BY <1>2, <1>3
    <3> QED BY <3>1, <1>4, <1>8
  <2> TAKE k \in {n}
  <2>4. log'[r][k] = e /\ k - 1 = Len(log[r]) /\ k = n
    BY <2>1
  <2> HIDE DEF e, n
  <2> QED BY <2>1, <2>2, <2>3, <2>4 DEF EventSound, Occurs
<1>11. \A q \in Rooms : \A i \in 1..Len(log'[q]) : EventSound(q, i)'
  <2> TAKE q \in Rooms
  <2> TAKE i \in 1..Len(log'[q])
  <2>1. CASE i \in 1..Len(log[q])
    BY <2>1, <1>9
  <2>2. CASE i \notin 1..Len(log[q])
    <3>1. q = r /\ i \in {Len(log[r]) + 1}
      BY <2>2, <1>2, <1>3
    <3> QED BY <3>1, <1>10
  <2> QED BY <2>1, <2>2
<1>12. \A n \in DOMAIN stored' : \E i \in 1..Len(log'[stored'[n].room]) :
         log'[stored'[n].room][i] = [type |-> "created", m |-> n]
  <2> TAKE n \in DOMAIN stored'
  <2>1. CASE n \in Messages
    <3>1. PICK i \in 1..Len(log[stored[n].room]) : log[stored[n].room][i] = [type |-> "created", m |-> n]
      BY <2>1 DEF LogSound, Occurs
    <3>2. stored[n].room \in Rooms /\ stored'[n].room = stored[n].room
      BY <2>1, <1>5
    <3>3. i \in 1..Len(log'[stored[n].room]) /\ log'[stored[n].room][i] = log[stored[n].room][i]
      BY <3>1, <3>2, <1>3, <1>4
    <3> QED BY <3>1, <3>2, <3>3
  <2>2. CASE n \notin Messages
    <3>1. n = m /\ t = "created"
      BY <2>2
    <3>2. Len(log[r]) + 1 \in 1..Len(log'[r])
      BY <1>2, <1>3
    <3> QED BY <3>1, <3>2, <1>2
  <2> QED BY <2>1, <2>2
<1> HIDE DEF e
<1>13. LogSound'
  BY <1>6, <1>11, <1>12 DEF LogSound, Occurs
<1> QED BY <1>2, <1>13 DEF ServerKeeps

LEMMA StoreStep ==
  ASSUME Typed, LogSound, UNCHANGED cursor,
         NEW r \in Rooms, NEW k \in Keys \cup {Nobody}, Store(r, k)
  PROVE  /\ ServerKeeps /\ LogSound' /\ log' \in [Rooms -> Seq(EventType)]
         /\ stored' \in Seq(MessageType) /\ Len(stored') <= MaxMessages
         /\ DOMAIN stored' = Messages \cup {Len(stored) + 1} /\ Len(stored) + 1 \notin Messages
         /\ stored'[Len(stored) + 1].room = r /\ stored'[Len(stored) + 1].key = k
<1> DEFINE new == [room |-> r, key |-> k, edited |-> FALSE, deleted |-> FALSE]
<1> DEFINE n == Len(stored) + 1
<1>1. new \in MessageType /\ new.room = r /\ new.key = k
  BY DEF MessageType
<1>2. stored \in Seq(MessageType) /\ stored' = Append(stored, new) /\ Len(stored) < MaxMessages
      /\ Log(r, "created", n)
  BY DEF Store, Typed
<1>3. MaxMessages \in Nat
  BY BoundsAssumption
<1> HIDE DEF new
<1>4. /\ stored' \in Seq(MessageType) /\ Len(stored') = n /\ n \in Nat
      /\ Len(stored) \in Nat /\ Messages = 1..Len(stored) /\ DOMAIN stored' = 1..n
      /\ \A m \in 1..Len(stored) : stored'[m] = stored[m]
      /\ stored'[n] = new
  BY <1>1, <1>2 DEF Messages
<1>5. StoredKeeps
  BY <1>4 DEF StoredKeeps
<1>6. n \notin Messages /\ DOMAIN stored' = Messages \cup {n} /\ n \in DOMAIN stored'
  BY <1>4
<1>7. stored'[n].room = r /\ stored'[n].key = k
  BY <1>1, <1>4
<1> HIDE DEF n
<1>8. ServerKeeps /\ LogSound' /\ log' \in [Rooms -> Seq(EventType)]
  BY <1>2, <1>4, <1>5, <1>6, <1>7, EventStep
<1>9. Len(stored') <= MaxMessages
  BY <1>2, <1>3, <1>4 DEF n
<1> QED BY <1>4, <1>6, <1>7, <1>8, <1>9 DEF n

(* An edit, or a deletion. *)
LEMMA FlagStep ==
  ASSUME Typed, LogSound, UNCHANGED cursor, NEW m \in Messages, Rewrite(m) \/ Delete(m)
  PROVE  /\ ServerKeeps /\ LogSound' /\ log' \in [Rooms -> Seq(EventType)]
         /\ stored' \in Seq(MessageType) /\ Len(stored') <= MaxMessages
         /\ DOMAIN stored' = Messages
<1>1. stored \in Seq(MessageType) /\ Messages = 1..Len(stored) /\ stored[m] \in MessageType
  BY DEF Typed, Messages
<1>2. /\ [stored[m] EXCEPT !.edited = TRUE] \in MessageType
      /\ [stored[m] EXCEPT !.deleted = TRUE] \in MessageType
  BY <1>1 DEF MessageType
<1>3. stored[m].room \in Rooms
  BY <1>1 DEF MessageType
<1>4. /\ [stored[m] EXCEPT !.edited = TRUE].room = stored[m].room
      /\ [stored[m] EXCEPT !.edited = TRUE].key = stored[m].key
      /\ [stored[m] EXCEPT !.edited = TRUE].edited = TRUE
      /\ [stored[m] EXCEPT !.edited = TRUE].deleted = stored[m].deleted
      /\ [stored[m] EXCEPT !.deleted = TRUE].room = stored[m].room
      /\ [stored[m] EXCEPT !.deleted = TRUE].key = stored[m].key
      /\ [stored[m] EXCEPT !.deleted = TRUE].edited = stored[m].edited
      /\ [stored[m] EXCEPT !.deleted = TRUE].deleted = TRUE
  BY <1>1 DEF MessageType
<1>5. PICK t \in {"edited", "deleted"} :
        /\ stored' = [stored EXCEPT ![m] = IF t = "edited" THEN [stored[m] EXCEPT !.edited = TRUE]
                                           ELSE [stored[m] EXCEPT !.deleted = TRUE]]
        /\ Log(stored[m].room, t, m)
  <2>1. CASE Rewrite(m)
    BY <2>1 DEF Rewrite
  <2>2. CASE Delete(m)
    BY <2>2 DEF Delete
  <2> QED BY <2>1, <2>2
<1> DEFINE new == IF t = "edited" THEN [stored[m] EXCEPT !.edited = TRUE]
                  ELSE [stored[m] EXCEPT !.deleted = TRUE]
<1>6. /\ new \in MessageType /\ new.room = stored[m].room /\ new.key = stored[m].key
      /\ stored[m].edited => new.edited
      /\ stored[m].deleted => new.deleted
      /\ t = "edited" => new.edited
      /\ t = "deleted" => new.deleted
  BY <1>2, <1>4
<1>7. stored' = [stored EXCEPT ![m] = new]
  BY <1>5
<1> HIDE DEF new
<1>8. /\ stored' \in Seq(MessageType) /\ Len(stored') = Len(stored) /\ DOMAIN stored' = Messages
      /\ stored'[m] = new
      /\ \A n \in Messages : n # m => stored'[n] = stored[n]
  BY <1>1, <1>6, <1>7
<1>9. StoredKeeps
  <2>1. ASSUME NEW n \in Messages
        PROVE  /\ stored'[n].room = stored[n].room /\ stored'[n].key = stored[n].key
               /\ stored[n].edited => stored'[n].edited
               /\ stored[n].deleted => stored'[n].deleted
    <3>1. CASE n = m
      BY <3>1, <1>6, <1>8
    <3>2. CASE n # m
      BY <3>2, <1>8
    <3> QED BY <3>1, <3>2
  <2> QED BY <2>1, <1>1, <1>8 DEF StoredKeeps
<1>10. /\ m \in DOMAIN stored' /\ stored'[m].room = stored[m].room
       /\ t = "edited" => stored'[m].edited
       /\ t = "deleted" => stored'[m].deleted
  BY <1>6, <1>8
<1>11. ServerKeeps /\ LogSound' /\ log' \in [Rooms -> Seq(EventType)]
  <2>1. t # "created" /\ t \in {"created", "edited", "deleted"}
    OBVIOUS
  <2> QED BY <2>1, <1>3, <1>5, <1>8, <1>9, <1>10, EventStep
<1>12. Len(stored') <= MaxMessages
  BY <1>8 DEF Typed
<1> QED BY <1>8, <1>11, <1>12

(* What has been applied stays so, and of a new message nothing is. *)
LEMMA SameApplied ==
  ASSUME Typed, LogSound, ServerKeeps, stored' \in Seq(MessageType), UNCHANGED cursor,
         NEW t, NEW m \in DOMAIN stored'
  PROVE  Applied(t, m)' <=> m \in Messages /\ Applied(t, m)
<1>1. stored'[m] \in MessageType
  OBVIOUS
<1>2. PICK r \in Rooms : r = stored'[m].room
  BY <1>1 DEF MessageType
<1>3. PICK n \in Nat : n = cursor[r]
  BY DEF Typed
<1>4. n <= Len(log[r]) /\ Len(log[r]) \in Nat
  BY <1>3 DEF Typed, LogSound
<1>5. (\E i \in 1..n : log'[r][i] = [type |-> t, m |-> m])
        <=> (\E i \in 1..n : log[r][i] = [type |-> t, m |-> m])
  BY <1>4, SameEvents DEF ServerKeeps
<1>6. Applied(t, m)' <=> \E i \in 1..n : log'[r][i] = [type |-> t, m |-> m]
  BY <1>2, <1>3 DEF Applied
<1>7. CASE m \in Messages
  <2>1. m \in 1..Len(stored)
    BY <1>7 DEF Messages, Typed
  <2>2. stored[m].room = r
    BY <2>1, <1>2 DEF ServerKeeps, StoredKeeps
  <2> QED BY <2>2, <1>3, <1>5, <1>6, <1>7 DEF Applied
<1>8. CASE m \notin Messages
  <2>1. ~\E i \in 1..n : log[r][i] = [type |-> t, m |-> m]
    <3> SUFFICES ASSUME NEW i \in 1..n, log[r][i] = [type |-> t, m |-> m]
                 PROVE  FALSE
      OBVIOUS
    <3>1. EventSound(r, i) /\ log[r][i].m = m
      BY <1>4 DEF LogSound
    <3> QED BY <3>1, <1>8 DEF EventSound
  <2> QED BY <2>1, <1>5, <1>6, <1>8
<1> QED BY <1>7, <1>8

(* What a page says stays true of a server that goes on. *)
SamePage(s) ==
  /\ pages'[s].kind = pages[s].kind /\ pages'[s].room = pages[s].room
  /\ pages'[s].phase = pages[s].phase /\ pages'[s].base = pages[s].base
  /\ pages'[s].items = pages[s].items /\ pages'[s].at = pages[s].at

LEMMA SameMessages ==
  ASSUME Typed, ServerKeeps, stored' \in Seq(MessageType)
  PROVE  \A m \in Messages :
           /\ m \in DOMAIN stored' /\ m \in Nat
           /\ stored'[m].room = stored[m].room /\ stored'[m].key = stored[m].key
           /\ stored[m].edited => stored'[m].edited
           /\ stored[m].deleted => stored'[m].deleted
BY DEF Typed, ServerKeeps, StoredKeeps, Messages

LEMMA PageKept ==
  ASSUME Typed, LogSound, ServerKeeps, stored' \in Seq(MessageType),
         NEW s \in Slots, SamePage(s), PageSound(s)
  PROVE  PageSound(s)'
<1>1. /\ pages[s].kind \in {"none", "fetch", "more"} /\ pages[s].base \in Seq(EntryType)
      /\ pages[s].items \in Seq(EntryType) /\ pages[s].at \in Nat
  BY DEF Typed, PageType
<1>2. pages'[s].phase # "idle" => pages'[s].room \in Rooms
  BY DEF PageSound, SamePage
<1>3. BaseSound(s)'
  BY SameMessages DEF PageSound, BaseSound, SamePage, Messages
<1>4. ASSUME pages[s].phase = "served"
      PROVE  pages'[s].at <= Len(log'[pages'[s].room]) /\ ItemsInOrder(s)' /\ ItemsComplete(s)'
             /\ ItemsFresh(s)'
  <2>1. PICK r \in Rooms : r = pages[s].room
    BY <1>4 DEF PageSound
  <2>2. PICK n \in Nat : n = pages[s].at
    BY <1>1
  <2>3. n <= Len(log[r]) /\ Len(log[r]) \in Nat /\ ItemsInOrder(s) /\ ItemsComplete(s) /\ ItemsFresh(s)
    BY <1>4, <2>1, <2>2 DEF PageSound, Typed
  <2>4. n <= Len(log'[r])
    BY <2>3 DEF ServerKeeps, LogKeeps
  <2>5. ASSUME NEW t, NEW m
        PROVE  (\E i \in 1..n : log'[r][i] = [type |-> t, m |-> m])
                 <=> (\E i \in 1..n : log[r][i] = [type |-> t, m |-> m])
    BY <2>3, SameEvents DEF ServerKeeps
  <2>6. ItemsInOrder(s)'
    <3>1. \A i \in DOMAIN pages[s].items :
            /\ pages[s].items[i].m \in Messages /\ stored[pages[s].items[i].m].room = r
            /\ pages[s].kind = "more" => pages[s].items[i].m < pages[s].base[1].m
      BY <2>1, <2>3 DEF ItemsInOrder, Under
    <3>2. \A i \in DOMAIN pages[s].items :
            pages[s].items[i].m \in DOMAIN stored' /\ stored'[pages[s].items[i].m].room = r
      BY <3>1, SameMessages
    <3>3. \A i, j \in DOMAIN pages[s].items : i < j => pages[s].items[i].m < pages[s].items[j].m
      BY <2>3 DEF ItemsInOrder
    <3> QED BY <2>1, <3>1, <3>2, <3>3 DEF ItemsInOrder, Under, SamePage, Messages
  <2>7. ItemsComplete(s)'
    <3> SUFFICES ASSUME NEW m \in DOMAIN stored', stored'[m].room = r, ~stored'[m].deleted,
                        \E i \in 1..n : log'[r][i] = [type |-> "created", m |-> m],
                        pages[s].kind = "more" => m < pages[s].base[1].m,
                        pages[s].items = <<>> \/ m >= pages[s].items[1].m
                 PROVE  \E i \in DOMAIN pages[s].items : pages[s].items[i].m = m
      BY <2>1, <2>2 DEF ItemsComplete, Under, Occurs, SamePage, Messages
    <3>1. PICK i \in 1..n : log[r][i] = [type |-> "created", m |-> m]
      BY <2>5
    <3>2. EventSound(r, i) /\ log[r][i].m = m
      BY <2>3, <3>1 DEF LogSound
    <3>3. m \in Messages
      BY <3>2 DEF EventSound
    <3>4. stored[m].room = r /\ ~stored[m].deleted
      BY <3>3, SameMessages
    <3> QED BY <2>1, <2>2, <2>3, <3>1, <3>3, <3>4 DEF ItemsComplete, Under, Occurs
  <2>8. ItemsFresh(s)'
    <3>1. ASSUME NEW i \in DOMAIN pages[s].items, NEW m, m = pages[s].items[i].m
          PROVE  /\ (\E j \in 1..n : log'[r][j] = [type |-> "edited", m |-> m])
                      => pages[s].items[i].text # "first"
                 /\ ~\E j \in 1..n : log'[r][j] = [type |-> "deleted", m |-> m]
      <4>1. /\ (\E j \in 1..n : log[r][j] = [type |-> "edited", m |-> m])
                 => pages[s].items[i].text # "first"
            /\ ~\E j \in 1..n : log[r][j] = [type |-> "deleted", m |-> m]
        BY <2>1, <2>2, <2>3, <3>1 DEF ItemsFresh, Occurs
      <4> QED BY <4>1, <2>5
    <3> QED BY <2>1, <2>2, <3>1 DEF ItemsFresh, Occurs, SamePage
  <2> QED BY <2>1, <2>2, <2>3, <2>4, <2>6, <2>7, <2>8 DEF SamePage
<1> QED BY <1>2, <1>3, <1>4 DEF PageSound, SamePage

LEMMA BaseKept ==
  ASSUME Typed, ServerKeeps, stored' \in Seq(MessageType),
         NEW s \in Slots, SamePage(s), BaseSound(s), BaseOrdered(s)
  PROVE  BaseOrdered(s)'
<1> SUFFICES ASSUME pages[s].kind = "more"
             PROVE  BaseOrdered(s)'
  BY DEF BaseOrdered, SamePage
<1>1. /\ \A i, j \in DOMAIN pages[s].base : pages[s].base[i].m = pages[s].base[j].m => i = j
      /\ \A i \in DOMAIN pages[s].base : stored[pages[s].base[i].m].room = pages[s].room =>
           pages[s].base[i].m >= pages[s].base[1].m
  BY DEF BaseOrdered, Distinct
<1>2. \A i \in DOMAIN pages[s].base : pages[s].base[i].m \in Messages
  BY DEF BaseSound
<1>3. \A i \in DOMAIN pages[s].base : stored'[pages[s].base[i].m].room = stored[pages[s].base[i].m].room
  BY <1>2, SameMessages
<1> QED BY <1>1, <1>3 DEF BaseOrdered, Distinct, SamePage

(* So does what the list shows, and what the user has done to it. *)
LEMMA ListKept ==
  ASSUME Typed, LogSound, ServerKeeps, stored' \in Seq(MessageType),
         ListKnown, UpToDate, UNCHANGED <<cursor, list, current, overtaken, unordered>>
  PROVE  ListKnown' /\ UpToDate'
<1>1. ListKnown'
  BY SameMessages DEF ListKnown, Messages
<1>2. ASSUME ~overtaken, ~unordered
      PROVE  Complete' /\ Fresh'
  <2>1. Complete /\ Fresh
    BY <1>2 DEF UpToDate
  <2>2. Complete'
    <3> SUFFICES ASSUME NEW m \in DOMAIN stored', stored'[m].room = current, Projected(m)',
                        ~stored'[m].deleted, list = <<>> \/ m >= list[1].m
                 PROVE  \E i \in DOMAIN list : list[i].m = m
      BY DEF Complete, Messages
    <3>1. m \in Messages /\ Applied("created", m) /\ ~Applied("deleted", m)
      BY SameApplied DEF Projected
    <3>2. stored[m].room = current /\ ~stored[m].deleted
      BY <3>1, SameMessages
    <3> QED BY <2>1, <3>1, <3>2 DEF Complete, Projected
  <2>3. Fresh'
    <3> SUFFICES ASSUME NEW m \in DOMAIN stored', NEW i \in DOMAIN list, list[i].m = m,
                        stored'[m].room = current
                 PROVE  /\ Applied("edited", m)' => list[i].deleted \/ list[i].text # "first"
                        /\ Applied("deleted", m)' => list[i].deleted
      BY DEF Fresh, Messages
    <3>1. m \in Messages
      BY DEF ListKnown
    <3>2. stored[m].room = current
      BY <3>1, SameMessages
    <3>3. /\ Applied("edited", m)' => Applied("edited", m)
          /\ Applied("deleted", m)' => Applied("deleted", m)
      BY SameApplied
    <3> QED BY <2>1, <3>1, <3>2, <3>3 DEF Fresh
  <2> QED BY <2>2, <2>3
<1> QED BY <1>1, <1>2 DEF UpToDate

LEMMA OutboxKept ==
  ASSUME Typed, LogSound, ServerKeeps, stored' \in Seq(MessageType),
         DeletionsSound, OverlaySound, UNCHANGED <<cursor, rows, overlay, hasty, replayed>>,
         \A d \in deletions' : \E c \in deletions : c.key = d.key /\ c.m = d.m
  PROVE  DeletionsSound' /\ OverlaySound'
<1>1. DeletionsSound'
  <2> SUFFICES ASSUME NEW d \in deletions'
               PROVE  /\ d.m = 0 => d.key \in hasty
                      /\ d.m # 0 => d.m \in DOMAIN stored' /\ stored'[d.m].key = d.key
                      /\ d.key \in overlay => d.key \in hasty \cup replayed
    BY DEF DeletionsSound, Messages
  <2>1. PICK c \in deletions : c.key = d.key /\ c.m = d.m
    OBVIOUS
  <2>2. /\ c.m = 0 => c.key \in hasty
        /\ c.m # 0 => c.m \in Messages /\ stored[c.m].key = c.key
        /\ c.key \in overlay => c.key \in hasty \cup replayed
    BY DEF DeletionsSound
  <2> QED BY <2>1, <2>2, SameMessages
<1>2. OverlaySound'
  <2>1. ASSUME NEW m \in DOMAIN stored', stored'[m].key \in overlay, Applied("created", m)'
        PROVE  stored'[m].key \in replayed
    <3>1. m \in Messages /\ Applied("created", m)
      BY <2>1, SameApplied
    <3>2. stored'[m].key = stored[m].key
      BY <3>1, SameMessages
    <3> QED BY <2>1, <3>1, <3>2 DEF OverlaySound
  <2> QED BY <2>1 DEF OverlaySound, Messages
<1> QED BY <1>1, <1>2

LEMMA PagesKept ==
  ASSUME Typed, LogSound, ServerKeeps, stored' \in Seq(MessageType), PagesSound, OnceEach,
         \A s \in Slots : SamePage(s), UNCHANGED <<list, unordered>>
  PROVE  PagesSound' /\ OnceEach'
<1>1. \A s \in Slots : PageSound(s)'
  BY PageKept DEF PagesSound
<1>2. ASSUME ~unordered
      PROVE  \A s \in Slots : BaseOrdered(s)'
  BY <1>2, BaseKept DEF OnceEach, PagesSound, PageSound
<1>3. (\A i, j \in DOMAIN list : list[i].m = list[j].m => i = j)
        => \A i, j \in DOMAIN list' : list'[i].m = list'[j].m => i = j
  OBVIOUS
<1>4. OnceEach'
  BY <1>2, <1>3 DEF OnceEach, Distinct
<1> QED BY <1>1, <1>4 DEF PagesSound

(* The client that watches a server step keeps the invariant. *)
LEMMA Watching ==
  ASSUME VInv, ServerKeeps, LogSound', KeysSound',
         stored' \in Seq(MessageType), Len(stored') <= MaxMessages, log' \in [Rooms -> Seq(EventType)],
         UNCHANGED <<cursor, list, current, pages, rows, overlay, history>>,
         \A d \in deletions' : \E c \in deletions : c.key = d.key /\ c.m = d.m,
         \A d \in deletions' : d \in [key : Keys, m : Nat, sent : BOOLEAN]
  PROVE  VInv'
<1>1. Typed'
  BY DEF VInv, Typed, history, past
<1>2. \A s \in Slots : SamePage(s)
  BY DEF SamePage
<1>3. PagesSound' /\ OnceEach'
  BY <1>2, PagesKept DEF VInv, history, past
<1>4. ListKnown' /\ UpToDate'
  BY ListKept DEF VInv, history, past
<1>5. DeletionsSound' /\ OverlaySound'
  BY OutboxKept DEF VInv, history, past
<1> QED BY <1>1, <1>3, <1>4, <1>5 DEF VInv

(* A message stored has a key of its own, unless it is somebody else's. *)
LEMMA NewKey ==
  ASSUME VInv, UNCHANGED <<cursor, rows>>, NEW r \in Rooms, NEW k \in Keys \cup {Nobody}, Store(r, k),
         k # Nobody => rows[k] # "none" /\ RoomOf[k] = r /\ ~Has(k)
  PROVE  KeysSound'
<1>1. /\ ServerKeeps /\ stored' \in Seq(MessageType)
      /\ DOMAIN stored' = Messages \cup {Len(stored) + 1}
      /\ stored'[Len(stored) + 1].room = r /\ stored'[Len(stored) + 1].key = k
  BY StoreStep DEF VInv
<1>2. PICK new : new = Len(stored) + 1
  OBVIOUS
<1>3. ASSUME NEW m \in Messages
      PROVE  stored'[m].room = stored[m].room /\ stored'[m].key = stored[m].key
  BY <1>1, SameMessages DEF VInv
<1>4. \A m \in DOMAIN stored' : stored'[m].key # Nobody =>
        rows[stored'[m].key] # "none" /\ RoomOf[stored'[m].key] = stored'[m].room
  <2> TAKE m \in DOMAIN stored'
  <2>1. CASE m \in Messages
    BY <2>1, <1>3 DEF VInv, KeysSound
  <2>2. CASE m = new
    BY <2>2, <1>1, <1>2
  <2> QED BY <2>1, <2>2, <1>1, <1>2
<1>5. \A m, n \in DOMAIN stored' : stored'[m].key = stored'[n].key /\ stored'[m].key # Nobody => m = n
  <2> SUFFICES ASSUME NEW m \in DOMAIN stored', NEW n \in DOMAIN stored',
                      stored'[m].key = stored'[n].key, stored'[m].key # Nobody
               PROVE  m = n
    OBVIOUS
  <2>1. CASE m \in Messages /\ n \in Messages
    BY <2>1, <1>3 DEF VInv, KeysSound
  <2>2. CASE m \in Messages /\ n = new
    BY <2>2, <1>1, <1>2, <1>3 DEF Has
  <2>3. CASE m = new /\ n \in Messages
    BY <2>3, <1>1, <1>2, <1>3 DEF Has
  <2> QED BY <2>1, <2>2, <2>3, <1>1, <1>2
<1> QED BY <1>4, <1>5 DEF KeysSound, Messages

LEMMA FlagKeys ==
  ASSUME VInv, UNCHANGED <<cursor, rows>>, NEW m \in Messages, Rewrite(m) \/ Delete(m)
  PROVE  KeysSound'
<1>1. ServerKeeps /\ stored' \in Seq(MessageType) /\ DOMAIN stored' = Messages
  BY FlagStep DEF VInv
<1>2. \A n \in Messages : stored'[n].room = stored[n].room /\ stored'[n].key = stored[n].key
  BY <1>1, SameMessages DEF VInv
<1>3. /\ \A n \in Messages : stored'[n].key # Nobody =>
           rows[stored'[n].key] # "none" /\ RoomOf[stored'[n].key] = stored'[n].room
      /\ \A n, p \in Messages : stored'[n].key = stored'[p].key /\ stored'[n].key # Nobody => n = p
  BY <1>2 DEF VInv, KeysSound
<1> QED BY <1>1, <1>3 DEF KeysSound, Messages

LEMMA SameDeletions ==
  ASSUME VInv, UNCHANGED deletions
  PROVE  /\ \A d \in deletions' : \E c \in deletions : c.key = d.key /\ c.m = d.m
         /\ \A d \in deletions' : d \in [key : Keys, m : Nat, sent : BOOLEAN]
BY DEF VInv, Typed

LEMMA PostInv ==
  ASSUME VInv, NEW r \in Rooms, Post(r)
  PROVE  VInv'
<1>1. Store(r, Nobody) /\ UNCHANGED <<cursor, list, current, pages, rows, overlay, history>>
      /\ UNCHANGED deletions
  BY DEF Post, window, outbox
<1>2. KeysSound'
  BY <1>1, NewKey
<1>3. /\ ServerKeeps /\ LogSound' /\ log' \in [Rooms -> Seq(EventType)]
      /\ stored' \in Seq(MessageType) /\ Len(stored') <= MaxMessages
  BY <1>1, StoreStep DEF VInv
<1> QED BY <1>1, <1>2, <1>3, SameDeletions, Watching

LEMMA AcceptInv ==
  ASSUME VInv, NEW k \in Keys, Accept(k)
  PROVE  VInv'
<1>1. /\ Store(RoomOf[k], k) /\ rows[k] = "open" /\ ~Has(k)
      /\ UNCHANGED <<cursor, list, current, pages, rows, overlay, history>> /\ UNCHANGED deletions
  BY DEF Accept, window, outbox
<1>2. RoomOf[k] \in Rooms
  BY KeysAssumption
<1>3. KeysSound'
  BY <1>1, <1>2, NewKey
<1>4. /\ ServerKeeps /\ LogSound' /\ log' \in [Rooms -> Seq(EventType)]
      /\ stored' \in Seq(MessageType) /\ Len(stored') <= MaxMessages
  BY <1>1, <1>2, StoreStep DEF VInv
<1> QED BY <1>1, <1>3, <1>4, SameDeletions, Watching

LEMMA FlagInv ==
  ASSUME VInv, NEW m \in Messages, Edit(m) \/ DeleteElsewhere(m)
  PROVE  VInv'
<1>1. /\ Rewrite(m) \/ Delete(m)
      /\ UNCHANGED <<cursor, list, current, pages, rows, overlay, history>> /\ UNCHANGED deletions
  BY DEF Edit, DeleteElsewhere, window, outbox
<1>2. KeysSound'
  BY <1>1, FlagKeys
<1>3. /\ ServerKeeps /\ LogSound' /\ log' \in [Rooms -> Seq(EventType)]
      /\ stored' \in Seq(MessageType) /\ Len(stored') <= MaxMessages
  BY <1>1, FlagStep DEF VInv
<1> QED BY <1>1, <1>2, <1>3, SameDeletions, Watching

(* A server that does nothing. *)
LEMMA Idle ==
  ASSUME VInv, UNCHANGED server
  PROVE  /\ ServerKeeps /\ stored' = stored /\ log' = log
         /\ stored' \in Seq(MessageType) /\ Len(stored') <= MaxMessages
         /\ log' \in [Rooms -> Seq(EventType)]
<1>1. stored' = stored /\ log' = log
  BY DEF server
<1>2. StoredKeeps
  BY <1>1 DEF StoredKeeps, VInv, Typed
<1>3. LogKeeps
  BY <1>1 DEF LogKeeps, VInv, Typed
<1> QED BY <1>1, <1>2, <1>3 DEF VInv, Typed, ServerKeeps

LEMMA SendDeletionInv ==
  ASSUME VInv, NEW d \in deletions, SendDeletion(d)
  PROVE  VInv'
<1>1. d \in [key : Keys, m : Nat, sent : BOOLEAN]
  BY DEF VInv, Typed
<1>2. /\ [d EXCEPT !.sent = TRUE] \in [key : Keys, m : Nat, sent : BOOLEAN]
      /\ [d EXCEPT !.sent = TRUE].key = d.key /\ [d EXCEPT !.sent = TRUE].m = d.m
  BY <1>1
<1>3. deletions' = (deletions \ {d}) \cup {[d EXCEPT !.sent = TRUE]}
  BY DEF SendDeletion
<1>4. /\ \A x \in deletions' : \E c \in deletions : c.key = x.key /\ c.m = x.m
      /\ \A x \in deletions' : x \in [key : Keys, m : Nat, sent : BOOLEAN]
  BY <1>2, <1>3 DEF VInv, Typed
<1>5. UNCHANGED <<cursor, list, current, pages, rows, overlay, history>>
  BY DEF SendDeletion, window
<1>6. CASE d.m # 0 /\ Delete(d.m)
  <2>1. d.m \in Messages
    BY <1>6 DEF VInv, DeletionsSound
  <2>2. KeysSound'
    BY <1>5, <1>6, <2>1, FlagKeys
  <2>3. /\ ServerKeeps /\ LogSound' /\ log' \in [Rooms -> Seq(EventType)]
        /\ stored' \in Seq(MessageType) /\ Len(stored') <= MaxMessages
    BY <1>5, <1>6, <2>1, FlagStep DEF VInv
  <2> QED BY <1>4, <1>5, <2>2, <2>3, Watching
<1>7. CASE UNCHANGED server
  <2>1. /\ ServerKeeps /\ stored' = stored /\ log' = log
        /\ stored' \in Seq(MessageType) /\ Len(stored') <= MaxMessages
        /\ log' \in [Rooms -> Seq(EventType)]
    BY <1>7, Idle
  <2>2. LogSound' /\ KeysSound'
    BY <2>1, <1>5 DEF VInv, LogSound, KeysSound, EventSound, Occurs, Messages
  <2> QED BY <1>4, <1>5, <2>1, <2>2, Watching
<1> QED BY <1>6, <1>7 DEF SendDeletion

-----------------------------------------------------------------------------
(* What the user does. *)

(* The server stays as it is; no message is taken back. *)
LEMMA Quiet ==
  ASSUME VInv, UNCHANGED <<server, cursor>>, \A k \in Keys : rows'[k] = "none" => rows[k] = "none"
  PROVE  /\ ServerKeeps /\ LogSound' /\ KeysSound'
         /\ stored' = stored /\ stored' \in Seq(MessageType) /\ Len(stored') <= MaxMessages
         /\ log' = log /\ log' \in [Rooms -> Seq(EventType)]
<1>1. /\ ServerKeeps /\ stored' = stored /\ log' = log
      /\ stored' \in Seq(MessageType) /\ Len(stored') <= MaxMessages
      /\ log' \in [Rooms -> Seq(EventType)]
  BY Idle
<1>2. LogSound'
  <2>1. cursor' = cursor /\ Messages' = Messages
    BY <1>1 DEF Messages
  <2>2. \A r, i : EventSound(r, i) => EventSound(r, i)'
    BY <1>1, <2>1 DEF EventSound, Occurs
  <2>3. \A r, n, t, m : Occurs(r, n, t, m) => Occurs(r, n, t, m)'
    BY <1>1 DEF Occurs
  <2>4. LogSound
    BY DEF VInv
  <2> QED BY <1>1, <2>1, <2>2, <2>3, <2>4 DEF LogSound
<1>3. \A m \in Messages : stored[m].key \in Keys \cup {Nobody}
  <2> TAKE m \in Messages
  <2>1. stored[m] \in MessageType
    BY DEF VInv, Typed, Messages
  <2> QED BY <2>1 DEF MessageType
<1>4. KeysSound'
  <2>1. \A m \in Messages : stored[m].key # Nobody =>
          rows'[stored[m].key] # "none" /\ RoomOf[stored[m].key] = stored[m].room
    BY <1>3 DEF VInv, KeysSound
  <2>2. \A m, n \in Messages : stored[m].key = stored[n].key /\ stored[m].key # Nobody => m = n
    BY DEF VInv, KeysSound
  <2> QED BY <1>1, <2>1, <2>2 DEF KeysSound, Messages
<1> QED BY <1>1, <1>2, <1>4

(* Changes of the outbox alone. *)
LEMMA OutboxStep ==
  ASSUME VInv, UNCHANGED <<server, cursor, list, current, pages, overtaken, unordered>>,
         rows' \in [Keys -> {"none", "open", "acked", "rejected"}], overlay' \subseteq Keys,
         \A k \in Keys : rows'[k] = "none" => rows[k] = "none",
         \A d \in deletions' : d \in [key : Keys, m : Nat, sent : BOOLEAN],
         DeletionsSound', OverlaySound'
  PROVE  VInv'
<1>1. /\ ServerKeeps /\ LogSound' /\ KeysSound'
      /\ stored' = stored /\ stored' \in Seq(MessageType) /\ Len(stored') <= MaxMessages
      /\ log' = log /\ log' \in [Rooms -> Seq(EventType)]
  BY Quiet
<1>2. Typed'
  BY <1>1 DEF VInv, Typed
<1>3. \A s \in Slots : SamePage(s)
  BY DEF SamePage
<1>4. PagesSound' /\ OnceEach'
  BY <1>1, <1>3, PagesKept DEF VInv
<1>5. ListKnown' /\ UpToDate'
  BY <1>1, ListKept DEF VInv
<1> QED BY <1>1, <1>2, <1>4, <1>5 DEF VInv

LEMMA SendMessageInv ==
  ASSUME VInv, NEW k \in Keys, SendMessage(k)
  PROVE  VInv'
<1>1. /\ UNCHANGED <<server, cursor, list, current, pages, overtaken, unordered>>
      /\ UNCHANGED <<deletions, hasty, replayed>>
      /\ rows[k] = "none" /\ rows' = [rows EXCEPT ![k] = "open"] /\ overlay' = overlay \cup {k}
  BY DEF SendMessage, window, history, past
<1>2. /\ rows' \in [Keys -> {"none", "open", "acked", "rejected"}] /\ overlay' \subseteq Keys
      /\ rows'[k] = "open" /\ \A x \in Keys : x # k => rows'[x] = rows[x]
  BY <1>1 DEF VInv, Typed
<1>3. \A x \in Keys : rows'[x] = "none" => rows[x] = "none"
  BY <1>2
<1>4. /\ ServerKeeps /\ stored' = stored /\ stored' \in Seq(MessageType)
  BY <1>1, <1>3, Quiet
<1>5. \A m \in Messages : stored[m].key # k
  BY <1>1, KeysAssumption DEF VInv, KeysSound
<1>6. DeletionsSound'
  <2> SUFFICES ASSUME NEW d \in deletions
               PROVE  /\ d.m = 0 => d.key \in hasty
                      /\ d.m # 0 => d.m \in Messages /\ stored[d.m].key = d.key
                      /\ d.key \in overlay' => d.key \in hasty \cup replayed
    BY <1>1, <1>4 DEF DeletionsSound, Messages
  <2>1. /\ d.m = 0 => d.key \in hasty
        /\ d.m # 0 => d.m \in Messages /\ stored[d.m].key = d.key
        /\ d.key \in overlay => d.key \in hasty \cup replayed
    BY DEF VInv, DeletionsSound
  <2>2. d.key = k => d.key \in hasty
    BY <2>1, <1>5
  <2> QED BY <1>1, <2>1, <2>2
<1>7. OverlaySound'
  <2>1. \A x \in Keys : rows'[x] = "none" => x \notin overlay'
    BY <1>1, <1>2 DEF VInv, OverlaySound
  <2>2. \A m \in Messages : stored[m].key \in overlay' /\ Applied("created", m)' => stored[m].key \in replayed
    <3> SUFFICES ASSUME NEW m \in Messages, stored[m].key \in overlay', Applied("created", m)'
                 PROVE  stored[m].key \in replayed
      OBVIOUS
    <3>1. Applied("created", m) /\ stored[m].key \in overlay
      BY <1>1, <1>4, <1>5, SameApplied DEF VInv, Messages
    <3> QED BY <3>1 DEF VInv, OverlaySound
  <2> QED BY <1>1, <1>4, <2>1, <2>2 DEF OverlaySound, Messages
<1>8. \A d \in deletions' : d \in [key : Keys, m : Nat, sent : BOOLEAN]
  BY <1>1 DEF VInv, Typed
<1> QED BY <1>1, <1>2, <1>3, <1>6, <1>7, <1>8, OutboxStep

(* The overlay shrinks at most. *)
LEMMA AnswerInv ==
  ASSUME VInv, NEW k \in Keys, Acknowledge(k) \/ Reject(k)
  PROVE  VInv'
<1>1. PICK v \in {"acked", "rejected"} : rows' = [rows EXCEPT ![k] = v]
  BY DEF Acknowledge, Reject
<1>2. /\ UNCHANGED <<server, cursor, list, current, pages, overtaken, unordered>>
      /\ UNCHANGED <<deletions, hasty, replayed>> /\ rows[k] = "open" /\ overlay' \subseteq overlay
  BY DEF Acknowledge, Reject, window, history, past
<1>3. /\ rows' \in [Keys -> {"none", "open", "acked", "rejected"}] /\ overlay' \subseteq Keys
      /\ \A x \in Keys : rows'[x] = "none" => rows[x] = "none"
  BY <1>1, <1>2 DEF VInv, Typed
<1>4. /\ ServerKeeps /\ stored' = stored /\ stored' \in Seq(MessageType)
  BY <1>2, <1>3, Quiet
<1>5. DeletionsSound'
  BY <1>2, <1>4 DEF VInv, DeletionsSound, Messages
<1>6. OverlaySound'
  <2>1. \A x \in Keys : rows'[x] = "none" => x \notin overlay'
    BY <1>2, <1>3 DEF VInv, OverlaySound
  <2>2. \A m \in Messages : stored[m].key \in overlay' /\ Applied("created", m)' => stored[m].key \in replayed
    <3> SUFFICES ASSUME NEW m \in Messages, stored[m].key \in overlay', Applied("created", m)'
                 PROVE  stored[m].key \in replayed
      OBVIOUS
    <3>1. Applied("created", m) /\ stored[m].key \in overlay
      BY <1>2, <1>4, SameApplied DEF VInv, Messages
    <3> QED BY <3>1 DEF VInv, OverlaySound
  <2> QED BY <1>2, <1>4, <2>1, <2>2 DEF OverlaySound, Messages
<1>7. \A d \in deletions' : d \in [key : Keys, m : Nat, sent : BOOLEAN]
  BY <1>2 DEF VInv, Typed
<1> QED BY <1>2, <1>3, <1>5, <1>6, <1>7, OutboxStep

LEMMA DeleteMessageInv ==
  ASSUME VInv, NEW k \in Keys, NEW m \in {0} \cup Messages, DeleteMessage(k, m)
  PROVE  VInv'
<1>1. /\ UNCHANGED <<server, cursor, list, current, pages, overtaken, unordered>>
      /\ UNCHANGED <<rows, overlay, replayed>>
      /\ deletions' = deletions \cup {Deletion(k, m)}
      /\ hasty' = IF k \in overlay THEN hasty \cup {k} ELSE hasty
      /\ IF m = 0 THEN k \in overlay ELSE stored[m].key = k
  BY DEF DeleteMessage, window
<1>2. m \in Nat
  BY DEF VInv, Typed, Messages
<1>3. /\ Deletion(k, m) \in [key : Keys, m : Nat, sent : BOOLEAN]
      /\ Deletion(k, m).key = k /\ Deletion(k, m).m = m
  BY <1>2 DEF Deletion
<1>4. /\ rows' \in [Keys -> {"none", "open", "acked", "rejected"}] /\ overlay' \subseteq Keys
      /\ \A x \in Keys : rows'[x] = "none" => rows[x] = "none"
      /\ \A d \in deletions' : d \in [key : Keys, m : Nat, sent : BOOLEAN]
  BY <1>1, <1>3 DEF VInv, Typed
<1>5. /\ ServerKeeps /\ stored' = stored /\ stored' \in Seq(MessageType)
  BY <1>1, <1>4, Quiet
<1>6. DeletionsSound'
  <2> SUFFICES ASSUME NEW d \in deletions'
               PROVE  /\ d.m = 0 => d.key \in hasty'
                      /\ d.m # 0 => d.m \in Messages /\ stored[d.m].key = d.key
                      /\ d.key \in overlay => d.key \in hasty' \cup replayed
    BY <1>1, <1>5 DEF DeletionsSound, Messages
  <2>1. CASE d \in deletions
    BY <2>1, <1>1 DEF VInv, DeletionsSound
  <2>2. CASE d = Deletion(k, m)
    BY <2>2, <1>1, <1>3
  <2> QED BY <2>1, <2>2, <1>1
<1>7. OverlaySound'
  <2>1. \A x \in Keys : rows'[x] = "none" => x \notin overlay'
    BY <1>1 DEF VInv, OverlaySound
  <2>2. \A n \in Messages : stored[n].key \in overlay' /\ Applied("created", n)' => stored[n].key \in replayed
    <3> SUFFICES ASSUME NEW n \in Messages, stored[n].key \in overlay', Applied("created", n)'
                 PROVE  stored[n].key \in replayed
      OBVIOUS
    <3>1. Applied("created", n) /\ stored[n].key \in overlay
      BY <1>1, <1>5, SameApplied DEF VInv, Messages
    <3> QED BY <3>1 DEF VInv, OverlaySound
  <2> QED BY <1>1, <1>5, <2>1, <2>2 DEF OverlaySound, Messages
<1> QED BY <1>1, <1>4, <1>6, <1>7, OutboxStep

-----------------------------------------------------------------------------
(* The window and its pages. *)

LEMMA Reading ==
  ASSUME VInv, UNCHANGED <<server, cursor, rows, overlay, deletions, hasty, replayed>>
  PROVE  /\ ServerKeeps /\ LogSound' /\ KeysSound' /\ DeletionsSound' /\ OverlaySound'
         /\ stored' = stored /\ log' = log
         /\ stored' \in Seq(MessageType) /\ Len(stored') <= MaxMessages
         /\ log' \in [Rooms -> Seq(EventType)] /\ cursor' \in [Rooms -> Nat]
         /\ rows' \in [Keys -> {"none", "open", "acked", "rejected"}] /\ overlay' \subseteq Keys
         /\ \A d \in deletions' : d \in [key : Keys, m : Nat, sent : BOOLEAN]
<1>1. /\ ServerKeeps /\ LogSound' /\ KeysSound'
      /\ stored' = stored /\ stored' \in Seq(MessageType) /\ Len(stored') <= MaxMessages
      /\ log' = log /\ log' \in [Rooms -> Seq(EventType)]
  BY Quiet
<1>2. DeletionsSound' /\ OverlaySound'
  <2>1. UNCHANGED <<cursor, rows, overlay, hasty, replayed>>
    OBVIOUS
  <2>2. \A d \in deletions' : \E c \in deletions : c.key = d.key /\ c.m = d.m
    OBVIOUS
  <2> QED BY <1>1, <2>1, <2>2, OutboxKept DEF VInv
<1>3. /\ cursor' \in [Rooms -> Nat] /\ overlay' \subseteq Keys
      /\ rows' \in [Keys -> {"none", "open", "acked", "rejected"}]
      /\ \A d \in deletions' : d \in [key : Keys, m : Nat, sent : BOOLEAN]
  BY DEF VInv, Typed
<1> QED BY <1>1, <1>2, <1>3

(* One page changes. *)
LEMMA OtherPages ==
  ASSUME VInv, ServerKeeps, stored' \in Seq(MessageType), NEW s \in Slots,
         \A t \in Slots : t # s => pages'[t] = pages[t], PageSound(s)'
  PROVE  PagesSound' /\ (~unordered => \A t \in Slots : t # s => BaseOrdered(t)')
<1>1. \A t \in Slots : t # s => SamePage(t)
  BY DEF SamePage
<1>2. \A t \in Slots : t # s => PageSound(t)'
  BY <1>1, PageKept DEF VInv, PagesSound
<1>3. ~unordered => \A t \in Slots : t # s => BaseOrdered(t)'
  BY <1>1, BaseKept DEF VInv, OnceEach, PagesSound, PageSound
<1> QED BY <1>2, <1>3 DEF PagesSound

LEMMA Asking ==
  ASSUME VInv, NEW s \in Slots, NEW kind \in {"fetch", "more"}, NEW r \in Rooms,
         NEW base \in Seq(EntryType), Ask(s, kind, r, base)
  PROVE  /\ pages' \in [Slots -> PageType]
         /\ pages'[s].kind = kind /\ pages'[s].room = r /\ pages'[s].phase = "asked"
         /\ pages'[s].base = base
         /\ \A t \in Slots : t # s => pages'[t] = pages[t]
<1> DEFINE p == [NoPage EXCEPT !.kind = kind, !.room = r, !.live = TRUE, !.phase = "asked", !.base = base]
<1>1. p \in PageType /\ p.kind = kind /\ p.room = r /\ p.phase = "asked" /\ p.base = base
  <2> DEFINE a == [NoPage EXCEPT !.kind = kind]
             b == [a EXCEPT !.room = r]
             c == [b EXCEPT !.live = TRUE]
             d == [c EXCEPT !.phase = "asked"]
  <2>1. NoPage \in PageType
    BY DEF NoPage, PageType
  <2>2. a \in PageType /\ a.kind = kind
    BY <2>1 DEF PageType
  <2> HIDE DEF a
  <2>3. b \in PageType /\ b.kind = kind /\ b.room = r
    BY <2>2 DEF PageType
  <2> HIDE DEF b
  <2>4. c \in PageType /\ c.kind = kind /\ c.room = r
    BY <2>3 DEF PageType
  <2> HIDE DEF c
  <2>5. d \in PageType /\ d.kind = kind /\ d.room = r /\ d.phase = "asked"
    BY <2>4 DEF PageType
  <2>6. p = [d EXCEPT !.base = base]
    BY DEF a, b, c
  <2> HIDE DEF d, p
  <2> QED BY <2>5, <2>6 DEF PageType
<1>2. pages \in [Slots -> PageType] /\ pages' = [pages EXCEPT ![s] = p]
  BY DEF VInv, Typed, Ask
<1> HIDE DEF p
<1> QED BY <1>1, <1>2

LEMMA Ending ==
  ASSUME VInv, NEW s \in Slots, Done(s)
  PROVE  /\ pages' \in [Slots -> PageType]
         /\ \A t \in Slots : t # s => pages'[t] = pages[t]
         /\ PageSound(s)' /\ BaseOrdered(s)'
<1>1. NoPage \in PageType /\ NoPage.kind = "none" /\ NoPage.phase = "idle"
  BY DEF NoPage, PageType
<1>2. pages \in [Slots -> PageType] /\ pages' = [pages EXCEPT ![s] = NoPage]
  BY DEF VInv, Typed, Done
<1>3. /\ pages' \in [Slots -> PageType] /\ pages'[s] = NoPage
      /\ \A t \in Slots : t # s => pages'[t] = pages[t]
  BY <1>1, <1>2
<1>4. PageSound(s)' /\ BaseOrdered(s)'
  BY <1>1, <1>3 DEF PageSound, BaseSound, BaseOrdered
<1> QED BY <1>3, <1>4

LEMMA SelectInv ==
  ASSUME VInv, NEW s \in Slots, NEW r \in Rooms, Select(s, r)
  PROVE  VInv'
<1>1. /\ UNCHANGED <<server, cursor, rows, overlay, deletions, hasty, replayed>> /\ UNCHANGED unordered
      /\ current' = r /\ list' = <<>> /\ overtaken' = TRUE /\ Ask(s, "fetch", r, <<>>)
  BY DEF Select, outbox, past
<1>2. /\ ServerKeeps /\ LogSound' /\ KeysSound' /\ DeletionsSound' /\ OverlaySound'
      /\ stored' \in Seq(MessageType) /\ Len(stored') <= MaxMessages
      /\ log' \in [Rooms -> Seq(EventType)] /\ cursor' \in [Rooms -> Nat]
      /\ rows' \in [Keys -> {"none", "open", "acked", "rejected"}] /\ overlay' \subseteq Keys
      /\ \A d \in deletions' : d \in [key : Keys, m : Nat, sent : BOOLEAN]
  BY <1>1, Reading
<1>3. /\ pages' \in [Slots -> PageType]
      /\ pages'[s].kind = "fetch" /\ pages'[s].room = r /\ pages'[s].phase = "asked"
      /\ \A t \in Slots : t # s => pages'[t] = pages[t]
  <2>1. <<>> \in Seq(EntryType)
    OBVIOUS
  <2> QED BY <1>1, <2>1, Asking
<1>4. Typed'
  BY <1>1, <1>2, <1>3 DEF VInv, Typed
<1>5. PageSound(s)' /\ BaseOrdered(s)'
  BY <1>3 DEF PageSound, BaseSound, BaseOrdered
<1>6. PagesSound' /\ (~unordered => \A t \in Slots : t # s => BaseOrdered(t)')
  BY <1>2, <1>3, <1>5, OtherPages
<1>7. ListKnown' /\ OnceEach' /\ UpToDate'
  <2>1. ListKnown' /\ UpToDate'
    BY <1>1 DEF ListKnown, UpToDate
  <2>2. \A i, j \in DOMAIN list' : list'[i].m = list'[j].m => i = j
    BY <1>1
  <2> QED BY <2>1, <2>2, <1>1, <1>5, <1>6 DEF OnceEach, Distinct
<1> QED BY <1>2, <1>4, <1>6, <1>7 DEF VInv

LEMMA LoadMoreInv ==
  ASSUME VInv, NEW s \in Slots, LoadMore(s)
  PROVE  VInv'
<1>1. /\ UNCHANGED <<server, cursor, rows, overlay, deletions, hasty, replayed>>
      /\ UNCHANGED <<list, current, overtaken>> /\ list # <<>> /\ current \in Rooms
      /\ Ask(s, "more", current, list)
      /\ unordered' = (unordered \/ \E i \in DOMAIN list : InRoom(i) /\ list[i].m < list[1].m)
  BY DEF LoadMore, window, outbox, past, VInv, Typed
<1>2. /\ ServerKeeps /\ LogSound' /\ KeysSound' /\ DeletionsSound' /\ OverlaySound'
      /\ stored' = stored /\ stored' \in Seq(MessageType) /\ Len(stored') <= MaxMessages
      /\ log' \in [Rooms -> Seq(EventType)] /\ cursor' \in [Rooms -> Nat]
      /\ rows' \in [Keys -> {"none", "open", "acked", "rejected"}] /\ overlay' \subseteq Keys
      /\ \A d \in deletions' : d \in [key : Keys, m : Nat, sent : BOOLEAN]
  BY <1>1, Reading
<1>3. list \in Seq(EntryType)
  BY DEF VInv, Typed
<1>4. /\ pages' \in [Slots -> PageType]
      /\ pages'[s].kind = "more" /\ pages'[s].room = current /\ pages'[s].phase = "asked"
      /\ pages'[s].base = list
      /\ \A t \in Slots : t # s => pages'[t] = pages[t]
  BY <1>1, <1>3, Asking
<1>5. unordered' \in BOOLEAN /\ (~unordered' => ~unordered)
  BY <1>1 DEF VInv, Typed
<1>6. Typed'
  BY <1>1, <1>2, <1>4, <1>5 DEF VInv, Typed
<1>7. PageSound(s)'
  BY <1>1, <1>2, <1>4 DEF PageSound, BaseSound, VInv, ListKnown, Messages
<1>8. PagesSound' /\ (~unordered => \A t \in Slots : t # s => BaseOrdered(t)')
  BY <1>2, <1>4, <1>7, OtherPages
<1>9. ListKnown'
  BY <1>1, <1>2 DEF VInv, ListKnown, Messages
<1>10. OnceEach'
  <2> SUFFICES ASSUME ~unordered'
               PROVE  OnceEach'
    BY DEF OnceEach
  <2>1. \A i, j \in DOMAIN list : list[i].m = list[j].m => i = j
    BY <1>5 DEF VInv, OnceEach, Distinct
  <2>2. \A i \in DOMAIN list : stored[list[i].m].room = current => list[i].m >= list[1].m
    <3> SUFFICES ASSUME NEW i \in DOMAIN list, InRoom(i)
                 PROVE  list[i].m >= list[1].m
      BY DEF InRoom
    <3>1. ~(list[i].m < list[1].m)
      BY <1>1
    <3>2. list[i] \in EntryType /\ list[1] \in EntryType
      BY <1>1, <1>3
    <3>3. list[i].m \in Nat /\ list[1].m \in Nat
      BY <3>2 DEF EntryType
    <3> QED BY <3>1, <3>3
  <2>3. BaseOrdered(s)'
    BY <1>2, <1>4, <2>1, <2>2 DEF BaseOrdered, Distinct
  <2>4. \A i, j \in DOMAIN list' : list'[i].m = list'[j].m => i = j
    BY <1>1, <2>1
  <2> QED BY <1>5, <1>8, <2>3, <2>4 DEF OnceEach, Distinct
<1>11. UpToDate'
  <2> SUFFICES ASSUME ~overtaken, ~unordered'
               PROVE  Complete' /\ Fresh'
    BY <1>1 DEF UpToDate
  <2>1. Complete /\ Fresh
    BY <1>5 DEF VInv, UpToDate
  <2>2. \A t, m : Applied(t, m)' <=> Applied(t, m)
    BY <1>1 DEF Applied, server
  <2> QED BY <2>1, <2>2, <1>1, <1>2 DEF Complete, Fresh, Projected, Messages
<1> QED BY <1>2, <1>6, <1>8, <1>9, <1>10, <1>11 DEF VInv

LEMMA CloseInv ==
  ASSUME VInv, Close
  PROVE  VInv'
<1>1. /\ UNCHANGED <<server, cursor, rows, overlay, deletions, hasty, replayed>>
      /\ UNCHANGED <<list, unordered>> /\ current' = NoRoom /\ overtaken' = TRUE
      /\ pages' = [s \in Slots |-> IF pages[s] = NoPage THEN NoPage ELSE [pages[s] EXCEPT !.live = FALSE]]
  BY DEF Close, outbox, past
<1>2. /\ ServerKeeps /\ LogSound' /\ KeysSound' /\ DeletionsSound' /\ OverlaySound'
      /\ stored' = stored /\ stored' \in Seq(MessageType) /\ Len(stored') <= MaxMessages
      /\ log' \in [Rooms -> Seq(EventType)] /\ cursor' \in [Rooms -> Nat]
      /\ rows' \in [Keys -> {"none", "open", "acked", "rejected"}] /\ overlay' \subseteq Keys
      /\ \A d \in deletions' : d \in [key : Keys, m : Nat, sent : BOOLEAN]
  BY <1>1, Reading
<1>3. ASSUME NEW s \in Slots
      PROVE  SamePage(s) /\ pages'[s] \in PageType
  <2>1. pages[s] \in PageType
    BY DEF VInv, Typed
  <2>2. CASE pages[s] = NoPage
    BY <2>1, <2>2, <1>1 DEF SamePage
  <2>3. CASE pages[s] # NoPage
    <3>1. pages'[s] = [pages[s] EXCEPT !.live = FALSE]
      BY <2>3, <1>1
    <3>2. pages'[s] \in PageType
      BY <2>1, <3>1 DEF PageType
    <3>3. SamePage(s)
      BY <2>1, <3>1 DEF SamePage, PageType
    <3> QED BY <3>2, <3>3
  <2> QED BY <2>2, <2>3
<1>4. pages' \in [Slots -> PageType]
  BY <1>1, <1>3
<1>5. Typed'
  BY <1>1, <1>2, <1>4 DEF VInv, Typed
<1>6. PagesSound' /\ OnceEach'
  BY <1>1, <1>2, <1>3, PagesKept DEF VInv
<1>7. ListKnown' /\ UpToDate'
  BY <1>1, <1>2 DEF VInv, ListKnown, UpToDate, Messages
<1> QED BY <1>2, <1>5, <1>6, <1>7 DEF VInv

LEMMA PageFailsInv ==
  ASSUME VInv, NEW s \in Slots, PageFails(s)
  PROVE  VInv'
<1>1. /\ UNCHANGED <<server, cursor, rows, overlay, deletions, hasty, replayed>>
      /\ UNCHANGED <<cursor, list, current, overtaken, unordered>> /\ Done(s)
  BY DEF PageFails, outbox, history, past
<1>2. /\ ServerKeeps /\ LogSound' /\ KeysSound' /\ DeletionsSound' /\ OverlaySound'
      /\ stored' = stored /\ stored' \in Seq(MessageType) /\ Len(stored') <= MaxMessages
      /\ log' \in [Rooms -> Seq(EventType)] /\ cursor' \in [Rooms -> Nat]
      /\ rows' \in [Keys -> {"none", "open", "acked", "rejected"}] /\ overlay' \subseteq Keys
      /\ \A d \in deletions' : d \in [key : Keys, m : Nat, sent : BOOLEAN]
  BY <1>1, Reading
<1>3. /\ pages' \in [Slots -> PageType] /\ PageSound(s)' /\ BaseOrdered(s)'
      /\ \A t \in Slots : t # s => pages'[t] = pages[t]
  BY <1>1, Ending
<1>4. Typed'
  BY <1>1, <1>2, <1>3 DEF VInv, Typed
<1>5. PagesSound' /\ (~unordered => \A t \in Slots : t # s => BaseOrdered(t)')
  BY <1>2, <1>3, OtherPages
<1>6. OnceEach'
  <2>1. (\A i, j \in DOMAIN list : list[i].m = list[j].m => i = j)
          => \A i, j \in DOMAIN list' : list'[i].m = list'[j].m => i = j
    BY <1>1
  <2> QED BY <1>1, <1>3, <1>5, <2>1 DEF VInv, OnceEach, Distinct
<1>7. ListKnown' /\ UpToDate'
  BY <1>1, <1>2, ListKept DEF VInv
<1> QED BY <1>2, <1>4, <1>5, <1>6, <1>7 DEF VInv

(* What an init makes of the overlay: some deletions go, and a copy that    *)
(* comes back for a message the server has is remembered as replayed.      *)
LEMMA Refilled ==
  ASSUME VInv, UNCHANGED <<cursor, hasty>>, stored' = stored, log' = log,
         deletions' \subseteq deletions, overlay' \subseteq Keys,
         replayed' = replayed \cup {k \in overlay' \ overlay : Has(k)},
         \A k \in Keys : rows'[k] = "none" => k \notin overlay'
  PROVE  DeletionsSound' /\ OverlaySound'
<1>1. ASSUME NEW d \in deletions
      PROVE  /\ d.m = 0 => d.key \in hasty
             /\ d.m # 0 => d.m \in Messages /\ stored[d.m].key = d.key
             /\ d.key \in overlay' => d.key \in hasty \cup replayed'
  <2>1. /\ d.m = 0 => d.key \in hasty
        /\ d.m # 0 => d.m \in Messages /\ stored[d.m].key = d.key
        /\ d.key \in overlay => d.key \in hasty \cup replayed
    BY DEF VInv, DeletionsSound
  <2>2. d.m # 0 => Has(d.key)
    BY <2>1 DEF Has
  <2> QED BY <2>1, <2>2
<1>2. DeletionsSound'
  BY <1>1 DEF DeletionsSound, Messages
<1>3. ASSUME NEW m \in Messages, stored[m].key \in overlay', Applied("created", m)'
      PROVE  stored[m].key \in replayed'
  <2>1. Applied("created", m) /\ Has(stored[m].key)
    BY <1>3 DEF Applied, Has
  <2>2. stored[m].key \in overlay => stored[m].key \in replayed
    BY <2>1 DEF VInv, OverlaySound
  <2> QED BY <1>3, <2>1, <2>2
<1>4. OverlaySound'
  BY <1>3 DEF OverlaySound, Messages
<1> QED BY <1>2, <1>4

LEMMA ReloadInv ==
  ASSUME VInv, Reload
  PROVE  VInv'
<1>1. PICK R \in SUBSET {k \in Keys : rows[k] = "open"} :
        overlay' = R /\ replayed' = replayed \cup {k \in R \ overlay : Has(k)}
  BY DEF Reload, Refill
<1>2. /\ UNCHANGED <<server, cursor>> /\ UNCHANGED <<unordered, hasty>>
      /\ list' = <<>> /\ current' = NoRoom /\ overtaken' = TRUE
      /\ pages' = [s \in Slots |-> NoPage]
      /\ rows' = [k \in Keys |-> IF rows[k] = "rejected" THEN "open" ELSE rows[k]]
      /\ deletions' = {d \in deletions : ~d.sent}
  BY DEF Reload, Refill, Retried
<1>3. /\ rows' \in [Keys -> {"none", "open", "acked", "rejected"}]
      /\ \A k \in Keys : rows'[k] = "none" => rows[k] = "none"
  BY <1>2 DEF VInv, Typed
<1>4. /\ ServerKeeps /\ LogSound' /\ KeysSound'
      /\ stored' = stored /\ stored' \in Seq(MessageType) /\ Len(stored') <= MaxMessages
      /\ log' \in [Rooms -> Seq(EventType)]
  BY <1>2, <1>3, Quiet
<1>5. NoPage \in PageType /\ NoPage.kind = "none" /\ NoPage.phase = "idle"
  BY DEF NoPage, PageType
<1>6. pages' \in [Slots -> PageType] /\ \A s \in Slots : pages'[s] = NoPage
  BY <1>2, <1>5
<1>7. Typed'
  <2>1. overlay' \subseteq Keys /\ list' \in Seq(EntryType) /\ cursor' \in [Rooms -> Nat]
    BY <1>1, <1>2 DEF VInv, Typed
  <2>2. \A d \in deletions' : d \in [key : Keys, m : Nat, sent : BOOLEAN]
    BY <1>2 DEF VInv, Typed
  <2> QED BY <1>2, <1>3, <1>4, <1>6, <2>1, <2>2 DEF VInv, Typed
<1>8. PagesSound' /\ \A s \in Slots : BaseOrdered(s)'
  BY <1>5, <1>6 DEF PagesSound, PageSound, BaseSound, BaseOrdered
<1>9. ListKnown' /\ OnceEach' /\ UpToDate'
  <2>1. ListKnown' /\ UpToDate'
    BY <1>2 DEF ListKnown, UpToDate
  <2>2. \A i, j \in DOMAIN list' : list'[i].m = list'[j].m => i = j
    BY <1>2
  <2> QED BY <1>8, <2>1, <2>2 DEF OnceEach, Distinct
<1>10. DeletionsSound' /\ OverlaySound'
  <2>1. \A k \in Keys : rows'[k] = "none" => k \notin overlay'
    BY <1>1, <1>3
  <2>2. deletions' \subseteq deletions /\ overlay' \subseteq Keys
    BY <1>1, <1>2
  <2>3. replayed' = replayed \cup {k \in overlay' \ overlay : Has(k)}
    BY <1>1
  <2>4. UNCHANGED <<cursor, hasty>> /\ stored' = stored /\ log' = log
    BY <1>2 DEF server
  <2> QED BY <2>1, <2>2, <2>3, <2>4, Refilled
<1> QED BY <1>4, <1>7, <1>8, <1>9, <1>10 DEF VInv

(* So does one for a new token, in the middle of it all. *)
LEMMA RehydrateInv ==
  ASSUME VInv, Rehydrate
  PROVE  VInv'
<1>1. /\ UNCHANGED <<server, cursor, list, current, pages, overtaken, unordered>> /\ UNCHANGED hasty
      /\ rows' = [k \in Keys |-> IF rows[k] = "rejected" THEN "open" ELSE rows[k]]
  BY DEF Rehydrate, Retried, window
<1>2. \/ \E R \in SUBSET {k \in Keys : rows[k] = "open"} :
           overlay' = R /\ replayed' = replayed \cup {k \in R \ overlay : Has(k)}
                        /\ deletions' = {d \in deletions : ~d.sent}
      \/ UNCHANGED <<overlay, deletions, replayed>>
  BY DEF Rehydrate, Refill
<1>3. /\ rows' \in [Keys -> {"none", "open", "acked", "rejected"}]
      /\ \A k \in Keys : rows'[k] = "none" => rows[k] = "none"
  BY <1>1 DEF VInv, Typed
<1>4. overlay' \subseteq Keys /\ \A d \in deletions' : d \in [key : Keys, m : Nat, sent : BOOLEAN]
  BY <1>2 DEF VInv, Typed
<1>5. stored' = stored /\ log' = log
  BY <1>1 DEF server
<1>6. \A k \in Keys : rows'[k] = "none" => k \notin overlay'
  BY <1>2, <1>3 DEF VInv, OverlaySound
<1>7. DeletionsSound' /\ OverlaySound'
  <2>1. deletions' \subseteq deletions
    BY <1>2
  <2>2. overlay' \subseteq Keys
        /\ replayed' = replayed \cup {k \in overlay' \ overlay : Has(k)}
    BY <1>2, <1>4
  <2> QED BY <1>1, <1>5, <1>6, <2>1, <2>2, Refilled
<1> QED BY <1>1, <1>3, <1>4, <1>7, OutboxStep

-----------------------------------------------------------------------------
(* What the server answers. *)

LEMMA ServeInv ==
  ASSUME VInv, NEW s \in Slots, Serve(s)
  PROVE  VInv'
<1> DEFINE before == IF pages[s].kind = "more" THEN pages[s].base[1].m ELSE MaxMessages + 1
<1>1. /\ pages[s].phase = "asked"
      /\ UNCHANGED <<server, cursor, rows, overlay, deletions, hasty, replayed>>
      /\ UNCHANGED <<cursor, list, current, overtaken, unordered>>
  BY DEF Serve, window, outbox, history, past
<1>2. PICK seq \in PagesOf(Listed(pages[s].room, before)) :
        pages' = [pages EXCEPT ![s] = [pages[s] EXCEPT !.phase = "served", !.items = Entries(seq),
                                                      !.full = Len(seq) = PageSize,
                                                      !.at = Len(log[pages[s].room])]]
  BY DEF Serve
<1>3. PICK r \in Rooms : r = pages[s].room
  BY <1>1 DEF VInv, PagesSound, PageSound
<1>4. Len(log[r]) \in Nat /\ pages[s] \in PageType
  BY DEF VInv, Typed
<1>5. PICK n \in 0..PageSize : seq \in [1..n -> Listed(r, before)]
  BY <1>2, <1>3 DEF PagesOf
<1>6. /\ DOMAIN seq = 1..n /\ Len(seq) = n /\ n \in Nat
      /\ \A i \in 1..n : seq[i] \in Messages /\ stored[seq[i]].room = r /\ ~stored[seq[i]].deleted
                         /\ seq[i] < before /\ seq[i] \in Nat
  <2>1. n \in Nat /\ DOMAIN seq = 1..n
    BY <1>5, BoundsAssumption
  <2>2. Len(seq) = n
    BY <1>5, <2>1
  <2>3. \A i \in 1..n : seq[i] \in Listed(r, before)
    BY <1>5
  <2>4. Messages \subseteq Nat
    BY DEF Messages, VInv, Typed
  <2> QED BY <2>1, <2>2, <2>3, <2>4 DEF Listed
<1>7. Entries(seq) \in Seq(EntryType)
  <2>1. \A i \in 1..n : Entry(seq[i], IF stored[seq[i]].edited THEN "edited" ELSE "first") \in EntryType
    BY <1>6 DEF Entry, EntryType
  <2> QED BY <1>6, <2>1 DEF Entries
<1>8. /\ DOMAIN Entries(seq) = 1..n
      /\ \A i \in 1..n : Entries(seq)[i].m = seq[i]
                         /\ Entries(seq)[i].text = IF stored[seq[i]].edited THEN "edited" ELSE "first"
  BY <1>6 DEF Entries, Entry
<1> DEFINE a == [pages[s] EXCEPT !.phase = "served"]
           b == [a EXCEPT !.items = Entries(seq)]
           c == [b EXCEPT !.full = Len(seq) = PageSize]
           d == [c EXCEPT !.at = Len(log[r])]
<1>9. /\ d \in PageType /\ d.kind = pages[s].kind /\ d.room = r /\ d.base = pages[s].base
      /\ d.phase = "served" /\ d.items = Entries(seq) /\ d.at = Len(log[r])
  <2>1. a \in PageType /\ a.kind = pages[s].kind /\ a.room = r /\ a.base = pages[s].base /\ a.phase = "served"
    BY <1>3, <1>4 DEF PageType
  <2> HIDE DEF a
  <2>2. b \in PageType /\ b.kind = pages[s].kind /\ b.room = r /\ b.base = pages[s].base /\ b.phase = "served"
        /\ b.items = Entries(seq)
    BY <2>1, <1>7 DEF PageType
  <2> HIDE DEF b
  <2>3. c \in PageType /\ c.kind = pages[s].kind /\ c.room = r /\ c.base = pages[s].base /\ c.phase = "served"
        /\ c.items = Entries(seq)
    BY <2>2 DEF PageType
  <2> HIDE DEF c
  <2> QED BY <2>3, <1>4 DEF PageType
<1>10. pages' = [pages EXCEPT ![s] = d]
  BY <1>2, <1>3
<1> HIDE DEF d
<1>11. /\ pages' \in [Slots -> PageType] /\ pages'[s] = d
       /\ \A t \in Slots : t # s => pages'[t] = pages[t]
  BY <1>9, <1>10 DEF VInv, Typed
<1>12. /\ ServerKeeps /\ LogSound' /\ KeysSound' /\ DeletionsSound' /\ OverlaySound'
       /\ stored' = stored /\ log' = log /\ stored' \in Seq(MessageType) /\ Len(stored') <= MaxMessages
       /\ log' \in [Rooms -> Seq(EventType)] /\ cursor' \in [Rooms -> Nat]
       /\ rows' \in [Keys -> {"none", "open", "acked", "rejected"}] /\ overlay' \subseteq Keys
       /\ \A x \in deletions' : x \in [key : Keys, m : Nat, sent : BOOLEAN]
  BY <1>1, Reading
<1>13. PICK es \in Seq(EntryType) : es = Entries(seq)
  BY <1>7
<1>14. /\ pages'[s].kind = pages[s].kind /\ pages'[s].room = r /\ pages'[s].base = pages[s].base
       /\ pages'[s].items = es /\ pages'[s].at = Len(log[r]) /\ pages'[s].phase = "served"
       /\ DOMAIN es = 1..n /\ \A i \in 1..n : es[i].m = seq[i]
       /\ stored' = stored /\ log' = log
  BY <1>8, <1>9, <1>11, <1>12, <1>13
<1>15. /\ \A i, j \in 1..n : i < j => seq[i] < seq[j]
       /\ \A m \in Listed(r, before), i \in 1..n : m > seq[i] => \E j \in 1..n : seq[j] = m
       /\ n = PageSize \/ \A m \in Listed(r, before) : \E i \in 1..n : seq[i] = m
  <2> HIDE DEF before
  <2> QED BY <1>2, <1>3, <1>6 DEF PagesOf
<1>16. ItemsInOrder(s)'
  <2>1. \A i \in 1..n :
          /\ es[i].m \in Messages /\ stored[es[i].m].room = r
          /\ pages[s].kind = "more" => es[i].m < pages[s].base[1].m
    BY <1>6, <1>14
  <2>2. \A i, j \in 1..n : i < j => es[i].m < es[j].m
    BY <1>14, <1>15
  <2> QED BY <1>14, <2>1, <2>2 DEF ItemsInOrder, Under, Messages
<1>17. ItemsComplete(s)'
  <2>1. ASSUME NEW m \in Messages, stored[m].room = r, ~stored[m].deleted,
               pages[s].kind = "more" => m < pages[s].base[1].m,
               es = <<>> \/ m >= es[1].m
        PROVE  \E i \in 1..n : es[i].m = m
    <3>1. m \in Listed(r, before)
      <4>1. m \in Nat /\ m <= MaxMessages /\ MaxMessages \in Nat
        BY BoundsAssumption DEF VInv, Typed, Messages
      <4> QED BY <2>1, <4>1 DEF Listed
    <3> HIDE DEF before
    <3>2. CASE n = 0
      BY <3>1, <3>2, <1>14, <1>15, BoundsAssumption
    <3>3. CASE n # 0
      <4>1. 1 \in 1..n /\ es # <<>>
        BY <1>6, <1>14, <3>3
      <4>2. m >= seq[1] /\ m \in Nat /\ seq[1] \in Nat
        BY <2>1, <4>1, <1>6, <1>14 DEF VInv, Typed, Messages
      <4>3. CASE m = seq[1]
        BY <4>1, <4>3, <1>14
      <4>4. CASE m > seq[1]
        <5>1. \E j \in 1..n : seq[j] = m
          BY <1>15, <3>1, <4>1, <4>4
        <5> QED BY <5>1, <1>14
      <4> QED BY <4>2, <4>3, <4>4
    <3> QED BY <3>2, <3>3
  <2> QED BY <1>14, <2>1 DEF ItemsComplete, Under, Messages
<1>18. ItemsFresh(s)'
  <2>1. ASSUME NEW i \in 1..n
        PROVE  /\ (\E j \in 1..Len(log[r]) : log[r][j] = [type |-> "edited", m |-> es[i].m])
                    => es[i].text # "first"
               /\ ~\E j \in 1..Len(log[r]) : log[r][j] = [type |-> "deleted", m |-> es[i].m]
    <3>1. \A j \in 1..Len(log[r]) :
            /\ log[r][j].type = "edited" => stored[log[r][j].m].edited
            /\ log[r][j].type = "deleted" => stored[log[r][j].m].deleted
      BY DEF VInv, LogSound, EventSound
    <3>2. (\E j \in 1..Len(log[r]) : log[r][j] = [type |-> "edited", m |-> es[i].m])
            => stored[es[i].m].edited
      BY <3>1
    <3>3. (\E j \in 1..Len(log[r]) : log[r][j] = [type |-> "deleted", m |-> es[i].m])
            => stored[es[i].m].deleted
      BY <3>1
    <3>4. ~stored[es[i].m].deleted /\ (stored[es[i].m].edited => es[i].text # "first")
      BY <1>6, <1>8, <1>13, <1>14
    <3> QED BY <3>2, <3>3, <3>4
  <2> QED BY <1>14, <2>1 DEF ItemsFresh, Occurs
<1>19. BaseSound(s)' /\ (~unordered => BaseOrdered(s)')
  <2>1. BaseSound(s) /\ (~unordered => BaseOrdered(s))
    BY DEF VInv, PagesSound, PageSound, OnceEach
  <2>2. BaseSound(s)'
    BY <2>1, <1>14 DEF BaseSound, Messages
  <2>3. ~unordered => BaseOrdered(s)'
    BY <2>1, <1>3, <1>14 DEF BaseOrdered, Distinct
  <2> QED BY <2>2, <2>3
<1>20. PageSound(s)'
  BY <1>4, <1>14, <1>19, <1>16, <1>17, <1>18 DEF PageSound
<1>21. PagesSound' /\ (~unordered => \A t \in Slots : t # s => BaseOrdered(t)')
  BY <1>11, <1>12, <1>20, OtherPages
<1>22. OnceEach'
  <2>1. (\A i, j \in DOMAIN list : list[i].m = list[j].m => i = j)
          => \A i, j \in DOMAIN list' : list'[i].m = list'[j].m => i = j
    BY <1>1
  <2> QED BY <1>1, <1>19, <1>21, <2>1 DEF VInv, OnceEach, Distinct
<1>23. ListKnown' /\ UpToDate'
  BY <1>1, <1>12, ListKept DEF VInv
<1>24. Typed'
  BY <1>1, <1>11, <1>12 DEF VInv, Typed
<1> QED BY <1>12, <1>21, <1>22, <1>23, <1>24 DEF VInv

(* A page that no applied event has passed says what has been applied. *)
LEMMA PageFacts ==
  ASSUME VInv, NEW s \in Slots, pages[s].phase = "served", pages[s].room = current, ~Passed(pages[s])
  PROVE  /\ current \in Rooms
         /\ \A t, m : stored[m].room = current /\ Applied(t, m) => Occurs(current, pages[s].at, t, m)
<1>1. current \in Rooms
  BY DEF VInv, PagesSound, PageSound
<1>2. pages[s].at \in Nat /\ cursor[current] \in Nat
  BY <1>1 DEF VInv, Typed, PageType
<1>3. cursor[current] <= pages[s].at
  BY <1>2 DEF Passed
<1>4. 1..cursor[current] \subseteq 1..pages[s].at
  BY <1>2, <1>3
<1> QED BY <1>1, <1>4 DEF Applied, Occurs

LEMMA ArriveFetchInv ==
  ASSUME VInv, NEW s \in Slots, ArriveFetch(s)
  PROVE  VInv'
<1> DEFINE p == pages[s]
<1>1. /\ p.kind = "fetch" /\ p.phase = "served" /\ list' = p.items /\ Done(s)
      /\ overtaken' = (p.room # current \/ Passed(p))
      /\ UNCHANGED <<server, cursor, rows, overlay, deletions, hasty, replayed>>
      /\ UNCHANGED <<current, unordered>>
  BY DEF ArriveFetch, outbox, past
<1>2. /\ ServerKeeps /\ LogSound' /\ KeysSound' /\ DeletionsSound' /\ OverlaySound'
      /\ stored' = stored /\ log' = log /\ stored' \in Seq(MessageType) /\ Len(stored') <= MaxMessages
      /\ log' \in [Rooms -> Seq(EventType)] /\ cursor' \in [Rooms -> Nat]
      /\ rows' \in [Keys -> {"none", "open", "acked", "rejected"}] /\ overlay' \subseteq Keys
      /\ \A d \in deletions' : d \in [key : Keys, m : Nat, sent : BOOLEAN]
  BY <1>1, Reading
<1>3. /\ pages' \in [Slots -> PageType] /\ PageSound(s)' /\ BaseOrdered(s)'
      /\ \A t \in Slots : t # s => pages'[t] = pages[t]
  BY <1>1, Ending
<1>4. p \in PageType /\ p.items \in Seq(EntryType) /\ DOMAIN p.items = 1..Len(p.items)
  BY DEF VInv, Typed, PageType
<1>5. ItemsInOrder(s) /\ ItemsComplete(s) /\ ItemsFresh(s)
  BY <1>1 DEF VInv, PagesSound, PageSound
<1>6. Typed'
  BY <1>1, <1>2, <1>3, <1>4 DEF VInv, Typed
<1>7. PagesSound' /\ (~unordered => \A t \in Slots : t # s => BaseOrdered(t)')
  BY <1>2, <1>3, OtherPages
<1>8. ListKnown'
  BY <1>1, <1>2, <1>5 DEF ListKnown, ItemsInOrder, Messages
<1>9. OnceEach'
  <2>1. \A i, j \in DOMAIN p.items : p.items[i].m = p.items[j].m => i = j
    <3> SUFFICES ASSUME NEW i \in DOMAIN p.items, NEW j \in DOMAIN p.items, p.items[i].m = p.items[j].m, i # j
                 PROVE  FALSE
      OBVIOUS
    <3>1. i < j \/ j < i
      BY <1>4
    <3>2. p.items[i] \in EntryType /\ p.items[j] \in EntryType
      BY <1>4
    <3>3. p.items[i].m \in Nat /\ p.items[j].m \in Nat
      BY <3>2 DEF EntryType
    <3>4. \A x, y \in DOMAIN p.items : x < y => p.items[x].m < p.items[y].m
      BY <1>5 DEF ItemsInOrder
    <3> HIDE DEF p
    <3> QED BY <3>1, <3>3, <3>4
  <2> QED BY <1>1, <1>3, <1>7, <2>1 DEF OnceEach, Distinct
<1>10. UpToDate'
  <2> SUFFICES ASSUME p.room = current, ~Passed(p)
               PROVE  Complete' /\ Fresh'
    BY <1>1 DEF UpToDate
  <2>1. /\ current \in Rooms
        /\ \A t, m : stored[m].room = current /\ Applied(t, m) => Occurs(current, p.at, t, m)
    BY <1>1, PageFacts
  <2>2. \A t, m : Applied(t, m)' <=> Applied(t, m)
    BY <1>1 DEF Applied, server
  <2>3. Complete'
    <3> SUFFICES ASSUME NEW m \in Messages, stored[m].room = current, Applied("created", m),
                        ~stored[m].deleted, p.items = <<>> \/ m >= p.items[1].m
                 PROVE  \E i \in DOMAIN p.items : p.items[i].m = m
      BY <1>1, <1>2, <2>2 DEF Complete, Projected, Messages
    <3>1. Occurs(current, p.at, "created", m)
      BY <2>1
    <3> QED BY <1>1, <1>5, <3>1 DEF ItemsComplete, Under
  <2>4. Fresh'
    <3> SUFFICES ASSUME NEW m \in Messages, NEW i \in DOMAIN p.items, p.items[i].m = m,
                        stored[m].room = current
                 PROVE  /\ Applied("edited", m) => p.items[i].text # "first"
                        /\ ~Applied("deleted", m)
      BY <1>1, <1>2, <2>2 DEF Fresh, Messages
    <3> QED BY <1>5, <2>1 DEF ItemsFresh
  <2> QED BY <2>3, <2>4
<1> QED BY <1>2, <1>6, <1>7, <1>8, <1>9, <1>10 DEF VInv

LEMMA ArriveMoreInv ==
  ASSUME VInv, NEW s \in Slots, ArriveMore(s)
  PROVE  VInv'
<1> DEFINE p == pages[s]
           l == p.items \o p.base
<1>1. /\ p.kind = "more" /\ p.phase = "served" /\ Done(s)
      /\ list' = IF p.items = <<>> THEN list ELSE l
      /\ overtaken' = (overtaken \/ p.room # current \/ p.base # list \/ Passed(p))
      /\ UNCHANGED <<server, cursor, rows, overlay, deletions, hasty, replayed>>
      /\ UNCHANGED <<current, unordered>>
  BY DEF ArriveMore, outbox, past
<1>2. /\ ServerKeeps /\ LogSound' /\ KeysSound' /\ DeletionsSound' /\ OverlaySound'
      /\ stored' = stored /\ log' = log /\ stored' \in Seq(MessageType) /\ Len(stored') <= MaxMessages
      /\ log' \in [Rooms -> Seq(EventType)] /\ cursor' \in [Rooms -> Nat]
      /\ rows' \in [Keys -> {"none", "open", "acked", "rejected"}] /\ overlay' \subseteq Keys
      /\ \A d \in deletions' : d \in [key : Keys, m : Nat, sent : BOOLEAN]
  BY <1>1, Reading
<1>3. /\ pages' \in [Slots -> PageType] /\ PageSound(s)' /\ BaseOrdered(s)'
      /\ \A t \in Slots : t # s => pages'[t] = pages[t]
  BY <1>1, Ending
<1>4. PICK items \in Seq(EntryType) : items = p.items
  BY DEF VInv, Typed, PageType
<1>5. PICK base \in Seq(EntryType) : base = p.base
  BY DEF VInv, Typed, PageType
<1>6. ItemsInOrder(s) /\ ItemsComplete(s) /\ ItemsFresh(s) /\ BaseSound(s)
  BY <1>1 DEF VInv, PagesSound, PageSound
<1>7. /\ base # <<>> /\ \A i \in DOMAIN base : base[i].m \in Messages
      /\ \A i \in DOMAIN items : items[i].m \in Messages /\ stored[items[i].m].room = p.room
                                 /\ items[i].m < base[1].m
      /\ \A i, j \in DOMAIN items : i < j => items[i].m < items[j].m
  BY <1>1, <1>4, <1>5, <1>6 DEF BaseSound, ItemsInOrder, Under
<1>8. /\ l = items \o base /\ l \in Seq(EntryType) /\ Len(l) = Len(items) + Len(base)
      /\ DOMAIN items = 1..Len(items) /\ DOMAIN base = 1..Len(base) /\ DOMAIN l = 1..Len(l)
      /\ Len(items) \in Nat /\ Len(base) \in Nat
      /\ \A i \in DOMAIN l : l[i] = IF i <= Len(items) THEN items[i] ELSE base[i - Len(items)]
  <2>1. l = items \o base
    BY <1>4, <1>5
  <2> HIDE DEF l
  <2>2. /\ l \in Seq(EntryType) /\ Len(l) = Len(items) + Len(base) /\ DOMAIN l = 1..Len(l)
        /\ DOMAIN items = 1..Len(items) /\ DOMAIN base = 1..Len(base)
        /\ Len(items) \in Nat /\ Len(base) \in Nat
    BY <2>1
  <2>3. \A i \in DOMAIN l : l[i] = IF i <= Len(items) THEN items[i] ELSE base[i - Len(items)]
    BY <2>1, <2>2
  <2> QED BY <2>1, <2>2, <2>3
<1>9. /\ \A i \in DOMAIN items : i \in DOMAIN l /\ l[i] = items[i]
      /\ \A i \in DOMAIN base : Len(items) + i \in DOMAIN l /\ l[Len(items) + i] = base[i]
      /\ \A i \in DOMAIN l : \/ i \in DOMAIN items /\ l[i] = items[i]
                             \/ i - Len(items) \in DOMAIN base /\ l[i] = base[i - Len(items)]
  <2> HIDE DEF l
  <2> QED BY <1>8
<1>10. \A i \in DOMAIN items : items[i].m \in Nat
  BY <1>7 DEF VInv, Typed, Messages
<1>11. \A i \in DOMAIN base : base[i].m \in Nat
  BY <1>7 DEF VInv, Typed, Messages
<1>12. Typed'
  <2>1. list' \in Seq(EntryType)
    BY <1>1, <1>8 DEF VInv, Typed
  <2> QED BY <1>1, <1>2, <1>3, <2>1 DEF VInv, Typed
<1>13. PagesSound' /\ (~unordered => \A t \in Slots : t # s => BaseOrdered(t)')
  BY <1>2, <1>3, OtherPages
<1>14. ListKnown'
  <2>1. \A i \in DOMAIN l : l[i].m \in Messages
    <3> HIDE DEF l
    <3> QED BY <1>7, <1>9
  <2>2. \A i \in DOMAIN list : list[i].m \in Messages
    BY DEF VInv, ListKnown
  <2> HIDE DEF l
  <2> QED BY <1>1, <1>2, <2>1, <2>2 DEF ListKnown, Messages
<1>15. OnceEach'
  <2> SUFFICES ASSUME ~unordered
               PROVE  OnceEach'
    BY <1>1 DEF OnceEach
  <2>1. /\ \A i, j \in DOMAIN base : base[i].m = base[j].m => i = j
        /\ \A i \in DOMAIN base : stored[base[i].m].room = p.room => base[i].m >= base[1].m
        /\ \A i, j \in DOMAIN list : list[i].m = list[j].m => i = j
    BY <1>1, <1>5 DEF VInv, OnceEach, BaseOrdered, Distinct
  <2>2. \A i, j \in DOMAIN l : l[i].m = l[j].m => i = j
    <3> SUFFICES ASSUME NEW i \in DOMAIN l, NEW j \in DOMAIN l, l[i].m = l[j].m, i < j
                 PROVE  FALSE
      BY <1>8
    <3>1. CASE i \in DOMAIN items /\ j \in DOMAIN items
      <4>1. l[i] = items[i] /\ l[j] = items[j]
        BY <3>1, <1>9
      <4> HIDE DEF l
      <4> QED BY <3>1, <4>1, <1>7, <1>10
    <3>2. CASE i \in DOMAIN items /\ j \notin DOMAIN items
      <4> DEFINE k == j - Len(items)
      <4>1. k \in DOMAIN base /\ l[i] = items[i] /\ l[j] = base[k]
        BY <3>2, <1>9
      <4>2. items[i].m = base[k].m
        BY <4>1
      <4>3. stored[base[k].m].room = p.room /\ items[i].m < base[1].m /\ items[i].m \in Nat /\ base[1].m \in Nat
        BY <3>2, <4>2, <1>7, <1>8, <1>10, <1>11
      <4>4. base[k].m >= base[1].m
        BY <2>1, <4>1, <4>3
      <4> QED BY <4>2, <4>3, <4>4
    <3>3. CASE i \notin DOMAIN items
      <4>1. i - Len(items) \in DOMAIN base /\ l[i] = base[i - Len(items)] /\ j \notin DOMAIN items
        BY <3>3, <1>8, <1>9
      <4>2. j - Len(items) \in DOMAIN base /\ l[j] = base[j - Len(items)]
        BY <4>1, <1>9
      <4>3. base[i - Len(items)].m = base[j - Len(items)].m
        BY <4>1, <4>2
      <4>4. i - Len(items) = j - Len(items)
        BY <4>1, <4>2, <4>3, <2>1
      <4> QED BY <4>4, <1>8
    <3> QED BY <3>1, <3>2, <3>3
  <2>3. \A i, j \in DOMAIN list' : list'[i].m = list'[j].m => i = j
    <3> HIDE DEF l
    <3> QED BY <1>1, <2>1, <2>2
  <2> QED BY <1>1, <1>3, <1>13, <2>3 DEF OnceEach, Distinct
<1>16. UpToDate'
  <2> SUFFICES ASSUME ~overtaken, ~unordered, p.room = current, p.base = list, ~Passed(p)
               PROVE  Complete' /\ Fresh'
    BY <1>1 DEF UpToDate
  <2>1. /\ current \in Rooms
        /\ \A t, m : stored[m].room = current /\ Applied(t, m) => Occurs(current, p.at, t, m)
    BY <1>1, PageFacts
  <2>2. \A t, m : Applied(t, m)' <=> Applied(t, m)
    BY <1>1 DEF Applied, server
  <2>3. Complete /\ Fresh /\ base = list
    BY <1>5 DEF VInv, UpToDate
  <2>4. CASE items = <<>>
    <3>1. list' = list
      BY <1>1, <1>4, <2>4
    <3> QED BY <1>1, <1>2, <2>2, <2>3, <3>1 DEF Complete, Fresh, Projected, Messages
  <2>5. CASE items # <<>>
    <3>1. list' = l /\ 1 \in DOMAIN items /\ l # <<>> /\ l[1] = items[1]
      BY <1>1, <1>4, <1>8, <1>9, <2>5
    <3> HIDE DEF l
    <3>2. Complete'
      <4> SUFFICES ASSUME NEW m \in Messages, stored[m].room = current, Projected(m),
                          ~stored[m].deleted, m >= items[1].m
                   PROVE  \E i \in DOMAIN l : l[i].m = m
        <5>1. /\ stored' = stored /\ current' = current /\ Messages' = Messages
              /\ \A m : Projected(m)' <=> Projected(m)
          BY <1>1, <1>2, <2>2 DEF Projected, Messages, server
        <5> QED BY <3>1, <5>1 DEF Complete
      <4>1. m \in Nat
        BY DEF VInv, Typed, Messages
      <4>2. CASE m >= base[1].m
        <5>1. PICK i \in DOMAIN base : base[i].m = m
          BY <2>3, <4>2 DEF Complete
        <5> QED BY <5>1, <1>9
      <4>3. CASE ~(m >= base[1].m)
        <5>1. m < base[1].m
          <6>1. base[1].m \in Nat
            BY <1>7, <1>8, <1>11, SMTT(30)
          <6> QED BY <4>1, <4>3, <6>1
        <5>2. Occurs(current, p.at, "created", m)
          BY <2>1 DEF Projected
        <5>3. PICK i \in DOMAIN items : items[i].m = m
          BY <1>1, <1>4, <1>5, <1>6, <5>1, <5>2 DEF ItemsComplete, Under
        <5> QED BY <5>3, <1>9
      <4> QED BY <4>2, <4>3
    <3>3. Fresh'
      <4> SUFFICES ASSUME NEW m \in Messages, NEW i \in DOMAIN l, l[i].m = m, stored[m].room = current
                   PROVE  /\ Applied("edited", m) => l[i].deleted \/ l[i].text # "first"
                          /\ Applied("deleted", m) => l[i].deleted
        BY <1>1, <1>2, <2>2, <3>1 DEF Fresh, Messages
      <4>1. CASE i \in DOMAIN items /\ l[i] = items[i]
        <5>1. /\ Occurs(current, p.at, "edited", items[i].m) => items[i].text # "first"
              /\ ~Occurs(current, p.at, "deleted", items[i].m)
          BY <4>1, <1>4, <1>6 DEF ItemsFresh
        <5> QED BY <4>1, <5>1, <2>1
      <4>2. CASE i - Len(items) \in DOMAIN base /\ l[i] = base[i - Len(items)]
        BY <4>2, <2>3 DEF Fresh
      <4> QED BY <4>1, <4>2, <1>9
    <3> QED BY <3>2, <3>3
  <2> QED BY <2>4, <2>5
<1> QED BY <1>2, <1>12, <1>13, <1>14, <1>15, <1>16 DEF VInv

-----------------------------------------------------------------------------
(* What an event changes. *)

(* An update leaves the messages in their places and never makes an entry  *)
(* newer; in a list without doubles it reaches the entry it is about.      *)
LEMMA Updates ==
  ASSUME Typed, NEW m, NEW new, new = SetText(m, "blank") \/ new = SetDeleted(m)
  PROVE  /\ new \in Seq(EntryType) /\ DOMAIN new = DOMAIN list
         /\ \A i \in DOMAIN list :
              /\ new[i].m = list[i].m
              /\ list[i].deleted => new[i].deleted
              /\ list[i].text # "first" => new[i].text # "first"
         /\ Distinct(list) => \A i \in DOMAIN list : list[i].m = m =>
              /\ new = SetText(m, "blank") => new[i].text = "blank"
              /\ new = SetDeleted(m) => new[i].deleted
<1> DEFINE S == {i \in DOMAIN list : list[i].m = m}
<1>1. list \in Seq(EntryType)
  BY DEF Typed
(* A list changed in one place. *)
<1>2. ASSUME NEW first, NEW z, first \in DOMAIN list => z \in EntryType, NEW f,
             f = [list EXCEPT ![first] = z]
      PROVE  /\ f \in Seq(EntryType) /\ DOMAIN f = DOMAIN list
             /\ \A i \in DOMAIN list : f[i] = IF i = first THEN z ELSE list[i]
  <2>1. CASE first \in DOMAIN list
    BY <1>1, <1>2, <2>1
  <2>2. CASE first \notin DOMAIN list
    <3>1. f = list
      BY <1>1, <1>2, <2>2
    <3> QED BY <1>1, <2>2, <3>1
  <2> QED BY <2>1, <2>2
<1>3. CASE S = {}
  <2>1. SetText(m, "blank") = list /\ SetDeleted(m) = list
    BY <1>3 DEF SetText, SetDeleted, Change
  <2> QED BY <1>1, <1>3, <2>1
<1>4. CASE S # {}
  <2> DEFINE first == CHOOSE i \in S : \A j \in S : i <= j
  <2>1. PICK x, y :
          /\ x = [list[first] EXCEPT !.text = "blank"]
          /\ y = [list[first] EXCEPT !.deleted = TRUE, !.text = "blank"]
          /\ SetText(m, "blank") = [list EXCEPT ![first] = x]
          /\ SetDeleted(m) = [list EXCEPT ![first] = y]
    BY <1>4 DEF SetText, SetDeleted, Change
  <2>2. Distinct(list) => \A i \in S : i = first
    <3> SUFFICES ASSUME Distinct(list), NEW i \in S
                 PROVE  i = first
      OBVIOUS
    <3>1. \A j \in S : j = i
      BY DEF Distinct
    <3>2. i \in Nat
      BY <1>1
    <3>3. i \in S /\ \A j \in S : i <= j
      BY <3>1, <3>2
    <3>4. first \in S
      BY <3>3
    <3> QED BY <3>1, <3>4
  <2> HIDE DEF first
  <2>3. first \in DOMAIN list =>
          /\ x \in EntryType /\ x.m = list[first].m /\ x.deleted = list[first].deleted /\ x.text = "blank"
          /\ y \in EntryType /\ y.m = list[first].m /\ y.deleted = TRUE /\ y.text = "blank"
    <3> SUFFICES ASSUME first \in DOMAIN list
                 PROVE  /\ x \in EntryType /\ x.m = list[first].m /\ x.deleted = list[first].deleted
                        /\ x.text = "blank"
                        /\ y \in EntryType /\ y.m = list[first].m /\ y.deleted = TRUE /\ y.text = "blank"
      OBVIOUS
    <3>1. PICK e \in EntryType : e = list[first]
      BY <1>1
    <3>2. x = [e EXCEPT !.text = "blank"] /\ y = [e EXCEPT !.deleted = TRUE, !.text = "blank"]
      BY <2>1, <3>1
    <3>3. x \in EntryType /\ x.m = e.m /\ x.deleted = e.deleted /\ x.text = "blank"
      BY <3>2 DEF EntryType
    <3>4. y \in EntryType /\ y.m = e.m /\ y.deleted = TRUE /\ y.text = "blank"
      BY <3>2 DEF EntryType
    <3> QED BY <3>1, <3>3, <3>4
  <2>4. /\ DOMAIN SetText(m, "blank") = DOMAIN list /\ DOMAIN SetDeleted(m) = DOMAIN list
        /\ SetText(m, "blank") \in Seq(EntryType) /\ SetDeleted(m) \in Seq(EntryType)
        /\ \A i \in DOMAIN list :
             /\ SetText(m, "blank")[i] = IF i = first THEN x ELSE list[i]
             /\ SetDeleted(m)[i] = IF i = first THEN y ELSE list[i]
    <3>1. /\ SetText(m, "blank") = [list EXCEPT ![first] = x]
          /\ SetDeleted(m) = [list EXCEPT ![first] = y]
          /\ first \in DOMAIN list => x \in EntryType /\ y \in EntryType
      BY <2>1, <2>3
    <3>2. /\ DOMAIN SetText(m, "blank") = DOMAIN list /\ SetText(m, "blank") \in Seq(EntryType)
          /\ \A i \in DOMAIN list : SetText(m, "blank")[i] = IF i = first THEN x ELSE list[i]
      BY <1>2, <3>1
    <3>3. /\ DOMAIN SetDeleted(m) = DOMAIN list /\ SetDeleted(m) \in Seq(EntryType)
          /\ \A i \in DOMAIN list : SetDeleted(m)[i] = IF i = first THEN y ELSE list[i]
      BY <1>2, <3>1
    <3> QED BY <3>2, <3>3
  <2>5. ASSUME NEW i \in DOMAIN list
        PROVE  /\ new[i].m = list[i].m
               /\ list[i].deleted => new[i].deleted
               /\ list[i].text # "first" => new[i].text # "first"
    BY <2>3, <2>4
  <2>6. Distinct(list) => \A i \in S : SetText(m, "blank")[i].text = "blank" /\ SetDeleted(m)[i].deleted
    BY <2>2, <2>3, <2>4
  <2> QED BY <2>4, <2>5, <2>6
<1> QED BY <1>3, <1>4

LEMMA ApplyEventInv ==
  ASSUME VInv, NEW r \in Rooms, ApplyEvent(r)
  PROVE  VInv'
<1>1. /\ cursor[r] < Len(log[r]) /\ cursor' = [cursor EXCEPT ![r] = cursor[r] + 1]
      /\ UNCHANGED server
      /\ UNCHANGED <<current, pages, rows, deletions, overtaken, unordered, hasty, replayed>>
      /\ stored' = stored /\ log' = log
  BY DEF ApplyEvent, window, history, past, server
<1>2. cursor[r] \in Nat /\ Len(log[r]) \in Nat /\ log[r] \in Seq(EventType) /\ cursor \in [Rooms -> Nat]
  BY DEF VInv, Typed
<1>3. PICK n \in 1..Len(log[r]) : n = cursor[r] + 1
  BY <1>1, <1>2
<1>4. PICK e \in EventType : e = log[r][n]
  BY <1>2
<1>5. /\ list' = ListAfter(e)
      /\ overlay' = IF e.type = "created" THEN Resolved(e.m) ELSE overlay
  BY <1>3, <1>4 DEF ApplyEvent
<1>6. PICK m \in Messages : m = e.m
  BY <1>4 DEF VInv, LogSound, EventSound
<1>7. /\ stored[m].room = r /\ e = [type |-> e.type, m |-> m]
      /\ e.type \in {"created", "edited", "deleted"}
      /\ e.type # "created" => Applied("created", m)
      /\ e.type = "created" => \A i \in 1..Len(log[r]) : log[r][i] = e => i = n
  <2>1. EventSound(r, n) /\ n - 1 = cursor[r]
    BY <1>2, <1>3 DEF VInv, LogSound
  <2>2. stored[m].room = r
    BY <1>4, <1>6, <2>1 DEF EventSound
  <2>3. e.type # "created" => Applied("created", m)
    BY <1>4, <1>6, <2>1, <2>2 DEF EventSound, Occurs, Applied
  <2>4. e.type = "created" => \A i \in 1..Len(log[r]) : log[r][i] = e => i = n
    BY <1>4, <2>1 DEF EventSound
  <2>5. e = [type |-> e.type, m |-> m] /\ e.type \in {"created", "edited", "deleted"}
    BY <1>6 DEF EventType
  <2> QED BY <2>2, <2>3, <2>4, <2>5
<1>8. /\ cursor' \in [Rooms -> Nat] /\ cursor'[r] = n
      /\ \A q \in Rooms : q # r => cursor'[q] = cursor[q]
  BY <1>1, <1>2, <1>3
(* What has been applied is what was, and this event. *)
<1>9. ASSUME NEW t, NEW x \in Messages
      PROVE  Applied(t, x)' <=> Applied(t, x) \/ e = [type |-> t, m |-> x]
  <2>1. Applied(t, x)' <=> \E i \in 1..cursor'[stored[x].room] :
                            log[stored[x].room][i] = [type |-> t, m |-> x]
    BY <1>1 DEF Applied
  <2>2. CASE stored[x].room = r
    <3>1. 1..n = 1..cursor[r] \cup {n}
      BY <1>2, <1>3
    <3> QED BY <2>1, <2>2, <3>1, <1>4, <1>8 DEF Applied
  <2>3. CASE stored[x].room # r
    <3>1. stored[x].room \in Rooms
      <4>1. stored[x] \in MessageType
        BY DEF VInv, Typed, Messages
      <4> QED BY <4>1 DEF MessageType
    <3>2. e # [type |-> t, m |-> x]
      BY <2>3, <1>6, <1>7
    <3> QED BY <2>1, <2>3, <3>1, <3>2, <1>8 DEF Applied
  <2> QED BY <2>2, <2>3
(* Nothing has been applied of a message just created. *)
<1>10. e.type = "created" => ~Applied("edited", m) /\ ~Applied("deleted", m) /\ ~Applied("created", m)
  <2> SUFFICES ASSUME e.type = "created", NEW t \in {"created", "edited", "deleted"}, Applied(t, m)
               PROVE  FALSE
    OBVIOUS
  <2>1. PICK i \in 1..cursor[r] : log[r][i] = [type |-> t, m |-> m]
    BY <1>7 DEF Applied
  <2>2. i \in 1..Len(log[r]) /\ i < n /\ i \in Nat
    BY <1>1, <1>2, <1>3
  <2>3. EventSound(r, i) /\ log[r][i].type = t /\ log[r][i].m = m
    BY <2>1, <2>2 DEF VInv, LogSound
  <2>4. CASE t = "created"
    BY <2>1, <2>2, <2>4, <1>7
  <2>5. CASE t # "created"
    <3>1. PICK j \in 1..(i - 1) : log[r][j] = [type |-> "created", m |-> m]
      BY <2>3, <2>5 DEF EventSound, Occurs
    <3>2. j \in 1..Len(log[r]) /\ j < n
      BY <2>2, <1>3, <1>2
    <3> QED BY <3>1, <3>2, <1>7
  <2> QED BY <2>4, <2>5
<1>11. /\ ServerKeeps /\ stored' \in Seq(MessageType) /\ Len(stored') <= MaxMessages
       /\ log' \in [Rooms -> Seq(EventType)]
  BY <1>1, Idle
<1>12. LogSound' /\ KeysSound'
  <2>1. \A q \in Rooms : cursor'[q] <= Len(log[q])
    BY <1>2, <1>3, <1>8 DEF VInv, LogSound
  <2>2. LogSound'
    <3>1. stored' = stored /\ log' = log /\ Messages' = Messages /\ LogSound
      BY <1>1 DEF VInv, Messages
    <3>2. \A q, i : EventSound(q, i) => EventSound(q, i)'
      BY <3>1 DEF EventSound, Occurs
    <3>3. \A q, i, t, x : Occurs(q, i, t, x) => Occurs(q, i, t, x)'
      BY <3>1 DEF Occurs
    <3> QED BY <2>1, <3>1, <3>2, <3>3 DEF LogSound
  <2>3. KeysSound'
    BY <1>1 DEF VInv, KeysSound, Messages
  <2> QED BY <2>2, <2>3
(* The list: entries stay, and at most a message not yet there is added. *)
<1>13. list \in Seq(EntryType) /\ Len(list) \in Nat /\ DOMAIN list = 1..Len(list)
  BY DEF VInv, Typed
<1>14. /\ list' \in Seq(EntryType)
       /\ \A i \in DOMAIN list :
            /\ i \in DOMAIN list' /\ list'[i].m = list[i].m
            /\ list[i].deleted => list'[i].deleted
            /\ list[i].text # "first" => list'[i].text # "first"
       /\ \A i \in DOMAIN list' :
            \/ i \in DOMAIN list
            \/ /\ e.type = "created" /\ i = Len(list) + 1 /\ list'[i].m = m
               /\ \A j \in DOMAIN list : list[j].m # m
       /\ e.type = "created" => \E i \in DOMAIN list' : list'[i].m = m
       /\ Distinct(list) /\ Projected(m) => \A i \in DOMAIN list : list[i].m = m =>
            /\ e.type = "edited" => list'[i].text = "blank"
            /\ e.type = "deleted" => list'[i].deleted
  <2>1. CASE e.type = "created" /\ \E i \in DOMAIN list : list[i].m = m
    <3>1. list' = list
      BY <2>1, <1>5, <1>6 DEF ListAfter, AddMessage
    <3> QED BY <2>1, <3>1, <1>13
  <2>2. CASE e.type = "created" /\ ~\E i \in DOMAIN list : list[i].m = m
    <3>1. list' = Append(list, Entry(m, "first"))
      BY <2>2, <1>5, <1>6 DEF ListAfter, AddMessage
    <3>2. m \in Nat
      BY DEF VInv, Typed, Messages
    <3>3. Entry(m, "first") \in EntryType /\ Entry(m, "first").m = m
      BY <3>2 DEF Entry, EntryType
    <3>4. PICK x \in EntryType : x = Entry(m, "first")
      BY <3>3
    <3>5. /\ list' \in Seq(EntryType) /\ DOMAIN list' = 1..(Len(list) + 1)
          /\ \A i \in DOMAIN list : list'[i] = list[i]
          /\ list'[Len(list) + 1] = x
      BY <1>13, <3>1, <3>4
    <3> QED BY <2>2, <3>3, <3>4, <3>5, <1>13
  <2>3. CASE e.type # "created" /\ ~Projected(m)
    <3>1. list' = list
      BY <2>3, <1>5, <1>6, <1>7 DEF ListAfter
    <3> QED BY <2>3, <3>1, <1>13
  <2>4. CASE e.type = "edited" /\ Projected(m)
    <3>1. list' = SetText(m, "blank")
      BY <2>4, <1>5, <1>6 DEF ListAfter
    <3>2. PICK new : new = list'
      OBVIOUS
    <3>3. /\ new \in Seq(EntryType) /\ DOMAIN new = DOMAIN list
          /\ \A i \in DOMAIN list :
               /\ new[i].m = list[i].m
               /\ list[i].deleted => new[i].deleted
               /\ list[i].text # "first" => new[i].text # "first"
          /\ Distinct(list) => \A i \in DOMAIN list : list[i].m = m => new[i].text = "blank"
      BY <3>1, <3>2, Updates DEF VInv
    <3> QED BY <2>4, <3>2, <3>3
  <2>5. CASE e.type = "deleted" /\ Projected(m)
    <3>1. list' = SetDeleted(m)
      BY <2>5, <1>5, <1>6 DEF ListAfter
    <3>2. PICK new : new = list'
      OBVIOUS
    <3>3. /\ new \in Seq(EntryType) /\ DOMAIN new = DOMAIN list
          /\ \A i \in DOMAIN list :
               /\ new[i].m = list[i].m
               /\ list[i].deleted => new[i].deleted
               /\ list[i].text # "first" => new[i].text # "first"
          /\ Distinct(list) => \A i \in DOMAIN list : list[i].m = m => new[i].deleted
      BY <3>1, <3>2, Updates DEF VInv
    <3> QED BY <2>5, <3>2, <3>3
  <2> QED BY <2>1, <2>2, <2>3, <2>4, <2>5, <1>7
<1>15. overlay' \subseteq overlay /\ (e.type = "created" => stored[m].key \notin overlay')
  BY <1>5, <1>6 DEF Resolved
<1>16. Typed'
  <2>1. overlay' \subseteq Keys
    BY <1>15 DEF VInv, Typed
  <2> QED BY <1>1, <1>8, <1>11, <1>14, <2>1 DEF VInv, Typed
<1>17. ListKnown'
  <2>1. \A i \in DOMAIN list : list[i].m \in Messages
    BY DEF VInv, ListKnown
  <2> QED BY <2>1, <1>1, <1>14 DEF ListKnown, Messages
<1>18. PagesSound' /\ OnceEach'
  <2>1. \A s \in Slots : SamePage(s)
    BY <1>1 DEF SamePage
  <2>2. PagesSound'
    BY <2>1, <1>11, PageKept DEF VInv, PagesSound
  <2>3. ASSUME ~unordered
        PROVE  /\ \A s \in Slots : BaseOrdered(s)'
               /\ \A i, j \in DOMAIN list' : list'[i].m = list'[j].m => i = j
    <3>1. \A s \in Slots : BaseOrdered(s)'
      BY <2>1, <2>3, <1>11, BaseKept DEF VInv, OnceEach, PagesSound, PageSound
    <3>2. \A i, j \in DOMAIN list : list[i].m = list[j].m => i = j
      BY <2>3 DEF VInv, OnceEach, Distinct
    <3>3. \A i, j \in DOMAIN list' : list'[i].m = list'[j].m => i = j
      BY <3>2, <1>14
    <3> QED BY <3>1, <3>3
  <2> QED BY <2>2, <2>3, <1>1 DEF OnceEach, Distinct
<1>19. UpToDate'
  <2> SUFFICES ASSUME ~overtaken, ~unordered
               PROVE  Complete' /\ Fresh'
    BY <1>1 DEF UpToDate
  <2>1. Complete /\ Fresh /\ Distinct(list)
    BY DEF VInv, UpToDate, OnceEach
  <2>2. Complete'
    <3> SUFFICES ASSUME NEW x \in Messages, stored[x].room = current, Projected(x)', ~stored[x].deleted,
                        list' = <<>> \/ x >= list'[1].m
                 PROVE  \E i \in DOMAIN list' : list'[i].m = x
      BY <1>1 DEF Complete, Messages
    <3>1. CASE e = [type |-> "created", m |-> x]
      <4>1. e.type = "created" /\ x = m
        BY <3>1, <1>6
      <4> QED BY <4>1, <1>14
    <3>2. CASE e # [type |-> "created", m |-> x]
      <4>1. Projected(x)
        BY <3>2, <1>9 DEF Projected
      <4>2. list = <<>> \/ x >= list[1].m
        <5> SUFFICES ASSUME list # <<>>
                     PROVE  x >= list[1].m
          OBVIOUS
        <5>1. 1 \in DOMAIN list
          BY <1>13
        <5>2. 1 \in DOMAIN list' /\ list'[1].m = list[1].m /\ list' # <<>>
          BY <5>1, <1>14
        <5> QED BY <5>2
      <4>3. \E i \in DOMAIN list : list[i].m = x
        BY <2>1, <4>1, <4>2 DEF Complete
      <4> QED BY <4>3, <1>14
    <3> QED BY <3>1, <3>2
  <2>3. Fresh'
    <3> SUFFICES ASSUME NEW x \in Messages, NEW i \in DOMAIN list', list'[i].m = x, stored[x].room = current
                 PROVE  /\ Applied("edited", x)' => list'[i].deleted \/ list'[i].text # "first"
                        /\ Applied("deleted", x)' => list'[i].deleted
      BY <1>1 DEF Fresh, Messages
    <3>1. CASE i \in DOMAIN list
      <4>1. list[i].m = x
        BY <3>1, <1>14
      <4>2. /\ Applied("edited", x) => list[i].deleted \/ list[i].text # "first"
            /\ Applied("deleted", x) => list[i].deleted
        BY <2>1, <3>1, <4>1 DEF Fresh
      <4>3. ASSUME e = [type |-> "edited", m |-> x]
            PROVE  list'[i].deleted \/ list'[i].text # "first"
        <5>1. e.type = "edited" /\ x = m
          BY <4>3, <1>6
        <5>2. CASE Projected(m)
          BY <5>1, <5>2, <2>1, <3>1, <4>1, <1>14
        <5>3. CASE ~Projected(m)
          <6>1. Applied("deleted", x)
            BY <5>1, <5>3, <1>7 DEF Projected
          <6> QED BY <6>1, <4>2, <3>1, <1>14
        <5> QED BY <5>2, <5>3
      <4>4. ASSUME e = [type |-> "deleted", m |-> x]
            PROVE  list'[i].deleted
        <5>1. e.type = "deleted" /\ x = m
          BY <4>4, <1>6
        <5>2. CASE Projected(m)
          BY <5>1, <5>2, <2>1, <3>1, <4>1, <1>14
        <5>3. CASE ~Projected(m)
          <6>1. Applied("deleted", x)
            BY <5>1, <5>3, <1>7 DEF Projected
          <6> QED BY <6>1, <4>2, <3>1, <1>14
        <5> QED BY <5>2, <5>3
      <4> QED BY <3>1, <4>2, <4>3, <4>4, <1>9, <1>14
    <3>2. CASE i \notin DOMAIN list
      <4>1. e.type = "created" /\ x = m
        BY <3>2, <1>14
      <4>2. ~Applied("edited", x)' /\ ~Applied("deleted", x)'
        BY <4>1, <1>9, <1>10
      <4> QED BY <4>2
    <3> QED BY <3>1, <3>2
  <2> QED BY <2>2, <2>3
<1>20. DeletionsSound'
  BY <1>1, <1>15 DEF VInv, DeletionsSound, Messages
<1>21. OverlaySound'
  <2>1. \A k \in Keys : rows[k] = "none" => k \notin overlay'
    BY <1>15 DEF VInv, OverlaySound
  <2>2. ASSUME NEW x \in Messages, stored[x].key \in overlay', Applied("created", x)'
        PROVE  stored[x].key \in replayed
    <3>1. e # [type |-> "created", m |-> x]
      <4> SUFFICES ASSUME e = [type |-> "created", m |-> x]
                   PROVE  FALSE
        OBVIOUS
      <4>1. e.type = "created" /\ x = m
        BY <1>6
      <4> QED BY <4>1, <2>2, <1>15
    <3>2. Applied("created", x) /\ stored[x].key \in overlay
      BY <2>2, <3>1, <1>9, <1>15
    <3> QED BY <3>2 DEF VInv, OverlaySound
  <2> QED BY <2>1, <2>2, <1>1 DEF OverlaySound, Messages
<1> QED BY <1>12, <1>16, <1>17, <1>18, <1>19, <1>20, <1>21 DEF VInv

-----------------------------------------------------------------------------
(* The invariant, and the three properties. *)

LEMMA ViewInit ==
  ASSUME Init
  PROVE  VInv
<1>1. NoPage \in PageType /\ NoPage.kind = "none" /\ NoPage.phase = "idle"
  BY DEF NoPage, PageType
<1>2. pages \in [Slots -> PageType] /\ \A s \in Slots : pages[s] = NoPage
  BY <1>1 DEF Init
<1>3. Len(stored) = 0 /\ Messages = {} /\ DOMAIN list = {} /\ stored \in Seq(MessageType) /\ list \in Seq(EntryType)
  BY DEF Init, Messages
<1>4. Len(stored) <= MaxMessages
  BY <1>3, BoundsAssumption
<1>5. log \in [Rooms -> Seq(EventType)] /\ \A r \in Rooms : Len(log[r]) = 0
  BY DEF Init
<1>6. Typed
  BY <1>2, <1>3, <1>4, <1>5 DEF Init, Typed
<1>7. LogSound
  BY <1>3, <1>5 DEF Init, LogSound
<1>8. PagesSound /\ \A s \in Slots : BaseOrdered(s)
  BY <1>1, <1>2 DEF PagesSound, PageSound, BaseSound, BaseOrdered
<1>9. KeysSound /\ ListKnown /\ UpToDate /\ DeletionsSound /\ OverlaySound
  BY <1>3 DEF Init, KeysSound, ListKnown, UpToDate, DeletionsSound, OverlaySound
<1>10. OnceEach
  BY <1>3, <1>8 DEF OnceEach, Distinct
<1> QED BY <1>6, <1>7, <1>8, <1>9, <1>10 DEF VInv

LEMMA ViewStep ==
  ASSUME VInv, [Next]_vars
  PROVE  VInv'
<1>1. CASE UNCHANGED vars
  <2>1. /\ UNCHANGED <<server, cursor, list, current, pages, overtaken, unordered>>
        /\ UNCHANGED <<rows, overlay, deletions, hasty, replayed>>
    BY <1>1 DEF vars, server, window, outbox, history, past
  <2>2. /\ ServerKeeps /\ LogSound' /\ KeysSound' /\ DeletionsSound' /\ OverlaySound'
        /\ stored' \in Seq(MessageType) /\ Len(stored') <= MaxMessages
        /\ log' \in [Rooms -> Seq(EventType)]
    BY <2>1, Reading
  <2>3. /\ \A d \in deletions' : \E c \in deletions : c.key = d.key /\ c.m = d.m
        /\ \A d \in deletions' : d \in [key : Keys, m : Nat, sent : BOOLEAN]
    BY <2>1, SameDeletions
  <2>4. UNCHANGED <<cursor, list, current, pages, rows, overlay, history>>
    BY <1>1, <2>1 DEF vars
  <2> QED BY <2>2, <2>3, <2>4, Watching
<1>2. CASE \E r \in Rooms : Post(r) \/ ApplyEvent(r)
  BY <1>2, PostInv, ApplyEventInv
<1>3. CASE \E m \in Messages : Edit(m) \/ DeleteElsewhere(m)
  BY <1>3, FlagInv
<1>4. CASE \E k \in Keys : SendMessage(k) \/ Accept(k) \/ Acknowledge(k) \/ Reject(k)
  BY <1>4, SendMessageInv, AcceptInv, AnswerInv
<1>5. CASE \E k \in Keys, m \in {0} \cup Messages : DeleteMessage(k, m)
  BY <1>5, DeleteMessageInv
<1>6. CASE \E d \in deletions : SendDeletion(d)
  BY <1>6, SendDeletionInv
<1>7. CASE \E s \in Slots, r \in Rooms : Select(s, r)
  BY <1>7, SelectInv
<1>8. CASE \E s \in Slots : LoadMore(s) \/ Serve(s) \/ ArriveFetch(s) \/ ArriveMore(s) \/ PageFails(s)
  BY <1>8, LoadMoreInv, ServeInv, ArriveFetchInv, ArriveMoreInv, PageFailsInv
<1>9. CASE Close \/ Rehydrate \/ Reload
  BY <1>9, CloseInv, RehydrateInv, ReloadInv
<1> QED BY <1>1, <1>2, <1>3, <1>4, <1>5, <1>6, <1>7, <1>8, <1>9 DEF Next

(* Pages, events and the overlay keep what the list shows together in      *)
(* every state.                                                            *)
THEOREM ViewInvariant == Spec => []VInv
<1>1. Init => VInv
  BY ViewInit
<1>2. VInv /\ [Next]_vars => VInv'
  BY ViewStep
<1> QED BY <1>1, <1>2, PTL DEF Spec

(* No message of the open room is shown twice, and no optimistic copy      *)
(* stands next to its message.                                             *)
THEOREM EachShownOnce == Spec => []ShownOnce
<1>1. VInv => ShownOnce
  <2> SUFFICES ASSUME VInv, ~unordered
               PROVE  ShownOnce
    BY DEF ShownOnce
  <2>1. \A i, j \in DOMAIN list : list[i].m = list[j].m => i = j
    BY DEF VInv, OnceEach, Distinct
  <2>2. \A i \in DOMAIN list : InRoom(i) => ~Optimistic(stored[list[i].m].key)
    BY DEF Optimistic
  <2> QED BY <2>1, <2>2 DEF ShownOnce
<1> QED BY <1>1, ViewInvariant, PTL

(* The list of the open room misses no message whose creation was applied,  *)
(* from its first one on, shows no text that an applied edit has replaced,  *)
(* and no content that an applied deletion has taken; a list that was       *)
(* overtaken or unordered aside.  (Not what an edit puts in the place of    *)
(* the text, which is nothing: the handler reads a field that is not there.) *)
THEOREM ListKeepsUp == Spec => []KeepsUp
<1>1. VInv => KeepsUp
  <2> SUFFICES ASSUME VInv, ~overtaken, ~unordered, NEW m \in Messages, stored[m].room = current
               PROVE  /\ list # <<>> /\ m >= list[1].m /\ Projected(m) /\ ~stored[m].deleted
                           => \E i \in DOMAIN list : list[i].m = m
                      /\ \A i \in DOMAIN list : list[i].m = m =>
                           /\ Applied("edited", m) => list[i].deleted \/ list[i].text # "first"
                           /\ Applied("deleted", m) => list[i].deleted
    BY DEF KeepsUp
  <2> QED BY DEF VInv, UpToDate, Complete, Fresh
<1> QED BY <1>1, ViewInvariant, PTL

(* A message the user has deleted keeps its deletion in the overlay, until  *)
(* an init drops one that was sent.                                        *)
RemovedSound == \A k \in removed \ forgotten : \E d \in deletions : d.key = k

LEMMA DeletionKept ==
  ASSUME RemovedSound, NEW k \in Keys, NEW m, DeleteMessage(k, m)
  PROVE  RemovedSound'
<1>1. /\ deletions' = deletions \cup {Deletion(k, m)} /\ Deletion(k, m).key = k
      /\ removed' = removed \cup {k} /\ forgotten' = forgotten \ {k}
  BY DEF DeleteMessage, Deletion
<1> QED BY <1>1 DEF RemovedSound

LEMMA DeletionSent ==
  ASSUME VInv, RemovedSound, NEW d \in deletions, SendDeletion(d)
  PROVE  RemovedSound'
<1>1. [d EXCEPT !.sent = TRUE].key = d.key
  BY DEF VInv, Typed
<1>2. /\ deletions' = (deletions \ {d}) \cup {[d EXCEPT !.sent = TRUE]}
      /\ UNCHANGED <<removed, forgotten>>
  BY DEF SendDeletion, history, past
<1>3. \A x \in deletions : \E y \in deletions' : y.key = x.key
  BY <1>1, <1>2
<1> QED BY <1>2, <1>3 DEF RemovedSound

LEMMA DeletionDropped ==
  ASSUME RemovedSound, Refill, UNCHANGED removed
  PROVE  RemovedSound'
<1>1. /\ deletions' = {d \in deletions : ~d.sent}
      /\ forgotten' = forgotten \cup {d.key : d \in {d \in deletions : d.sent}}
  BY DEF Refill
<1>2. ASSUME NEW k \in removed \ forgotten'
      PROVE  \E d \in deletions' : d.key = k
  <2>1. PICK d \in deletions : d.key = k
    BY <1>1, <1>2 DEF RemovedSound
  <2>2. ~d.sent
    BY <1>1, <1>2, <2>1
  <2> QED BY <1>1, <2>1, <2>2
<1> QED BY <1>2 DEF RemovedSound

LEMMA RemovedStep ==
  ASSUME VInv, RemovedSound, [Next]_vars
  PROVE  RemovedSound'
<1>1. ASSUME UNCHANGED <<removed, forgotten, deletions>>
      PROVE  RemovedSound'
  BY <1>1 DEF RemovedSound
<1>2. CASE UNCHANGED vars
  BY <1>1, <1>2 DEF vars, outbox, history, past
<1>3. CASE \E r \in Rooms : Post(r) \/ ApplyEvent(r)
  BY <1>1, <1>3 DEF Post, ApplyEvent, outbox, history, past
<1>4. CASE \E m \in Messages : Edit(m) \/ DeleteElsewhere(m)
  BY <1>1, <1>4 DEF Edit, DeleteElsewhere, outbox, history, past
<1>5. CASE \E k \in Keys : SendMessage(k) \/ Accept(k) \/ Acknowledge(k) \/ Reject(k)
  BY <1>1, <1>5 DEF SendMessage, Accept, Acknowledge, Reject, outbox, history, past
<1>6. CASE \E k \in Keys, m \in {0} \cup Messages : DeleteMessage(k, m)
  BY <1>6, DeletionKept
<1>7. CASE \E d \in deletions : SendDeletion(d)
  BY <1>7, DeletionSent
<1>8. CASE \E s \in Slots, r \in Rooms : Select(s, r)
  BY <1>1, <1>8 DEF Select, outbox, past
<1>9. CASE \E s \in Slots : LoadMore(s) \/ Serve(s) \/ ArriveFetch(s) \/ ArriveMore(s) \/ PageFails(s)
  BY <1>1, <1>9 DEF LoadMore, Serve, ArriveFetch, ArriveMore, PageFails, outbox, history, past
<1>10. CASE Close
  BY <1>1, <1>10 DEF Close, outbox, past
<1>11. CASE Rehydrate
  <2>1. UNCHANGED removed /\ (Refill \/ UNCHANGED <<deletions, forgotten>>)
    BY <1>11 DEF Rehydrate
  <2> QED BY <1>1, <2>1, DeletionDropped
<1>12. CASE Reload
  BY <1>12, DeletionDropped DEF Reload
<1> QED BY <1>2, <1>3, <1>4, <1>5, <1>6, <1>7, <1>8, <1>9, <1>10, <1>11, <1>12 DEF Next

(* A message that the user has deleted here, or whose deletion was applied, *)
(* stays gone, but for the four cases named: a copy deleted before the      *)
(* message was there (hasty), a copy an init brings back (replayed), a      *)
(* deletion an init drops because it was sent (forgotten), and a list that  *)
(* was overtaken or unordered.                                              *)
THEOREM DeletedStaysGone == Spec => []StaysGone
<1>1. VInv /\ RemovedSound => StaysGone
  <2> SUFFICES ASSUME VInv, RemovedSound, NEW k \in Keys \ (hasty \cup replayed),
                      \/ k \in removed \ forgotten
                      \/ \E m \in Messages : stored[m].key = k /\ Applied("deleted", m)
               PROVE  /\ k \notin overlay
                      /\ overtaken \/ unordered \/
                           \A i \in DOMAIN list : stored[list[i].m].key = k => ~Legible(i)
    BY DEF StaysGone, Optimistic
  <2>1. /\ k # Nobody /\ k \notin hasty /\ k \notin replayed
        /\ \A m, n \in Messages : stored[m].key = k /\ stored[n].key = k => m = n
        /\ \A i \in DOMAIN list : list[i].m \in Messages
    BY KeysAssumption DEF VInv, KeysSound, ListKnown
  <2>2. CASE k \in removed \ forgotten
    <3>1. PICK d \in deletions : d.key = k
      BY <2>2 DEF RemovedSound
    <3>2. k \notin overlay /\ d.m \in Messages /\ stored[d.m].key = k
      BY <2>1, <3>1 DEF VInv, DeletionsSound
    <3>3. \A i \in DOMAIN list : stored[list[i].m].key = k => ~Legible(i)
      BY <2>1, <3>1, <3>2 DEF Legible, Hidden
    <3> QED BY <3>2, <3>3
  <2>3. CASE \E m \in Messages : stored[m].key = k /\ Applied("deleted", m)
    <3>1. PICK m \in Messages : stored[m].key = k /\ Applied("deleted", m)
      BY <2>3
    <3>2. Applied("created", m)
      <4>1. PICK r \in Rooms : r = stored[m].room
        <5>1. stored[m] \in MessageType
          BY DEF VInv, Typed, Messages
        <5> QED BY <5>1 DEF MessageType
      <4>2. cursor[r] \in Nat /\ cursor[r] <= Len(log[r]) /\ Len(log[r]) \in Nat
        BY DEF VInv, Typed, LogSound
      <4>3. PICK i \in 1..cursor[r] : log[r][i] = [type |-> "deleted", m |-> m]
        BY <3>1, <4>1 DEF Applied
      <4>4. EventSound(r, i) /\ log[r][i].type = "deleted" /\ log[r][i].m = m
        BY <4>2, <4>3 DEF VInv, LogSound
      <4>5. PICK j \in 1..(i - 1) : log[r][j] = [type |-> "created", m |-> m]
        BY <4>4 DEF EventSound, Occurs
      <4>6. j \in 1..cursor[r]
        BY <4>2
      <4> QED BY <4>1, <4>5, <4>6 DEF Applied
    <3>3. k \notin overlay
      BY <2>1, <3>1, <3>2 DEF VInv, OverlaySound
    <3>4. ASSUME ~overtaken, ~unordered, NEW i \in DOMAIN list, stored[list[i].m].key = k
          PROVE  ~Legible(i)
      <4>1. list[i].m = m
        BY <2>1, <3>1, <3>4
      <4>2. stored[m].room = current => list[i].deleted
        BY <3>1, <3>4, <4>1 DEF VInv, UpToDate, Fresh
      <4> QED BY <4>1, <4>2 DEF Legible, InRoom
    <3> QED BY <3>3, <3>4
  <2> QED BY <2>2, <2>3
<1>2. Init => RemovedSound
  BY DEF Init, RemovedSound
<1>3. VInv /\ RemovedSound /\ [Next]_vars => RemovedSound'
  BY RemovedStep
<1> QED BY <1>1, <1>2, <1>3, ViewInvariant, PTL DEF Spec

-----------------------------------------------------------------------------
(* The call screen.  A call that met no unguarded case goes a single way:  *)
(* one task, message or handler at a time carries it from the caller's     *)
(* click to the answer (its token, at one of 18 stages), and every hang-up *)
(* leaves "end" and "reject" up, "ended" and "rejected" down, and handlers *)
(* that wait for the log.  The invariant says, for each such call, where   *)
(* its token is, what else may be on its way, who shows it and who has an  *)
(* entry of it, how the two relate while it is being left, and what the    *)
(* stage says of screens, entries and connections while no one leaves it.  *)
(* An action changes the call it is about or none: the other calls are     *)
(* untouched unless they become astray.                                    *)

CallType == [status : {"idle", "calling", "incoming", "connected"},
             room : DirectRooms \cup {Nowhere}, call : 0..calls]
ConnectionType == [state : {"none", "new", "offered", "stable"},
                   room : DirectRooms \cup {Nowhere}, call : 0..calls]
MediaType == [live : SUBSET (1..calls), local : 0..calls]
CallEntryType == [status : {"none", "calling", "connected"}, role : {"none", "caller", "callee"},
                  room : DirectRooms \cup {Nowhere}, call : 0..calls]
TaskType == [kind : {"start", "accept", "answered"}, at : {"media", "ice", "offer"},
             room : DirectRooms, call : 1..calls]
UpType == [type : {"initiate", "accept", "offer", "answer", "end", "reject"},
           room : DirectRooms \cup {Nowhere}, call : 1..calls]
DownType == [type : {"incoming", "accepted", "offer", "answer", "rejected", "ended", "busy", "offline"},
             room : DirectRooms, call : 1..calls]
JobType == [kind : {"initiate", "offer", "answer", "end", "reject", "disconnect"}, user : Users,
            room : DirectRooms, call : 1..calls, twin : BOOLEAN]

(* The type invariant. *)
CallTyped ==
  /\ calls \in Nat /\ astray \subseteq 1..calls
  /\ screen \in [Users -> CallType] /\ ref \in [Users -> CallType]
  /\ media \in [Users -> MediaType] /\ pc \in [Users -> ConnectionType]
  /\ tasks \in [Users -> SUBSET TaskType]
  /\ up \in [Users -> Seq(UpType)] /\ down \in [Users -> Seq(DownType)]
  /\ sock \in [Users -> BOOLEAN]
  /\ activeCalls \in [Users -> CallEntryType]
  /\ jobs \subseteq JobType

Carried(q) == {q[i] : i \in DOMAIN q}
Directed(r, u) == r \in DirectRooms /\ u \in r

(* What is someone's is of a room of theirs; what is nothing is of no call. *)
OwnScreens == \A v \in Users :
  /\ screen[v].status \in {"calling", "incoming"} => Directed(screen[v].room, v)
  /\ screen[v].status = "idle" <=> screen[v].call = 0
  /\ screen[v].call = 0 => screen[v] = NoScreen
OwnTasks == \A v \in Users : \A t \in tasks[v] : Directed(t.room, v)
OwnUp == \A v \in Users : \A m \in Carried(up[v]) : m.type # "end" => Directed(m.room, v)
OwnDown == \A v \in Users : \A m \in Carried(down[v]) : Directed(m.room, v)
OwnEntries == \A v \in Users :
  /\ activeCalls[v].call = 0 <=> activeCalls[v] = NoCall
  /\ activeCalls[v].call # 0 => Directed(activeCalls[v].room, v)
OwnConnections == \A v \in Users :
  /\ pc[v].call = 0 <=> pc[v].state = "none"
  /\ pc[v].call # 0 => Directed(pc[v].room, v)
OwnJobs == \A j \in jobs :
  /\ Directed(j.room, j.user)
  /\ j.kind = "disconnect" => j.call \in astray

(* Nothing is left open behind the screen. *)
OpenForScreen == \A v \in Users :
  /\ \A c \in media[v].live : c \in astray \/ (media[v].local = c /\ screen[v].call = c)
  /\ pc[v].call \in {0, screen[v].call} \cup astray

-----------------------------------------------------------------------------
(* The way of one call. *)

Ends == {"end", "reject"}
Overs == {"rejected", "ended", "busy", "offline"}
Openings == {"initiate", "incoming"}
Closers == Ends \cup Overs

TasksOf(c, v) == {t \in tasks[v] : t.call = c}
UpOf(c, v) == {m \in Carried(up[v]) : m.call = c}
DownOf(c, v) == {m \in Carried(down[v]) : m.call = c}
JobsOf(c) == {j \in jobs : j.call = c}

(* The token of call c of caller u and callee p at stage n: which task,    *)
(* message or handler carries it, and whose it is. At 5 the call rings and *)
(* waits for a click, at 18 it is negotiated.                              *)
StageTask(c, u, p, n, v, t) ==
  \/ n = 1 /\ v = u /\ t = Task("start", "media", {u, p}, c)
  \/ n = 6 /\ v = p /\ t = Task("accept", "media", {u, p}, c)
  \/ n = 7 /\ v = p /\ t = Task("accept", "ice", {u, p}, c)
  \/ n = 10 /\ v = u /\ t = Task("answered", "ice", {u, p}, c)
  \/ n = 11 /\ v = u /\ t = Task("answered", "offer", {u, p}, c)
StageUp(c, u, p, n, v, m) ==
  \/ n = 2 /\ v = u /\ m = Message("initiate", {u, p}, c)
  \/ n = 8 /\ v = p /\ m = Message("accept", {u, p}, c)
  \/ n = 12 /\ v = u /\ m = Message("offer", {u, p}, c)
  \/ n = 15 /\ v = p /\ m = Message("answer", {u, p}, c)
StageDown(c, u, p, n, v, m) ==
  \/ n = 4 /\ v = p /\ m = Message("incoming", {u, p}, c)
  \/ n = 9 /\ v = u /\ m = Message("accepted", {u, p}, c)
  \/ n = 14 /\ v = p /\ m = Message("offer", {u, p}, c)
  \/ n = 17 /\ v = u /\ m = Message("answer", {u, p}, c)
StageJob(c, u, p, n, j) ==
  \/ n = 3 /\ j = Job("initiate", u, {u, p}, c)
  \/ n = 13 /\ j = Job("offer", u, {u, p}, c)
  \/ n = 16 /\ j = Job("answer", p, {u, p}, c)

(* A call is of two users of a direct room. *)
Parties(u, p) == u \in Users /\ p \in Users /\ u # p /\ {u, p} \in DirectRooms

(* The token is where stage n says. *)
Present(c, u, p, n) ==
  /\ n \in {1, 6, 7, 10, 11} => \E v \in Users : \E t \in TasksOf(c, v) : StageTask(c, u, p, n, v, t)
  /\ n \in {2, 8, 12, 15} => \E v \in Users : \E m \in UpOf(c, v) : StageUp(c, u, p, n, v, m)
  /\ n \in {4, 9, 14, 17} => \E v \in Users : \E m \in DownOf(c, v) : StageDown(c, u, p, n, v, m)
  /\ n \in {3, 13, 16} => \E j \in JobsOf(c) : StageJob(c, u, p, n, j)
  /\ n = 5 => screen[p].call = c

(* Nothing else of the call is on its way but what ends it. *)
PlacedTasks(c, u, p, n) == \A v \in Users : \A t \in TasksOf(c, v) : StageTask(c, u, p, n, v, t)
PlacedUp(c, u, p, n) == \A v \in Users : \A m \in UpOf(c, v) :
  StageUp(c, u, p, n, v, m) \/ (v \in {u, p} /\ m.type \in Ends /\ m.room = {u, p})
PlacedDown(c, u, p, n) == \A v \in Users : \A m \in DownOf(c, v) :
  StageDown(c, u, p, n, v, m) \/ (v \in {u, p} /\ m.type \in Overs)
PlacedJobs(c, u, p, n) == \A j \in JobsOf(c) :
  StageJob(c, u, p, n, j) \/ (j.kind \in Ends /\ j.room = {u, p} /\ j.user \in {u, p})

Placed(c, u, p, n) ==
  /\ Present(c, u, p, n) /\ PlacedTasks(c, u, p, n) /\ PlacedUp(c, u, p, n)
  /\ PlacedDown(c, u, p, n) /\ PlacedJobs(c, u, p, n)

(* A queue has what opens a call before all else of the call, and one      *)
(* message of the call that does not close it.                             *)
Ordered(q, c) == \A i, j \in DOMAIN q :
  i < j /\ q[i].call = c /\ q[j].call = c =>
    q[j].type \notin Openings /\ (q[i].type \in Closers \/ q[j].type \in Closers)
Queues(c) == \A v \in Users : Ordered(up[v], c) /\ Ordered(down[v], c)

(* Who shows the call, and what the copy in callStateRef may be. *)
OnScreen(c, u, p, n) == \A v \in Users : screen[v].call = c =>
  /\ v \in {u, p} /\ screen[v].room = {u, p}
  /\ v = u => /\ screen[v].status \in {"calling", "connected"}
              /\ ref[v].room = {u, p} /\ ref[v].status \in {"calling", "connected"}
              /\ screen[v].status = "calling" => ref[v] = screen[v]
              /\ n <= 3 => screen[v].status = "calling"
  /\ v = p => /\ n >= 5
              /\ screen[v].status = IF n = 5 THEN "incoming" ELSE "connected"
              /\ n > 5 => ref[v] = screen[v]

HasEntry(c, v) == activeCalls[v].call = c
(* The entries of the call are made and removed together. *)
Entered(c, u, p, n) ==
  /\ \A v \in Users : HasEntry(c, v) => v \in {u, p}
  /\ HasEntry(c, u) <=> HasEntry(c, p)
  /\ HasEntry(c, u) => /\ n >= 4
                       /\ activeCalls[u].room = {u, p} /\ activeCalls[p].room = {u, p}
                       /\ activeCalls[u].role = "caller" /\ activeCalls[p].role = "callee"
                       /\ activeCalls[u].status = activeCalls[p].status

Connections(c, u, p) == \A v \in Users : pc[v].call = c => pc[v].room = {u, p}

(* Who is leaving the call: the server waits for the log, or has not yet   *)
(* heard. Who is told that it is over, and whom the call still reaches.    *)
EndJob(c, v) == \E j \in JobsOf(c) : j.kind \in Ends /\ j.user = v
Leaving(c, v) == EndJob(c, v) \/ \E m \in UpOf(c, v) : m.type \in Ends
OverFor(c, v) == \E m \in DownOf(c, v) : m.type \in Overs
Attached(c, p, n, v) == screen[v].call = c \/ (v = p /\ n = 4)

(* Before the callee is rung nothing ends the call but the caller. *)
Unrung(c, u, p, n) ==
  /\ n <= 3 => /\ ~EndJob(c, u) /\ ~EndJob(c, p) /\ ~OverFor(c, u) /\ ~OverFor(c, p)
               /\ ~Leaving(c, p)
  /\ n \in {2, 3} => screen[u].call = c \/ Leaving(c, u)

(* What v, and the other user w, know of each other and of the server      *)
(* while the call is being left: who leaves it no longer shows it; who     *)
(* shows it has an entry or is told that it is over; as long as there is   *)
(* an entry someone shows the call or leaves it.                           *)
PartingOf(c, u, p, n, v, w) ==
  /\ Leaving(c, v) => ~Attached(c, p, n, v)
  /\ Attached(c, p, n, v) /\ n >= 4 => HasEntry(c, u) \/ OverFor(c, v)
  /\ EndJob(c, w) /\ Attached(c, p, n, v) => OverFor(c, v)
  /\ OverFor(c, v) /\ HasEntry(c, u) => EndJob(c, w)
  /\ HasEntry(c, u) => Attached(c, p, n, v) \/ Leaving(c, u) \/ Leaving(c, p)
Parting(c, u, p, n) == PartingOf(c, u, p, n, u, p) /\ PartingOf(c, u, p, n, p, u)

(* While no one leaves the call, how far it is says what the screens, the  *)
(* entries and the connections are.                                        *)
Live(c, u, p) == HasEntry(c, u) /\ ~Leaving(c, u) /\ ~Leaving(c, p)
Reached(c, u, p, n) ==
  /\ activeCalls[u].status = IF n >= 9 THEN "connected" ELSE "calling"
  /\ screen[u].status = IF n >= 10 THEN "connected" ELSE "calling"
  /\ n >= 8 => pc[p].call = c
  /\ n >= 11 => pc[u].call = c
  /\ n >= 15 => pc[p].state = "stable"
  /\ n \in 12..17 => pc[u].state = "offered"
  /\ n = 18 => pc[u].state = "stable"
Stages(c, u, p, n) == Live(c, u, p) => Reached(c, u, p, n)

(* A call that is not astray: what holds of it at stage n. *)
CallSound(c, u, p, n) ==
  /\ Parties(u, p) /\ Placed(c, u, p, n) /\ Queues(c)
  /\ OnScreen(c, u, p, n) /\ Entered(c, u, p, n) /\ Connections(c, u, p)
  /\ Unrung(c, u, p, n) /\ Parting(c, u, p, n) /\ Stages(c, u, p, n)

CallsSound == \A c \in 1..calls : c \notin astray =>
  \E u \in Users, p \in Users, n \in 1..18 : CallSound(c, u, p, n)

(* The inductive invariant. *)
ScreenInv ==
  /\ CallTyped
  /\ OwnScreens /\ OwnTasks /\ OwnUp /\ OwnDown /\ OwnEntries /\ OwnConnections /\ OwnJobs
  /\ OpenForScreen /\ CallsSound
-----------------------------------------------------------------------------
(* Queues. *)

(* A queue carries what it carried and the message appended to it. *)
LEMMA CarriedAppend ==
  ASSUME NEW S, NEW q \in Seq(S), NEW m \in S
  PROVE  /\ Append(q, m) \in Seq(S) /\ Append(q, m) # <<>>
         /\ Carried(Append(q, m)) = Carried(q) \cup {m}
<1>1. /\ Append(q, m) \in Seq(S) /\ Append(q, m) # <<>>
      /\ Len(Append(q, m)) = Len(q) + 1
      /\ \A i \in 1..Len(q) : Append(q, m)[i] = q[i]
      /\ Append(q, m)[Len(q) + 1] = m
  BY AppendProperties
<1>2. /\ Len(q) \in Nat /\ DOMAIN q = 1..Len(q)
      /\ DOMAIN Append(q, m) = 1..Len(q) + 1
  BY <1>1, LenProperties
<1>3. Carried(Append(q, m)) \subseteq Carried(q) \cup {m}
  BY <1>1, <1>2 DEF Carried
<1>4. Carried(q) \cup {m} \subseteq Carried(Append(q, m))
  BY <1>1, <1>2 DEF Carried
<1> QED
  BY <1>1, <1>3, <1>4

(* A queue carries its head and what its tail carries. *)
LEMMA CarriedTail ==
  ASSUME NEW S, NEW q \in Seq(S), q # <<>>
  PROVE  /\ Tail(q) \in Seq(S) /\ Head(q) \in S
         /\ Carried(q) = {Head(q)} \cup Carried(Tail(q))
<1>1. /\ Tail(q) \in Seq(S) /\ Head(q) \in S /\ Len(Tail(q)) = Len(q) - 1
      /\ \A i \in 1..Len(Tail(q)) : Tail(q)[i] = q[i + 1]
  BY HeadTailProperties
<1>2. /\ Len(q) \in Nat \ {0} /\ DOMAIN q = 1..Len(q) /\ DOMAIN Tail(q) = 1..Len(q) - 1
  BY <1>1, LenProperties, EmptySeq
<1>3. Head(q) = q[1]
  BY <1>2
<1>4. Carried(q) \subseteq {Head(q)} \cup Carried(Tail(q))
  <2> SUFFICES ASSUME NEW i \in 1..Len(q), i # 1
               PROVE  q[i] \in Carried(Tail(q))
    BY <1>2, <1>3 DEF Carried
  <2>1. i - 1 \in 1..Len(Tail(q)) /\ Tail(q)[i - 1] = q[i]
    BY <1>1, <1>2
  <2> QED
    BY <2>1, <1>1, <1>2 DEF Carried
<1>5. {Head(q)} \cup Carried(Tail(q)) \subseteq Carried(q)
  BY <1>1, <1>2, <1>3 DEF Carried
<1> QED
  BY <1>1, <1>4, <1>5

LEMMA EmptyQueue == Carried(<<>>) = {} /\ \A c : Ordered(<<>>, c)
BY DEF Carried, Ordered

LEMMA CarriedType ==
  ASSUME NEW S, NEW q \in Seq(S)
  PROVE  Carried(q) \subseteq S
BY LenProperties, ElementOfSeq DEF Carried

(* What may follow in a queue. *)
Fits(q, m) ==
  /\ m.type \in Openings => \A x \in Carried(q) : x.call # m.call
  /\ m.type \notin Closers => \A x \in Carried(q) : x.call = m.call => x.type \in Closers

(* A message that fits keeps a queue ordered. *)
LEMMA OrderedAppend ==
  ASSUME NEW S, NEW q \in Seq(S), NEW m \in S, NEW c, Ordered(q, c), m.call = c => Fits(q, m)
  PROVE  Ordered(Append(q, m), c)
<1>1. /\ Append(q, m) \in Seq(S)
      /\ Len(Append(q, m)) = Len(q) + 1
      /\ \A i \in 1..Len(q) : Append(q, m)[i] = q[i]
      /\ Append(q, m)[Len(q) + 1] = m
  BY AppendProperties
<1>2. /\ Len(q) \in Nat /\ DOMAIN q = 1..Len(q)
      /\ DOMAIN Append(q, m) = 1..Len(q) + 1
  BY <1>1, LenProperties
<1> DEFINE r == Append(q, m)
<1> SUFFICES ASSUME NEW i \in 1..Len(q) + 1, NEW j \in 1..Len(q) + 1, i < j,
                    r[i].call = c, r[j].call = c
             PROVE  r[j].type \notin Openings /\ (r[i].type \in Closers \/ r[j].type \in Closers)
  BY <1>2 DEF Ordered
<1>3. i \in 1..Len(q) /\ r[i] = q[i] /\ q[i] \in Carried(q)
  BY <1>1, <1>2 DEF Carried
<1>4. CASE j = Len(q) + 1
  <2>1. r[j] = m
    BY <1>1, <1>4
  <2> QED
    BY <2>1, <1>3 DEF Fits
<1>5. CASE j # Len(q) + 1
  <2>1. j \in 1..Len(q) /\ r[j] = q[j]
    BY <1>1, <1>2, <1>5
  <2> QED
    BY <2>1, <1>2, <1>3 DEF Ordered
<1> QED
  BY <1>4, <1>5

(* A queue stays ordered without its head, and what follows the head of a  *)
(* call neither opens it nor is a second message that does not close it.   *)
LEMMA OrderedTail ==
  ASSUME NEW S, NEW q \in Seq(S), q # <<>>, NEW c, Ordered(q, c)
  PROVE  /\ Ordered(Tail(q), c)
         /\ Head(q).call = c => \A x \in Carried(Tail(q)) : x.call = c =>
              x.type \notin Openings /\ (Head(q).type \in Closers \/ x.type \in Closers)
<1>1. /\ Tail(q) \in Seq(S) /\ Len(Tail(q)) = Len(q) - 1
      /\ \A i \in 1..Len(Tail(q)) : Tail(q)[i] = q[i + 1]
  BY HeadTailProperties
<1>2. /\ Len(q) \in Nat \ {0} /\ DOMAIN q = 1..Len(q) /\ DOMAIN Tail(q) = 1..Len(q) - 1
  BY <1>1, LenProperties, EmptySeq
<1>3. Head(q) = q[1]
  BY <1>2
<1>4. \A i \in DOMAIN Tail(q) : i \in Int /\ 1 < i + 1 /\ i + 1 \in DOMAIN q /\ Tail(q)[i] = q[i + 1]
  BY <1>1, <1>2
<1>5. Ordered(Tail(q), c)
  <2> SUFFICES ASSUME NEW i \in DOMAIN Tail(q), NEW j \in DOMAIN Tail(q), i < j,
                      Tail(q)[i].call = c, Tail(q)[j].call = c
               PROVE  /\ Tail(q)[j].type \notin Openings
                      /\ Tail(q)[i].type \in Closers \/ Tail(q)[j].type \in Closers
    BY DEF Ordered
  <2>1. i + 1 < j + 1
    BY <1>4
  <2> QED
    BY <2>1, <1>4 DEF Ordered
<1>6. ASSUME Head(q).call = c, NEW i \in DOMAIN Tail(q), Tail(q)[i].call = c
      PROVE  /\ Tail(q)[i].type \notin Openings
             /\ Head(q).type \in Closers \/ Tail(q)[i].type \in Closers
  <2>1. 1 \in DOMAIN q
    BY <1>2
  <2> QED
    BY <2>1, <1>3, <1>4, <1>6 DEF Ordered
<1> QED
  BY <1>5, <1>6 DEF Carried

-----------------------------------------------------------------------------
(* What a step leaves as it is of a call. *)

KeepTasks(c) == \A v \in Users : TasksOf(c, v)' = TasksOf(c, v)
KeepUp(c) == \A v \in Users : UpOf(c, v)' = UpOf(c, v)
KeepDown(c) == \A v \in Users : DownOf(c, v)' = DownOf(c, v)
KeepJobs(c) == JobsOf(c)' = JobsOf(c)
KeepQueues(c) == Queues(c) => Queues(c)'
KeepScreen(c) == \A v \in Users : screen[v].call = c \/ screen'[v].call = c =>
  screen'[v] = screen[v] /\ ref'[v] \in {ref[v], screen[v]}
KeepEntries(c) == \A v \in Users : activeCalls[v].call = c \/ activeCalls'[v].call = c =>
  activeCalls'[v] = activeCalls[v]
KeepConnections(c) == \A v \in Users : pc[v].call = c \/ pc'[v].call = c => pc'[v] = pc[v]

Untouched(c) ==
  /\ KeepTasks(c) /\ KeepUp(c) /\ KeepDown(c) /\ KeepJobs(c) /\ KeepQueues(c)
  /\ KeepScreen(c) /\ KeepEntries(c) /\ KeepConnections(c)

(* Who shows the call, when the screens of the call do not change. *)
LEMMA OnScreenKept ==
  ASSUME NEW c, NEW u \in Users, NEW p \in Users, NEW n \in 1..18, NEW k \in 1..18,
         OnScreen(c, u, p, n), KeepScreen(c),
         k <= 3 => n <= 3,
         screen[p].call = c => k >= 5 /\ (k = 5 <=> n = 5)
  PROVE  OnScreen(c, u, p, k)'
<1> SUFFICES ASSUME NEW v \in Users, screen'[v].call = c
             PROVE  /\ v \in {u, p} /\ screen'[v].room = {u, p}
                    /\ v = u => /\ screen'[v].status \in {"calling", "connected"}
                                /\ ref'[v].room = {u, p} /\ ref'[v].status \in {"calling", "connected"}
                                /\ screen'[v].status = "calling" => ref'[v] = screen'[v]
                                /\ k <= 3 => screen'[v].status = "calling"
                    /\ v = p => /\ k >= 5
                                /\ screen'[v].status = IF k = 5 THEN "incoming" ELSE "connected"
                                /\ k > 5 => ref'[v] = screen'[v]
  BY DEF OnScreen
<1>1. screen'[v] = screen[v] /\ ref'[v] \in {ref[v], screen[v]} /\ screen[v].call = c
  BY DEF KeepScreen
<1> QED
  BY <1>1 DEF OnScreen

(* The entries of the call, when they do not change. *)
LEMMA EnteredKept ==
  ASSUME NEW c, NEW u \in Users, NEW p \in Users, NEW n \in 1..18, NEW k \in 1..18,
         Entered(c, u, p, n), KeepEntries(c), n >= 4 => k >= 4
  PROVE  /\ Entered(c, u, p, k)' /\ \A v \in Users : HasEntry(c, v)' <=> HasEntry(c, v)
         /\ HasEntry(c, u) => activeCalls'[u] = activeCalls[u]
<1>1. \A v \in Users : /\ HasEntry(c, v)' <=> HasEntry(c, v)
                       /\ HasEntry(c, v) => activeCalls'[v] = activeCalls[v]
  BY DEF KeepEntries, HasEntry
<1> QED
  BY <1>1 DEF Entered

(* The connections of the call, when they do not change. *)
LEMMA ConnectionsKept ==
  ASSUME NEW c, NEW u, NEW p, Connections(c, u, p), KeepConnections(c)
  PROVE  Connections(c, u, p)'
BY DEF Connections, KeepConnections

(* How far v has left the call is the same. *)
KeepLeaving(c, v) == (EndJob(c, v)' <=> EndJob(c, v)) /\ (Leaving(c, v)' <=> Leaving(c, v))
KeepOver(c, v) == OverFor(c, v)' <=> OverFor(c, v)

(* Who has left, is told and shows the call, when nothing of it moves. *)
LEMMA LeavingKept ==
  ASSUME NEW c, NEW v \in Users, KeepUp(c), KeepJobs(c)
  PROVE  KeepLeaving(c, v)
BY DEF KeepLeaving, EndJob, Leaving, KeepUp, KeepJobs

LEMMA OverForKept ==
  ASSUME NEW c, NEW v \in Users, KeepDown(c)
  PROVE  KeepOver(c, v)
BY DEF KeepOver, OverFor, KeepDown

LEMMA AttachedKept ==
  ASSUME NEW c, NEW v \in Users, KeepScreen(c)
  PROVE  /\ screen'[v].call = c <=> screen[v].call = c
         /\ screen[v].call = c => screen'[v] = screen[v]
BY DEF KeepScreen

-----------------------------------------------------------------------------
(* Messages and jobs. *)

(* What a message appended to a queue or taken from it does to the         *)
(* messages of a call.                                                     *)
UpGets(e, w, m) == \A v \in Users :
  UpOf(e, v)' = IF v = w THEN UpOf(e, v) \cup {m} ELSE UpOf(e, v)
DownGets(e, w, m) == \A v \in Users :
  DownOf(e, v)' = IF v = w THEN DownOf(e, v) \cup {m} ELSE DownOf(e, v)
UpLoses(e, w, m) ==
  /\ \A v \in Users : v # w => UpOf(e, v)' = UpOf(e, v)
  /\ UpOf(e, w) = UpOf(e, w)' \cup {m}
  /\ Ordered(up[w], e) => \A x \in UpOf(e, w)' :
       x.type \notin Openings /\ (m.type \in Closers \/ x.type \in Closers)
DownLoses(e, w, m) ==
  /\ \A v \in Users : v # w => DownOf(e, v)' = DownOf(e, v)
  /\ DownOf(e, w) = DownOf(e, w)' \cup {m}
  /\ Ordered(down[w], e) => \A x \in DownOf(e, w)' :
       x.type \notin Openings /\ (m.type \in Closers \/ x.type \in Closers)

(* A client sends a message to the server. *)
LEMMA Emits ==
  ASSUME up \in [Users -> Seq(UpType)], NEW w \in Users, NEW type, NEW r, NEW e,
         Message(type, r, e) \in UpType, up' = Emitted(w, type, r, e)
  PROVE  /\ up' \in [Users -> Seq(UpType)] /\ up'[w] # <<>>
         /\ UpGets(e, w, Message(type, r, e))
         /\ \A c : c # e => KeepUp(c)
         /\ \A c : \A v \in Users : Ordered(up[v], c) /\ (v = w /\ c = e =>
              Fits(up[v], Message(type, r, e))) => Ordered(up'[v], c)
         /\ OwnUp /\ (type # "end" => Directed(r, w)) => OwnUp'
<1> DEFINE m == Message(type, r, e)
<1>1. m.type = type /\ m.room = r /\ m.call = e
  BY DEF Message
<1>2. /\ up[w] \in Seq(UpType) /\ m \in UpType /\ up' = [up EXCEPT ![w] = Append(@, m)]
      /\ up'[w] = Append(up[w], m) /\ \A v \in Users : v # w => up'[v] = up[v]
  BY DEF Emitted
<1> HIDE DEF m
<1>3. /\ Append(up[w], m) \in Seq(UpType) /\ up'[w] # <<>>
      /\ Carried(up'[w]) = Carried(up[w]) \cup {m}
  BY <1>2, CarriedAppend
<1>4. up' \in [Users -> Seq(UpType)]
  BY <1>2, <1>3
<1>5. ASSUME NEW c, Ordered(up[w], c), m.call = c => Fits(up[w], m)
      PROVE  Ordered(up'[w], c)
  BY <1>2, <1>5, OrderedAppend
<1>6. \A c : \A v \in Users : UpOf(c, v)' = IF v = w /\ c = e THEN UpOf(c, v) \cup {m} ELSE UpOf(c, v)
  BY <1>1, <1>2, <1>3 DEF UpOf
<1>7. \A c : c # e => KeepUp(c)
  BY <1>6 DEF KeepUp
<1>10. UpGets(e, w, m)
  BY <1>6 DEF UpGets
<1>8. OwnUp /\ (type # "end" => Directed(r, w)) => OwnUp'
  BY <1>1, <1>2, <1>3 DEF OwnUp
<1>9. \A c : \A v \in Users : Ordered(up[v], c) /\ (v = w /\ c = e => Fits(up[v], m))
       => Ordered(up'[v], c)
  BY <1>1, <1>2, <1>5
<1> QED
  BY <1>1, <1>3, <1>4, <1>7, <1>8, <1>9, <1>10 DEF m

(* What that does to the queues of the call. *)
SaysOne(w, type, r, e) ==
  /\ UpGets(e, w, Message(type, r, e))
  /\ \A c : \A v \in Users : Ordered(up[v], c) /\ (v = w /\ c = e =>
       Fits(up[v], Message(type, r, e))) => Ordered(up'[v], c)

LEMMA OneSaid ==
  ASSUME up \in [Users -> Seq(UpType)], NEW w \in Users, NEW type, NEW r, NEW e,
         Message(type, r, e) \in UpType, up' = Emitted(w, type, r, e)
  PROVE  SaysOne(w, type, r, e)
BY Emits DEF SaysOne

(* The server tells a client, if its socket is connected. *)
LEMMA Tells ==
  ASSUME down \in [Users -> Seq(DownType)], sock \in [Users -> BOOLEAN],
         NEW w \in Users, NEW type, NEW r, NEW e,
         Message(type, r, e) \in DownType, down' = Told(w, type, r, e)
  PROVE  /\ down' \in [Users -> Seq(DownType)] /\ (sock[w] => down'[w] # <<>>)
         /\ IF sock[w] THEN DownGets(e, w, Message(type, r, e)) ELSE KeepDown(e)
         /\ \A c : c # e => KeepDown(c)
         /\ \A c : \A v \in Users : Ordered(down[v], c) /\ (v = w /\ c = e =>
              Fits(down[v], Message(type, r, e))) => Ordered(down'[v], c)
         /\ OwnDown /\ Directed(r, w) => OwnDown'
<1> DEFINE m == Message(type, r, e)
<1>1. m.type = type /\ m.room = r /\ m.call = e
  BY DEF Message
<1>2. CASE ~sock[w]
  BY <1>2 DEF Told, DownOf, KeepDown, OwnDown
<1>3. CASE sock[w]
  <2>2. /\ down[w] \in Seq(DownType) /\ m \in DownType /\ down' = [down EXCEPT ![w] = Append(@, m)]
        /\ down'[w] = Append(down[w], m) /\ \A v \in Users : v # w => down'[v] = down[v]
    BY <1>3 DEF Told
  <2> HIDE DEF m
  <2>3. /\ Append(down[w], m) \in Seq(DownType) /\ down'[w] # <<>>
        /\ Carried(down'[w]) = Carried(down[w]) \cup {m}
    BY <2>2, CarriedAppend
  <2>4. down' \in [Users -> Seq(DownType)]
    BY <2>2, <2>3
  <2>5. ASSUME NEW c, Ordered(down[w], c), m.call = c => Fits(down[w], m)
        PROVE  Ordered(down'[w], c)
    BY <2>2, <2>5, OrderedAppend
  <2>6. \A c : \A v \in Users : DownOf(c, v)' = IF v = w /\ c = e THEN DownOf(c, v) \cup {m} ELSE DownOf(c, v)
    BY <1>1, <2>2, <2>3 DEF DownOf
  <2>7. \A c : c # e => KeepDown(c)
    BY <2>6 DEF KeepDown
  <2>10. DownGets(e, w, m)
    BY <2>6 DEF DownGets
  <2>8. OwnDown /\ Directed(r, w) => OwnDown'
    BY <1>1, <2>2, <2>3 DEF OwnDown
  <2>9. \A c : \A v \in Users : Ordered(down[v], c) /\ (v = w /\ c = e => Fits(down[v], m))
         => Ordered(down'[v], c)
    BY <1>1, <2>2, <2>5
  <2> QED
    BY <1>1, <1>3, <2>3, <2>4, <2>7, <2>8, <2>9, <2>10 DEF m
<1> QED
  BY <1>2, <1>3

(* The same, apart for the call of the message and for the others. *)
TellsOne(w, type, r, e) ==
  /\ sock[w] => DownGets(e, w, Message(type, r, e))
  /\ ~sock[w] => KeepDown(e)
  /\ \A v \in Users : Ordered(down[v], e) /\ (v = w => Fits(down[v], Message(type, r, e)))
       => Ordered(down'[v], e)

OthersUntold(e) == \A c : c # e => KeepDown(c) /\ \A v \in Users : Ordered(down[v], c) => Ordered(down'[v], c)

LEMMA OneTold ==
  ASSUME down \in [Users -> Seq(DownType)], sock \in [Users -> BOOLEAN],
         NEW w \in Users, NEW type, NEW r, NEW e,
         Message(type, r, e) \in DownType, down' = Told(w, type, r, e)
  PROVE  TellsOne(w, type, r, e) /\ OthersUntold(e)
<1>1. /\ IF sock[w] THEN DownGets(e, w, Message(type, r, e)) ELSE KeepDown(e)
      /\ \A c : \A v \in Users : Ordered(down[v], c) /\ (v = w /\ c = e =>
           Fits(down[v], Message(type, r, e))) => Ordered(down'[v], c)
      /\ \A c : c # e => KeepDown(c)
  BY Tells
<1> QED
  BY <1>1 DEF TellsOne, OthersUntold

(* The server takes the first message of a client. *)
LEMMA TakesHead ==
  ASSUME up \in [Users -> Seq(UpType)], NEW w \in Users, NEW types, Takes(w, types),
         NEW m, m = Head(up[w])
  PROVE  /\ up' \in [Users -> Seq(UpType)] /\ sock[w]
         /\ m \in UpType /\ m.type \in types /\ m \in Carried(up[w]) /\ m \in UpOf(m.call, w)
         /\ UpLoses(m.call, w, m)
         /\ \A c : c # m.call => KeepUp(c)
         /\ \A c : \A v \in Users : Ordered(up[v], c) => Ordered(up'[v], c)
         /\ OwnUp => OwnUp'
<1>1. /\ sock[w] /\ up[w] # <<>> /\ m.type \in types /\ up' = [up EXCEPT ![w] = Tail(@)]
      /\ up[w] \in Seq(UpType) /\ up'[w] = Tail(up[w]) /\ \A v \in Users : v # w => up'[v] = up[v]
  BY DEF Takes
<1>2. /\ m \in UpType /\ Tail(up[w]) \in Seq(UpType)
      /\ Carried(up[w]) = {m} \cup Carried(up'[w])
  BY <1>1, CarriedTail
<1>3. up' \in [Users -> Seq(UpType)]
  BY <1>1, <1>2
<1>4. ASSUME NEW c, Ordered(up[w], c)
      PROVE  /\ Ordered(up'[w], c)
             /\ m.call = c => \A x \in Carried(up'[w]) : x.call = c =>
                  x.type \notin Openings /\ (m.type \in Closers \/ x.type \in Closers)
  BY <1>1, <1>4, OrderedTail
<1>5. \A c : \A v \in Users : Ordered(up[v], c) => Ordered(up'[v], c)
  BY <1>1, <1>4
<1>6. Ordered(up[w], m.call) => \A x \in UpOf(m.call, w)' :
        x.type \notin Openings /\ (m.type \in Closers \/ x.type \in Closers)
  BY <1>4 DEF UpOf
<1>7. /\ m \in UpOf(m.call, w)
      /\ \A c : \A v \in Users : v # w \/ c # m.call => UpOf(c, v)' = UpOf(c, v)
      /\ UpOf(m.call, w) = UpOf(m.call, w)' \cup {m}
  BY <1>1, <1>2 DEF UpOf
<1>8. \A c : c # m.call => KeepUp(c)
  BY <1>7 DEF KeepUp
<1>10. UpLoses(m.call, w, m)
  BY <1>6, <1>7 DEF UpLoses
<1>9. OwnUp => OwnUp'
  BY <1>1, <1>2 DEF OwnUp
<1> QED
  BY <1>1, <1>2, <1>3, <1>5, <1>7, <1>8, <1>9, <1>10

(* The first message of the server is gone. *)
LEMMA DownTaken ==
  ASSUME down \in [Users -> Seq(DownType)], NEW w \in Users, NEW m, m = Head(down[w]),
         down[w] # <<>>, down' = [down EXCEPT ![w] = Tail(@)]
  PROVE  /\ down' \in [Users -> Seq(DownType)]
         /\ m \in DownType /\ m \in Carried(down[w]) /\ m \in DownOf(m.call, w)
         /\ DownLoses(m.call, w, m)
         /\ \A c : c # m.call => KeepDown(c)
         /\ \A c : \A v \in Users : Ordered(down[v], c) => Ordered(down'[v], c)
         /\ OwnDown => OwnDown' /\ Directed(m.room, w)
<1>1. /\ down[w] # <<>> /\ down' = [down EXCEPT ![w] = Tail(@)]
      /\ down[w] \in Seq(DownType) /\ down'[w] = Tail(down[w]) /\ \A v \in Users : v # w => down'[v] = down[v]
  OBVIOUS
<1>2. /\ m \in DownType /\ Tail(down[w]) \in Seq(DownType)
      /\ Carried(down[w]) = {m} \cup Carried(down'[w])
  BY <1>1, CarriedTail
<1>3. down' \in [Users -> Seq(DownType)]
  BY <1>1, <1>2
<1>4. ASSUME NEW c, Ordered(down[w], c)
      PROVE  /\ Ordered(down'[w], c)
             /\ m.call = c => \A x \in Carried(down'[w]) : x.call = c =>
                  x.type \notin Openings /\ (m.type \in Closers \/ x.type \in Closers)
  BY <1>1, <1>4, OrderedTail
<1>5. \A c : \A v \in Users : Ordered(down[v], c) => Ordered(down'[v], c)
  BY <1>1, <1>4
<1>6. Ordered(down[w], m.call) => \A x \in DownOf(m.call, w)' :
        x.type \notin Openings /\ (m.type \in Closers \/ x.type \in Closers)
  BY <1>4 DEF DownOf
<1>7. /\ m \in DownOf(m.call, w)
      /\ \A c : \A v \in Users : v # w \/ c # m.call => DownOf(c, v)' = DownOf(c, v)
      /\ DownOf(m.call, w) = DownOf(m.call, w)' \cup {m}
  BY <1>1, <1>2 DEF DownOf
<1>8. \A c : c # m.call => KeepDown(c)
  BY <1>7 DEF KeepDown
<1>10. DownLoses(m.call, w, m)
  BY <1>6, <1>7 DEF DownLoses
<1>9. OwnDown => OwnDown' /\ Directed(m.room, w)
  BY <1>1, <1>2 DEF OwnDown
<1> QED
  BY <1>1, <1>2, <1>3, <1>5, <1>7, <1>8, <1>9, <1>10

(* A client takes it. *)
LEMMA ReceivesHead ==
  ASSUME down \in [Users -> Seq(DownType)], NEW w \in Users, NEW types, Receives(w, types),
         NEW m, m = Head(down[w])
  PROVE  /\ down' \in [Users -> Seq(DownType)]
         /\ m \in DownType /\ m.type \in types /\ m \in Carried(down[w]) /\ m \in DownOf(m.call, w)
         /\ DownLoses(m.call, w, m)
         /\ \A c : c # m.call => KeepDown(c)
         /\ \A c : \A v \in Users : Ordered(down[v], c) => Ordered(down'[v], c)
         /\ OwnDown => OwnDown' /\ Directed(m.room, w)
<1>1. down[w] # <<>> /\ m.type \in types /\ down' = [down EXCEPT ![w] = Tail(@)]
  BY DEF Receives
<1> QED
  BY <1>1, DownTaken

(* A handler begins to wait. *)
Awaited(kind, w, r, e) ==
  /\ jobs' \subseteq JobType /\ jobs \subseteq jobs'
  /\ \A c : c # e => KeepJobs(c)
  /\ JobsOf(e) \subseteq JobsOf(e)'
  /\ \A j \in jobs' : j \in jobs \/ (j.kind = kind /\ j.user = w /\ j.room = r /\ j.call = e)
  /\ \A j \in JobsOf(e)' : j \in JobsOf(e) \/ (j.kind = kind /\ j.user = w /\ j.room = r)
  /\ \E j \in JobsOf(e)' : j.kind = kind /\ j.user = w /\ j.room = r

LEMMA AwaitsJob ==
  ASSUME jobs \subseteq JobType, NEW kind, NEW w \in Users, NEW r, NEW e,
         Job(kind, w, r, e) \in JobType, Awaits(Job(kind, w, r, e))
  PROVE  Awaited(kind, w, r, e)
<1> DEFINE j == Job(kind, w, r, e)
           a == IF j \in jobs THEN [j EXCEPT !.twin = TRUE] ELSE j
<1>1. j.kind = kind /\ j.user = w /\ j.room = r /\ j.call = e /\ j \in JobType
  BY DEF Job
<1>2. a \in JobType /\ a.kind = kind /\ a.user = w /\ a.room = r /\ a.call = e
  BY <1>1 DEF JobType, Job
<1>3. jobs' = jobs \cup {a}
  BY DEF Awaits
<1> HIDE DEF j, a
<1>4. \A c : JobsOf(c)' = IF c = e THEN JobsOf(c) \cup {a} ELSE JobsOf(c)
  BY <1>2, <1>3 DEF JobsOf
<1> QED
  BY <1>2, <1>3, <1>4 DEF Awaited, KeepJobs

-----------------------------------------------------------------------------
(* Where the call is. *)

(* Of the call there is nothing but what ends it, or that and its token. *)
NoTasks(c) == \A v \in Users : TasksOf(c, v) = {}
EndsUp(c, u, p) == \A v \in Users : \A m \in UpOf(c, v) :
  v \in {u, p} /\ m.type \in Ends /\ m.room = {u, p}
OversDown(c, u, p) == \A v \in Users : \A m \in DownOf(c, v) : v \in {u, p} /\ m.type \in Overs
EndsJobs(c, u, p) == \A j \in JobsOf(c) : j.kind \in Ends /\ j.room = {u, p} /\ j.user \in {u, p}

OnlyTask(c, w, t) == \A v \in Users : TasksOf(c, v) = IF v = w THEN {t} ELSE {}
OnlyUp(c, u, p, w, m) == m \in UpOf(c, w) /\ \A v \in Users : \A x \in UpOf(c, v) :
  (v = w /\ x = m) \/ (v \in {u, p} /\ x.type \in Ends /\ x.room = {u, p})
OnlyDown(c, u, p, w, m) == m \in DownOf(c, w) /\ \A v \in Users : \A x \in DownOf(c, v) :
  (v = w /\ x = m) \/ (v \in {u, p} /\ x.type \in Overs)
OnlyJob(c, u, p, j) == j \in JobsOf(c) /\ \A x \in JobsOf(c) :
  x = j \/ (x.kind \in Ends /\ x.room = {u, p} /\ x.user \in {u, p})

(* Who meets the token of a call has met all of the call but what ends it: *)
(* the four places of a token.                                             *)
LEMMA TokenTask ==
  ASSUME NEW c, NEW u \in Users, NEW p \in Users, NEW n \in 1..18, Placed(c, u, p, n),
         NEW w \in Users, NEW t \in TasksOf(c, w)
  PROVE  /\ StageTask(c, u, p, n, w, t)
         /\ OnlyTask(c, w, t)
         /\ EndsUp(c, u, p) /\ OversDown(c, u, p) /\ EndsJobs(c, u, p)
<1>1. StageTask(c, u, p, n, w, t)
  BY DEF Placed, PlacedTasks
<1>2. \A v \in Users : \A x \in TasksOf(c, v) : v = w /\ x = t
  BY <1>1 DEF Placed, PlacedTasks, StageTask
<1>3. OnlyTask(c, w, t)
  BY <1>2 DEF OnlyTask
<1>4. EndsUp(c, u, p)
  BY <1>1 DEF EndsUp, Placed, PlacedUp, StageUp, StageTask
<1>5. OversDown(c, u, p)
  BY <1>1 DEF OversDown, Placed, PlacedDown, StageDown, StageTask
<1>6. EndsJobs(c, u, p)
  BY <1>1 DEF EndsJobs, Placed, PlacedJobs, StageJob, StageTask
<1> QED
  BY <1>1, <1>3, <1>4, <1>5, <1>6

LEMMA TokenUp ==
  ASSUME NEW c, NEW u \in Users, NEW p \in Users, NEW n \in 1..18, Placed(c, u, p, n),
         NEW w \in Users, NEW m \in UpOf(c, w), m.type \notin Ends
  PROVE  /\ StageUp(c, u, p, n, w, m)
         /\ NoTasks(c) /\ OversDown(c, u, p) /\ EndsJobs(c, u, p)
         /\ OnlyUp(c, u, p, w, m)
<1>1. StageUp(c, u, p, n, w, m)
  BY DEF Placed, PlacedUp
<1>2. OnlyUp(c, u, p, w, m)
  BY <1>1 DEF OnlyUp, Placed, PlacedUp, StageUp
<1>3. NoTasks(c)
  BY <1>1 DEF NoTasks, Placed, PlacedTasks, StageUp, StageTask
<1>5. OversDown(c, u, p)
  BY <1>1 DEF OversDown, Placed, PlacedDown, StageDown, StageUp
<1>6. EndsJobs(c, u, p)
  BY <1>1 DEF EndsJobs, Placed, PlacedJobs, StageJob, StageUp
<1> QED
  BY <1>1, <1>2, <1>3, <1>5, <1>6

LEMMA TokenDown ==
  ASSUME NEW c, NEW u \in Users, NEW p \in Users, NEW n \in 1..18, Placed(c, u, p, n),
         NEW w \in Users, NEW m \in DownOf(c, w), m.type \notin Overs
  PROVE  /\ StageDown(c, u, p, n, w, m)
         /\ NoTasks(c) /\ EndsUp(c, u, p) /\ EndsJobs(c, u, p)
         /\ OnlyDown(c, u, p, w, m)
<1>1. StageDown(c, u, p, n, w, m)
  BY DEF Placed, PlacedDown
<1>2. OnlyDown(c, u, p, w, m)
  BY <1>1 DEF OnlyDown, Placed, PlacedDown, StageDown
<1>3. NoTasks(c)
  BY <1>1 DEF NoTasks, Placed, PlacedTasks, StageDown, StageTask
<1>5. EndsUp(c, u, p)
  BY <1>1 DEF EndsUp, Placed, PlacedUp, StageDown, StageUp
<1>6. EndsJobs(c, u, p)
  BY <1>1 DEF EndsJobs, Placed, PlacedJobs, StageJob, StageDown
<1> QED
  BY <1>1, <1>2, <1>3, <1>5, <1>6

LEMMA TokenJob ==
  ASSUME NEW c, NEW u \in Users, NEW p \in Users, NEW n \in 1..18, Placed(c, u, p, n),
         NEW j \in JobsOf(c), j.kind \notin Ends
  PROVE  /\ StageJob(c, u, p, n, j)
         /\ NoTasks(c) /\ EndsUp(c, u, p) /\ OversDown(c, u, p)
         /\ OnlyJob(c, u, p, j)
<1>1. StageJob(c, u, p, n, j)
  BY DEF Placed, PlacedJobs
<1>2. OnlyJob(c, u, p, j)
  BY <1>1 DEF OnlyJob, Placed, PlacedJobs, StageJob
<1>3. NoTasks(c)
  BY <1>1 DEF NoTasks, Placed, PlacedTasks, StageJob, StageTask
<1>5. EndsUp(c, u, p)
  BY <1>1 DEF EndsUp, Placed, PlacedUp, StageJob, StageUp
<1>6. OversDown(c, u, p)
  BY <1>1 DEF OversDown, Placed, PlacedDown, StageJob, StageDown
<1> QED
  BY <1>1, <1>2, <1>3, <1>5, <1>6

(* The same, for the state after a step. *)
LEMMA NowTask ==
  ASSUME NEW c, NEW u \in Users, NEW p \in Users, NEW n \in 1..18, NEW w \in Users, NEW t,
         StageTask(c, u, p, n, w, t), OnlyTask(c, w, t)',
         EndsUp(c, u, p)', OversDown(c, u, p)', EndsJobs(c, u, p)'
  PROVE  Placed(c, u, p, n)'
<1>1. n \in {1, 6, 7, 10, 11}
  BY DEF StageTask
<1>2. \E v \in Users : \E x \in TasksOf(c, v)' : StageTask(c, u, p, n, v, x)
  BY DEF OnlyTask
<1>3. Present(c, u, p, n)'
  BY <1>1, <1>2 DEF Present, StageTask
<1>4. PlacedTasks(c, u, p, n)'
  BY DEF OnlyTask, PlacedTasks, StageTask
<1>5. PlacedUp(c, u, p, n)' /\ PlacedDown(c, u, p, n)' /\ PlacedJobs(c, u, p, n)'
  BY DEF PlacedUp, PlacedDown, PlacedJobs, EndsUp, OversDown, EndsJobs
<1> QED
  BY <1>3, <1>4, <1>5 DEF Placed

LEMMA NowUp ==
  ASSUME NEW c, NEW u \in Users, NEW p \in Users, NEW n \in 1..18, NEW w \in Users, NEW m,
         StageUp(c, u, p, n, w, m), OnlyUp(c, u, p, w, m)',
         NoTasks(c)', OversDown(c, u, p)', EndsJobs(c, u, p)'
  PROVE  Placed(c, u, p, n)'
<1>1. n \in {2, 8, 12, 15}
  BY DEF StageUp
<1>2. \E v \in Users : \E x \in UpOf(c, v)' : StageUp(c, u, p, n, v, x)
  BY DEF OnlyUp
<1>3. Present(c, u, p, n)'
  BY <1>1, <1>2 DEF Present, StageUp
<1>4. PlacedUp(c, u, p, n)'
  BY DEF OnlyUp, PlacedUp, StageUp
<1>5. PlacedTasks(c, u, p, n)' /\ PlacedDown(c, u, p, n)' /\ PlacedJobs(c, u, p, n)'
  BY DEF PlacedTasks, PlacedDown, PlacedJobs, NoTasks, OversDown, EndsJobs
<1> QED
  BY <1>3, <1>4, <1>5 DEF Placed

LEMMA NowDown ==
  ASSUME NEW c, NEW u \in Users, NEW p \in Users, NEW n \in 1..18, NEW w \in Users, NEW m,
         StageDown(c, u, p, n, w, m), OnlyDown(c, u, p, w, m)',
         NoTasks(c)', EndsUp(c, u, p)', EndsJobs(c, u, p)'
  PROVE  Placed(c, u, p, n)'
<1>1. n \in {4, 9, 14, 17}
  BY DEF StageDown
<1>2. \E v \in Users : \E x \in DownOf(c, v)' : StageDown(c, u, p, n, v, x)
  BY DEF OnlyDown
<1>3. Present(c, u, p, n)'
  BY <1>1, <1>2 DEF Present, StageDown
<1>4. PlacedDown(c, u, p, n)'
  BY DEF OnlyDown, PlacedDown, StageDown
<1>5. PlacedTasks(c, u, p, n)' /\ PlacedUp(c, u, p, n)' /\ PlacedJobs(c, u, p, n)'
  BY DEF PlacedTasks, PlacedUp, PlacedJobs, NoTasks, EndsUp, EndsJobs
<1> QED
  BY <1>3, <1>4, <1>5 DEF Placed

LEMMA NowJob ==
  ASSUME NEW c, NEW u \in Users, NEW p \in Users, NEW n \in 1..18, NEW j,
         StageJob(c, u, p, n, j), OnlyJob(c, u, p, j)',
         NoTasks(c)', EndsUp(c, u, p)', OversDown(c, u, p)'
  PROVE  Placed(c, u, p, n)'
<1>1. n \in {3, 13, 16}
  BY DEF StageJob
<1>2. \E x \in JobsOf(c)' : StageJob(c, u, p, n, x)
  BY DEF OnlyJob
<1>3. Present(c, u, p, n)'
  BY <1>1, <1>2 DEF Present, StageJob
<1>4. PlacedJobs(c, u, p, n)'
  BY DEF OnlyJob, PlacedJobs, StageJob
<1>5. PlacedTasks(c, u, p, n)' /\ PlacedUp(c, u, p, n)' /\ PlacedDown(c, u, p, n)'
  BY DEF PlacedTasks, PlacedUp, PlacedDown, NoTasks, EndsUp, OversDown
<1> QED
  BY <1>3, <1>4, <1>5 DEF Placed

(* A call without a token rings or is negotiated. *)
LEMMA NowSettled ==
  ASSUME NEW c, NEW u \in Users, NEW p \in Users, NEW n \in {5, 18},
         n = 5 => screen'[p].call = c,
         NoTasks(c)', EndsUp(c, u, p)', OversDown(c, u, p)', EndsJobs(c, u, p)'
  PROVE  Placed(c, u, p, n)'
<1>1. Present(c, u, p, n)'
  BY DEF Present
<1>2. /\ PlacedTasks(c, u, p, n)' /\ PlacedUp(c, u, p, n)' /\ PlacedDown(c, u, p, n)'
      /\ PlacedJobs(c, u, p, n)'
  BY DEF PlacedTasks, PlacedUp, PlacedDown, PlacedJobs, NoTasks, EndsUp, OversDown, EndsJobs
<1> QED
  BY <1>1, <1>2 DEF Placed

(* The converse: a call at 5 or at 18 has no token. *)
LEMMA Settled ==
  ASSUME NEW c, NEW u \in Users, NEW p \in Users, NEW n \in {5, 18}, Placed(c, u, p, n)
  PROVE  NoTasks(c) /\ EndsUp(c, u, p) /\ OversDown(c, u, p) /\ EndsJobs(c, u, p)
<1>1. NoTasks(c)
  BY DEF NoTasks, Placed, PlacedTasks, StageTask
<1>2. EndsUp(c, u, p)
  BY DEF EndsUp, Placed, PlacedUp, StageUp
<1>3. OversDown(c, u, p)
  BY DEF OversDown, Placed, PlacedDown, StageDown
<1>4. EndsJobs(c, u, p)
  BY DEF EndsJobs, Placed, PlacedJobs, StageJob
<1> QED
  BY <1>1, <1>2, <1>3, <1>4

(* What there is of a call, when it does not change. *)
LEMMA PlacesKept ==
  ASSUME NEW c, NEW u, NEW p
  PROVE  /\ KeepTasks(c) /\ NoTasks(c) => NoTasks(c)'
         /\ KeepUp(c) /\ EndsUp(c, u, p) => EndsUp(c, u, p)'
         /\ KeepDown(c) /\ OversDown(c, u, p) => OversDown(c, u, p)'
         /\ KeepJobs(c) /\ EndsJobs(c, u, p) => EndsJobs(c, u, p)'
BY DEF KeepTasks, NoTasks, KeepUp, EndsUp, KeepDown, OversDown, KeepJobs, EndsJobs

(* The token stays where it is when its place does. *)
LEMMA PlacedKept ==
  ASSUME NEW c, NEW u \in Users, NEW p \in Users, NEW n \in 1..18, Placed(c, u, p, n),
         KeepTasks(c), KeepUp(c), KeepDown(c), KeepJobs(c), n = 5 => screen'[p].call = c
  PROVE  Placed(c, u, p, n)'
<1>1. Present(c, u, p, n)'
  BY DEF Placed, Present, KeepTasks, KeepUp, KeepDown, KeepJobs
<1>2. /\ PlacedTasks(c, u, p, n)' /\ PlacedUp(c, u, p, n)'
      /\ PlacedDown(c, u, p, n)' /\ PlacedJobs(c, u, p, n)'
  BY DEF Placed, PlacedTasks, PlacedUp, PlacedDown, PlacedJobs, KeepTasks, KeepUp, KeepDown,
    KeepJobs
<1> QED
  BY <1>1, <1>2 DEF Placed

(* From one place to the next. *)
TasksBecome(c, w, gone, next) == \A v \in Users :
  TasksOf(c, v)' = IF v = w THEN (TasksOf(c, v) \ gone) \cup next ELSE TasksOf(c, v)

LEMMA TaskLeft ==
  ASSUME NEW c, NEW w \in Users, NEW t, OnlyTask(c, w, t), TasksBecome(c, w, {t}, {})
  PROVE  NoTasks(c)'
BY DEF OnlyTask, TasksBecome, NoTasks

LEMMA TaskNext ==
  ASSUME NEW c, NEW w \in Users, NEW t, NEW x, OnlyTask(c, w, t), TasksBecome(c, w, {t}, {x})
  PROVE  OnlyTask(c, w, x)'
BY DEF OnlyTask, TasksBecome

LEMMA TaskCome ==
  ASSUME NEW c, NEW w \in Users, NEW x, NoTasks(c), TasksBecome(c, w, {}, {x})
  PROVE  OnlyTask(c, w, x)'
BY DEF OnlyTask, TasksBecome, NoTasks

LEMMA UpCome ==
  ASSUME NEW c, NEW u, NEW p, NEW w \in Users, NEW m, EndsUp(c, u, p), UpGets(c, w, m)
  PROVE  OnlyUp(c, u, p, w, m)'
<1>1. m \in UpOf(c, w)'
  BY DEF UpGets
<1>2. \A v \in Users : \A x \in UpOf(c, v)' : x \in UpOf(c, v) \/ (v = w /\ x = m)
  BY DEF UpGets
<1> QED
  BY <1>1, <1>2 DEF OnlyUp, EndsUp

LEMMA DownCome ==
  ASSUME NEW c, NEW u, NEW p, NEW w \in Users, NEW m, OversDown(c, u, p), DownGets(c, w, m)
  PROVE  OnlyDown(c, u, p, w, m)'
<1>1. m \in DownOf(c, w)'
  BY DEF DownGets
<1>2. \A v \in Users : \A x \in DownOf(c, v)' : x \in DownOf(c, v) \/ (v = w /\ x = m)
  BY DEF DownGets
<1> QED
  BY <1>1, <1>2 DEF OnlyDown, OversDown

LEMMA UpLeft ==
  ASSUME NEW c, NEW u, NEW p, NEW w \in Users, NEW m, m.type \notin Closers,
         OnlyUp(c, u, p, w, m), UpLoses(c, w, m), Queues(c)
  PROVE  EndsUp(c, u, p)'
<1>1. \A x \in UpOf(c, w)' : x \in UpOf(c, w) /\ x # m
  BY DEF UpLoses, Queues
<1>2. \A v \in Users : \A x \in UpOf(c, v)' : x \in UpOf(c, v) /\ (v = w => x # m)
  BY <1>1 DEF UpLoses
<1> QED
  BY <1>2 DEF OnlyUp, EndsUp

LEMMA DownLeft ==
  ASSUME NEW c, NEW u, NEW p, NEW w \in Users, NEW m, m.type \notin Closers,
         OnlyDown(c, u, p, w, m), DownLoses(c, w, m), Queues(c)
  PROVE  OversDown(c, u, p)'
<1>1. \A x \in DownOf(c, w)' : x \in DownOf(c, w) /\ x # m
  BY DEF DownLoses, Queues
<1>2. \A v \in Users : \A x \in DownOf(c, v)' : x \in DownOf(c, v) /\ (v = w => x # m)
  BY <1>1 DEF DownLoses
<1> QED
  BY <1>2 DEF OnlyDown, OversDown

LEMMA JobCome ==
  ASSUME NEW c, NEW u, NEW p, NEW j, EndsJobs(c, u, p), JobsOf(c)' = JobsOf(c) \cup {j}
  PROVE  OnlyJob(c, u, p, j)'
BY DEF EndsJobs, OnlyJob

LEMMA JobLeft ==
  ASSUME NEW c, NEW u, NEW p, NEW j, OnlyJob(c, u, p, j), JobsOf(c)' = JobsOf(c) \ {j}
  PROVE  EndsJobs(c, u, p)'
BY DEF EndsJobs, OnlyJob

(* The call goes on to stage k, and who has left it stays as it is.        *)
Goes(c, u, p, n, k) ==
  /\ Placed(c, u, p, k)' /\ Queues(c)'
  /\ OnScreen(c, u, p, k)' /\ Entered(c, u, p, k)' /\ Connections(c, u, p)'
  /\ \A v \in {u, p} :
       KeepLeaving(c, v) /\ KeepOver(c, v) /\ (Attached(c, p, k, v)' <=> Attached(c, p, n, v))
  /\ HasEntry(c, u)' <=> HasEntry(c, u)
  /\ n <= 3 <=> k <= 3
  /\ k \in {2, 3} => n \in {2, 3} \/ screen'[u].call = c
  /\ Live(c, u, p) /\ Reached(c, u, p, n) => Reached(c, u, p, k)'

(* A call that goes on is sound at its new stage. *)
LEMMA Onward ==
  ASSUME NEW c, NEW u \in Users, NEW p \in Users, NEW n \in 1..18, NEW k \in 1..18,
         CallSound(c, u, p, n), Goes(c, u, p, n, k)
  PROVE  CallSound(c, u, p, k)'
<1>1. Unrung(c, u, p, k)'
  <2>1. n \in {2, 3} /\ screen[u].call = c => screen'[u].call = c
    BY DEF CallSound, Parties, Goes, Attached
  <2> QED
    BY <2>1 DEF CallSound, Unrung, KeepLeaving, KeepOver, Goes
<1>2. Parting(c, u, p, k)'
  BY DEF CallSound, Parting, PartingOf, KeepLeaving, KeepOver, Goes
<1>3. Stages(c, u, p, k)'
  BY DEF CallSound, Stages, Live, KeepLeaving, Goes
<1> QED
  BY <1>1, <1>2, <1>3 DEF CallSound, Parties, Goes

(* The screens and the entries of the call stay as they are.               *)
Sides(c, u, p, n, k) ==
  /\ OnScreen(c, u, p, k)' /\ Entered(c, u, p, k)'
  /\ HasEntry(c, u)' <=> HasEntry(c, u)
  /\ HasEntry(c, u) => activeCalls'[u] = activeCalls[u]
  /\ \A v \in {u, p} : /\ Attached(c, p, k, v)' <=> Attached(c, p, n, v)
                       /\ screen[v].call = c => screen'[v] = screen[v]

(* The screens and the entries, when they do not change. *)
LEMMA SidesKept ==
  ASSUME NEW c, NEW u \in Users, NEW p \in Users, NEW n \in 1..18, NEW k \in 1..18,
         CallSound(c, u, p, n), KeepScreen(c), KeepEntries(c),
         n <= 3 <=> k <= 3, n <= 4 <=> k <= 4, n = 5 <=> k = 5
  PROVE  Sides(c, u, p, n, k)
<1>1. OnScreen(c, u, p, k)'
  <2>1. screen[p].call = c => k >= 5
    BY DEF CallSound, OnScreen
  <2> QED
    BY <2>1, OnScreenKept DEF CallSound
<1>2. /\ Entered(c, u, p, k)' /\ \A v \in Users : HasEntry(c, v)' <=> HasEntry(c, v)
      /\ HasEntry(c, u) => activeCalls'[u] = activeCalls[u]
  BY EnteredKept DEF CallSound
<1>3. \A v \in {u, p} :
        /\ screen'[v].call = c <=> screen[v].call = c
        /\ screen[v].call = c => screen'[v] = screen[v]
  BY AttachedKept
<1>4. \A v \in {u, p} : Attached(c, p, k, v)' <=> Attached(c, p, n, v)
  BY <1>3 DEF Attached
<1> QED
  BY <1>1, <1>2, <1>3, <1>4 DEF Sides

(* The token of a call is moved, and nothing else of the call changes.     *)
Moves(c, u, p, n, k) ==
  /\ Placed(c, u, p, k)' /\ Queues(c)'
  /\ KeepScreen(c) /\ KeepEntries(c) /\ KeepConnections(c)
  /\ \A v \in {u, p} : KeepLeaving(c, v) /\ KeepOver(c, v)
  /\ n <= 3 <=> k <= 3
  /\ n <= 4 <=> k <= 4
  /\ n = 5 <=> k = 5
  /\ k \in {2, 3} => n \in {2, 3} \/ screen[u].call = c
  /\ Live(c, u, p) /\ Reached(c, u, p, n) => Reached(c, u, p, k)

(* A call whose token moves is sound at its new stage. *)
LEMMA Moved ==
  ASSUME NEW c, NEW u \in Users, NEW p \in Users, NEW n \in 1..18, NEW k \in 1..18,
         CallSound(c, u, p, n), Moves(c, u, p, n, k)
  PROVE  CallSound(c, u, p, k)'
<1>1. Sides(c, u, p, n, k)
  BY SidesKept DEF Moves
<1>3. Connections(c, u, p)'
  BY ConnectionsKept DEF CallSound, Moves
<1>5. ASSUME Live(c, u, p), Reached(c, u, p, n)
      PROVE  Reached(c, u, p, k)'
  <2>1. activeCalls'[u] = activeCalls[u]
    BY <1>1, <1>5 DEF Live, Sides
  <2>2. screen[u].call = c
    BY <1>5 DEF CallSound, Live, Parting, PartingOf, Attached, Parties
  <2>3. screen'[u] = screen[u]
    BY <1>1, <2>2 DEF Sides
  <2>4. Reached(c, u, p, k) /\ \A v \in Users : pc[v].call = c => pc'[v] = pc[v]
    BY <1>5 DEF Moves, KeepConnections
  <2>5. /\ k >= 8 => pc'[p] = pc[p]
        /\ k >= 11 => pc'[u] = pc[u]
    BY <2>4 DEF Reached
  <2> QED
    BY <2>1, <2>3, <2>4, <2>5 DEF Reached
<1>6. Goes(c, u, p, n, k)
  BY <1>1, <1>3, <1>5 DEF Goes, Moves, Sides
<1> QED
  BY <1>6, Onward

(* A call that a step does not touch stays sound. *)
LEMMA Frame ==
  ASSUME NEW c, NEW u \in Users, NEW p \in Users, NEW n \in 1..18, CallSound(c, u, p, n), Untouched(c)
  PROVE  CallSound(c, u, p, n)'
<1>1. Placed(c, u, p, n)'
  <2>1. n = 5 => screen'[p].call = c
    BY DEF CallSound, Placed, Present, Untouched, KeepScreen
  <2> QED
    BY <2>1, PlacedKept DEF CallSound, Untouched
<1>2. Queues(c)'
  BY DEF CallSound, Untouched, KeepQueues
<1>3. \A v \in {u, p} : KeepLeaving(c, v) /\ KeepOver(c, v)
  BY LeavingKept, OverForKept DEF Untouched
<1>4. Moves(c, u, p, n, n)
  BY <1>1, <1>2, <1>3 DEF Moves, Untouched
<1> QED
  BY <1>4, Moved

(* Who has left a call is the same when what moves does not close it.      *)
SameEndsUp(c) == \A v \in Users :
  (\E m \in UpOf(c, v)' : m.type \in Ends) <=> \E m \in UpOf(c, v) : m.type \in Ends
SameEndsJobs(c) == \A v \in Users : EndJob(c, v)' <=> EndJob(c, v)

LEMMA LeavingSame ==
  ASSUME NEW c, SameEndsUp(c), SameEndsJobs(c)
  PROVE  \A v \in Users : KeepLeaving(c, v)
BY DEF KeepLeaving, Leaving, SameEndsUp, SameEndsJobs

LEMMA UpSame ==
  ASSUME NEW c, NEW w \in Users, NEW m, m.type \notin Ends,
         KeepUp(c) \/ UpGets(c, w, m) \/ UpLoses(c, w, m)
  PROVE  SameEndsUp(c)
BY DEF SameEndsUp, KeepUp, UpGets, UpLoses

LEMMA JobsSame ==
  ASSUME NEW c, NEW j, j.kind \notin Ends,
         JobsOf(c)' = JobsOf(c) \cup {j} \/ JobsOf(c)' = JobsOf(c) \ {j}
  PROVE  SameEndsJobs(c)
BY DEF SameEndsJobs, EndJob

LEMMA KeptSame ==
  ASSUME NEW c
  PROVE  (KeepUp(c) => SameEndsUp(c)) /\ (KeepJobs(c) => SameEndsJobs(c))
BY DEF SameEndsUp, KeepUp, SameEndsJobs, EndJob, KeepJobs

LEMMA DownSame ==
  ASSUME NEW c, NEW w \in Users, NEW m, m.type \notin Overs,
         DownGets(c, w, m) \/ DownLoses(c, w, m)
  PROVE  \A v \in Users : KeepOver(c, v)
BY DEF KeepOver, OverFor, DownGets, DownLoses

(* What may follow when all that is in the queue ends the call. *)
LEMMA EndsFit ==
  ASSUME NEW c, NEW u, NEW p, NEW w \in Users, NEW m, m.call = c, m.type \notin Openings,
         EndsUp(c, u, p)
  PROVE  Fits(up[w], m)
<1>1. \A x \in Carried(up[w]) : x.call = c => x.type \in Ends
  BY DEF EndsUp, UpOf
<1> QED
  BY <1>1 DEF Fits, Closers

LEMMA OversFit ==
  ASSUME NEW c, NEW u, NEW p, NEW w \in Users, NEW m, m.call = c, m.type \notin Openings,
         OversDown(c, u, p)
  PROVE  Fits(down[w], m)
<1>1. \A x \in Carried(down[w]) : x.call = c => x.type \in Overs
  BY DEF OversDown, DownOf
<1> QED
  BY <1>1 DEF Fits, Closers

-----------------------------------------------------------------------------
(* Tasks. *)

(* A function of the client comes to an await, goes on to the next, or     *)
(* ends.                                                                   *)
LEMMA AddsTask ==
  ASSUME tasks \in [Users -> SUBSET TaskType], NEW w \in Users, NEW t \in TaskType,
         tasks' = [tasks EXCEPT ![w] = @ \cup {t}]
  PROVE  /\ tasks' \in [Users -> SUBSET TaskType]
         /\ TasksBecome(t.call, w, {}, {t})
         /\ \A c : c # t.call => KeepTasks(c)
         /\ OwnTasks /\ Directed(t.room, w) => OwnTasks'
<1>1. tasks' \in [Users -> SUBSET TaskType]
  OBVIOUS
<1>2. \A v \in Users : tasks'[v] = IF v = w THEN tasks[v] \cup {t} ELSE tasks[v]
  OBVIOUS
<1>3. TasksBecome(t.call, w, {}, {t})
  BY <1>2 DEF TasksBecome, TasksOf
<1>4. \A c : c # t.call => KeepTasks(c)
  BY <1>2 DEF TasksOf, KeepTasks
<1>5. OwnTasks /\ Directed(t.room, w) => OwnTasks'
  BY <1>2 DEF OwnTasks
<1> QED
  BY <1>1, <1>3, <1>4, <1>5

LEMMA ResumesTask ==
  ASSUME tasks \in [Users -> SUBSET TaskType], NEW w \in Users, NEW t \in tasks[w],
         NEW next \in SUBSET TaskType, \A x \in next : x.call = t.call /\ x.room = t.room,
         Resumed(w, t, next)
  PROVE  /\ tasks' \in [Users -> SUBSET TaskType]
         /\ t \in TaskType /\ t \in TasksOf(t.call, w)
         /\ TasksBecome(t.call, w, {t}, next)
         /\ \A c : c # t.call => KeepTasks(c)
         /\ OwnTasks => OwnTasks' /\ Directed(t.room, w)
<1>1. tasks' = [tasks EXCEPT ![w] = (@ \ {t}) \cup next]
  BY DEF Resumed
<1>2. tasks' \in [Users -> SUBSET TaskType] /\ t \in TaskType
  BY <1>1
<1>3. \A v \in Users : tasks'[v] = IF v = w THEN (tasks[v] \ {t}) \cup next ELSE tasks[v]
  BY <1>1
<1>4. TasksBecome(t.call, w, {t}, next) /\ t \in TasksOf(t.call, w)
  BY <1>3 DEF TasksBecome, TasksOf
<1>5. \A c : c # t.call => KeepTasks(c)
  BY <1>3 DEF TasksOf, KeepTasks
<1>6. OwnTasks => OwnTasks' /\ Directed(t.room, w)
  BY <1>3 DEF OwnTasks
<1> QED
  BY <1>2, <1>4, <1>5, <1>6

LEMMA TaskEnds ==
  ASSUME tasks \in [Users -> SUBSET TaskType], NEW w \in Users, NEW t \in tasks[w], Resumed(w, t, {})
  PROVE  /\ tasks' \in [Users -> SUBSET TaskType] /\ TasksBecome(t.call, w, {t}, {})
         /\ \A c : c # t.call => KeepTasks(c)
         /\ OwnTasks => OwnTasks'
<1> PICK next : next = {}
  OBVIOUS
<1>1. next \in SUBSET TaskType /\ Resumed(w, t, next)
  OBVIOUS
<1> QED
  BY <1>1, ResumesTask

LEMMA TaskTurns ==
  ASSUME tasks \in [Users -> SUBSET TaskType], NEW w \in Users, NEW t \in tasks[w],
         NEW x \in TaskType, x.call = t.call, x.room = t.room, Resumed(w, t, {x})
  PROVE  /\ tasks' \in [Users -> SUBSET TaskType] /\ TasksBecome(t.call, w, {t}, {x})
         /\ \A c : c # t.call => KeepTasks(c)
         /\ OwnTasks => OwnTasks'
<1> PICK next : next = {x}
  OBVIOUS
<1>1. /\ next \in SUBSET TaskType /\ Resumed(w, t, next)
      /\ \A y \in next : y.call = t.call /\ y.room = t.room
  OBVIOUS
<1> QED
  BY <1>1, ResumesTask

-----------------------------------------------------------------------------
(* What follows from a variable that does not change. *)

LEMMA SameTypes ==
  ASSUME calls' = calls
  PROVE  /\ CallType' = CallType /\ ConnectionType' = ConnectionType /\ MediaType' = MediaType
         /\ CallEntryType' = CallEntryType /\ TaskType' = TaskType /\ UpType' = UpType
         /\ DownType' = DownType /\ JobType' = JobType
BY DEF CallType, ConnectionType, MediaType, CallEntryType, TaskType, UpType, DownType,
  JobType

LEMMA SameTasks ==
  ASSUME tasks' = tasks
  PROVE  (\A c : KeepTasks(c)) /\ (OwnTasks => OwnTasks')
BY DEF KeepTasks, TasksOf, OwnTasks

LEMMA SameUp ==
  ASSUME up' = up
  PROVE  /\ \A c : KeepUp(c) /\ \A v \in Users : Ordered(up[v], c) => Ordered(up'[v], c)
         /\ OwnUp => OwnUp'
BY DEF KeepUp, UpOf, OwnUp

LEMMA SameDown ==
  ASSUME down' = down
  PROVE  /\ \A c : KeepDown(c) /\ \A v \in Users : Ordered(down[v], c) => Ordered(down'[v], c)
         /\ OwnDown => OwnDown'
BY DEF KeepDown, DownOf, OwnDown

LEMMA SameJobs ==
  ASSUME jobs' = jobs
  PROVE  /\ \A c : KeepJobs(c)
         /\ OwnJobs /\ astray \subseteq astray' => OwnJobs'
BY DEF KeepJobs, JobsOf, OwnJobs

LEMMA SameScreens ==
  ASSUME screen' = screen
  PROVE  /\ ref' = ref => \A c : KeepScreen(c)
         /\ OwnScreens => OwnScreens'
         /\ media' = media /\ pc' = pc /\ OpenForScreen /\ astray \subseteq astray' => OpenForScreen'
<1>1. ref' = ref => \A c : KeepScreen(c)
  BY DEF KeepScreen
<1>2. OwnScreens => OwnScreens'
  BY DEF OwnScreens, NoScreen
<1>3. media' = media /\ pc' = pc /\ OpenForScreen /\ astray \subseteq astray' => OpenForScreen'
  BY DEF OpenForScreen
<1> QED
  BY <1>1, <1>2, <1>3

LEMMA SameEntries ==
  ASSUME activeCalls' = activeCalls
  PROVE  (\A c : KeepEntries(c)) /\ (OwnEntries => OwnEntries')
BY DEF KeepEntries, OwnEntries, NoCall

LEMMA SameConnections ==
  ASSUME pc' = pc
  PROVE  (\A c : KeepConnections(c)) /\ (OwnConnections => OwnConnections')
BY DEF KeepConnections, OwnConnections

LEMMA SameQueues ==
  ASSUME NEW c,
         \A v \in Users : Ordered(up[v], c) => Ordered(up'[v], c),
         \A v \in Users : Ordered(down[v], c) => Ordered(down'[v], c)
  PROVE  KeepQueues(c)
BY DEF KeepQueues, Queues

(* A call is sound after a step when it is sound before. *)
Steady(c) == \A u \in Users, p \in Users, n \in 1..18 : CallSound(c, u, p, n) =>
  \E k \in 1..18 : CallSound(c, u, p, k)'

(* A step that does not touch a call keeps it sound. *)
LEMMA UntouchedSteady ==
  ASSUME NEW c, Untouched(c)
  PROVE  Steady(c)
BY Frame DEF Steady

(* All calls are sound after a step that keeps each sound or makes it      *)
(* astray.                                                                 *)
LEMMA AllSteady ==
  ASSUME CallsSound, calls' = calls, astray \subseteq astray',
         \A c \in 1..calls : c \notin astray' => Steady(c)
  PROVE  CallsSound'
<1> SUFFICES ASSUME NEW c \in 1..calls, c \notin astray'
             PROVE  \E u \in Users, p \in Users, n \in 1..18 : CallSound(c, u, p, n)'
  BY DEF CallsSound
<1>1. PICK u \in Users, p \in Users, n \in 1..18 : CallSound(c, u, p, n)
  BY DEF CallsSound
<1> QED
  BY <1>1 DEF Steady

-----------------------------------------------------------------------------
(* The steps of the user and of the client. *)

(* A render copies the screen. *)
LEMMA CopyToRefKeeps ==
  ASSUME ScreenInv, NEW w \in Users, CopyToRef(w)
  PROVE  ScreenInv'
<1>1. /\ ref' = [ref EXCEPT ![w] = screen[w]]
      /\ UNCHANGED <<screen, media, pc, tasks, up, down, sock, activeCalls, jobs, calls, astray>>
  BY DEF CopyToRef, wire, link, serverState
<1>2. CallTyped'
  <2>1. ref' \in [Users -> CallType]
    BY <1>1 DEF ScreenInv, CallTyped
  <2> QED
    BY <1>1, <2>1, SameTypes DEF ScreenInv, CallTyped
<1>3. /\ OwnScreens' /\ OwnTasks' /\ OwnUp' /\ OwnDown' /\ OwnEntries' /\ OwnConnections' /\ OwnJobs'
      /\ OpenForScreen'
  BY <1>1, SameScreens, SameTasks, SameUp, SameDown, SameEntries, SameConnections, SameJobs
    DEF ScreenInv
<1>4. ASSUME NEW c
      PROVE  Steady(c)
  <2>1. KeepScreen(c)
    <3>1. \A v \in Users : ref'[v] \in {ref[v], screen[v]}
      BY <1>1 DEF ScreenInv, CallTyped
    <3> QED
      BY <1>1, <3>1 DEF KeepScreen
  <2>2. Untouched(c)
    BY <1>1, <2>1, SameTasks, SameUp, SameDown, SameEntries, SameConnections, SameJobs,
      SameQueues
      DEF Untouched
  <2> QED
    BY <2>2, UntouchedSteady
<1>5. CallsSound'
  BY <1>1, <1>4, AllSteady DEF ScreenInv
<1> QED
  BY <1>2, <1>3, <1>5 DEF ScreenInv

(* stopLocalStream ends the stream of its own, and no other. *)
LEMMA StoppedMedia ==
  ASSUME calls \in Nat, media \in [Users -> MediaType], NEW w \in Users, media' = Stopped(w)
  PROVE  /\ media' \in [Users -> MediaType]
         /\ \A v \in Users : v # w => media'[v] = media[v]
         /\ media'[w].live = media[w].live \ {media[w].local} /\ media'[w].local = 0
<1>1. media' = [media EXCEPT ![w] = [live |-> @.live \ {@.local}, local |-> 0]]
  BY DEF Stopped
<1>2. media[w] \in MediaType
  OBVIOUS
<1>3. [live |-> media[w].live \ {media[w].local}, local |-> 0] \in [live : SUBSET (1..calls), local : 0..calls]
  BY <1>2 DEF MediaType
<1> QED
  BY <1>1, <1>3 DEF MediaType

(* The callee accepts: the call that rings goes on with a task.            *)
LEMMA AcceptCallSteady ==
  ASSUME ScreenInv, NEW w \in Users, AcceptCall(w), NEW c, c = screen[w].call
  PROVE  Steady(c)
<1> PICK t : t = Task("accept", "media", screen[w].room, c)
  OBVIOUS
<1>1. /\ screen[w].status = "incoming" /\ ref[w] = screen[w]
      /\ screen' = [screen EXCEPT ![w] = [screen[w] EXCEPT !.status = "connected"]]
      /\ ref' = [ref EXCEPT ![w] = screen'[w]]
      /\ tasks' = [tasks EXCEPT ![w] = @ \cup {t}]
      /\ UNCHANGED <<pc, up, down, sock, activeCalls, jobs, calls, astray>>
  BY DEF AcceptCall, Shows, Clicked, wire, link, serverState
<1> SUFFICES ASSUME NEW u \in Users, NEW p \in Users, NEW n \in 1..18, CallSound(c, u, p, n),
                    NEW k \in 1..18, k = 6
             PROVE  CallSound(c, u, p, k)'
  BY DEF Steady
<1>2. c = screen[w].call /\ w = p /\ n = 5 /\ screen[p].room = {u, p} /\ u # p
  BY <1>1 DEF CallSound, OnScreen, Parties
<1>3. /\ \A v \in Users : v # p => screen'[v] = screen[v] /\ ref'[v] = ref[v]
      /\ screen'[p].status = "connected" /\ screen'[p].room = {u, p} /\ screen'[p].call = c
      /\ ref'[p] = screen'[p]
  BY <1>1, <1>2 DEF ScreenInv, CallTyped, CallType
<1>4. /\ \A d : KeepUp(d) /\ KeepDown(d) /\ KeepJobs(d) /\ KeepEntries(d) /\ KeepConnections(d)
      /\ KeepQueues(c)
  BY <1>1, SameUp, SameDown, SameJobs, SameEntries, SameConnections, SameQueues
<1>5. NoTasks(c) /\ EndsUp(c, u, p) /\ OversDown(c, u, p) /\ EndsJobs(c, u, p)
  BY <1>2, Settled DEF CallSound
<1>6. t = Task("accept", "media", {u, p}, c) /\ t.call = c
  BY <1>2 DEF Task
<1>7. Placed(c, u, p, k)'
  <2>1. OnlyTask(c, p, t)'
    <3>1. \A v \in Users : tasks'[v] = IF v = p THEN tasks[v] \cup {t} ELSE tasks[v]
      BY <1>1, <1>2 DEF ScreenInv, CallTyped
    <3> QED
      BY <3>1, <1>5, <1>6 DEF OnlyTask, TasksOf, NoTasks
  <2>2. StageTask(c, u, p, k, p, t)
    BY <1>6 DEF StageTask
  <2>3. EndsUp(c, u, p)' /\ OversDown(c, u, p)' /\ EndsJobs(c, u, p)'
    BY <1>4, <1>5, PlacesKept
  <2> QED
    BY <2>1, <2>2, <2>3, NowTask
<1>8. Queues(c)'
  BY <1>4 DEF KeepQueues, CallSound
<1>9. OnScreen(c, u, p, k)'
  BY <1>2, <1>3 DEF CallSound, OnScreen
<1>10. /\ Entered(c, u, p, k)' /\ \A v \in Users : HasEntry(c, v)' <=> HasEntry(c, v)
  <2>1. n >= 4 => k >= 4
    BY <1>2
  <2>2. Entered(c, u, p, n) /\ KeepEntries(c)
    BY <1>4 DEF CallSound
  <2> QED
    BY <2>1, <2>2, EnteredKept
<1>11. Connections(c, u, p)'
  BY <1>4, ConnectionsKept DEF CallSound
<1>12. \A v \in Users : /\ EndJob(c, v)' <=> EndJob(c, v)
                        /\ Leaving(c, v)' <=> Leaving(c, v)
                        /\ OverFor(c, v)' <=> OverFor(c, v)
                        /\ Attached(c, p, k, v)' <=> Attached(c, p, n, v)
  BY <1>2, <1>3, <1>4, LeavingKept, OverForKept DEF Attached, KeepLeaving, KeepOver
<1>13. Unrung(c, u, p, k)'
  BY DEF Unrung
<1>14. Parting(c, u, p, k)'
  BY <1>2, <1>10, <1>12 DEF CallSound, Parting, PartingOf
<1>15. Stages(c, u, p, k)'
  BY <1>1, <1>2, <1>3, <1>10, <1>12 DEF CallSound, Stages, Reached, Live
<1> QED
  BY <1>7, <1>8, <1>9, <1>10, <1>11, <1>13, <1>14, <1>15 DEF CallSound, Parties

(* A click on accept keeps the invariant. *)
LEMMA AcceptCallKeeps ==
  ASSUME ScreenInv, NEW w \in Users, AcceptCall(w)
  PROVE  ScreenInv'
<1> PICK c : c = screen[w].call
  OBVIOUS
<1> PICK t : t = Task("accept", "media", screen[w].room, c)
  OBVIOUS
<1>1. /\ screen[w].status = "incoming" /\ ref[w] = screen[w] /\ media' = Stopped(w)
      /\ screen' = [screen EXCEPT ![w] = [screen[w] EXCEPT !.status = "connected"]]
      /\ ref' = [ref EXCEPT ![w] = screen'[w]]
      /\ tasks' = [tasks EXCEPT ![w] = @ \cup {t}]
      /\ UNCHANGED <<pc, up, down, sock, activeCalls, jobs, calls, astray>>
  BY DEF AcceptCall, Shows, Clicked, wire, link, serverState
<1>2. /\ screen[w] \in CallType /\ c \in 1..calls /\ Directed(screen[w].room, w)
      /\ calls \in Nat
  BY <1>1 DEF ScreenInv, CallTyped, CallType, OwnScreens
<1>3. /\ \A v \in Users : v # w => screen'[v] = screen[v] /\ ref'[v] = ref[v]
      /\ screen'[w].status = "connected" /\ screen'[w].room = screen[w].room /\ screen'[w].call = c
      /\ screen'[w] \in CallType /\ ref'[w] = screen'[w]
  BY <1>1, <1>2 DEF ScreenInv, CallTyped, CallType
<1>4. t \in TaskType /\ t.call = c /\ t.room = screen[w].room
  BY <1>2 DEF Task, TaskType, Directed
<1>5. /\ tasks' \in [Users -> SUBSET TaskType] /\ OwnTasks' /\ \A d : d # c => KeepTasks(d)
  BY <1>1, <1>2, <1>4, AddsTask DEF ScreenInv, CallTyped
<1>6. /\ media' \in [Users -> MediaType]
      /\ \A v \in Users : v # w => media'[v] = media[v]
      /\ media'[w].live = media[w].live \ {media[w].local} /\ media'[w].local = 0
  BY <1>1, StoppedMedia DEF ScreenInv, CallTyped
<1>7. CallTyped'
  <2>1. screen' \in [Users -> CallType] /\ ref' \in [Users -> CallType]
    BY <1>1, <1>3 DEF ScreenInv, CallTyped
  <2> QED
    BY <1>1, <1>5, <1>6, <2>1, SameTypes DEF ScreenInv, CallTyped
<1>8. OwnScreens'
  BY <1>2, <1>3 DEF ScreenInv, OwnScreens
<1>9. OwnUp' /\ OwnDown' /\ OwnEntries' /\ OwnConnections' /\ OwnJobs'
  BY <1>1, SameUp, SameDown, SameEntries, SameConnections, SameJobs DEF ScreenInv
<1>10. OpenForScreen'
  BY <1>1, <1>3, <1>6 DEF ScreenInv, OpenForScreen
<1>11. ASSUME NEW d
       PROVE  Steady(d)
  <2>1. CASE d = c
    BY <2>1, AcceptCallSteady
  <2>2. CASE d # c
    <3>1. KeepScreen(d)
      BY <2>2, <1>3 DEF KeepScreen
    <3>2. Untouched(d)
      BY <1>1, <1>5, <2>2, <3>1, SameUp, SameDown, SameEntries, SameConnections, SameJobs,
        SameQueues
        DEF Untouched
    <3> QED
      BY <3>2, UntouchedSteady
  <2> QED
    BY <2>1, <2>2
<1>12. CallsSound'
  BY <1>1, <1>11, AllSteady DEF ScreenInv
<1> QED
  BY <1>5, <1>7, <1>8, <1>9, <1>10, <1>12 DEF ScreenInv

-----------------------------------------------------------------------------
(* A client leaves a call. *)

(* The screen of w no longer shows the call, and the server is told or     *)
(* knows, or the other side is gone as well.                               *)
Departs(c, u, p, n, k, w, v) ==
  /\ w \in Users /\ v \in Users /\ ((w = u /\ v = p) \/ (w = p /\ v = u))
  /\ Placed(c, u, p, k)' /\ Queues(c)' /\ KeepEntries(c)
  /\ screen'[w].call # c
  /\ \A x \in Users : x # w => screen'[x] = screen[x] /\ ref'[x] = ref[x]
  /\ \A x \in Users : pc'[x].call = c => pc'[x] = pc[x]
  /\ \/ k = n /\ (w = p => n # 4)
     \/ w = p /\ k = 18 /\ n >= 4
     \/ w = u /\ k = 18 /\ n = 1
  /\ k <= 3 => w = u /\ Leaving(c, u)'
  /\ KeepLeaving(c, v) /\ KeepOver(c, v)
  /\ EndJob(c, w)' <=> EndJob(c, w)
  /\ Leaving(c, w) => Leaving(c, w)'
  /\ OverFor(c, w)' => OverFor(c, w)
  /\ HasEntry(c, u) => Leaving(c, w)' \/ Leaving(c, v)'

(* A call that w leaves is sound: at the same stage, or at the end of its  *)
(* way if w held its token.                                                *)
LEMMA Closed ==
  ASSUME NEW c, NEW u \in Users, NEW p \in Users, NEW n \in 1..18, NEW k \in 1..18,
         CallSound(c, u, p, n), NEW w, NEW v, Departs(c, u, p, n, k, w, v)
  PROVE  CallSound(c, u, p, k)'
<1> USE DEF Departs
<1>1. u # p /\ w \in Users /\ v \in Users /\ w # v
  BY DEF CallSound, Parties
<1>2. OnScreen(c, u, p, k)'
  <2> SUFFICES ASSUME NEW x \in Users, screen'[x].call = c
               PROVE  /\ x \in {u, p} /\ screen'[x].room = {u, p}
                      /\ x = u => /\ screen'[x].status \in {"calling", "connected"}
                                  /\ ref'[x].room = {u, p} /\ ref'[x].status \in {"calling", "connected"}
                                  /\ screen'[x].status = "calling" => ref'[x] = screen'[x]
                                  /\ k <= 3 => screen'[x].status = "calling"
                      /\ x = p => /\ k >= 5
                                  /\ screen'[x].status = IF k = 5 THEN "incoming" ELSE "connected"
                                  /\ k > 5 => ref'[x] = screen'[x]
    BY DEF OnScreen
  <2>1. x # w /\ screen'[x] = screen[x] /\ ref'[x] = ref[x] /\ screen[x].call = c
    OBVIOUS
  <2>2. x = p => k = n \/ n = 1
    BY <2>1, <1>1
  <2> QED
    BY <2>1, <2>2, <1>1 DEF CallSound, OnScreen
<1>3. n >= 4 => k >= 4
  OBVIOUS
<1>4. /\ Entered(c, u, p, k)' /\ \A x \in Users : HasEntry(c, x)' <=> HasEntry(c, x)
  BY <1>3, EnteredKept DEF CallSound
<1>5. Connections(c, u, p)'
  BY DEF CallSound, Connections
<1>6. /\ ~Attached(c, p, k, w)'
      /\ Attached(c, p, k, v)' <=> Attached(c, p, n, v)
  BY <1>1 DEF Attached
<1>7. Unrung(c, u, p, k)'
  BY <1>1 DEF CallSound, Unrung, KeepLeaving, KeepOver
<1>8. Attached(c, p, n, v) /\ k >= 4 => n >= 4
  BY <1>1 DEF CallSound, OnScreen, Attached
<1>9. Parting(c, u, p, k)'
  <2>1. CASE w = u
    <3>1. PartingOf(c, u, p, k, u, p)'
      BY <2>1, <1>1, <1>4, <1>6 DEF CallSound, Parting, PartingOf, KeepLeaving, KeepOver
    <3>2. PartingOf(c, u, p, k, p, u)'
      BY <2>1, <1>1, <1>4, <1>6, <1>8 DEF CallSound, Parting, PartingOf, KeepLeaving,
        KeepOver
    <3> QED
      BY <3>1, <3>2 DEF Parting
  <2>2. CASE w = p
    <3>1. PartingOf(c, u, p, k, p, u)'
      BY <2>2, <1>1, <1>4, <1>6 DEF CallSound, Parting, PartingOf, KeepLeaving, KeepOver
    <3>2. PartingOf(c, u, p, k, u, p)'
      BY <2>2, <1>1, <1>4, <1>6, <1>8 DEF CallSound, Parting, PartingOf, KeepLeaving,
        KeepOver
    <3> QED
      BY <3>1, <3>2 DEF Parting
  <2> QED
    BY <2>1, <2>2
<1>10. Stages(c, u, p, k)'
  BY <1>4 DEF Stages, Live
<1> QED
  BY <1>2, <1>4, <1>5, <1>7, <1>9, <1>10 DEF CallSound, Parties

(* handleEndCall closes screen, camera and connection together. *)
LEMMA EndsCall ==
  ASSUME ScreenInv, NEW w \in Users, HandleEndCall(w), calls' = calls, astray \subseteq astray'
  PROVE  /\ screen' \in [Users -> CallType] /\ media' \in [Users -> MediaType]
         /\ pc' \in [Users -> ConnectionType]
         /\ screen'[w] = NoScreen /\ screen'[w].call = 0 /\ pc'[w].call = 0
         /\ \A v \in Users : v # w => screen'[v] = screen[v] /\ pc'[v] = pc[v]
         /\ OwnScreens' /\ OwnConnections' /\ OpenForScreen'
         /\ \A d \in 1..calls : d # screen[w].call /\ ref' = [ref EXCEPT ![w] = ref'[w]] => KeepScreen(d)
         /\ \A d \in 1..calls : d # screen[w].call /\ d \notin astray' => KeepConnections(d)
         /\ \A d \in 1..calls : \A x \in Users : pc'[x].call = d => pc'[x] = pc[x]
<1>1. /\ screen' = [screen EXCEPT ![w] = NoScreen] /\ media' = Stopped(w)
      /\ pc' = [pc EXCEPT ![w] = NoConnection]
  BY DEF HandleEndCall, Shows
<1>2. /\ calls \in Nat /\ 0 \in 0..calls
      /\ screen \in [Users -> CallType] /\ pc \in [Users -> ConnectionType]
      /\ media \in [Users -> MediaType] /\ ref \in [Users -> CallType]
  BY DEF ScreenInv, CallTyped
<1>3. NoScreen \in CallType /\ NoScreen.call = 0 /\ NoScreen.status = "idle"
  BY <1>2 DEF NoScreen, CallType
<1>4. NoConnection \in ConnectionType /\ NoConnection.call = 0 /\ NoConnection.state = "none"
  BY <1>2 DEF NoConnection, ConnectionType
<1>5. /\ screen'[w] = NoScreen /\ pc'[w] = NoConnection
      /\ \A v \in Users : v # w => screen'[v] = screen[v] /\ pc'[v] = pc[v]
      /\ screen' \in [Users -> CallType] /\ pc' \in [Users -> ConnectionType]
  BY <1>1, <1>2, <1>3, <1>4
<1>6. /\ media' \in [Users -> MediaType]
      /\ \A v \in Users : v # w => media'[v] = media[v]
      /\ media'[w].live = media[w].live \ {media[w].local} /\ media'[w].local = 0
  BY <1>1, <1>2, StoppedMedia
<1>7. OwnScreens' /\ OwnConnections'
  BY <1>3, <1>4, <1>5 DEF ScreenInv, OwnScreens, OwnConnections, NoScreen
<1>8. OpenForScreen'
  BY <1>3, <1>4, <1>5, <1>6 DEF ScreenInv, OpenForScreen
<1>9. ASSUME NEW d \in 1..calls, d # screen[w].call, ref' = [ref EXCEPT ![w] = ref'[w]]
      PROVE  KeepScreen(d)
  BY <1>2, <1>3, <1>5, <1>9 DEF KeepScreen
<1>10. ASSUME NEW d \in 1..calls, d # screen[w].call, d \notin astray'
       PROVE  KeepConnections(d)
  <2>1. pc[w].call # d
    BY <1>10 DEF ScreenInv, OpenForScreen
  <2> QED
    BY <2>1, <1>2, <1>4, <1>5 DEF KeepConnections
<1>11. \A d \in 1..calls : \A x \in Users : pc'[x].call = d => pc'[x] = pc[x]
  BY <1>2, <1>4, <1>5
<1> QED
  BY <1>3, <1>4, <1>5, <1>6, <1>7, <1>8, <1>9, <1>10, <1>11

(* A client tells the server that it leaves the call. *)
EndSaid(c, u, p, w) ==
  /\ \A x \in Users : x # w => UpOf(c, x)' = UpOf(c, x)
  /\ \A x \in Users : UpOf(c, x) \subseteq UpOf(c, x)'
  /\ \E m \in UpOf(c, w)' : m.type \in Ends
  /\ EndsUp(c, u, p) => EndsUp(c, u, p)'
  /\ \A n : PlacedUp(c, u, p, n) => PlacedUp(c, u, p, n)'
  /\ \A x \in Users : Ordered(up[x], c) => Ordered(up'[x], c)

(* The message that a client leaves its call. *)
LEMMA EmitsEnd ==
  ASSUME up \in [Users -> Seq(UpType)], NEW c \in 1..calls, NEW u, NEW p, {u, p} \in DirectRooms,
         NEW w \in Users, w \in {u, p}, NEW type \in Ends, up' = Emitted(w, type, {u, p}, c)
  PROVE  EndSaid(c, u, p, w)
<1> PICK m : m = Message(type, {u, p}, c)
  OBVIOUS
<1>1. m.type = type /\ m.room = {u, p} /\ m.call = c
  BY DEF Message
<1>2. Message(type, {u, p}, c) \in UpType
  BY DEF Message, UpType, Ends
<1>3. /\ UpGets(c, w, Message(type, {u, p}, c))
      /\ \A d : \A x \in Users : Ordered(up[x], d) /\ (x = w /\ d = c =>
              Fits(up[x], Message(type, {u, p}, c))) => Ordered(up'[x], d)
  <2>1. SaysOne(w, type, {u, p}, c)
    BY <1>2, OneSaid
  <2> QED
    BY <2>1 DEF SaysOne
<1>4. \A x \in Users : Fits(up[x], Message(type, {u, p}, c))
  BY <1>1 DEF Fits, Ends, Closers, Openings
<1>5. \A x \in Users : UpOf(c, x)' = IF x = w THEN UpOf(c, x) \cup {m} ELSE UpOf(c, x)
  BY <1>3 DEF UpGets
<1>6. \A x \in Users : UpOf(c, x) \subseteq UpOf(c, x)'
  BY <1>5
<1>7. m \in UpOf(c, w)'
  BY <1>5
<1>8. \A x \in Users : \A y \in UpOf(c, x)' : y \in UpOf(c, x) \/ (x \in {u, p} /\ y = m)
  BY <1>5
<1>9. EndsUp(c, u, p) => EndsUp(c, u, p)'
  <2> SUFFICES ASSUME EndsUp(c, u, p), NEW x \in Users, NEW y \in UpOf(c, x)'
               PROVE  x \in {u, p} /\ y.type \in Ends /\ y.room = {u, p}
    BY DEF EndsUp
  <2> QED
    BY <1>1, <1>8 DEF EndsUp
<1>10. ASSUME NEW n, PlacedUp(c, u, p, n)
       PROVE  PlacedUp(c, u, p, n)'
  <2> SUFFICES ASSUME NEW x \in Users, NEW y \in UpOf(c, x)'
               PROVE  StageUp(c, u, p, n, x, y) \/ (x \in {u, p} /\ y.type \in Ends /\ y.room = {u, p})
    BY DEF PlacedUp
  <2> QED
    BY <1>1, <1>8, <1>10 DEF PlacedUp
<1> QED
  BY <1>1, <1>3, <1>4, <1>5, <1>6, <1>7, <1>9, <1>10 DEF EndSaid

(* The user hangs up or rejects. *)
LEMMA HangUpSteady ==
  ASSUME ScreenInv, NEW w \in Users, HangUp(w), NEW c \in 1..calls, c = screen[w].call
  PROVE  Steady(c)
<1> SUFFICES ASSUME NEW u \in Users, NEW p \in Users, NEW n \in 1..18, CallSound(c, u, p, n)
             PROVE  \E k \in 1..18 : CallSound(c, u, p, k)'
  BY DEF Steady
<1> PICK type : type = IF screen[w].status = "incoming" THEN "reject" ELSE "end"
  OBVIOUS
<1>1. /\ up' = Emitted(w, type, screen[w].room, c) /\ HandleEndCall(w)
      /\ ref' = [ref EXCEPT ![w] = screen'[w]]
      /\ UNCHANGED <<tasks, down, sock, activeCalls, jobs, calls, astray>>
  BY DEF HangUp, Clicked, serverState, link
<1>2. PICK v \in Users : (w = u /\ v = p) \/ (w = p /\ v = u)
  BY DEF CallSound, OnScreen
<1>3. screen[w].room = {u, p} /\ u # p /\ (w = p => n >= 5)
  BY DEF CallSound, OnScreen, Parties
<1>4. type \in Ends /\ {u, p} \in DirectRooms /\ calls \in Nat
  BY DEF Ends, CallSound, Parties, ScreenInv, CallTyped
<1>5. w \in {u, p}
  BY <1>2
<1>41. EndSaid(c, u, p, w)
  <2>1. up \in [Users -> Seq(UpType)] /\ up' = Emitted(w, type, {u, p}, c)
    BY <1>1, <1>3 DEF ScreenInv, CallTyped
  <2> QED
    BY <2>1, <1>4, <1>5, EmitsEnd
<1>6. /\ \A x \in Users : x # w => UpOf(c, x)' = UpOf(c, x)
      /\ \A x \in Users : UpOf(c, x) \subseteq UpOf(c, x)'
      /\ \E y \in UpOf(c, w)' : y.type \in Ends
      /\ EndsUp(c, u, p) => EndsUp(c, u, p)'
      /\ PlacedUp(c, u, p, n) => PlacedUp(c, u, p, n)'
      /\ \A x \in Users : Ordered(up[x], c) => Ordered(up'[x], c)
  BY <1>41 DEF EndSaid
<1>8. KeepTasks(c) /\ KeepDown(c) /\ KeepJobs(c) /\ KeepEntries(c)
  BY <1>1, SameTasks, SameDown, SameJobs, SameEntries
<1>9. Queues(c)'
  BY <1>1, <1>6, SameDown DEF CallSound, Queues
<1>10. /\ screen'[w].call # c
       /\ \A x \in Users : x # w => screen'[x] = screen[x] /\ ref'[x] = ref[x]
       /\ \A x \in Users : pc'[x].call = c => pc'[x] = pc[x]
  <2>1. \A x \in Users : x # w => ref'[x] = ref[x]
    BY <1>1 DEF ScreenInv, CallTyped
  <2> QED
    BY <2>1, <1>1, <1>4, EndsCall
<1>11. /\ Leaving(c, w)' /\ KeepLeaving(c, v) /\ KeepOver(c, v) /\ KeepOver(c, w)
       /\ EndJob(c, w)' <=> EndJob(c, w)
  <2>1. w # v
    BY <1>2, <1>3
  <2>2. \A x \in Users : EndJob(c, x)' <=> EndJob(c, x)
    BY <1>8 DEF EndJob, KeepJobs
  <2>3. Leaving(c, w)'
    BY <1>6 DEF Leaving
  <2>4. KeepLeaving(c, v)
    BY <2>1, <2>2, <1>6 DEF KeepLeaving, Leaving
  <2> QED
    BY <2>2, <2>3, <2>4, <1>8, OverForKept
<1> PICK k \in 1..18 : k = IF n = 5 /\ w = p THEN 18 ELSE n
  OBVIOUS
<1>12. Placed(c, u, p, k)'
  <2>1. CASE n = 5 /\ w = p
    <3>1. NoTasks(c) /\ EndsUp(c, u, p) /\ OversDown(c, u, p) /\ EndsJobs(c, u, p)
      BY <2>1, Settled DEF CallSound
    <3>2. NoTasks(c)' /\ OversDown(c, u, p)' /\ EndsJobs(c, u, p)'
      BY <3>1, <1>8, PlacesKept
    <3>3. EndsUp(c, u, p)'
      BY <3>1, <1>6
    <3>4. k \in {5, 18} /\ k # 5
      BY <2>1
    <3> QED
      BY <3>2, <3>3, <3>4, NowSettled
  <2>2. CASE ~(n = 5 /\ w = p)
    <3>1. k = n
      BY <2>2
    <3>2. Present(c, u, p, n)'
      <4>1. n \in {2, 8, 12, 15} => \E x \in Users : \E y \in UpOf(c, x)' : StageUp(c, u, p, n, x, y)
        BY <1>6 DEF CallSound, Placed, Present
      <4>2. n = 5 => screen'[p].call = c
        BY <2>2, <1>10 DEF CallSound, Placed, Present
      <4> QED
        BY <4>1, <4>2, <1>8 DEF CallSound, Placed, Present, KeepTasks, KeepDown, KeepJobs
    <3>3. PlacedUp(c, u, p, n)'
      BY <1>6 DEF CallSound, Placed
    <3>4. PlacedTasks(c, u, p, n)' /\ PlacedDown(c, u, p, n)' /\ PlacedJobs(c, u, p, n)'
      BY <1>8 DEF CallSound, Placed, PlacedTasks, PlacedDown, PlacedJobs, KeepTasks,
        KeepDown, KeepJobs
    <3> QED
      BY <3>1, <3>2, <3>3, <3>4 DEF Placed
  <2> QED
    BY <2>1, <2>2
<1>13. \/ k = n /\ (w = p => n # 4)
       \/ w = p /\ k = 18 /\ n >= 4
       \/ w = u /\ k = 18 /\ n = 1
  BY <1>3
<1>14. k <= 3 => w = u /\ Leaving(c, u)'
  BY <1>2, <1>3, <1>11
<1>15. /\ Leaving(c, w) => Leaving(c, w)'
       /\ OverFor(c, w)' => OverFor(c, w)
       /\ HasEntry(c, u) => Leaving(c, w)' \/ Leaving(c, v)'
  BY <1>11 DEF KeepOver
<1>16. Departs(c, u, p, n, k, w, v)
  BY <1>2, <1>8, <1>9, <1>10, <1>11, <1>12, <1>13, <1>14, <1>15 DEF Departs
<1>17. CallSound(c, u, p, k)'
  BY <1>16, Closed
<1> QED
  BY <1>17

(* A hang-up keeps the invariant. *)
LEMMA HangUpKeeps ==
  ASSUME ScreenInv, NEW w \in Users, HangUp(w)
  PROVE  ScreenInv'
<1> PICK c : c = screen[w].call
  OBVIOUS
<1> PICK type : type = IF screen[w].status = "incoming" THEN "reject" ELSE "end"
  OBVIOUS
<1>1. /\ up' = Emitted(w, type, screen[w].room, c) /\ HandleEndCall(w)
      /\ screen[w].status # "idle"
      /\ ref' = [ref EXCEPT ![w] = screen'[w]]
      /\ UNCHANGED <<tasks, down, sock, activeCalls, jobs, calls, astray>>
  BY DEF HangUp, Clicked, serverState, link
<1>2. c \in 1..calls /\ screen[w].room \in DirectRooms \cup {Nowhere} /\ calls \in Nat
  BY <1>1 DEF ScreenInv, CallTyped, CallType, OwnScreens
<1>3. Message(type, screen[w].room, c) \in UpType
  BY <1>2 DEF Message, UpType
<1>4. type # "end" => Directed(screen[w].room, w)
  BY DEF ScreenInv, OwnScreens
<1>5. up' \in [Users -> Seq(UpType)] /\ OwnUp' /\ \A d : d # c => KeepUp(d) /\
        \A v \in Users : Ordered(up[v], d) => Ordered(up'[v], d)
  <2>1. up \in [Users -> Seq(UpType)] /\ OwnUp
    BY DEF ScreenInv, CallTyped
  <2> QED
    BY <2>1, <1>1, <1>3, <1>4, Emits
<1>6. /\ screen' \in [Users -> CallType] /\ media' \in [Users -> MediaType]
      /\ pc' \in [Users -> ConnectionType]
      /\ OwnScreens' /\ OwnConnections' /\ OpenForScreen'
      /\ \A d \in 1..calls : d # c /\ d \notin astray' => KeepScreen(d) /\ KeepConnections(d)
  <2>1. ref' = [ref EXCEPT ![w] = ref'[w]]
    BY <1>1 DEF ScreenInv, CallTyped
  <2> QED
    BY <2>1, <1>1, EndsCall
<1>7. CallTyped'
  <2>1. ref' \in [Users -> CallType]
    BY <1>1, <1>6 DEF ScreenInv, CallTyped
  <2> QED
    BY <1>1, <1>5, <1>6, <2>1, SameTypes DEF ScreenInv, CallTyped
<1>8. OwnTasks' /\ OwnDown' /\ OwnEntries' /\ OwnJobs'
  BY <1>1, SameTasks, SameDown, SameEntries, SameJobs DEF ScreenInv
<1>9. ASSUME NEW d \in 1..calls, d \notin astray'
      PROVE  Steady(d)
  <2>1. CASE d = c
    BY <2>1, HangUpSteady
  <2>2. CASE d # c
    <3>1. Untouched(d)
      BY <1>1, <1>5, <1>6, <1>9, <2>2, SameTasks, SameDown, SameEntries, SameJobs,
        SameQueues DEF Untouched
    <3> QED
      BY <3>1, UntouchedSteady
  <2> QED
    BY <2>1, <2>2
<1>10. CallsSound'
  BY <1>1, <1>9, AllSteady DEF ScreenInv
<1> QED
  BY <1>5, <1>6, <1>7, <1>8, <1>10 DEF ScreenInv

(* The camera is there: the caller's request goes out, or the callee waits *)
(* for the servers.                                                        *)
LEMMA MediaReadySteady ==
  ASSUME ScreenInv, NEW w \in Users, NEW t \in tasks[w], MediaReady(w, t),
         NEW c \in 1..calls, c = t.call, c \notin astray'
  PROVE  Steady(c)
<1> SUFFICES ASSUME NEW u \in Users, NEW p \in Users, NEW n \in 1..18, CallSound(c, u, p, n)
             PROVE  \E k \in 1..18 : CallSound(c, u, p, k)'
  BY DEF Steady
<1>1. /\ t.at = "media" /\ screen[w].call = c /\ calls' = calls
      /\ UNCHANGED <<screen, ref, pc, down, activeCalls, jobs>>
  BY DEF MediaReady, serverState, Late, link
<1>2. /\ tasks \in [Users -> SUBSET TaskType] /\ up \in [Users -> Seq(UpType)] /\ t \in TaskType
      /\ t \in TasksOf(c, w)
  BY DEF ScreenInv, CallTyped, TasksOf
<1>3. /\ StageTask(c, u, p, n, w, t) /\ OnlyTask(c, w, t)
      /\ EndsUp(c, u, p) /\ OversDown(c, u, p) /\ EndsJobs(c, u, p)
  BY <1>2, TokenTask DEF CallSound
<1>4. /\ KeepDown(c) /\ KeepJobs(c) /\ KeepEntries(c) /\ KeepScreen(c) /\ KeepConnections(c)
      /\ \A v \in Users : Ordered(down[v], c) => Ordered(down'[v], c)
  BY <1>1, SameDown, SameJobs, SameEntries, SameScreens, SameConnections
<1>5. OversDown(c, u, p)' /\ EndsJobs(c, u, p)' /\ \A v \in Users : KeepOver(c, v)
  BY <1>3, <1>4, PlacesKept, OverForKept
<1>6. u \in Users /\ p \in Users /\ u # p /\ {u, p} \in DirectRooms
  BY DEF CallSound, Parties
<1>7. CASE t.kind = "start"
  <2> PICK type : type = "initiate"
    OBVIOUS
  <2> PICK m : m = Message(type, {u, p}, c)
    OBVIOUS
  <2> PICK k \in 1..18 : k = 2
    OBVIOUS
  <2>1. /\ n = 1 /\ w = u /\ t.room = {u, p}
        /\ m.type = "initiate" /\ m.room = {u, p} /\ m.call = c
    BY <1>1, <1>3, <1>7 DEF StageTask, Task, Message
  <2>2. up' = Emitted(w, type, {u, p}, c) /\ Resumed(w, t, {})
    BY <1>7, <2>1 DEF MediaReady
  <2>3. Message(type, {u, p}, c) \in UpType
    BY <1>6 DEF Message, UpType
  <2>4. /\ UpGets(c, w, Message(type, {u, p}, c))
        /\ \A d : \A x \in Users : Ordered(up[x], d) /\ (x = w /\ d = c =>
                Fits(up[x], Message(type, {u, p}, c))) => Ordered(up'[x], d)
    <3>1. SaysOne(w, type, {u, p}, c)
      BY <1>2, <2>2, <2>3, OneSaid
    <3> QED
      BY <3>1 DEF SaysOne
  <2>5. NoTasks(c)'
    <3>1. TasksBecome(c, w, {t}, {})
      BY <1>2, <2>2, TaskEnds
    <3> QED
      BY <3>1, <1>3, TaskLeft
  <2>6. Fits(up[w], m)
    <3>1. ~Leaving(c, u)
      BY <1>1, <2>1 DEF CallSound, Parting, PartingOf, Attached
    <3>2. \A x \in Carried(up[w]) : x.call # c
      BY <3>1, <2>1, <1>3 DEF Leaving, EndsUp, UpOf
    <3> QED
      BY <3>2, <2>1 DEF Fits
  <2>7. Queues(c)'
    BY <2>4, <2>6, <1>4 DEF CallSound, Queues
  <2>8. Placed(c, u, p, k)'
    <3>1. OnlyUp(c, u, p, w, m)'
      BY <1>3, <2>4, UpCome
    <3>2. StageUp(c, u, p, k, w, m)
      BY <2>1 DEF StageUp
    <3> QED
      BY <3>1, <3>2, <1>5, <2>5, NowUp
  <2>9. \A v \in Users : KeepLeaving(c, v)
    <3>1. SameEndsUp(c)
      BY <2>1, <2>4, UpSame DEF Ends
    <3> QED
      BY <3>1, <1>4, KeptSame, LeavingSame
  <2>10. ~Live(c, u, p)
    BY <2>1 DEF CallSound, Live, Entered
  <2>11. Moves(c, u, p, n, k)
    BY <1>1, <1>4, <1>5, <2>1, <2>7, <2>8, <2>9, <2>10 DEF Moves
  <2> QED
    BY <2>11, Moved
<1>8. CASE t.kind = "accept"
  <2> PICK x : x = [t EXCEPT !.at = "ice"]
    OBVIOUS
  <2> PICK k \in 1..18 : k = 7
    OBVIOUS
  <2>1. n = 6 /\ w = p /\ t = Task("accept", "media", {u, p}, c) /\ t.room = {u, p}
    BY <1>1, <1>3, <1>8 DEF StageTask, Task
  <2>2. x = Task("accept", "ice", {u, p}, c) /\ x \in TaskType /\ x.call = c /\ x.room = {u, p}
    <3>1. x.kind = "accept" /\ x.at = "ice" /\ x.room = t.room /\ x.call = t.call /\ x \in TaskType
      BY <1>2, <1>8 DEF TaskType
    <3>2. x = Task("accept", "ice", {u, p}, c)
      BY <2>1 DEF Task
    <3> QED
      BY <3>1, <3>2, <2>1
  <2>3. up' = up /\ Resumed(w, t, {x})
    BY <1>8 DEF MediaReady
  <2>4. OnlyTask(c, w, x)'
    <3>1. TasksBecome(c, w, {t}, {x})
      <4>1. x \in TaskType /\ x.call = t.call /\ x.room = t.room /\ Resumed(w, t, {x})
        BY <2>1, <2>2, <2>3
      <4> QED
        BY <4>1, <1>2, TaskTurns
    <3> QED
      BY <3>1, <1>3, TaskNext
  <2>5. KeepUp(c) /\ \A v \in Users : Ordered(up[v], c) => Ordered(up'[v], c)
    BY <2>3, SameUp
  <2>6. Queues(c)'
    BY <2>5, <1>4 DEF CallSound, Queues
  <2>7. EndsUp(c, u, p)'
    BY <1>3, <2>5, PlacesKept
  <2>8. Placed(c, u, p, k)'
    <3>1. StageTask(c, u, p, k, w, x)
      BY <2>1, <2>2 DEF StageTask
    <3> QED
      BY <3>1, <1>5, <2>4, <2>7, NowTask
  <2>9. \A v \in Users : KeepLeaving(c, v)
    BY <1>4, <2>5, LeavingKept
  <2>10. Reached(c, u, p, n) => Reached(c, u, p, k)
    BY <2>1 DEF Reached
  <2>11. Moves(c, u, p, n, k)
    BY <1>1, <1>4, <1>5, <2>1, <2>6, <2>8, <2>9, <2>10 DEF Moves
  <2> QED
    BY <2>11, Moved
<1> QED
  BY <1>7, <1>8 DEF MediaReady

(* A camera that is there keeps the invariant: a stream that was running   *)
(* becomes a stray of its call.                                            *)
LEMMA MediaReadyKeeps ==
  ASSUME ScreenInv, NEW w \in Users, NEW t \in tasks[w], MediaReady(w, t)
  PROVE  ScreenInv'
<1> PICK c : c = t.call
  OBVIOUS
<1>1. /\ t.at = "media" /\ media' = [media EXCEPT ![w] = [live |-> @.live \cup {c}, local |-> c]]
      /\ astray' = astray \cup {d \in {c} : Late(w, c)} \cup ({media[w].local} \ {0, c})
      /\ UNCHANGED <<screen, ref, pc, down, sock, activeCalls, jobs, calls>>
  BY DEF MediaReady, serverState, link
<1>2. /\ tasks \in [Users -> SUBSET TaskType] /\ up \in [Users -> Seq(UpType)] /\ OwnTasks /\ OwnUp
      /\ t \in TaskType /\ c \in 1..calls /\ t.room \in DirectRooms /\ Directed(t.room, w)
      /\ calls \in Nat /\ media \in [Users -> MediaType] /\ media[w] \in MediaType
  BY DEF ScreenInv, CallTyped, TaskType, OwnTasks
<1>3. /\ tasks' \in [Users -> SUBSET TaskType] /\ OwnTasks' /\ up' \in [Users -> Seq(UpType)] /\ OwnUp'
      /\ \A d : d # c => KeepTasks(d)
      /\ \A d : d # c => KeepUp(d) /\ \A v \in Users : Ordered(up[v], d) => Ordered(up'[v], d)
  <2>1. CASE t.kind = "start"
    <3> PICK type : type = "initiate"
      OBVIOUS
    <3>1. up' = Emitted(w, type, t.room, c) /\ Resumed(w, t, {})
      BY <2>1 DEF MediaReady
    <3>2. Message(type, t.room, c) \in UpType
      BY <1>2 DEF Message, UpType
    <3>3. tasks' \in [Users -> SUBSET TaskType] /\ OwnTasks' /\ \A d : d # c => KeepTasks(d)
      BY <1>2, <3>1, TaskEnds
    <3> QED
      BY <1>2, <3>1, <3>2, <3>3, Emits
  <2>2. CASE t.kind = "accept"
    <3> PICK x : x = [t EXCEPT !.at = "ice"]
      OBVIOUS
    <3>1. up' = up /\ Resumed(w, t, {x})
      BY <2>2 DEF MediaReady
    <3>2. x \in TaskType /\ x.call = c /\ x.room = t.room
      BY <1>2 DEF TaskType
    <3>3. tasks' \in [Users -> SUBSET TaskType] /\ OwnTasks' /\ \A d : d # c => KeepTasks(d)
      BY <1>2, <3>1, <3>2, TaskTurns
    <3> QED
      BY <1>2, <3>1, <3>3, SameUp
  <2> QED
    BY <2>1, <2>2 DEF MediaReady
<1>4. /\ media' \in [Users -> MediaType] /\ astray' \subseteq 1..calls /\ astray \subseteq astray'
      /\ \A v \in Users : media'[v] =
           IF v = w THEN [live |-> media[w].live \cup {c}, local |-> c] ELSE media[v]
  <2>1. [live |-> media[w].live \cup {c}, local |-> c] \in MediaType
    BY <1>2 DEF MediaType
  <2>2. media[w].local \in 0..calls
    BY <1>2 DEF MediaType
  <2>3. astray \subseteq 1..calls
    BY DEF ScreenInv, CallTyped
  <2>4. astray' \subseteq 1..calls /\ astray \subseteq astray'
    <3>1. \A d \in astray' : d \in astray \/ d = c \/ (d = media[w].local /\ d # 0)
      BY <1>1
    <3>2. astray \subseteq astray'
      BY <1>1
    <3> QED
      BY <3>1, <3>2, <2>2, <2>3, <1>2
  <2> QED
    BY <2>1, <2>4, <1>1, <1>2
<1>5. CallTyped'
  BY <1>1, <1>3, <1>4, SameTypes DEF ScreenInv, CallTyped
<1>6. OwnScreens' /\ OwnDown' /\ OwnEntries' /\ OwnConnections' /\ OwnJobs'
  BY <1>1, <1>4, SameScreens, SameDown, SameEntries, SameConnections, SameJobs DEF ScreenInv
<1>7. OpenForScreen'
  <2>1. c \in astray' \/ screen[w].call = c
    BY <1>1 DEF Late
  <2>2. \A d \in media[w].live : d = c \/ d \in astray'
    <3>1. media[w].live \subseteq 1..calls
      BY <1>2 DEF MediaType
    <3> QED
      BY <3>1, <1>1, <1>2 DEF ScreenInv, OpenForScreen
  <2> QED
    BY <2>1, <2>2, <1>1, <1>4 DEF ScreenInv, OpenForScreen
<1>8. ASSUME NEW d \in 1..calls, d \notin astray'
      PROVE  Steady(d)
  <2>1. CASE d = c
    BY <2>1, <1>8, MediaReadySteady
  <2>2. CASE d # c
    <3>1. Untouched(d)
      BY <1>1, <1>3, <2>2, SameScreens, SameDown, SameEntries, SameConnections, SameJobs,
        SameQueues
        DEF Untouched
    <3> QED
      BY <3>1, UntouchedSteady
  <2> QED
    BY <2>1, <2>2
<1>9. CallsSound'
  BY <1>1, <1>4, <1>8, AllSteady DEF ScreenInv
<1> QED
  BY <1>3, <1>5, <1>6, <1>7, <1>9 DEF ScreenInv

(* The camera or the connection is refused: the call is over for the client. *)
LEMMA TaskThrowsSteady ==
  ASSUME ScreenInv, NEW w \in Users, NEW t \in tasks[w], TaskThrows(w, t),
         NEW c \in 1..calls, c = t.call, c \notin astray'
  PROVE  Steady(c)
<1> SUFFICES ASSUME NEW u \in Users, NEW p \in Users, NEW n \in 1..18, CallSound(c, u, p, n)
             PROVE  \E k \in 1..18 : CallSound(c, u, p, k)'
  BY DEF Steady
<1>1. /\ t.at \in {"media", "ice"} /\ t.kind # "answered" /\ HandleEndCall(w) /\ Resumed(w, t, {})
      /\ UNCHANGED <<ref, down, activeCalls, jobs, calls>>
      /\ astray \subseteq astray'
  BY DEF TaskThrows, serverState, link
<1>2. /\ tasks \in [Users -> SUBSET TaskType] /\ up \in [Users -> Seq(UpType)] /\ t \in TaskType
      /\ t \in TasksOf(c, w) /\ calls \in Nat
  BY DEF ScreenInv, CallTyped, TasksOf
<1>3. /\ StageTask(c, u, p, n, w, t) /\ OnlyTask(c, w, t)
      /\ EndsUp(c, u, p) /\ OversDown(c, u, p) /\ EndsJobs(c, u, p)
  BY <1>2, TokenTask DEF CallSound
<1>4. /\ KeepDown(c) /\ KeepJobs(c) /\ KeepEntries(c)
      /\ \A v \in Users : Ordered(down[v], c) => Ordered(down'[v], c)
  BY <1>1, SameDown, SameJobs, SameEntries
<1>5. /\ OversDown(c, u, p)' /\ EndsJobs(c, u, p)' /\ \A v \in Users : KeepOver(c, v)
      /\ SameEndsJobs(c)
  BY <1>3, <1>4, PlacesKept, OverForKept, KeptSame
<1>6. u \in Users /\ p \in Users /\ u # p /\ {u, p} \in DirectRooms
  BY DEF CallSound, Parties
<1>7. NoTasks(c)'
  <2>1. TasksBecome(c, w, {t}, {})
    BY <1>1, <1>2, TaskEnds
  <2> QED
    BY <2>1, <1>3, TaskLeft
<1>8. /\ screen'[w].call # c
      /\ \A x \in Users : x # w => screen'[x] = screen[x] /\ ref'[x] = ref[x]
      /\ \A x \in Users : pc'[x].call = c => pc'[x] = pc[x]
  BY <1>1, <1>2, EndsCall
<1> PICK k \in 1..18 : k = 18
  OBVIOUS
<1>9. CASE t.kind = "start"
  <2>1. n = 1 /\ w = u /\ up' = up
    BY <1>1, <1>3, <1>9 DEF StageTask, Task, TaskThrows
  <2>2. KeepUp(c) /\ \A v \in Users : Ordered(up[v], c) => Ordered(up'[v], c)
    BY <2>1, SameUp
  <2>3. EndsUp(c, u, p)'
    BY <1>3, <2>2, PlacesKept
  <2>4. Placed(c, u, p, k)'
    BY <1>5, <1>7, <2>3, NowSettled
  <2>5. Queues(c)'
    BY <2>2, <1>4 DEF CallSound, Queues
  <2>6. \A v \in Users : KeepLeaving(c, v)
    BY <1>4, <2>2, LeavingKept
  <2>7. ~HasEntry(c, u)
    BY <2>1 DEF CallSound, Entered
  <2>8. Departs(c, u, p, n, k, u, p)
    BY <1>4, <1>5, <1>6, <1>8, <2>1, <2>4, <2>5, <2>6, <2>7 DEF Departs, KeepLeaving,
      KeepOver
  <2> QED
    BY <2>8, Closed
<1>10. CASE t.kind = "accept"
  <2> PICK type : type = "reject"
    OBVIOUS
  <2>1. n \in {6, 7} /\ w = p /\ up' = Emitted(w, type, {u, p}, c)
    BY <1>1, <1>3, <1>10 DEF StageTask, Task, TaskThrows
  <2>2. EndSaid(c, u, p, w)
    <3>1. w \in {u, p} /\ type \in Ends
      BY <2>1 DEF Ends
    <3> QED
      BY <3>1, <2>1, <1>2, <1>6, EmitsEnd
  <2>3. EndsUp(c, u, p)' /\ \A v \in Users : Ordered(up[v], c) => Ordered(up'[v], c)
    BY <1>3, <2>2 DEF EndSaid
  <2>4. Placed(c, u, p, k)'
    BY <1>5, <1>7, <2>3, NowSettled
  <2>5. Queues(c)'
    BY <2>3, <1>4 DEF CallSound, Queues
  <2>6. KeepLeaving(c, u) /\ Leaving(c, p)'
    <3>1. UpOf(c, u)' = UpOf(c, u) /\ \E m \in UpOf(c, p)' : m.type \in Ends
      BY <2>1, <2>2, <1>6 DEF EndSaid
    <3> QED
      BY <3>1, <1>5 DEF KeepLeaving, Leaving, SameEndsJobs
  <2>7. Departs(c, u, p, n, k, p, u)
    BY <1>4, <1>5, <1>6, <1>8, <2>1, <2>4, <2>5, <2>6 DEF Departs, KeepOver, SameEndsJobs
  <2> QED
    BY <2>7, Closed
<1> QED
  BY <1>1, <1>3, <1>9, <1>10 DEF StageTask, Task

(* A camera or a connection that is refused keeps the invariant. *)
LEMMA TaskThrowsKeeps ==
  ASSUME ScreenInv, NEW w \in Users, NEW t \in tasks[w], TaskThrows(w, t)
  PROVE  ScreenInv'
<1> PICK c : c = t.call
  OBVIOUS
<1>1. /\ HandleEndCall(w) /\ Resumed(w, t, {})
      /\ UNCHANGED <<ref, down, sock, activeCalls, jobs, calls>>
      /\ up' = IF t.kind = "accept" THEN Emitted(w, "reject", t.room, c) ELSE up
      /\ astray' = astray \cup ({screen[w].call} \ {0, c}) \cup {d \in {c} : t.kind = "answered"}
  BY DEF TaskThrows, serverState, Victim, link
<1>2. /\ tasks \in [Users -> SUBSET TaskType] /\ up \in [Users -> Seq(UpType)] /\ OwnTasks /\ OwnUp
      /\ t \in TaskType /\ c \in 1..calls /\ t.room \in DirectRooms /\ Directed(t.room, w)
      /\ calls \in Nat /\ screen[w] \in CallType /\ astray \subseteq 1..calls
      /\ ref \in [Users -> CallType]
  BY DEF ScreenInv, CallTyped, TaskType, OwnTasks
<1>3. tasks' \in [Users -> SUBSET TaskType] /\ OwnTasks' /\ \A d : d # c => KeepTasks(d)
  BY <1>1, <1>2, TaskEnds
<1>4. /\ up' \in [Users -> Seq(UpType)] /\ OwnUp'
      /\ \A d : d # c => KeepUp(d) /\ \A v \in Users : Ordered(up[v], d) => Ordered(up'[v], d)
  <2>1. CASE t.kind = "accept"
    <3> PICK type : type = "reject"
      OBVIOUS
    <3>1. up' = Emitted(w, type, t.room, c)
      BY <1>1, <2>1
    <3>2. Message(type, t.room, c) \in UpType
      BY <1>2 DEF Message, UpType
    <3> QED
      BY <1>2, <3>1, <3>2, Emits
  <2>2. CASE t.kind # "accept"
    BY <1>1, <1>2, <2>2, SameUp
  <2> QED
    BY <2>1, <2>2
<1>5. astray' \subseteq 1..calls /\ astray \subseteq astray'
  <2>1. screen[w].call \in 0..calls
    BY <1>2 DEF CallType
  <2>2. \A d \in 0..calls : d # 0 => d \in 1..calls
    BY <1>2
  <2>3. \A d \in astray' : d \in astray \/ d = c \/ (d = screen[w].call /\ d # 0)
    BY <1>1
  <2> QED
    BY <2>1, <2>2, <2>3, <1>1, <1>2
<1>6. /\ screen' \in [Users -> CallType] /\ media' \in [Users -> MediaType]
      /\ pc' \in [Users -> ConnectionType]
      /\ OwnScreens' /\ OwnConnections' /\ OpenForScreen'
      /\ \A d \in 1..calls : d # c /\ d \notin astray' => KeepScreen(d) /\ KeepConnections(d)
  <2>1. ref' = [ref EXCEPT ![w] = ref'[w]]
    BY <1>1, <1>2
  <2>2. \A d \in 1..calls : d # c /\ d \notin astray' => d # screen[w].call
    BY <1>1, <1>2
  <2> QED
    BY <2>1, <2>2, <1>1, <1>5, EndsCall
<1>7. CallTyped'
  BY <1>1, <1>3, <1>4, <1>5, <1>6, SameTypes DEF ScreenInv, CallTyped
<1>8. OwnDown' /\ OwnEntries' /\ OwnJobs'
  BY <1>1, <1>5, SameDown, SameEntries, SameJobs DEF ScreenInv
<1>9. ASSUME NEW d \in 1..calls, d \notin astray'
      PROVE  Steady(d)
  <2>1. CASE d = c
    BY <1>9, <2>1, TaskThrowsSteady
  <2>2. CASE d # c
    <3>1. Untouched(d)
      BY <1>1, <1>3, <1>4, <1>6, <1>9, <2>2, SameDown, SameEntries, SameJobs, SameQueues DEF
        Untouched
    <3> QED
      BY <3>1, UntouchedSteady
  <2> QED
    BY <2>1, <2>2
<1>10. CallsSound'
  BY <1>1, <1>5, <1>9, AllSteady DEF ScreenInv
<1> QED
  BY <1>3, <1>4, <1>6, <1>7, <1>8, <1>10 DEF ScreenInv

(* The servers are there: the callee answers, or the caller makes an offer. *)
LEMMA IceFetchedSteady ==
  ASSUME ScreenInv, NEW w \in Users, NEW t \in tasks[w], IceFetched(w, t),
         NEW c \in 1..calls, c = t.call, c \notin astray'
  PROVE  Steady(c)
<1> SUFFICES ASSUME NEW u \in Users, NEW p \in Users, NEW n \in 1..18, CallSound(c, u, p, n)
             PROVE  \E k \in 1..18 : CallSound(c, u, p, k)'
  BY DEF Steady
<1>1. /\ t.at = "ice" /\ screen[w].call = c
      /\ pc' = [pc EXCEPT ![w] = [state |-> "new", room |-> t.room, call |-> c]]
      /\ UNCHANGED <<screen, ref, down, activeCalls, jobs, calls>>
  BY DEF IceFetched, Connected, serverState, Late, link
<1>2. /\ tasks \in [Users -> SUBSET TaskType] /\ up \in [Users -> Seq(UpType)] /\ t \in TaskType
      /\ t \in TasksOf(c, w) /\ pc \in [Users -> ConnectionType]
  BY DEF ScreenInv, CallTyped, TasksOf
<1>3. /\ StageTask(c, u, p, n, w, t) /\ OnlyTask(c, w, t)
      /\ EndsUp(c, u, p) /\ OversDown(c, u, p) /\ EndsJobs(c, u, p)
  BY <1>2, TokenTask DEF CallSound
<1>4. /\ KeepDown(c) /\ KeepJobs(c) /\ KeepEntries(c) /\ KeepScreen(c)
      /\ \A v \in Users : Ordered(down[v], c) => Ordered(down'[v], c)
  BY <1>1, SameDown, SameJobs, SameEntries, SameScreens
<1>5. OversDown(c, u, p)' /\ EndsJobs(c, u, p)' /\ \A v \in Users : KeepOver(c, v)
  BY <1>3, <1>4, PlacesKept, OverForKept
<1>6. u \in Users /\ p \in Users /\ u # p /\ {u, p} \in DirectRooms
  BY DEF CallSound, Parties
<1>7. t.room = {u, p} /\ w \in {u, p}
  BY <1>3 DEF StageTask, Task
<1>8. /\ \A v \in Users : v # w => pc'[v] = pc[v]
      /\ pc'[w].call = c /\ pc'[w].room = {u, p}
  BY <1>1, <1>2, <1>7
<1>9. Connections(c, u, p)'
  BY <1>8 DEF CallSound, Connections
<1>10. CASE t.kind = "accept"
  <2> PICK type : type = "accept"
    OBVIOUS
  <2> PICK m : m = Message(type, {u, p}, c)
    OBVIOUS
  <2> PICK k \in 1..18 : k = 8
    OBVIOUS
  <2>1. n = 7 /\ w = p /\ m.type = type /\ m.call = c
    BY <1>1, <1>3, <1>10 DEF StageTask, Task, Message
  <2>2. up' = Emitted(w, type, {u, p}, c) /\ Resumed(w, t, {})
    BY <1>7, <1>10 DEF IceFetched
  <2>3. Message(type, {u, p}, c) \in UpType
    BY <1>6 DEF Message, UpType
  <2>4. /\ UpGets(c, w, Message(type, {u, p}, c))
        /\ \A d : \A x \in Users : Ordered(up[x], d) /\ (x = w /\ d = c =>
                Fits(up[x], Message(type, {u, p}, c))) => Ordered(up'[x], d)
    <3>1. SaysOne(w, type, {u, p}, c)
      BY <1>2, <2>2, <2>3, OneSaid
    <3> QED
      BY <3>1 DEF SaysOne
  <2>5. NoTasks(c)'
    <3>1. TasksBecome(c, w, {t}, {})
      BY <1>2, <2>2, TaskEnds
    <3> QED
      BY <3>1, <1>3, TaskLeft
  <2>6. Fits(up[w], m)
    BY <1>3, <2>1, EndsFit DEF Openings
  <2>7. Queues(c)'
    BY <2>4, <2>6, <1>4 DEF CallSound, Queues
  <2>8. Placed(c, u, p, k)'
    <3>1. OnlyUp(c, u, p, w, m)'
      BY <1>3, <2>4, UpCome
    <3>2. StageUp(c, u, p, k, w, m)
      BY <2>1 DEF StageUp
    <3> QED
      BY <3>1, <3>2, <1>5, <2>5, NowUp
  <2>9. \A v \in Users : KeepLeaving(c, v)
    <3>1. SameEndsUp(c)
      BY <2>1, <2>4, UpSame DEF Ends
    <3> QED
      BY <3>1, <1>4, KeptSame, LeavingSame
  <2>10. Sides(c, u, p, n, k)
    BY <1>4, <2>1, SidesKept
  <2>11. Live(c, u, p) /\ Reached(c, u, p, n) => Reached(c, u, p, k)'
    BY <2>1, <2>10, <1>1, <1>8 DEF Live, Reached, Sides
  <2>12. Goes(c, u, p, n, k)
    BY <1>5, <1>9, <2>1, <2>7, <2>8, <2>9, <2>10, <2>11 DEF Goes, Sides
  <2> QED
    BY <2>12, Onward
<1>11. CASE t.kind = "answered"
  <2> PICK x : x = [t EXCEPT !.at = "offer"]
    OBVIOUS
  <2> PICK k \in 1..18 : k = 11
    OBVIOUS
  <2>1. n = 10 /\ w = u /\ t = Task("answered", "ice", {u, p}, c)
    BY <1>1, <1>3, <1>11 DEF StageTask, Task
  <2>2. x \in TaskType /\ x.call = t.call /\ x.room = t.room
    BY <1>2 DEF TaskType
  <2>3. x = Task("answered", "offer", {u, p}, c)
    BY <2>1 DEF Task
  <2>4. up' = up /\ Resumed(w, t, {x})
    BY <1>11 DEF IceFetched
  <2>5. OnlyTask(c, w, x)'
    <3>1. TasksBecome(c, w, {t}, {x})
      BY <1>2, <2>2, <2>4, TaskTurns
    <3> QED
      BY <3>1, <1>3, TaskNext
  <2>6. KeepUp(c) /\ \A v \in Users : Ordered(up[v], c) => Ordered(up'[v], c)
    BY <2>4, SameUp
  <2>7. Queues(c)'
    BY <2>6, <1>4 DEF CallSound, Queues
  <2>8. Placed(c, u, p, k)'
    <3>1. EndsUp(c, u, p)'
      BY <1>3, <2>6, PlacesKept
    <3>2. StageTask(c, u, p, k, w, x)
      BY <2>1, <2>3 DEF StageTask
    <3> QED
      BY <3>1, <3>2, <1>5, <2>5, NowTask
  <2>9. \A v \in Users : KeepLeaving(c, v)
    BY <1>4, <2>6, LeavingKept
  <2>10. Sides(c, u, p, n, k)
    BY <1>4, <2>1, SidesKept
  <2>11. Live(c, u, p) /\ Reached(c, u, p, n) => Reached(c, u, p, k)'
    BY <2>1, <2>10, <1>1, <1>6, <1>8 DEF Live, Reached, Sides
  <2>12. Goes(c, u, p, n, k)
    BY <1>5, <1>9, <2>1, <2>7, <2>8, <2>9, <2>10, <2>11 DEF Goes, Sides
  <2> QED
    BY <2>12, Onward
<1> QED
  BY <1>10, <1>11 DEF IceFetched

(* The answer of the ICE servers keeps the invariant. *)
LEMMA IceFetchedKeeps ==
  ASSUME ScreenInv, NEW w \in Users, NEW t \in tasks[w], IceFetched(w, t)
  PROVE  ScreenInv'
<1> PICK c : c = t.call
  OBVIOUS
<1>1. /\ media' = Stopped(w)
      /\ pc' = [pc EXCEPT ![w] = [state |-> "new", room |-> t.room, call |-> c]]
      /\ astray' = astray \cup {d \in {c} : Late(w, c)} \cup ({screen[w].call} \ {0, c})
      /\ UNCHANGED <<screen, ref, down, sock, activeCalls, jobs, calls>>
  BY DEF IceFetched, Connected, serverState, Victim, link
<1>2. /\ tasks \in [Users -> SUBSET TaskType] /\ up \in [Users -> Seq(UpType)] /\ OwnTasks /\ OwnUp
      /\ t \in TaskType /\ c \in 1..calls /\ t.room \in DirectRooms /\ Directed(t.room, w)
      /\ calls \in Nat /\ media \in [Users -> MediaType] /\ screen[w] \in CallType
      /\ pc \in [Users -> ConnectionType] /\ astray \subseteq 1..calls
  BY DEF ScreenInv, CallTyped, TaskType, OwnTasks
<1>3. /\ tasks' \in [Users -> SUBSET TaskType] /\ OwnTasks' /\ up' \in [Users -> Seq(UpType)] /\ OwnUp'
      /\ \A d : d # c => KeepTasks(d)
      /\ \A d : d # c => KeepUp(d) /\ \A v \in Users : Ordered(up[v], d) => Ordered(up'[v], d)
  <2>1. CASE t.kind = "accept"
    <3> PICK type : type = "accept"
      OBVIOUS
    <3>1. up' = Emitted(w, type, t.room, c) /\ Resumed(w, t, {})
      BY <2>1 DEF IceFetched
    <3>2. Message(type, t.room, c) \in UpType
      BY <1>2 DEF Message, UpType
    <3>3. tasks' \in [Users -> SUBSET TaskType] /\ OwnTasks' /\ \A d : d # c => KeepTasks(d)
      BY <1>2, <3>1, TaskEnds
    <3> QED
      BY <1>2, <3>1, <3>2, <3>3, Emits
  <2>2. CASE t.kind = "answered"
    <3> PICK x : x = [t EXCEPT !.at = "offer"]
      OBVIOUS
    <3>1. up' = up /\ Resumed(w, t, {x})
      BY <2>2 DEF IceFetched
    <3>2. x \in TaskType /\ x.call = c /\ x.room = t.room
      BY <1>2 DEF TaskType
    <3>3. tasks' \in [Users -> SUBSET TaskType] /\ OwnTasks' /\ \A d : d # c => KeepTasks(d)
      BY <1>2, <3>1, <3>2, TaskTurns
    <3> QED
      BY <1>2, <3>1, <3>3, SameUp
  <2> QED
    BY <2>1, <2>2 DEF IceFetched
<1>4. /\ astray' \subseteq 1..calls /\ astray \subseteq astray'
      /\ screen[w].call \in {0, c} \cup astray' /\ (c \in astray' \/ screen[w].call = c)
  <2>1. screen[w].call \in 0..calls
    BY <1>2 DEF CallType
  <2>2. \A d \in astray' : d \in astray \/ d = c \/ (d = screen[w].call /\ d # 0)
    BY <1>1
  <2>3. astray \subseteq astray' /\ screen[w].call \in {0, c} \cup astray'
    BY <1>1
  <2>4. c \in astray' \/ screen[w].call = c
    BY <1>1 DEF Late
  <2>5. \A d \in 0..calls : d # 0 => d \in 1..calls
    BY <1>2
  <2>6. astray' \subseteq 1..calls
    BY <2>1, <2>2, <2>5, <1>2
  <2> QED
    BY <2>3, <2>4, <2>6
<1>5. /\ media' \in [Users -> MediaType]
      /\ \A v \in Users : v # w => media'[v] = media[v]
      /\ media'[w].live = media[w].live \ {media[w].local} /\ media'[w].local = 0
  BY <1>1, <1>2, StoppedMedia
<1>6. /\ pc' \in [Users -> ConnectionType]
      /\ \A v \in Users : v # w => pc'[v] = pc[v]
      /\ pc'[w].call = c /\ pc'[w].room = t.room /\ pc'[w].state = "new"
  <2>1. [state |-> "new", room |-> t.room, call |-> c] \in ConnectionType
    BY <1>2 DEF ConnectionType
  <2> QED
    BY <2>1, <1>1, <1>2
<1>7. CallTyped'
  BY <1>1, <1>3, <1>4, <1>5, <1>6, SameTypes DEF ScreenInv, CallTyped
<1>8. OwnScreens' /\ OwnDown' /\ OwnEntries' /\ OwnJobs'
  BY <1>1, <1>4, SameScreens, SameDown, SameEntries, SameJobs DEF ScreenInv
<1>9. OwnConnections'
  <2>1. c # 0 /\ OwnConnections
    BY <1>2 DEF ScreenInv
  <2> QED
    BY <2>1, <1>2, <1>6 DEF OwnConnections
<1>10. OpenForScreen'
  <2>1. pc'[w].call \in {0, screen[w].call} \cup astray'
    BY <1>4, <1>6
  <2> QED
    BY <2>1, <1>1, <1>4, <1>5, <1>6 DEF ScreenInv, OpenForScreen
<1>11. ASSUME NEW d \in 1..calls, d \notin astray'
      PROVE  Steady(d)
  <2>1. CASE d = c
    BY <2>1, <1>11, IceFetchedSteady
  <2>2. CASE d # c
    <3>1. KeepConnections(d)
      <4>1. pc[w].call # d
        BY <1>4, <1>11, <2>2 DEF ScreenInv, OpenForScreen
      <4> QED
        BY <4>1, <2>2, <1>6 DEF KeepConnections
    <3>2. Untouched(d)
      BY <1>1, <1>3, <2>2, <3>1, SameScreens, SameDown, SameEntries, SameJobs, SameQueues
        DEF Untouched
    <3> QED
      BY <3>2, UntouchedSteady
  <2> QED
    BY <2>1, <2>2
<1>12. CallsSound'
  BY <1>1, <1>4, <1>11, AllSteady DEF ScreenInv
<1> QED
  BY <1>3, <1>7, <1>8, <1>9, <1>10, <1>12 DEF ScreenInv

(* The caller's offer goes out. *)
LEMMA CreateOfferSteady ==
  ASSUME ScreenInv, NEW w \in Users, NEW t \in tasks[w], CreateOffer(w, t),
         NEW c \in 1..calls, c = t.call
  PROVE  Steady(c)
<1> SUFFICES ASSUME NEW u \in Users, NEW p \in Users, NEW n \in 1..18, CallSound(c, u, p, n)
             PROVE  \E k \in 1..18 : CallSound(c, u, p, k)'
  BY DEF Steady
<1>1. /\ t.at = "offer" /\ Resumed(w, t, {})
      /\ UNCHANGED <<screen, ref, down, activeCalls, jobs, calls>>
  BY DEF CreateOffer, serverState, link
<1>2. /\ tasks \in [Users -> SUBSET TaskType] /\ up \in [Users -> Seq(UpType)] /\ t \in TaskType
      /\ t \in TasksOf(c, w) /\ pc \in [Users -> ConnectionType]
  BY DEF ScreenInv, CallTyped, TasksOf
<1>3. /\ StageTask(c, u, p, n, w, t) /\ OnlyTask(c, w, t)
      /\ EndsUp(c, u, p) /\ OversDown(c, u, p) /\ EndsJobs(c, u, p)
  BY <1>2, TokenTask DEF CallSound
<1>4. /\ KeepDown(c) /\ KeepJobs(c) /\ KeepEntries(c) /\ KeepScreen(c)
      /\ \A v \in Users : Ordered(down[v], c) => Ordered(down'[v], c)
  BY <1>1, SameDown, SameJobs, SameEntries, SameScreens
<1>5. OversDown(c, u, p)' /\ EndsJobs(c, u, p)' /\ \A v \in Users : KeepOver(c, v)
  BY <1>3, <1>4, PlacesKept, OverForKept
<1>6. u \in Users /\ p \in Users /\ u # p /\ {u, p} \in DirectRooms
  BY DEF CallSound, Parties
<1>7. n = 11 /\ w = u /\ t.room = {u, p}
  BY <1>1, <1>3 DEF StageTask, Task
<1>8. NoTasks(c)'
  <2>1. TasksBecome(c, w, {t}, {})
    BY <1>1, <1>2, TaskEnds
  <2> QED
    BY <2>1, <1>3, TaskLeft
<1>9. /\ \A v \in Users : v # w => pc'[v] = pc[v]
      /\ pc'[w].call = pc[w].call /\ pc'[w].room = pc[w].room
      /\ pc[w].call = c => pc'[w].state = "offered"
  <2>1. CASE pc[w].call = c
    <3>1. pc' = [pc EXCEPT ![w] = [pc[w] EXCEPT !.state = "offered"]]
      BY <2>1 DEF CreateOffer
    <3> QED
      BY <3>1, <1>2 DEF ConnectionType
  <2>2. CASE pc[w].call # c
    BY <2>2 DEF CreateOffer
  <2> QED
    BY <2>1, <2>2
<1>10. Connections(c, u, p)'
  BY <1>9 DEF CallSound, Connections
<1>11. CASE pc[w].call = c /\ ref[w].room = {u, p}
  <2> PICK type : type = "offer"
    OBVIOUS
  <2> PICK m : m = Message(type, {u, p}, c)
    OBVIOUS
  <2> PICK k \in 1..18 : k = 12
    OBVIOUS
  <2>1. m.type = type /\ m.call = c
    BY DEF Message
  <2>2. up' = Emitted(w, type, {u, p}, c)
    BY <1>7, <1>11 DEF CreateOffer
  <2>3. Message(type, {u, p}, c) \in UpType
    BY <1>6 DEF Message, UpType
  <2>4. /\ UpGets(c, w, Message(type, {u, p}, c))
        /\ \A d : \A x \in Users : Ordered(up[x], d) /\ (x = w /\ d = c =>
                Fits(up[x], Message(type, {u, p}, c))) => Ordered(up'[x], d)
    <3>1. SaysOne(w, type, {u, p}, c)
      BY <1>2, <2>2, <2>3, OneSaid
    <3> QED
      BY <3>1 DEF SaysOne
  <2>5. Fits(up[w], m)
    BY <1>3, <2>1, EndsFit DEF Openings
  <2>6. Queues(c)'
    BY <2>4, <2>5, <1>4 DEF CallSound, Queues
  <2>7. Placed(c, u, p, k)'
    <3>1. OnlyUp(c, u, p, w, m)'
      BY <1>3, <2>4, UpCome
    <3>2. StageUp(c, u, p, k, w, m)
      BY <1>7 DEF StageUp
    <3> QED
      BY <3>1, <3>2, <1>5, <1>8, NowUp
  <2>8. \A v \in Users : KeepLeaving(c, v)
    <3>1. SameEndsUp(c)
      BY <2>1, <2>4, UpSame DEF Ends
    <3> QED
      BY <3>1, <1>4, KeptSame, LeavingSame
  <2>9. Sides(c, u, p, n, k)
    BY <1>4, <1>7, SidesKept
  <2>10. Live(c, u, p) /\ Reached(c, u, p, n) => Reached(c, u, p, k)'
    BY <2>9, <1>1, <1>6, <1>7, <1>9, <1>11 DEF Live, Reached, Sides
  <2>11. Goes(c, u, p, n, k)
    BY <1>5, <1>7, <1>10, <2>6, <2>7, <2>8, <2>9, <2>10 DEF Goes, Sides
  <2> QED
    BY <2>11, Onward
<1>12. CASE ~(pc[w].call = c /\ ref[w].room = {u, p})
  <2> PICK k \in 1..18 : k = 18
    OBVIOUS
  <2>1. up' = up
    BY <1>7, <1>12 DEF CreateOffer
  <2>2. KeepUp(c) /\ \A v \in Users : Ordered(up[v], c) => Ordered(up'[v], c)
    BY <2>1, SameUp
  <2>3. Queues(c)'
    BY <2>2, <1>4 DEF CallSound, Queues
  <2>4. Placed(c, u, p, k)'
    <3>1. EndsUp(c, u, p)'
      BY <1>3, <2>2, PlacesKept
    <3> QED
      BY <3>1, <1>5, <1>8, NowSettled
  <2>5. \A v \in Users : KeepLeaving(c, v)
    BY <1>4, <2>2, LeavingKept
  <2>6. Sides(c, u, p, n, k)
    BY <1>4, <1>7, SidesKept
  <2>7. ~Live(c, u, p)
    <3> SUFFICES ASSUME Live(c, u, p)
                 PROVE  FALSE
      OBVIOUS
    <3>1. Reached(c, u, p, n)
      BY DEF CallSound, Stages
    <3>2. screen[u].call = c
      BY <1>7 DEF CallSound, Live, Parting, PartingOf, Attached, Parties
    <3>3. ref[u].room = {u, p}
      BY <3>2, <1>6 DEF CallSound, OnScreen
    <3>4. pc[u].call = c
      BY <3>1, <1>7 DEF Reached
    <3> QED
      BY <3>3, <3>4, <1>7, <1>12
  <2>8. Goes(c, u, p, n, k)
    BY <1>5, <1>7, <1>10, <2>3, <2>4, <2>5, <2>6, <2>7 DEF Goes, Sides
  <2> QED
    BY <2>8, Onward
<1> QED
  BY <1>11, <1>12

(* An offer keeps the invariant. *)
LEMMA CreateOfferKeeps ==
  ASSUME ScreenInv, NEW w \in Users, NEW t \in tasks[w], CreateOffer(w, t)
  PROVE  ScreenInv'
<1> PICK c : c = t.call
  OBVIOUS
<1>1. /\ Resumed(w, t, {})
      /\ UNCHANGED <<screen, ref, media, down, sock, activeCalls, jobs, calls, astray>>
  BY DEF CreateOffer, serverState, link
<1>2. /\ tasks \in [Users -> SUBSET TaskType] /\ up \in [Users -> Seq(UpType)] /\ OwnTasks /\ OwnUp
      /\ t \in TaskType /\ c \in 1..calls /\ t.room \in DirectRooms /\ Directed(t.room, w)
      /\ calls \in Nat /\ pc \in [Users -> ConnectionType] /\ pc[w] \in ConnectionType
  BY DEF ScreenInv, CallTyped, TaskType, OwnTasks
<1>3. tasks' \in [Users -> SUBSET TaskType] /\ OwnTasks' /\ \A d : d # c => KeepTasks(d)
  BY <1>1, <1>2, TaskEnds
<1>4. /\ up' \in [Users -> Seq(UpType)] /\ OwnUp'
      /\ \A d : d # c => KeepUp(d) /\ \A v \in Users : Ordered(up[v], d) => Ordered(up'[v], d)
  <2>1. CASE pc[w].call = c /\ ref[w].room = t.room
    <3> PICK type : type = "offer"
      OBVIOUS
    <3>1. up' = Emitted(w, type, t.room, c)
      BY <2>1 DEF CreateOffer
    <3>2. Message(type, t.room, c) \in UpType
      BY <1>2 DEF Message, UpType
    <3> QED
      BY <1>2, <3>1, <3>2, Emits
  <2>2. CASE ~(pc[w].call = c /\ ref[w].room = t.room)
    <3>1. up' = up
      BY <2>2 DEF CreateOffer
    <3> QED
      BY <3>1, <1>2, SameUp
  <2> QED
    BY <2>1, <2>2
<1>5. /\ pc' \in [Users -> ConnectionType]
      /\ \A v \in Users : v # w \/ pc[w].call # c => pc'[v] = pc[v]
      /\ pc'[w].call = pc[w].call /\ pc'[w].room = pc[w].room
      /\ pc[w].call = c => pc'[w].state # "none"
  <2>1. CASE pc[w].call = c
    <3>1. pc' = [pc EXCEPT ![w] = [pc[w] EXCEPT !.state = "offered"]]
      BY <2>1 DEF CreateOffer
    <3>2. /\ [pc[w] EXCEPT !.state = "offered"] \in ConnectionType
          /\ [pc[w] EXCEPT !.state = "offered"].call = pc[w].call
          /\ [pc[w] EXCEPT !.state = "offered"].room = pc[w].room
          /\ [pc[w] EXCEPT !.state = "offered"].state # "none"
      BY <1>2 DEF ConnectionType
    <3> QED
      BY <2>1, <3>1, <3>2, <1>2
  <2>2. CASE pc[w].call # c
    BY <1>2, <2>2 DEF CreateOffer
  <2> QED
    BY <2>1, <2>2
<1>6. CallTyped'
  BY <1>1, <1>3, <1>4, <1>5, SameTypes DEF ScreenInv, CallTyped
<1>7. OwnScreens' /\ OwnDown' /\ OwnEntries' /\ OwnJobs'
  BY <1>1, SameScreens, SameDown, SameEntries, SameJobs DEF ScreenInv
<1>8. OwnConnections'
  <2>1. c # 0 /\ OwnConnections
    BY <1>2 DEF ScreenInv
  <2> QED
    BY <2>1, <1>5 DEF OwnConnections
<1>9. OpenForScreen'
  <2>1. \A v \in Users : pc'[v].call = pc[v].call
    BY <1>5
  <2> QED
    BY <2>1, <1>1 DEF ScreenInv, OpenForScreen
<1>10. ASSUME NEW d \in 1..calls
       PROVE  Steady(d)
  <2>1. CASE d = c
    BY <2>1, CreateOfferSteady
  <2>2. CASE d # c
    <3>1. KeepConnections(d)
      BY <2>2, <1>5 DEF KeepConnections
    <3>2. Untouched(d)
      BY <1>1, <1>3, <1>4, <2>2, <3>1, SameScreens, SameDown, SameEntries, SameJobs,
        SameQueues
        DEF Untouched
    <3> QED
      BY <3>2, UntouchedSteady
  <2> QED
    BY <2>1, <2>2
<1>11. CallsSound'
  BY <1>1, <1>10, AllSteady DEF ScreenInv
<1> QED
  BY <1>3, <1>4, <1>6, <1>7, <1>8, <1>9, <1>11 DEF ScreenInv

(* A call that is started. *)
LEMMA MoreTypes ==
  ASSUME calls \in Nat, calls' = calls + 1
  PROVE  /\ CallType \subseteq CallType' /\ ConnectionType \subseteq ConnectionType'
         /\ MediaType \subseteq MediaType' /\ CallEntryType \subseteq CallEntryType'
         /\ TaskType \subseteq TaskType' /\ JobType \subseteq JobType'
         /\ UpType \subseteq UpType' /\ DownType \subseteq DownType'
<1>1. 1..calls \subseteq 1..calls' /\ 0..calls \subseteq 0..calls'
  OBVIOUS
<1> QED
  BY <1>1 DEF CallType, ConnectionType, MediaType, CallEntryType, TaskType, JobType, UpType,
    DownType

(* Nothing is of a call that no one started. *)
LEMMA Unstarted ==
  ASSUME ScreenInv, NEW c \in Nat, c > calls
  PROVE  /\ NoTasks(c) /\ JobsOf(c) = {}
         /\ \A v \in Users : /\ UpOf(c, v) = {} /\ DownOf(c, v) = {}
                             /\ Ordered(up[v], c) /\ Ordered(down[v], c)
                             /\ screen[v].call # c /\ activeCalls[v].call # c /\ pc[v].call # c
<1>1. CallTyped /\ calls \in Nat
  BY DEF ScreenInv, CallTyped
<1>2. c \notin 0..calls /\ c \notin 1..calls
  BY <1>1
<1>3. NoTasks(c) /\ JobsOf(c) = {}
  BY <1>1, <1>2 DEF CallTyped, NoTasks, TasksOf, TaskType, JobsOf, JobType
<1>4. ASSUME NEW v \in Users
      PROVE  screen[v].call # c /\ activeCalls[v].call # c /\ pc[v].call # c
  BY <1>1, <1>2 DEF CallTyped, CallType, CallEntryType, ConnectionType
<1>5. ASSUME NEW S, NEW q \in Seq(S), \A m \in S : m.call # c
      PROVE  (\A m \in Carried(q) : m.call # c) /\ Ordered(q, c)
  <2>1. \A m \in Carried(q) : m.call # c
    BY <1>5, CarriedType
  <2> QED
    BY <2>1 DEF Carried, Ordered
<1>6. /\ \A m \in UpType : m.call # c
      /\ \A m \in DownType : m.call # c
  BY <1>2 DEF UpType, DownType
<1>7. ASSUME NEW v \in Users
      PROVE  UpOf(c, v) = {} /\ DownOf(c, v) = {} /\ Ordered(up[v], c) /\ Ordered(down[v], c)
  <2>1. up[v] \in Seq(UpType) /\ down[v] \in Seq(DownType)
    BY <1>1 DEF CallTyped
  <2>2. (\A m \in Carried(up[v]) : m.call # c) /\ Ordered(up[v], c)
    BY <2>1, <1>5, <1>6
  <2>3. (\A m \in Carried(down[v]) : m.call # c) /\ Ordered(down[v], c)
    BY <2>1, <1>5, <1>6
  <2> QED
    BY <2>2, <2>3 DEF UpOf, DownOf
<1> QED
  BY <1>3, <1>4, <1>7

(* A call that starts is sound at stage 1. *)
LEMMA StartCallSound ==
  ASSUME ScreenInv, NEW w \in Users, NEW r \in DirectRooms, StartCall(w, r), NEW c, c = calls + 1
  PROVE  \E u \in Users, p \in Users, n \in 1..18 : CallSound(c, u, p, n)'
<1> PICK k \in 1..18 : k = 1
  OBVIOUS
<1> PICK t : t = Task("start", "media", r, c)
  OBVIOUS
<1>1. /\ w \in r /\ calls' = c
      /\ screen' = [screen EXCEPT ![w] = [status |-> "calling", room |-> r, call |-> c]]
      /\ ref' = [ref EXCEPT ![w] = screen'[w]]
      /\ tasks' = [tasks EXCEPT ![w] = @ \cup {t}]
      /\ UNCHANGED <<pc, up, down, sock, activeCalls, jobs, astray>>
  BY DEF StartCall, Shows, Clicked, wire, link, serverState
<1>2. c \in Nat /\ c > calls
  BY DEF ScreenInv, CallTyped
<1>3. PICK p \in Users : p # w /\ r = {w, p}
  <2>1. \E u, v \in Users : u # v /\ r = {u, v}
    BY DirectRoomsAssumption
  <2> QED
    BY <2>1, <1>1
<1>4. /\ NoTasks(c) /\ JobsOf(c) = {}
      /\ \A v \in Users : /\ UpOf(c, v) = {} /\ DownOf(c, v) = {}
                          /\ Ordered(up[v], c) /\ Ordered(down[v], c)
                          /\ screen[v].call # c /\ activeCalls[v].call # c /\ pc[v].call # c
  BY <1>2, Unstarted
<1>5. /\ \A v \in Users : v # w => screen'[v] = screen[v] /\ ref'[v] = ref[v]
      /\ screen'[w].status = "calling" /\ screen'[w].room = r /\ screen'[w].call = c
      /\ ref'[w] = screen'[w]
  BY <1>1 DEF ScreenInv, CallTyped, CallType
<1>6. KeepUp(c) /\ KeepDown(c) /\ KeepJobs(c)
  BY <1>1, SameUp, SameDown, SameJobs
<1>7. Placed(c, w, p, k)'
  <2>1. OnlyTask(c, w, t)'
    <3>1. \A v \in Users : tasks'[v] = IF v = w THEN tasks[v] \cup {t} ELSE tasks[v]
      BY <1>1 DEF ScreenInv, CallTyped
    <3>2. t.call = c
      BY DEF Task
    <3> QED
      BY <3>1, <3>2, <1>4 DEF OnlyTask, TasksOf, NoTasks
  <2>2. EndsUp(c, w, p) /\ OversDown(c, w, p) /\ EndsJobs(c, w, p)
    BY <1>4 DEF EndsUp, OversDown, EndsJobs
  <2>3. EndsUp(c, w, p)' /\ OversDown(c, w, p)' /\ EndsJobs(c, w, p)'
    BY <2>2, <1>6, PlacesKept
  <2>4. StageTask(c, w, p, k, w, t)
    BY <1>3 DEF StageTask
  <2> QED
    BY <2>1, <2>3, <2>4, NowTask
<1>8. Queues(c)'
  BY <1>1, <1>4 DEF Queues
<1>9. OnScreen(c, w, p, k)'
  BY <1>3, <1>4, <1>5 DEF OnScreen
<1>10. \A v \in Users : ~HasEntry(c, v)'
  BY <1>1, <1>4 DEF HasEntry
<1>11. Entered(c, w, p, k)' /\ Connections(c, w, p)'
  BY <1>1, <1>4, <1>10 DEF Entered, Connections
<1>12. \A v \in Users : ~EndJob(c, v)' /\ ~Leaving(c, v)' /\ ~OverFor(c, v)'
  <2>1. \A v \in Users : ~EndJob(c, v) /\ ~Leaving(c, v) /\ ~OverFor(c, v)
    BY <1>4 DEF EndJob, Leaving, OverFor
  <2> QED
    BY <2>1, <1>6, LeavingKept, OverForKept DEF KeepLeaving, KeepOver
<1>13. Unrung(c, w, p, k)'
  BY <1>12 DEF Unrung
<1>14. Parting(c, w, p, k)'
  BY <1>10, <1>12 DEF Parting, PartingOf
<1>15. Stages(c, w, p, k)'
  BY <1>10 DEF Stages, Live
<1>16. CallSound(c, w, p, k)'
  BY <1>3, <1>7, <1>8, <1>9, <1>11, <1>13, <1>14, <1>15 DEF CallSound, Parties
<1> QED
  BY <1>16

(* A click on call keeps the invariant: the new call is sound, and the     *)
(* others are untouched.                                                   *)
LEMMA StartCallKeeps ==
  ASSUME ScreenInv, NEW w \in Users, NEW r \in DirectRooms, StartCall(w, r)
  PROVE  ScreenInv'
<1> PICK c : c = calls + 1
  OBVIOUS
<1> PICK t : t = Task("start", "media", r, c)
  OBVIOUS
<1>1. /\ w \in r /\ calls' = c /\ screen[w].status = "idle" /\ media' = Stopped(w)
      /\ screen' = [screen EXCEPT ![w] = [status |-> "calling", room |-> r, call |-> c]]
      /\ ref' = [ref EXCEPT ![w] = screen'[w]]
      /\ tasks' = [tasks EXCEPT ![w] = @ \cup {t}]
      /\ UNCHANGED <<pc, up, down, sock, activeCalls, jobs, astray>>
  BY DEF StartCall, Shows, Clicked, wire, link, serverState
<1>2. /\ calls \in Nat /\ c \in Nat /\ c > calls /\ c # 0 /\ 1..c = 1..calls \cup {c} /\ screen[w].call = 0
      /\ CallTyped
  BY <1>1 DEF ScreenInv, CallTyped, OwnScreens
<1>3. /\ CallType \subseteq CallType' /\ ConnectionType \subseteq ConnectionType'
      /\ MediaType \subseteq MediaType' /\ CallEntryType \subseteq CallEntryType'
      /\ TaskType \subseteq TaskType' /\ JobType \subseteq JobType'
      /\ UpType \subseteq UpType' /\ DownType \subseteq DownType'
  BY <1>1, <1>2, MoreTypes
<1>4. /\ \A v \in Users : v # w => screen'[v] = screen[v] /\ ref'[v] = ref[v]
      /\ screen'[w].status = "calling" /\ screen'[w].room = r /\ screen'[w].call = c
      /\ screen'[w] \in CallType' /\ ref'[w] = screen'[w]
  <2>1. [status |-> "calling", room |-> r, call |-> c] \in CallType'
    BY <1>1, <1>2 DEF CallType
  <2>2. screen \in [Users -> CallType] /\ ref \in [Users -> CallType]
    BY <1>2 DEF CallTyped
  <2> QED
    BY <2>1, <2>2, <1>1
<1>5. t \in TaskType' /\ t.call = c /\ t.room = r
  BY <1>1, <1>2 DEF Task, TaskType
<1>6. \A v \in Users : tasks'[v] = IF v = w THEN tasks[v] \cup {t} ELSE tasks[v]
  BY <1>1, <1>2 DEF CallTyped
<1>7. /\ media' \in [Users -> MediaType]
      /\ \A v \in Users : v # w => media'[v] = media[v]
      /\ media'[w].live = media[w].live \ {media[w].local} /\ media'[w].local = 0
  BY <1>1, <1>2, StoppedMedia DEF CallTyped
<1>8. CallTyped'
  <2>1. Seq(UpType) \subseteq Seq(UpType') /\ Seq(DownType) \subseteq Seq(DownType')
    BY <1>3, SeqMonotonic
  <2>2. screen' \in [Users -> CallType'] /\ ref' \in [Users -> CallType']
    BY <1>1, <1>2, <1>3, <1>4 DEF CallTyped
  <2>3. tasks' \in [Users -> SUBSET TaskType']
    BY <1>1, <1>2, <1>3, <1>5 DEF CallTyped
  <2>4. up' \in [Users -> Seq(UpType')] /\ down' \in [Users -> Seq(DownType')]
    BY <2>1, <1>1, <1>2 DEF CallTyped
  <2>5. pc' \in [Users -> ConnectionType'] /\ activeCalls' \in [Users -> CallEntryType']
    BY <1>1, <1>2, <1>3 DEF CallTyped
  <2>6. media' \in [Users -> MediaType']
    BY <1>3, <1>7
  <2>7. jobs' \subseteq JobType' /\ astray' \subseteq 1..calls' /\ calls' \in Nat
    BY <1>1, <1>2, <1>3 DEF CallTyped
  <2>8. sock' \in [Users -> BOOLEAN]
    BY <1>1, <1>2 DEF CallTyped
  <2> QED
    BY <2>2, <2>3, <2>4, <2>5, <2>6, <2>7, <2>8 DEF CallTyped
<1>9. OwnScreens'
  <2>1. Directed(r, w)
    BY <1>1 DEF Directed
  <2> QED
    BY <2>1, <1>2, <1>4 DEF ScreenInv, OwnScreens
<1>10. OwnTasks'
  BY <1>1, <1>5, <1>6 DEF ScreenInv, OwnTasks, Directed
<1>11. OwnUp' /\ OwnDown' /\ OwnEntries' /\ OwnConnections' /\ OwnJobs'
  BY <1>1, SameUp, SameDown, SameEntries, SameConnections, SameJobs DEF ScreenInv
<1>12. OpenForScreen'
  BY <1>1, <1>2, <1>4, <1>7 DEF ScreenInv, OpenForScreen
<1>13. ASSUME NEW d \in 1..calls, d \notin astray
       PROVE  \E u \in Users, p \in Users, n \in 1..18 : CallSound(d, u, p, n)'
  <2>1. d # c /\ d # 0
    BY <1>2
  <2>2. KeepTasks(d)
    BY <2>1, <1>5, <1>6 DEF KeepTasks, TasksOf
  <2>3. KeepScreen(d)
    BY <2>1, <1>2, <1>4 DEF KeepScreen
  <2>4. Untouched(d)
    BY <1>1, <2>2, <2>3, SameUp, SameDown, SameEntries, SameConnections, SameJobs,
      SameQueues DEF Untouched
  <2>5. PICK u \in Users, p \in Users, n \in 1..18 : CallSound(d, u, p, n)
    BY <1>13 DEF ScreenInv, CallsSound
  <2>6. CallSound(d, u, p, n)'
    BY <2>4, <2>5, Frame
  <2> QED
    BY <2>6
<1>14. \E u \in Users, p \in Users, n \in 1..18 : CallSound(c, u, p, n)'
  BY StartCallSound
<1>15. CallsSound'
  <2> SUFFICES ASSUME NEW d \in 1..calls', d \notin astray'
               PROVE  \E u \in Users, p \in Users, n \in 1..18 : CallSound(d, u, p, n)'
    BY DEF CallsSound
  <2> QED
    BY <1>1, <1>2, <1>13, <1>14
<1> QED
  BY <1>8, <1>9, <1>10, <1>11, <1>12, <1>15 DEF ScreenInv

-----------------------------------------------------------------------------
(* The messages that the client hears. *)

(* Nothing is left open by a screen that changes only for astray calls. *)
LEMMA OpenKept ==
  ASSUME ScreenInv, media' = media, \A v \in Users : pc'[v].call = pc[v].call, astray \subseteq astray',
         \A v \in Users : screen'[v].call = screen[v].call \/ screen[v].call \in {0} \cup astray'
  PROVE  OpenForScreen'
<1>1. calls \in Nat /\ media \in [Users -> MediaType] /\ OpenForScreen
  BY DEF ScreenInv, CallTyped
<1> SUFFICES ASSUME NEW v \in Users
             PROVE  /\ \A c \in media'[v].live : c \in astray' \/ (media'[v].local = c /\ screen'[v].call = c)
                    /\ pc'[v].call \in {0, screen'[v].call} \cup astray'
  BY DEF OpenForScreen
<1>2. ASSUME NEW c \in media[v].live
      PROVE  c \in astray' \/ (media[v].local = c /\ screen'[v].call = c)
  <2>1. c # 0
    BY <1>1 DEF MediaType
  <2>2. c \in astray \/ (media[v].local = c /\ screen[v].call = c)
    BY <1>1 DEF OpenForScreen
  <2> QED
    BY <2>1, <2>2
<1>3. pc[v].call \in {0, screen'[v].call} \cup astray'
  <2>1. pc[v].call \in {0, screen[v].call} \cup astray
    BY <1>1 DEF OpenForScreen
  <2> QED
    BY <2>1
<1> QED
  BY <1>2, <1>3

(* The phone rings, or the client that is in a call rejects. *)
LEMMA HandleIncomingSteady ==
  ASSUME ScreenInv, NEW w \in Users, HandleIncoming(w), NEW m, m = Head(down[w]),
         NEW c \in 1..calls, c = m.call
  PROVE  Steady(c)
<1> SUFFICES ASSUME NEW u \in Users, NEW p \in Users, NEW n \in 1..18, CallSound(c, u, p, n)
             PROVE  \E k \in 1..18 : CallSound(c, u, p, k)'
  BY DEF Steady
<1> PICK types : types = {"incoming"}
  OBVIOUS
<1>1. Receives(w, types) /\ UNCHANGED <<ref, pc, tasks, activeCalls, jobs, calls>>
  BY DEF HandleIncoming, serverState, link
<1>2. /\ up \in [Users -> Seq(UpType)] /\ down \in [Users -> Seq(DownType)]
      /\ screen \in [Users -> CallType]
  BY DEF ScreenInv, CallTyped
<1>3. /\ m.type \in types /\ m \in DownOf(m.call, w) /\ DownLoses(m.call, w, m)
      /\ \A d : \A v \in Users : Ordered(down[v], d) => Ordered(down'[v], d)
  BY <1>1, <1>2, ReceivesHead
<1>4. m.type = "incoming" /\ m.type \notin Overs /\ m.type \notin Closers
  BY <1>3 DEF Overs, Closers, Ends
<1>5. /\ StageDown(c, u, p, n, w, m) /\ OnlyDown(c, u, p, w, m)
      /\ NoTasks(c) /\ EndsUp(c, u, p) /\ EndsJobs(c, u, p)
  BY <1>3, <1>4, TokenDown DEF CallSound
<1>6. n = 4 /\ w = p /\ m.room = {u, p}
  BY <1>4, <1>5 DEF StageDown, Message
<1>7. u \in Users /\ p \in Users /\ u # p /\ {u, p} \in DirectRooms
  BY DEF CallSound, Parties
<1>8. /\ KeepTasks(c) /\ KeepJobs(c) /\ KeepEntries(c)
  BY <1>1, SameTasks, SameJobs, SameEntries
<1>9. /\ NoTasks(c)' /\ EndsJobs(c, u, p)' /\ OversDown(c, u, p)' /\ SameEndsJobs(c)
      /\ \A v \in Users : KeepOver(c, v)
  <2>1. OversDown(c, u, p)'
    BY <1>3, <1>4, <1>5, DownLeft DEF CallSound
  <2>2. \A v \in Users : KeepOver(c, v)
    BY <1>3, <1>4, DownSame
  <2> QED
    BY <2>1, <2>2, <1>5, <1>8, PlacesKept, KeptSame
<1>10. /\ \A x \in Users : pc'[x].call = c => pc'[x] = pc[x]
       /\ Connections(c, u, p)'
  BY <1>1 DEF CallSound, Connections
<1>11. CASE ref[w].status # "idle"
  <2> PICK type : type = "reject"
    OBVIOUS
  <2> PICK k \in 1..18 : k = 18
    OBVIOUS
  <2>1. up' = Emitted(w, type, {u, p}, c) /\ screen' = screen
    BY <1>6, <1>11 DEF HandleIncoming
  <2>2. EndSaid(c, u, p, w)
    <3>1. w \in {u, p} /\ type \in Ends
      BY <1>6 DEF Ends
    <3> QED
      BY <3>1, <2>1, <1>2, <1>7, EmitsEnd
  <2>3. EndsUp(c, u, p)' /\ \A v \in Users : Ordered(up[v], c) => Ordered(up'[v], c)
    BY <1>5, <2>2 DEF EndSaid
  <2>4. Placed(c, u, p, k)'
    BY <1>9, <2>3, NowSettled
  <2>5. Queues(c)'
    BY <2>3, <1>3 DEF CallSound, Queues
  <2>6. KeepLeaving(c, u) /\ Leaving(c, p)'
    <3>1. UpOf(c, u)' = UpOf(c, u) /\ \E x \in UpOf(c, p)' : x.type \in Ends
      BY <1>6, <2>2, <1>7 DEF EndSaid
    <3> QED
      BY <3>1, <1>9 DEF KeepLeaving, Leaving, SameEndsJobs
  <2>7. screen'[p].call # c
    BY <2>1, <1>6 DEF CallSound, OnScreen
  <2>8. Departs(c, u, p, n, k, p, u)
    BY <1>1, <1>6, <1>7, <1>8, <1>9, <1>10, <2>1, <2>4, <2>5, <2>6, <2>7 DEF Departs,
      KeepOver, SameEndsJobs
  <2> QED
    BY <2>8, Closed
<1>12. CASE ref[w].status = "idle"
  <2> PICK k \in 1..18 : k = 5
    OBVIOUS
  <2>1. /\ up' = up
        /\ screen' = [screen EXCEPT ![w] = [status |-> "incoming", room |-> m.room, call |-> m.call]]
    BY <1>12 DEF HandleIncoming, Shows
  <2>2. /\ \A v \in Users : v # p => screen'[v] = screen[v]
        /\ screen'[p].status = "incoming" /\ screen'[p].room = {u, p} /\ screen'[p].call = c
    BY <2>1, <1>2, <1>6
  <2>3. KeepUp(c) /\ \A v \in Users : Ordered(up[v], c) => Ordered(up'[v], c)
    BY <2>1, SameUp
  <2>4. Placed(c, u, p, k)'
    <3>1. EndsUp(c, u, p)'
      BY <1>5, <2>3, PlacesKept
    <3> QED
      BY <3>1, <1>9, <2>2, NowSettled
  <2>5. Queues(c)'
    BY <2>3, <1>3 DEF CallSound, Queues
  <2>6. OnScreen(c, u, p, k)'
    BY <1>1, <1>6, <1>7, <2>2 DEF CallSound, OnScreen
  <2>7. \A v \in Users : KeepLeaving(c, v)
    BY <1>8, <2>3, LeavingKept
  <2>8. \A v \in Users : Attached(c, p, k, v)' <=> Attached(c, p, n, v)
    BY <1>6, <2>2 DEF Attached
  <2>9. Entered(c, u, p, k)' /\ (HasEntry(c, u)' <=> HasEntry(c, u))
    <3>1. n >= 4 => k >= 4
      BY <1>6
    <3> QED
      BY <3>1, <1>8, EnteredKept DEF CallSound
  <2>10. Reached(c, u, p, n) => Reached(c, u, p, k)'
    BY <1>1, <1>6, <1>7, <2>2 DEF Reached
  <2>11. Goes(c, u, p, n, k)
    BY <1>6, <1>9, <1>10, <2>4, <2>5, <2>6, <2>7, <2>8, <2>9, <2>10 DEF Goes
  <2> QED
    BY <2>11, Onward
<1> QED
  BY <1>11, <1>12

(* handleIncoming keeps the invariant: the call it hides becomes astray. *)
LEMMA HandleIncomingKeeps ==
  ASSUME ScreenInv, NEW w \in Users, HandleIncoming(w)
  PROVE  ScreenInv'
<1> PICK m : m = Head(down[w])
  OBVIOUS
<1> PICK c : c = m.call
  OBVIOUS
<1> PICK types : types = {"incoming"}
  OBVIOUS
<1>1. Receives(w, types) /\ UNCHANGED <<ref, media, pc, tasks, sock, activeCalls, jobs, calls>>
  BY DEF HandleIncoming, serverState, link
<1>2. /\ up \in [Users -> Seq(UpType)] /\ down \in [Users -> Seq(DownType)]
      /\ screen \in [Users -> CallType] /\ OwnDown /\ OwnUp /\ calls \in Nat /\ astray \subseteq 1..calls
      /\ screen[w] \in CallType
  BY DEF ScreenInv, CallTyped
<1>3. /\ down' \in [Users -> Seq(DownType)] /\ m \in DownType /\ OwnDown' /\ Directed(m.room, w)
      /\ \A d : d # c => KeepDown(d)
      /\ \A d : \A v \in Users : Ordered(down[v], d) => Ordered(down'[v], d)
  BY <1>1, <1>2, ReceivesHead
<1>4. c \in 1..calls /\ m.room \in DirectRooms /\ c # 0
  BY <1>2, <1>3 DEF DownType
<1>5. /\ up' \in [Users -> Seq(UpType)] /\ OwnUp'
      /\ \A d : d # c => KeepUp(d) /\ \A v \in Users : Ordered(up[v], d) => Ordered(up'[v], d)
  <2>1. CASE ref[w].status # "idle"
    <3> PICK type : type = "reject"
      OBVIOUS
    <3>1. up' = Emitted(w, type, m.room, c)
      BY <2>1 DEF HandleIncoming
    <3>2. Message(type, m.room, c) \in UpType
      BY <1>4 DEF Message, UpType
    <3> QED
      BY <1>2, <1>3, <3>1, <3>2, Emits
  <2>2. CASE ref[w].status = "idle"
    <3>1. up' = up
      BY <2>2 DEF HandleIncoming
    <3> QED
      BY <3>1, <1>2, SameUp
  <2> QED
    BY <2>1, <2>2
<1>6. /\ screen' \in [Users -> CallType] /\ astray' \subseteq 1..calls /\ astray \subseteq astray'
      /\ \A v \in Users : v # w => screen'[v] = screen[v]
      /\ screen'[w] = screen[w] \/ (/\ screen'[w].status = "incoming" /\ screen'[w].room = m.room
                                    /\ screen'[w].call = c /\ screen[w].call \in {0, c} \cup astray')
  <2>1. CASE ref[w].status # "idle"
    BY <1>2, <2>1 DEF HandleIncoming
  <2>2. CASE ref[w].status = "idle"
    <3>1. /\ screen' = [screen EXCEPT ![w] = [status |-> "incoming", room |-> m.room, call |-> c]]
          /\ astray' = astray \cup ({screen[w].call} \ {0, c})
      BY <2>2 DEF HandleIncoming, Shows, Victim
    <3>2. [status |-> "incoming", room |-> m.room, call |-> c] \in CallType
      BY <1>2, <1>4 DEF CallType
    <3>3. screen[w].call \in 0..calls
      BY <1>2 DEF CallType
    <3>4. astray' \subseteq 1..calls /\ astray \subseteq astray' /\ screen[w].call \in {0, c} \cup astray'
      <4>1. \A d \in astray' : d \in astray \/ (d = screen[w].call /\ d # 0)
        BY <3>1
      <4>2. astray \subseteq astray' /\ screen[w].call \in {0, c} \cup astray'
        BY <3>1
      <4> QED
        BY <4>1, <4>2, <1>2, <3>3
    <3> QED
      BY <3>1, <3>2, <3>4, <1>2
  <2> QED
    BY <2>1, <2>2
<1>7. CallTyped'
  BY <1>1, <1>3, <1>5, <1>6, SameTypes DEF ScreenInv, CallTyped
<1>8. OwnScreens'
  BY <1>3, <1>4, <1>6 DEF ScreenInv, OwnScreens, NoScreen
<1>9. OwnTasks' /\ OwnEntries' /\ OwnConnections' /\ OwnJobs'
  BY <1>1, <1>6, SameTasks, SameEntries, SameConnections, SameJobs DEF ScreenInv
<1>10. OpenForScreen'
  <2>1. \A v \in Users : screen'[v].call = screen[v].call \/ screen[v].call \in {0} \cup astray'
    BY <1>6
  <2> QED
    BY <2>1, <1>1, <1>6, OpenKept
<1>11. ASSUME NEW d \in 1..calls, d \notin astray'
       PROVE  Steady(d)
  <2>1. CASE d = c
    BY <2>1, HandleIncomingSteady
  <2>2. CASE d # c
    <3>1. KeepScreen(d)
      BY <1>1, <1>2, <1>6, <1>11, <2>2 DEF KeepScreen
    <3>2. Untouched(d)
      BY <1>1, <1>3, <1>5, <2>2, <3>1, SameTasks, SameEntries, SameConnections, SameJobs,
        SameQueues
        DEF Untouched
    <3> QED
      BY <3>2, UntouchedSteady
  <2> QED
    BY <2>1, <2>2
<1>12. CallsSound'
  BY <1>1, <1>6, <1>11, AllSteady DEF ScreenInv
<1> QED
  BY <1>3, <1>5, <1>7, <1>8, <1>9, <1>10, <1>12 DEF ScreenInv

(* A call that both have and none leaves is on both screens, but for the   *)
(* callee's before it rings.                                               *)
LEMMA LiveShown ==
  ASSUME NEW c, NEW u \in Users, NEW p \in Users, NEW n \in 1..18, CallSound(c, u, p, n), Live(c, u, p)
  PROVE  /\ Reached(c, u, p, n) /\ n >= 4 /\ screen[u].call = c /\ screen[u].room = {u, p}
         /\ ref[u].room = {u, p} /\ ref[u].status \in {"calling", "connected"}
         /\ screen[u].status = "calling" => ref[u].status = "calling"
         /\ n # 4 => screen[p].call = c
         /\ n > 5 => ref[p].status = "connected" /\ ref[p].room = {u, p}
<1>1. Reached(c, u, p, n) /\ n >= 4
  BY DEF CallSound, Stages, Live, Entered
<1>2. screen[u].call = c /\ (n # 4 => screen[p].call = c)
  BY DEF CallSound, Live, Parting, PartingOf, Attached, Parties
<1>3. u # p
  BY DEF CallSound, Parties
<1> QED
  BY <1>1, <1>2, <1>3 DEF CallSound, OnScreen

(* The caller hears that the callee has accepted. *)
LEMMA HandleAcceptedSteady ==
  ASSUME ScreenInv, NEW w \in Users, HandleAccepted(w), NEW m, m = Head(down[w]),
         NEW c \in 1..calls, c = m.call, c \notin astray'
  PROVE  Steady(c)
<1> SUFFICES ASSUME NEW u \in Users, NEW p \in Users, NEW n \in 1..18, CallSound(c, u, p, n)
             PROVE  \E k \in 1..18 : CallSound(c, u, p, k)'
  BY DEF Steady
<1> PICK types : types = {"accepted"}
  OBVIOUS
<1>1. Receives(w, types) /\ UNCHANGED <<ref, pc, up, activeCalls, jobs, calls>>
  BY DEF HandleAccepted, serverState, link
<1>2. /\ tasks \in [Users -> SUBSET TaskType] /\ down \in [Users -> Seq(DownType)]
      /\ screen \in [Users -> CallType] /\ screen[w] \in CallType /\ calls \in Nat
  BY DEF ScreenInv, CallTyped
<1>3. /\ m.type \in types /\ m \in DownOf(m.call, w) /\ DownLoses(m.call, w, m)
      /\ \A d : \A v \in Users : Ordered(down[v], d) => Ordered(down'[v], d)
  BY <1>1, <1>2, ReceivesHead
<1>4. m.type = "accepted" /\ m.type \notin Overs /\ m.type \notin Closers
  BY <1>3 DEF Overs, Closers, Ends
<1>5. /\ StageDown(c, u, p, n, w, m) /\ OnlyDown(c, u, p, w, m)
      /\ NoTasks(c) /\ EndsUp(c, u, p) /\ EndsJobs(c, u, p)
  BY <1>3, <1>4, TokenDown DEF CallSound
<1>6. n = 9 /\ w = u /\ m.room = {u, p}
  BY <1>4, <1>5 DEF StageDown, Message
<1>7. u \in Users /\ p \in Users /\ u # p /\ {u, p} \in DirectRooms
  BY DEF CallSound, Parties
<1>8. /\ KeepUp(c) /\ KeepJobs(c) /\ KeepEntries(c) /\ KeepConnections(c)
      /\ \A v \in Users : Ordered(up[v], c) => Ordered(up'[v], c)
  BY <1>1, SameUp, SameJobs, SameEntries, SameConnections
<1>9. /\ EndsUp(c, u, p)' /\ EndsJobs(c, u, p)' /\ OversDown(c, u, p)'
      /\ \A v \in Users : KeepOver(c, v) /\ KeepLeaving(c, v)
  <2>1. OversDown(c, u, p)'
    BY <1>3, <1>4, <1>5, DownLeft DEF CallSound
  <2>2. \A v \in Users : KeepOver(c, v)
    BY <1>3, <1>4, DownSame
  <2> QED
    BY <2>1, <2>2, <1>5, <1>8, PlacesKept, LeavingKept
<1>10. Queues(c)'
  BY <1>3, <1>8 DEF CallSound, Queues
<1>11. CASE ref[w].status = "calling"
  <2> PICK k \in 1..18 : k = 10
    OBVIOUS
  <2> PICK t : t = Task("answered", "ice", {u, p}, c)
    OBVIOUS
  <2>1. /\ screen' = [screen EXCEPT ![w] = [screen[w] EXCEPT !.status = "connected", !.call = IF @ = 0 THEN c ELSE @]]
        /\ tasks' = [tasks EXCEPT ![w] = @ \cup {t}]
        /\ screen[w].call = c
    BY <1>6, <1>11 DEF HandleAccepted, Shows, Late
  <2>2. t.call = c /\ t.room = {u, p} /\ t \in TaskType
    BY <1>7 DEF Task, TaskType
  <2>3. /\ \A v \in Users : v # u => screen'[v] = screen[v]
        /\ screen'[u].status = "connected" /\ screen'[u].room = screen[u].room /\ screen'[u].call = c
    BY <2>1, <1>2, <1>6 DEF CallType
  <2>4. Placed(c, u, p, k)'
    <3>1. TasksBecome(c, w, {}, {t})
      BY <1>2, <2>1, <2>2, AddsTask
    <3>2. OnlyTask(c, w, t)'
      BY <3>1, <1>5, TaskCome
    <3>3. StageTask(c, u, p, k, w, t)
      BY <1>6 DEF StageTask
    <3> QED
      BY <3>2, <3>3, <1>9, NowTask
  <2>5. OnScreen(c, u, p, k)'
    BY <1>1, <1>6, <1>7, <2>1, <2>3 DEF CallSound, OnScreen
  <2>6. \A v \in Users : Attached(c, p, k, v)' <=> Attached(c, p, n, v)
    BY <1>6, <2>1, <2>3 DEF Attached
  <2>7. Entered(c, u, p, k)' /\ (HasEntry(c, u)' <=> HasEntry(c, u))
    <3>1. n >= 4 => k >= 4
      BY <1>6
    <3> QED
      BY <3>1, <1>8, EnteredKept DEF CallSound
  <2>8. Connections(c, u, p)'
    BY <1>8, ConnectionsKept DEF CallSound
  <2>9. Reached(c, u, p, n) => Reached(c, u, p, k)'
    BY <1>1, <1>6, <1>7, <2>3 DEF Reached
  <2>10. Goes(c, u, p, n, k)
    BY <1>6, <1>9, <1>10, <2>4, <2>5, <2>6, <2>7, <2>8, <2>9 DEF Goes
  <2> QED
    BY <2>10, Onward
<1>12. CASE ref[w].status # "calling"
  <2> PICK k \in 1..18 : k = 18
    OBVIOUS
  <2>1. screen' = screen /\ tasks' = tasks
    BY <1>12 DEF HandleAccepted
  <2>2. KeepScreen(c) /\ NoTasks(c)'
    BY <2>1, <1>1, <1>5, SameScreens, SameTasks, PlacesKept
  <2>3. Placed(c, u, p, k)'
    BY <2>2, <1>9, NowSettled
  <2>4. ~Live(c, u, p)
    <3> SUFFICES ASSUME Live(c, u, p)
                 PROVE  FALSE
      OBVIOUS
    <3>1. CallSound(c, u, p, n) /\ Live(c, u, p)
      OBVIOUS
    <3>2. screen[u].status = "calling" => ref[u].status = "calling"
      BY ONLY <3>1, <1>6, <1>7, LiveShown
    <3>3. screen[u].status = "calling"
      BY <3>1, <1>6 DEF CallSound, Stages, Reached
    <3> QED
      BY <3>2, <3>3, <1>6, <1>12
  <2>5. Moves(c, u, p, n, k)
    BY <1>6, <1>8, <1>9, <1>10, <2>2, <2>3, <2>4 DEF Moves
  <2> QED
    BY <2>5, Moved
<1> QED
  BY <1>11, <1>12

(* handleAccepted keeps the invariant. *)
LEMMA HandleAcceptedKeeps ==
  ASSUME ScreenInv, NEW w \in Users, HandleAccepted(w)
  PROVE  ScreenInv'
<1> PICK m : m = Head(down[w])
  OBVIOUS
<1> PICK c : c = m.call
  OBVIOUS
<1> PICK t : t = Task("answered", "ice", m.room, c)
  OBVIOUS
<1> PICK types : types = {"accepted"}
  OBVIOUS
<1>1. Receives(w, types) /\ UNCHANGED <<ref, media, pc, up, sock, activeCalls, jobs, calls>>
  BY DEF HandleAccepted, serverState, link
<1>2. /\ tasks \in [Users -> SUBSET TaskType] /\ down \in [Users -> Seq(DownType)]
      /\ screen \in [Users -> CallType] /\ OwnDown /\ OwnTasks /\ calls \in Nat /\ astray \subseteq 1..calls
      /\ screen[w] \in CallType
  BY DEF ScreenInv, CallTyped
<1>3. /\ down' \in [Users -> Seq(DownType)] /\ m \in DownType /\ OwnDown' /\ Directed(m.room, w)
      /\ \A d : d # c => KeepDown(d)
      /\ \A d : \A v \in Users : Ordered(down[v], d) => Ordered(down'[v], d)
  BY <1>1, <1>2, ReceivesHead
<1>4. c \in 1..calls /\ m.room \in DirectRooms /\ c # 0 /\ c \in 0..calls
  BY <1>2, <1>3 DEF DownType
<1>5. t \in TaskType /\ t.call = c /\ t.room = m.room
  BY <1>4 DEF Task, TaskType
<1>6. /\ tasks' \in [Users -> SUBSET TaskType] /\ OwnTasks' /\ \A d : d # c => KeepTasks(d)
  <2>1. CASE ref[w].status = "calling"
    <3>1. tasks' = [tasks EXCEPT ![w] = @ \cup {t}]
      BY <2>1 DEF HandleAccepted
    <3> QED
      BY <3>1, <1>2, <1>3, <1>5, AddsTask
  <2>2. CASE ref[w].status # "calling"
    <3>1. tasks' = tasks
      BY <2>2 DEF HandleAccepted
    <3> QED
      BY <3>1, <1>2, SameTasks
  <2> QED
    BY <2>1, <2>2
<1>7. /\ screen' \in [Users -> CallType] /\ astray' \subseteq 1..calls /\ astray \subseteq astray'
      /\ \A v \in Users : v # w => screen'[v] = screen[v]
      /\ screen'[w] = screen[w] \/ (/\ screen'[w].status = "connected"
                                    /\ screen'[w].call = IF screen[w].call = 0 THEN c ELSE screen[w].call
                                    /\ screen[w].call \in {0, c} \cup astray')
  <2>1. CASE ref[w].status # "calling"
    BY <1>2, <2>1 DEF HandleAccepted
  <2>2. CASE ref[w].status = "calling"
    <3> PICK e : e = IF screen[w].call = 0 THEN c ELSE screen[w].call
      OBVIOUS
    <3>1. /\ screen' = [screen EXCEPT ![w] = [screen[w] EXCEPT !.status = "connected", !.call = e]]
          /\ astray' = astray \cup {d \in {c} : Late(w, c)} \cup ({screen[w].call} \ {0, c})
      BY <2>2 DEF HandleAccepted, Shows, Victim
    <3>2. e \in 0..calls /\ screen[w].call \in 0..calls
      BY <1>2, <1>4 DEF CallType
    <3>3. /\ [screen[w] EXCEPT !.status = "connected", !.call = e] \in CallType
          /\ [screen[w] EXCEPT !.status = "connected", !.call = e].status = "connected"
          /\ [screen[w] EXCEPT !.status = "connected", !.call = e].call = e
      BY <1>2, <3>2 DEF CallType
    <3>4. astray' \subseteq 1..calls /\ astray \subseteq astray' /\ screen[w].call \in {0, c} \cup astray'
      <4>1. \A d \in astray' : d \in astray \/ d = c \/ (d = screen[w].call /\ d # 0)
        BY <3>1
      <4>2. astray \subseteq astray' /\ screen[w].call \in {0, c} \cup astray'
        BY <3>1
      <4> QED
        BY <4>1, <4>2, <1>2, <1>4, <3>2
    <3> QED
      BY <3>1, <3>3, <3>4, <1>2
  <2> QED
    BY <2>1, <2>2
<1>8. CallTyped'
  BY <1>1, <1>3, <1>6, <1>7, SameTypes DEF ScreenInv, CallTyped
<1>9. OwnScreens'
  BY <1>4, <1>7 DEF ScreenInv, OwnScreens, NoScreen
<1>10. OwnUp' /\ OwnEntries' /\ OwnConnections' /\ OwnJobs'
  BY <1>1, <1>7, SameUp, SameEntries, SameConnections, SameJobs DEF ScreenInv
<1>11. OpenForScreen'
  <2>1. \A v \in Users : screen'[v].call = screen[v].call \/ screen[v].call \in {0} \cup astray'
    BY <1>7
  <2> QED
    BY <2>1, <1>1, <1>7, OpenKept
<1>12. ASSUME NEW d \in 1..calls, d \notin astray'
       PROVE  Steady(d)
  <2>1. CASE d = c
    BY <2>1, <1>12, HandleAcceptedSteady
  <2>2. CASE d # c
    <3>1. d # 0
      BY <1>2
    <3>2. KeepScreen(d)
      BY <1>1, <1>7, <1>12, <2>2, <3>1 DEF KeepScreen
    <3>3. Untouched(d)
      BY <1>1, <1>3, <1>6, <2>2, <3>2, SameUp, SameEntries, SameConnections, SameJobs,
        SameQueues
        DEF Untouched
    <3> QED
      BY <3>3, UntouchedSteady
  <2> QED
    BY <2>1, <2>2
<1>13. CallsSound'
  BY <1>1, <1>7, <1>12, AllSteady DEF ScreenInv
<1> QED
  BY <1>3, <1>6, <1>8, <1>9, <1>10, <1>11, <1>13 DEF ScreenInv

(* The client is told that the call is over. *)
LEMMA HandleOverSteady ==
  ASSUME ScreenInv, NEW w \in Users, HandleOver(w), NEW m, m = Head(down[w]),
         NEW c \in 1..calls, c = m.call
  PROVE  Steady(c)
<1> SUFFICES ASSUME NEW u \in Users, NEW p \in Users, NEW n \in 1..18, CallSound(c, u, p, n)
             PROVE  \E k \in 1..18 : CallSound(c, u, p, k)'
  BY DEF Steady
<1> PICK types : types = Overs
  OBVIOUS
<1>1. /\ Receives(w, types) /\ HandleEndCall(w)
      /\ UNCHANGED <<ref, tasks, up, activeCalls, jobs, calls>> /\ astray \subseteq astray'
  BY DEF HandleOver, serverState, Overs, link
<1>2. down \in [Users -> Seq(DownType)] /\ calls \in Nat
  BY DEF ScreenInv, CallTyped
<1>3. /\ m.type \in Overs /\ m \in DownOf(c, w) /\ DownLoses(c, w, m)
      /\ \A d : \A v \in Users : Ordered(down[v], d) => Ordered(down'[v], d)
  BY <1>1, <1>2, ReceivesHead
<1>4. u \in Users /\ p \in Users /\ u # p
  BY DEF CallSound, Parties
<1>5. OverFor(c, w) /\ w \in {u, p}
  BY <1>3 DEF OverFor, CallSound, Placed, PlacedDown, StageDown, Message, Overs
<1>6. PICK v \in Users : (w = u /\ v = p) \/ (w = p /\ v = u)
  BY <1>5
<1>7. n > 3 /\ (w = p => n # 4)
  <2>1. n > 3
    BY <1>5 DEF CallSound, Unrung
  <2>2. ASSUME w = p, n = 4
        PROVE  FALSE
    <3>1. PICK x \in DownOf(c, p) : x.type = "incoming"
      BY <2>2 DEF CallSound, Placed, Present, StageDown, Message
    <3>2. x # m
      BY <3>1, <1>3 DEF Overs
    <3>3. x \in DownOf(c, p)' /\ x.type \in Openings
      BY <3>1, <3>2, <1>3, <2>2 DEF DownLoses, Openings
    <3> QED
      BY <3>3, <1>3, <2>2 DEF DownLoses, CallSound, Queues
  <2> QED
    BY <2>1, <2>2
<1>8. KeepTasks(c) /\ KeepUp(c) /\ KeepJobs(c) /\ KeepEntries(c)
  BY <1>1, SameTasks, SameUp, SameJobs, SameEntries
<1>9. Queues(c)'
  BY <1>1, <1>3, SameUp DEF CallSound, Queues
<1>10. /\ screen'[w].call # c
       /\ \A x \in Users : x # w => screen'[x] = screen[x] /\ ref'[x] = ref[x]
       /\ \A x \in Users : pc'[x].call = c => pc'[x] = pc[x]
  BY <1>1, <1>2, EndsCall
<1>11. /\ \A x \in Users : x # w => DownOf(c, x)' = DownOf(c, x)
       /\ \A x \in Users : DownOf(c, x)' \subseteq DownOf(c, x)
       /\ \A x \in Users : \A y \in DownOf(c, x) : y \in DownOf(c, x)' \/ y.type \in Overs
  BY <1>3 DEF DownLoses
<1>12. KeepLeaving(c, v) /\ KeepLeaving(c, w) /\ KeepOver(c, v) /\ (OverFor(c, w)' => OverFor(c, w))
  <2>1. KeepLeaving(c, v) /\ KeepLeaving(c, w)
    BY <1>8, LeavingKept
  <2>2. KeepOver(c, v)
    BY <1>4, <1>6, <1>11 DEF KeepOver, OverFor
  <2> QED
    BY <2>1, <2>2, <1>5
<1>13. HasEntry(c, u) => Leaving(c, v)
  BY <1>4, <1>5, <1>6 DEF CallSound, Parting, PartingOf, Leaving
<1> PICK k \in 1..18 : k = IF n = 5 /\ w = p THEN 18 ELSE n
  OBVIOUS
<1>14. Placed(c, u, p, k)'
  <2>1. CASE n = 5 /\ w = p
    <3>1. NoTasks(c) /\ EndsUp(c, u, p) /\ OversDown(c, u, p) /\ EndsJobs(c, u, p)
      BY <2>1, Settled DEF CallSound
    <3>2. NoTasks(c)' /\ EndsUp(c, u, p)' /\ EndsJobs(c, u, p)'
      BY <3>1, <1>8, PlacesKept
    <3>3. OversDown(c, u, p)'
      BY <3>1, <1>11 DEF OversDown
    <3>4. k \in {5, 18} /\ k # 5
      BY <2>1
    <3> QED
      BY <3>2, <3>3, <3>4, NowSettled
  <2>2. CASE ~(n = 5 /\ w = p)
    <3>1. k = n
      BY <2>2
    <3>2. Present(c, u, p, n)'
      <4>1. n \in {4, 9, 14, 17} => \E x \in Users : \E y \in DownOf(c, x)' : StageDown(c, u, p, n, x, y)
        <5>1. \A x, y : StageDown(c, u, p, n, x, y) => y.type \notin Overs
          BY DEF StageDown, Message, Overs
        <5> QED
          BY <5>1, <1>11 DEF CallSound, Placed, Present
      <4>2. n = 5 => screen'[p].call = c
        BY <2>2, <1>4, <1>10 DEF CallSound, Placed, Present
      <4> QED
        BY <4>1, <4>2, <1>8 DEF CallSound, Placed, Present, KeepTasks, KeepUp, KeepJobs
    <3>3. PlacedDown(c, u, p, n)'
      BY <1>11 DEF CallSound, Placed, PlacedDown
    <3>4. PlacedTasks(c, u, p, n)' /\ PlacedUp(c, u, p, n)' /\ PlacedJobs(c, u, p, n)'
      BY <1>8 DEF CallSound, Placed, PlacedTasks, PlacedUp, PlacedJobs, KeepTasks, KeepUp,
        KeepJobs
    <3> QED
      BY <3>1, <3>2, <3>3, <3>4 DEF Placed
  <2> QED
    BY <2>1, <2>2
<1>15. \/ k = n /\ (w = p => n # 4)
       \/ w = p /\ k = 18 /\ n >= 4
  BY <1>7
<1>16. k > 3
  BY <1>7
<1>17. Departs(c, u, p, n, k, w, v)
  BY <1>6, <1>8, <1>9, <1>10, <1>12, <1>13, <1>14, <1>15, <1>16 DEF Departs, KeepLeaving
<1>18. CallSound(c, u, p, k)'
  BY <1>17, Closed
<1> QED
  BY <1>18

(* The four messages that a call is over keep the invariant: the call they *)
(* meet on the screen is theirs or becomes astray.                         *)
LEMMA HandleOverKeeps ==
  ASSUME ScreenInv, NEW w \in Users, HandleOver(w)
  PROVE  ScreenInv'
<1> PICK m : m = Head(down[w])
  OBVIOUS
<1> PICK c : c = m.call
  OBVIOUS
<1> PICK types : types = Overs
  OBVIOUS
<1>1. /\ Receives(w, types) /\ HandleEndCall(w)
      /\ UNCHANGED <<ref, tasks, up, sock, activeCalls, jobs, calls>>
      /\ astray' = astray \cup ({screen[w].call} \ {0, c})
  BY DEF HandleOver, serverState, Overs, Victim, link
<1>2. /\ down \in [Users -> Seq(DownType)] /\ OwnDown /\ calls \in Nat /\ astray \subseteq 1..calls
      /\ screen[w] \in CallType /\ ref \in [Users -> CallType]
  BY DEF ScreenInv, CallTyped
<1>3. /\ down' \in [Users -> Seq(DownType)] /\ OwnDown' /\ m \in DownType
      /\ \A d : d # c => KeepDown(d)
      /\ \A d : \A v \in Users : Ordered(down[v], d) => Ordered(down'[v], d)
  BY <1>1, <1>2, ReceivesHead
<1>4. astray' \subseteq 1..calls /\ astray \subseteq astray' /\ screen[w].call \in {0, c} \cup astray'
  <2>1. \A d \in astray' : d \in astray \/ (d = screen[w].call /\ d # 0)
    BY <1>1
  <2>2. astray \subseteq astray' /\ screen[w].call \in {0, c} \cup astray'
    BY <1>1
  <2>3. screen[w].call \in 0..calls
    BY <1>2 DEF CallType
  <2> QED
    BY <2>1, <2>2, <2>3, <1>2
<1>5. /\ screen' \in [Users -> CallType] /\ media' \in [Users -> MediaType]
      /\ pc' \in [Users -> ConnectionType]
      /\ OwnScreens' /\ OwnConnections' /\ OpenForScreen'
      /\ \A d \in 1..calls : d # c /\ d \notin astray' => KeepScreen(d) /\ KeepConnections(d)
  <2>1. ref' = [ref EXCEPT ![w] = ref'[w]]
    BY <1>1, <1>2
  <2>2. \A d \in 1..calls : d # c /\ d \notin astray' => d # screen[w].call
    BY <1>2, <1>4
  <2> QED
    BY <2>1, <2>2, <1>1, <1>4, EndsCall
<1>6. CallTyped'
  BY <1>1, <1>3, <1>4, <1>5, SameTypes DEF ScreenInv, CallTyped
<1>7. OwnTasks' /\ OwnUp' /\ OwnEntries' /\ OwnJobs'
  BY <1>1, <1>4, SameTasks, SameUp, SameEntries, SameJobs DEF ScreenInv
<1>8. ASSUME NEW d \in 1..calls, d \notin astray'
      PROVE  Steady(d)
  <2>1. CASE d = c
    BY <2>1, HandleOverSteady
  <2>2. CASE d # c
    <3>1. Untouched(d)
      BY <1>1, <1>3, <1>5, <1>8, <2>2, SameTasks, SameUp, SameEntries, SameJobs, SameQueues
        DEF Untouched
    <3> QED
      BY <3>1, UntouchedSteady
  <2> QED
    BY <2>1, <2>2
<1>9. CallsSound'
  BY <1>1, <1>4, <1>8, AllSteady DEF ScreenInv
<1> QED
  BY <1>3, <1>5, <1>6, <1>7, <1>9 DEF ScreenInv

(* A client without listeners misses a message: its call is spoiled. *)
LEMMA UnheardKeeps ==
  ASSUME ScreenInv, NEW w \in Users, Unheard(w)
  PROVE  ScreenInv'
<1> PICK m : m = Head(down[w])
  OBVIOUS
<1>1. /\ down[w] # <<>> /\ down' = [down EXCEPT ![w] = Tail(@)]
      /\ UNCHANGED <<screen, ref, media, pc, tasks, up, sock, activeCalls, jobs, calls>>
      /\ astray' = astray \cup {m.call}
  BY DEF Unheard, client, link, serverState
<1>2. down \in [Users -> Seq(DownType)] /\ OwnDown /\ astray \subseteq 1..calls
  BY DEF ScreenInv, CallTyped
<1>3. /\ down' \in [Users -> Seq(DownType)] /\ OwnDown' /\ m \in DownType
      /\ \A d : d # m.call => KeepDown(d)
      /\ \A d : \A v \in Users : Ordered(down[v], d) => Ordered(down'[v], d)
  BY <1>1, <1>2, DownTaken
<1>4. astray' \subseteq 1..calls /\ astray \subseteq astray'
  BY <1>1, <1>2, <1>3 DEF DownType
<1>5. CallTyped'
  BY <1>1, <1>3, <1>4, SameTypes DEF ScreenInv, CallTyped
<1>6. /\ OwnScreens' /\ OwnTasks' /\ OwnUp' /\ OwnEntries' /\ OwnConnections' /\ OwnJobs'
      /\ OpenForScreen'
  BY <1>1, <1>4, SameScreens, SameTasks, SameUp, SameEntries, SameConnections, SameJobs
    DEF ScreenInv
<1>7. ASSUME NEW d \in 1..calls, d \notin astray'
      PROVE  Steady(d)
  <2>1. d # m.call
    BY <1>1, <1>7
  <2>2. Untouched(d)
    BY <2>1, <1>1, <1>3, SameScreens, SameTasks, SameUp, SameEntries, SameConnections,
      SameJobs, SameQueues
      DEF Untouched
  <2> QED
    BY <2>2, UntouchedSteady
<1>8. CallsSound'
  BY <1>1, <1>4, <1>7, AllSteady DEF ScreenInv
<1> QED
  BY <1>3, <1>5, <1>6, <1>8 DEF ScreenInv

(* The client hears an offer or an answer. *)
LEMMA HandleSignalSteady ==
  ASSUME ScreenInv, NEW w \in Users, HandleSignal(w), NEW m, m = Head(down[w]),
         NEW c \in 1..calls, c = m.call, c \notin astray'
  PROVE  Steady(c)
<1> SUFFICES ASSUME NEW u \in Users, NEW p \in Users, NEW n \in 1..18, CallSound(c, u, p, n)
             PROVE  \E k \in 1..18 : CallSound(c, u, p, k)'
  BY DEF Steady
<1> PICK types : types = {"offer", "answer"}
  OBVIOUS
<1>1. Receives(w, types) /\ UNCHANGED <<screen, ref, tasks, activeCalls, jobs, calls>>
  BY DEF HandleSignal, serverState, link
<1>2. /\ up \in [Users -> Seq(UpType)] /\ down \in [Users -> Seq(DownType)]
      /\ pc \in [Users -> ConnectionType] /\ pc[w] \in ConnectionType /\ OwnConnections
  BY DEF ScreenInv, CallTyped
<1>3. /\ m.type \in types /\ m \in DownOf(m.call, w) /\ DownLoses(m.call, w, m)
      /\ \A d : \A v \in Users : Ordered(down[v], d) => Ordered(down'[v], d)
  BY <1>1, <1>2, ReceivesHead
<1>4. m.type \in {"offer", "answer"} /\ m.type \notin Overs /\ m.type \notin Closers
  BY <1>3 DEF Overs, Closers, Ends
<1>5. /\ StageDown(c, u, p, n, w, m) /\ OnlyDown(c, u, p, w, m)
      /\ NoTasks(c) /\ EndsUp(c, u, p) /\ EndsJobs(c, u, p)
  BY <1>3, <1>4, TokenDown DEF CallSound
<1>6. /\ m.type = "offer" => n = 14 /\ w = p
      /\ m.type = "answer" => n = 17 /\ w = u
  BY <1>4, <1>5 DEF StageDown, Message
<1>7. u \in Users /\ p \in Users /\ u # p /\ {u, p} \in DirectRooms /\ (n = 14 \/ n = 17)
  BY <1>4, <1>6 DEF CallSound, Parties
<1>8. /\ KeepTasks(c) /\ KeepJobs(c) /\ KeepEntries(c) /\ KeepScreen(c)
  BY <1>1, SameTasks, SameJobs, SameEntries, SameScreens
<1>9. /\ NoTasks(c)' /\ EndsJobs(c, u, p)' /\ OversDown(c, u, p)' /\ SameEndsJobs(c)
      /\ \A v \in Users : KeepOver(c, v)
  <2>1. OversDown(c, u, p)'
    BY <1>3, <1>4, <1>5, DownLeft DEF CallSound
  <2>2. \A v \in Users : KeepOver(c, v)
    BY <1>3, <1>4, DownSame
  <2> QED
    BY <2>1, <2>2, <1>5, <1>8, PlacesKept, KeptSame
<1>10. Live(c, u, p) => /\ Hears(w) /\ pc[w].call = c
                        /\ m.type = "answer" => pc[w].state = "offered"
  <2> SUFFICES ASSUME Live(c, u, p)
               PROVE  /\ Hears(w) /\ pc[w].call = c
                      /\ m.type = "answer" => pc[w].state = "offered"
    OBVIOUS
  <2>1. /\ Reached(c, u, p, n) /\ ref[u].status \in {"calling", "connected"}
        /\ n > 5 => ref[p].status = "connected"
    BY LiveShown
  <2>2. /\ pc[p].call = c /\ pc[u].call = c /\ (n = 17 => pc[u].state = "offered")
    BY <2>1, <1>7 DEF Reached
  <2>3. w \in {u, p} /\ ref[w].status # "idle"
    BY <2>1, <1>4, <1>6
  <2>4. pc[w].call = c /\ c # 0
    BY <2>2, <2>3 DEF ScreenInv, CallTyped
  <2>5. pc[w].state # "none"
    BY <2>4, <1>2 DEF OwnConnections
  <2> QED
    BY <2>2, <2>3, <2>4, <2>5, <1>6 DEF Hears
<1>11. CASE Hears(w) /\ m.type = "offer" /\ pc[w].call = c
  <2> PICK type : type = "answer"
    OBVIOUS
  <2> PICK x : x = Message(type, {u, p}, c)
    OBVIOUS
  <2> PICK k \in 1..18 : k = 15
    OBVIOUS
  <2>1. x.type = type /\ x.call = c /\ n = 14 /\ w = p
    BY <1>6, <1>11 DEF Message
  <2>2. /\ up' = Emitted(w, type, {u, p}, c) /\ pc' = [pc EXCEPT ![w].state = "stable"]
    <3>1. pc[w].room = {u, p}
      BY <1>11 DEF CallSound, Connections
    <3> QED
      BY <3>1, <1>11 DEF HandleSignal
  <2>3. Message(type, {u, p}, c) \in UpType
    BY <1>7 DEF Message, UpType
  <2>4. /\ UpGets(c, w, Message(type, {u, p}, c))
        /\ \A d : \A v \in Users : Ordered(up[v], d) /\ (v = w /\ d = c =>
                Fits(up[v], Message(type, {u, p}, c))) => Ordered(up'[v], d)
    <3>1. SaysOne(w, type, {u, p}, c)
      BY <1>2, <2>2, <2>3, OneSaid
    <3> QED
      BY <3>1 DEF SaysOne
  <2>5. /\ \A v \in Users : v # p => pc'[v] = pc[v]
        /\ pc'[p].call = c /\ pc'[p].room = pc[p].room /\ pc'[p].state = "stable"
    BY <2>1, <2>2, <1>2, <1>11 DEF ConnectionType
  <2>6. Fits(up[w], x)
    BY <1>5, <2>1, EndsFit DEF Openings
  <2>7. Queues(c)'
    BY <2>4, <2>6, <1>3 DEF CallSound, Queues
  <2>8. Placed(c, u, p, k)'
    <3>1. OnlyUp(c, u, p, w, x)'
      BY <1>5, <2>4, UpCome
    <3>2. StageUp(c, u, p, k, w, x)
      BY <2>1 DEF StageUp
    <3> QED
      BY <3>1, <3>2, <1>9, NowUp
  <2>9. \A v \in Users : KeepLeaving(c, v)
    <3>1. SameEndsUp(c)
      BY <2>1, <2>4, UpSame DEF Ends
    <3> QED
      BY <3>1, <1>9, LeavingSame
  <2>10. Connections(c, u, p)'
    BY <2>5, <1>11, <2>1 DEF CallSound, Connections
  <2>11. Sides(c, u, p, n, k)
    BY <1>8, <2>1, SidesKept
  <2>12. Live(c, u, p) /\ Reached(c, u, p, n) => Reached(c, u, p, k)'
    BY <2>1, <2>5, <2>11, <1>1, <1>7 DEF Live, Reached, Sides
  <2>13. Goes(c, u, p, n, k)
    BY <1>9, <2>1, <2>7, <2>8, <2>9, <2>10, <2>11, <2>12 DEF Goes, Sides
  <2> QED
    BY <2>13, Onward
<1> PICK k \in 1..18 : k = 18
  OBVIOUS
<1>12. ASSUME Queues(c)', EndsUp(c, u, p)', \A v \in Users : KeepLeaving(c, v), Connections(c, u, p)',
              Live(c, u, p) /\ Reached(c, u, p, n) => Reached(c, u, p, k)'
       PROVE  CallSound(c, u, p, k)'
  <2>1. Placed(c, u, p, k)'
    BY <1>9, <1>12, NowSettled
  <2>2. Sides(c, u, p, n, k)
    BY <1>7, <1>8, SidesKept
  <2>3. Goes(c, u, p, n, k)
    BY <1>7, <1>9, <1>12, <2>1, <2>2 DEF Goes, Sides
  <2> QED
    BY <2>3, Onward
<1>13. CASE Hears(w) /\ m.type = "offer" /\ pc[w].call # c
  <2> PICK type : type = "answer"
    OBVIOUS
  <2> PICK e : e = pc[w].call
    OBVIOUS
  <2>1. up' = Emitted(w, type, pc[w].room, e) /\ pc' = [pc EXCEPT ![w].state = "stable"]
    BY <1>13 DEF HandleSignal
  <2>2. Message(type, pc[w].room, e) \in UpType
    <3>1. pc[w].state # "none"
      BY <1>13 DEF Hears
    <3>2. e # 0 /\ e \in 0..calls /\ pc[w].room \in DirectRooms
      BY <3>1, <1>2 DEF OwnConnections, Directed, ConnectionType
    <3> QED
      BY <3>2 DEF Message, UpType, ScreenInv, CallTyped
  <2>3. \A d : d # e => KeepUp(d) /\ \A v \in Users : Ordered(up[v], d) => Ordered(up'[v], d)
    BY <1>2, <2>1, <2>2, Emits
  <2>4. KeepUp(c) /\ \A v \in Users : Ordered(up[v], c) => Ordered(up'[v], c)
    BY <2>3, <1>13
  <2>5. Queues(c)'
    BY <2>4, <1>3 DEF CallSound, Queues
  <2>6. EndsUp(c, u, p)' /\ \A v \in Users : KeepLeaving(c, v)
    BY <1>5, <1>8, <2>4, PlacesKept, LeavingKept
  <2>7. Connections(c, u, p)'
    BY <2>1, <1>2, <1>13 DEF CallSound, Connections, ConnectionType
  <2> QED
    BY <2>5, <2>6, <2>7, <1>10, <1>12, <1>13
<1>14. CASE ~(Hears(w) /\ m.type = "offer")
  <2>1. up' = up
    BY <1>14 DEF HandleSignal
  <2>2. KeepUp(c) /\ \A v \in Users : Ordered(up[v], c) => Ordered(up'[v], c)
    BY <2>1, SameUp
  <2>3. Queues(c)'
    BY <2>2, <1>3 DEF CallSound, Queues
  <2>4. EndsUp(c, u, p)' /\ \A v \in Users : KeepLeaving(c, v)
    BY <1>5, <1>8, <2>2, PlacesKept, LeavingKept
  <2>5. CASE Hears(w) /\ m.type = "answer" /\ pc[w].state = "offered" /\ pc[w].call = c
    <3>1. pc' = [pc EXCEPT ![w].state = "stable"]
      BY <2>5 DEF HandleSignal
    <3>2. /\ n = 17 /\ w = u
          /\ \A v \in Users : v # u => pc'[v] = pc[v]
          /\ pc'[u].call = c /\ pc'[u].room = pc[u].room /\ pc'[u].state = "stable"
      BY <3>1, <2>5, <1>2, <1>6 DEF ConnectionType
    <3>3. Connections(c, u, p)'
      BY <3>2, <2>5 DEF CallSound, Connections
    <3>4. Sides(c, u, p, n, k)
      BY <1>7, <1>8, SidesKept
    <3>5. Live(c, u, p) /\ Reached(c, u, p, n) => Reached(c, u, p, k)'
      BY <3>2, <3>4, <1>1, <1>7 DEF Live, Reached, Sides
    <3> QED
      BY <2>3, <2>4, <3>3, <3>5, <1>12
  <2>6. CASE ~(Hears(w) /\ m.type = "answer" /\ pc[w].state = "offered" /\ pc[w].call = c)
    <3>1. ~Live(c, u, p)
      BY <2>6, <1>4, <1>10, <1>14
    <3>2. /\ \A v \in Users : v # w => pc'[v] = pc[v]
          /\ pc'[w].call = pc[w].call /\ pc'[w].room = pc[w].room
      BY <1>2, <1>14 DEF HandleSignal, ConnectionType
    <3>3. Connections(c, u, p)'
      BY <3>2 DEF CallSound, Connections
    <3> QED
      BY <2>3, <2>4, <3>1, <3>3, <1>12
  <2> QED
    BY <2>5, <2>6
<1> QED
  BY <1>11, <1>13, <1>14

(* handleSignal keeps the invariant: a signal of another call makes the    *)
(* connection's call astray.                                               *)
LEMMA HandleSignalKeeps ==
  ASSUME ScreenInv, NEW w \in Users, HandleSignal(w)
  PROVE  ScreenInv'
<1> PICK m : m = Head(down[w])
  OBVIOUS
<1> PICK c : c = m.call
  OBVIOUS
<1> PICK e : e = pc[w].call
  OBVIOUS
<1> PICK types : types = {"offer", "answer"}
  OBVIOUS
<1>1. Receives(w, types) /\ UNCHANGED <<screen, ref, media, tasks, sock, activeCalls, jobs, calls>>
  BY DEF HandleSignal, serverState, link
<1>2. /\ up \in [Users -> Seq(UpType)] /\ down \in [Users -> Seq(DownType)]
      /\ pc \in [Users -> ConnectionType] /\ pc[w] \in ConnectionType
      /\ OwnDown /\ OwnUp /\ OwnConnections /\ calls \in Nat /\ astray \subseteq 1..calls
  BY DEF ScreenInv, CallTyped
<1>3. /\ down' \in [Users -> Seq(DownType)] /\ m \in DownType /\ OwnDown'
      /\ \A d : d # c => KeepDown(d)
      /\ \A d : \A v \in Users : Ordered(down[v], d) => Ordered(down'[v], d)
  BY <1>1, <1>2, ReceivesHead
<1>4. c \in 1..calls /\ c # 0
  BY <1>2, <1>3 DEF DownType
<1>5. /\ up' \in [Users -> Seq(UpType)] /\ OwnUp'
      /\ \A d : d # e => KeepUp(d) /\ \A v \in Users : Ordered(up[v], d) => Ordered(up'[v], d)
  <2>1. CASE Hears(w) /\ m.type = "offer"
    <3> PICK type : type = "answer"
      OBVIOUS
    <3>1. up' = Emitted(w, type, pc[w].room, e)
      BY <2>1 DEF HandleSignal
    <3>2. e # 0 /\ e \in 0..calls /\ Directed(pc[w].room, w)
      BY <2>1, <1>2 DEF Hears, OwnConnections, ConnectionType
    <3>3. Message(type, pc[w].room, e) \in UpType
      BY <3>2, <1>2 DEF Message, UpType, Directed
    <3> QED
      BY <1>2, <3>1, <3>2, <3>3, Emits
  <2>2. CASE ~(Hears(w) /\ m.type = "offer")
    <3>1. up' = up
      BY <2>2 DEF HandleSignal
    <3> QED
      BY <3>1, <1>2, SameUp
  <2> QED
    BY <2>1, <2>2
<1>6. /\ astray' \subseteq 1..calls /\ astray \subseteq astray'
      /\ \A v \in Users : v # w => pc'[v] = pc[v]
      /\ pc' \in [Users -> ConnectionType]
      /\ \/ pc'[w] = pc[w] /\ up' = up
         \/ /\ pc'[w].call = e /\ pc'[w].room = pc[w].room /\ pc'[w].state = "stable"
            /\ pc[w].state # "none" /\ e \in {c} \cup astray'
  <2>1. CASE pc' = pc /\ astray' = astray /\ up' = up
    BY <1>2, <2>1
  <2>2. CASE /\ Hears(w) /\ pc' = [pc EXCEPT ![w].state = "stable"]
             /\ astray' = astray \cup ({e} \ {c})
    <3>1. pc[w].state # "none"
      BY <2>2 DEF Hears
    <3>2. e # 0 /\ e \in 0..calls
      BY <3>1, <1>2 DEF OwnConnections, ConnectionType
    <3>3. astray' \subseteq 1..calls /\ astray \subseteq astray' /\ e \in {c} \cup astray'
      BY <3>2, <2>2, <1>2
    <3>4. /\ \A v \in Users : v # w => pc'[v] = pc[v]
          /\ pc' \in [Users -> ConnectionType]
          /\ pc'[w].call = e /\ pc'[w].room = pc[w].room /\ pc'[w].state = "stable"
      BY <2>2, <1>2 DEF ConnectionType
    <3> QED
      BY <3>1, <3>3, <3>4
  <2> QED
    BY <2>1, <2>2 DEF HandleSignal
<1>7. CallTyped'
  BY <1>1, <1>3, <1>5, <1>6, SameTypes DEF ScreenInv, CallTyped
<1>8. OwnScreens' /\ OwnTasks' /\ OwnEntries' /\ OwnJobs'
  BY <1>1, <1>6, SameScreens, SameTasks, SameEntries, SameJobs DEF ScreenInv
<1>9. OwnConnections'
  BY <1>2, <1>6 DEF OwnConnections
<1>10. OpenForScreen'
  <2>1. \A v \in Users : pc'[v].call = pc[v].call
    BY <1>6
  <2> QED
    BY <2>1, <1>1, <1>6, OpenKept
<1>11. ASSUME NEW d \in 1..calls, d \notin astray'
       PROVE  Steady(d)
  <2>1. CASE d = c
    BY <2>1, <1>11, HandleSignalSteady
  <2>2. CASE d # c
    <3>1. KeepUp(d) /\ \A v \in Users : Ordered(up[v], d) => Ordered(up'[v], d)
      BY <1>5, <1>6, <1>11, <2>2, SameUp
    <3>2. KeepConnections(d)
      BY <1>6, <1>11, <2>2 DEF KeepConnections
    <3>3. Untouched(d)
      BY <1>1, <1>3, <2>2, <3>1, <3>2, SameScreens, SameTasks, SameEntries, SameJobs,
        SameQueues
        DEF Untouched
    <3> QED
      BY <3>3, UntouchedSteady
  <2> QED
    BY <2>1, <2>2
<1>12. CallsSound'
  BY <1>1, <1>6, <1>11, AllSteady DEF ScreenInv
<1> QED
  BY <1>3, <1>5, <1>7, <1>8, <1>9, <1>10, <1>12 DEF ScreenInv

-----------------------------------------------------------------------------
(* The server. *)

(* A direct room has one user but w. *)
LEMMA OtherOne ==
  ASSUME NEW w \in Users, NEW r, Directed(r, w)
  PROVE  Other(r, w) \in Users /\ Other(r, w) # w /\ r = {w, Other(r, w)} /\ Directed(r, Other(r, w))
<1>1. \E u, v \in Users : u # v /\ r = {u, v}
  BY DirectRoomsAssumption DEF Directed
<1>2. PICK v \in Users : v # w /\ r = {w, v}
  BY <1>1 DEF Directed
<1>3. Other(r, w) \in r /\ Other(r, w) # w
  BY <1>2 DEF Other
<1> QED
  BY <1>2, <1>3 DEF Directed

(* The handler of a request or of a signal waits for the room. *)
LEMMA FindRoomSteady ==
  ASSUME ScreenInv, NEW w \in Users, FindRoom(w), NEW m, m = Head(up[w]),
         NEW c \in 1..calls, c = m.call
  PROVE  Steady(c)
<1> SUFFICES ASSUME NEW u \in Users, NEW p \in Users, NEW n \in 1..18, CallSound(c, u, p, n)
             PROVE  \E k \in 1..18 : CallSound(c, u, p, k)'
  BY DEF Steady
<1> PICK types : types = {"initiate", "offer", "answer"}
  OBVIOUS
<1> PICK j : j = Job(m.type, w, m.room, m.call)
  OBVIOUS
<1>1. /\ Takes(w, types) /\ Awaits(j)
      /\ UNCHANGED <<screen, ref, pc, tasks, down, activeCalls, calls>>
  BY DEF FindRoom, client, link
<1>2. up \in [Users -> Seq(UpType)] /\ down \in [Users -> Seq(DownType)]
  BY DEF ScreenInv, CallTyped
<1>3. /\ m.type \in types /\ m \in UpOf(m.call, w) /\ UpLoses(m.call, w, m)
      /\ \A d : \A v \in Users : Ordered(up[v], d) => Ordered(up'[v], d)
  BY <1>1, <1>2, TakesHead
<1>4. m.type \in {"initiate", "offer", "answer"} /\ m.type \notin Ends /\ m.type \notin Closers
  BY <1>3 DEF Overs, Closers, Ends
<1>5. /\ StageUp(c, u, p, n, w, m) /\ OnlyUp(c, u, p, w, m)
      /\ NoTasks(c) /\ OversDown(c, u, p) /\ EndsJobs(c, u, p)
  BY <1>3, <1>4, TokenUp DEF CallSound
<1>6. /\ m.room = {u, p}
      /\ m.type = "initiate" => n = 2 /\ w = u
      /\ m.type = "offer" => n = 12 /\ w = u
      /\ m.type = "answer" => n = 15 /\ w = p
  BY <1>4, <1>5 DEF StageUp, Message
<1>7. j = Job(m.type, w, {u, p}, c) /\ j.kind = m.type /\ j.call = c
  BY <1>6 DEF Job
<1>8. JobsOf(c)' = JobsOf(c) \cup {j}
  <2>1. j \notin jobs
    BY <1>4, <1>5, <1>7 DEF EndsJobs, JobsOf
  <2>2. jobs' = jobs \cup {j}
    BY <2>1, <1>1 DEF Awaits
  <2> QED
    BY <2>2, <1>7 DEF JobsOf
<1>9. /\ KeepTasks(c) /\ KeepDown(c) /\ KeepEntries(c) /\ KeepScreen(c) /\ KeepConnections(c)
      /\ \A v \in Users : Ordered(down[v], c) => Ordered(down'[v], c)
  BY <1>1, SameTasks, SameDown, SameEntries, SameScreens, SameConnections
<1>10. /\ NoTasks(c)' /\ OversDown(c, u, p)' /\ EndsUp(c, u, p)' /\ \A v \in Users : KeepOver(c, v)
  <2>1. EndsUp(c, u, p)'
    BY <1>3, <1>4, <1>5, UpLeft DEF CallSound
  <2> QED
    BY <2>1, <1>5, <1>9, PlacesKept, OverForKept
<1> PICK k \in 1..18 : k = n + 1 /\ n \in {2, 12, 15}
  BY <1>4, <1>6
<1>11. Placed(c, u, p, k)'
  <2>1. OnlyJob(c, u, p, j)'
    BY <1>5, <1>8, JobCome
  <2>2. StageJob(c, u, p, k, j)
    BY <1>4, <1>6, <1>7 DEF StageJob
  <2> QED
    BY <2>1, <2>2, <1>10, NowJob
<1>12. Queues(c)'
  BY <1>3, <1>9 DEF CallSound, Queues
<1>13. \A v \in Users : KeepLeaving(c, v)
  <2>1. SameEndsUp(c)
    BY <1>3, <1>4, UpSame
  <2>2. SameEndsJobs(c)
    BY <1>4, <1>7, <1>8, JobsSame
  <2> QED
    BY <2>1, <2>2, LeavingSame
<1>14. Reached(c, u, p, n) => Reached(c, u, p, k)
  BY DEF Reached
<1>15. Moves(c, u, p, n, k)
  BY <1>9, <1>10, <1>11, <1>12, <1>13, <1>14 DEF Moves
<1> QED
  BY <1>15, Moved

(* A handler that waits for the room keeps the invariant. *)
LEMMA FindRoomKeeps ==
  ASSUME ScreenInv, NEW w \in Users, FindRoom(w)
  PROVE  ScreenInv'
<1> PICK m : m = Head(up[w])
  OBVIOUS
<1> PICK c : c = m.call
  OBVIOUS
<1> PICK types : types = {"initiate", "offer", "answer"}
  OBVIOUS
<1>1. /\ Takes(w, types) /\ Awaits(Job(m.type, w, m.room, c))
      /\ UNCHANGED <<screen, ref, media, pc, tasks, down, sock, activeCalls, calls, astray>>
  BY DEF FindRoom, client, link
<1>2. /\ up \in [Users -> Seq(UpType)] /\ OwnUp /\ jobs \subseteq JobType /\ OwnJobs
  BY DEF ScreenInv, CallTyped
<1>3. /\ up' \in [Users -> Seq(UpType)] /\ m \in UpType /\ OwnUp' /\ m.type \in types
      /\ m \in Carried(up[w])
      /\ \A d : d # c => KeepUp(d)
      /\ \A d : \A v \in Users : Ordered(up[v], d) => Ordered(up'[v], d)
  BY <1>1, <1>2, TakesHead
<1>4. c \in 1..calls /\ Directed(m.room, w) /\ m.type \in {"initiate", "offer", "answer"}
  BY <1>2, <1>3 DEF UpType, OwnUp
<1>5. Job(m.type, w, m.room, c) \in JobType
  BY <1>4 DEF Job, JobType, Directed
<1> PICK kind : kind = m.type
  OBVIOUS
<1> PICK r : r = m.room
  OBVIOUS
<1>6. Awaited(kind, w, r, c)
  <2>1. Job(kind, w, r, c) \in JobType /\ Awaits(Job(kind, w, r, c))
    BY <1>1, <1>5
  <2> QED
    BY <2>1, <1>2, AwaitsJob
<1>7. CallTyped'
  BY <1>1, <1>3, <1>6, SameTypes DEF ScreenInv, CallTyped, Awaited
<1>8. OwnJobs'
  BY <1>1, <1>2, <1>4, <1>6 DEF OwnJobs, Awaited
<1>9. OwnScreens' /\ OwnTasks' /\ OwnDown' /\ OwnEntries' /\ OwnConnections' /\ OpenForScreen'
  BY <1>1, SameScreens, SameTasks, SameDown, SameEntries, SameConnections DEF ScreenInv
<1>10. ASSUME NEW d \in 1..calls
       PROVE  Steady(d)
  <2>1. CASE d = c
    BY <2>1, FindRoomSteady
  <2>2. CASE d # c
    <3>1. KeepJobs(d)
      BY <1>6, <2>2 DEF Awaited
    <3>2. Untouched(d)
      BY <1>1, <1>3, <2>2, <3>1, SameScreens, SameTasks, SameDown, SameEntries,
        SameConnections, SameQueues
        DEF Untouched
    <3> QED
      BY <3>2, UntouchedSteady
  <2> QED
    BY <2>1, <2>2
<1>11. CallsSound'
  BY <1>1, <1>10, AllSteady DEF ScreenInv
<1> QED
  BY <1>3, <1>7, <1>8, <1>9, <1>11 DEF ScreenInv

(* A signal goes to the other user of the room. *)
LEMMA ForwardSignalSteady ==
  ASSUME ScreenInv, NEW j \in jobs, ForwardSignal(j), NEW c \in 1..calls, c = j.call, c \notin astray'
  PROVE  Steady(c)
<1> SUFFICES ASSUME NEW u \in Users, NEW p \in Users, NEW n \in 1..18, CallSound(c, u, p, n)
             PROVE  \E k \in 1..18 : CallSound(c, u, p, k)'
  BY DEF Steady
<1> PICK w : w = Other(j.room, j.user)
  OBVIOUS
<1> PICK type : type = j.kind
  OBVIOUS
<1> PICK m : m = Message(type, {u, p}, c)
  OBVIOUS
<1>1. /\ type \in {"offer", "answer"} /\ jobs' = jobs \ {j}
      /\ down' = Told(w, type, j.room, c) /\ sock[w]
      /\ UNCHANGED <<screen, ref, pc, tasks, up, activeCalls, calls>>
  BY DEF ForwardSignal, client, Lost, link
<1>2. /\ down \in [Users -> Seq(DownType)] /\ sock \in [Users -> BOOLEAN]
      /\ j \in JobsOf(c) /\ type \notin Ends /\ type \notin Overs /\ type \notin Openings
  BY <1>1 DEF ScreenInv, CallTyped, JobsOf, Ends, Overs, Openings
<1>3. u \in Users /\ p \in Users /\ u # p /\ {u, p} \in DirectRooms
  BY DEF CallSound, Parties
<1>4. /\ StageJob(c, u, p, n, j) /\ OnlyJob(c, u, p, j)
      /\ NoTasks(c) /\ EndsUp(c, u, p) /\ OversDown(c, u, p)
  BY <1>2, TokenJob DEF CallSound
<1>5. /\ j.room = {u, p}
      /\ type = "offer" => n = 13 /\ j.user = u
      /\ type = "answer" => n = 16 /\ j.user = p
  BY <1>1, <1>4 DEF StageJob, Job
<1>6. /\ w \in Users
      /\ type = "offer" => w = p
      /\ type = "answer" => w = u
  <2>1. Directed(j.room, j.user) /\ j.user \in Users
    BY <1>1, <1>3, <1>5 DEF ScreenInv, OwnJobs
  <2>2. w \in Users /\ w # j.user /\ w \in {u, p}
    BY <2>1, <1>5, OtherOne
  <2> QED
    BY <2>2, <1>3, <1>5
<1>7. Message(type, {u, p}, c) \in DownType /\ m.type = type /\ m.call = c
  BY <1>1, <1>3 DEF Message, DownType
<1>8. /\ DownGets(c, w, Message(type, {u, p}, c))
      /\ \A v \in Users : Ordered(down[v], c) /\ (v = w =>
              Fits(down[v], Message(type, {u, p}, c))) => Ordered(down'[v], c)
  <2>1. down' = Told(w, type, {u, p}, c) /\ w \in Users
    BY <1>1, <1>5, <1>6
  <2>2. TellsOne(w, type, {u, p}, c)
    BY <2>1, <1>2, <1>7, OneTold
  <2> QED
    BY <2>2, <1>1 DEF TellsOne
<1>9. JobsOf(c)' = JobsOf(c) \ {j}
  BY <1>1 DEF JobsOf
<1>10. /\ KeepTasks(c) /\ KeepUp(c) /\ KeepEntries(c) /\ KeepScreen(c) /\ KeepConnections(c)
       /\ \A v \in Users : Ordered(up[v], c) => Ordered(up'[v], c)
  BY <1>1, SameTasks, SameUp, SameEntries, SameScreens, SameConnections
<1>11. NoTasks(c)' /\ EndsUp(c, u, p)' /\ EndsJobs(c, u, p)'
  <2>1. EndsJobs(c, u, p)'
    BY <1>4, <1>9, JobLeft
  <2> QED
    BY <2>1, <1>4, <1>10, PlacesKept
<1> PICK k \in 1..18 : k = n + 1 /\ n \in {13, 16}
  BY <1>1, <1>5
<1>12. Placed(c, u, p, k)'
  <2>1. OnlyDown(c, u, p, w, m)'
    BY <1>4, <1>6, <1>8, DownCome
  <2>2. StageDown(c, u, p, k, w, m)
    BY <1>1, <1>5, <1>6 DEF StageDown
  <2> QED
    BY <2>1, <2>2, <1>6, <1>11, NowDown
<1>13. Queues(c)'
  <2>1. Fits(down[w], m)
    BY <1>2, <1>4, <1>6, <1>7, OversFit
  <2> QED
    BY <2>1, <1>8, <1>10 DEF CallSound, Queues
<1>14. \A v \in Users : KeepLeaving(c, v) /\ KeepOver(c, v)
  <2>1. SameEndsJobs(c)
    BY <1>2, <1>9, JobsSame
  <2>2. \A v \in Users : KeepOver(c, v)
    BY <1>2, <1>6, <1>7, <1>8, DownSame
  <2> QED
    BY <2>1, <2>2, <1>10, KeptSame, LeavingSame
<1>15. Reached(c, u, p, n) => Reached(c, u, p, k)
  BY DEF Reached
<1>16. Moves(c, u, p, n, k)
  BY <1>10, <1>12, <1>13, <1>14, <1>15 DEF Moves
<1> QED
  BY <1>16, Moved

(* A signal that is forwarded keeps the invariant. *)
LEMMA ForwardSignalKeeps ==
  ASSUME ScreenInv, NEW j \in jobs, ForwardSignal(j)
  PROVE  ScreenInv'
<1> PICK c : c = j.call
  OBVIOUS
<1> PICK w : w = Other(j.room, j.user)
  OBVIOUS
<1> PICK type : type = j.kind
  OBVIOUS
<1>1. /\ type \in {"offer", "answer"} /\ jobs' = jobs \ {j}
      /\ down' = Told(w, type, j.room, c) /\ astray' = astray \cup Lost(w, c)
      /\ UNCHANGED <<screen, ref, media, pc, tasks, up, sock, activeCalls, calls>>
  BY DEF ForwardSignal, client, link
<1>2. /\ down \in [Users -> Seq(DownType)] /\ sock \in [Users -> BOOLEAN] /\ OwnDown
      /\ j \in JobType /\ OwnJobs /\ jobs \subseteq JobType /\ astray \subseteq 1..calls
  BY DEF ScreenInv, CallTyped
<1>3. c \in 1..calls /\ j.room \in DirectRooms /\ j.user \in Users /\ Directed(j.room, j.user)
  BY <1>2 DEF JobType, OwnJobs
<1>4. w \in Users /\ Directed(j.room, w)
  BY <1>3, OtherOne
<1>5. Message(type, j.room, c) \in DownType
  BY <1>1, <1>3 DEF Message, DownType
<1>6. /\ down' \in [Users -> Seq(DownType)] /\ OwnDown'
      /\ \A d : d # c => KeepDown(d) /\ \A v \in Users : Ordered(down[v], d) => Ordered(down'[v], d)
  BY <1>1, <1>2, <1>4, <1>5, Tells
<1>7. /\ astray' \subseteq 1..calls /\ astray \subseteq astray' /\ jobs' \subseteq JobType /\ OwnJobs'
  BY <1>1, <1>2, <1>3 DEF Lost, OwnJobs
<1>8. CallTyped'
  BY <1>1, <1>6, <1>7, SameTypes DEF ScreenInv, CallTyped
<1>9. OwnScreens' /\ OwnTasks' /\ OwnUp' /\ OwnEntries' /\ OwnConnections' /\ OpenForScreen'
  BY <1>1, <1>7, SameScreens, SameTasks, SameUp, SameEntries, SameConnections DEF ScreenInv
<1>10. ASSUME NEW d \in 1..calls, d \notin astray'
       PROVE  Steady(d)
  <2>1. CASE d = c
    BY <2>1, <1>10, ForwardSignalSteady
  <2>2. CASE d # c
    <3>1. KeepJobs(d)
      BY <1>1, <2>2 DEF KeepJobs, JobsOf
    <3>2. Untouched(d)
      BY <1>1, <1>6, <2>2, <3>1, SameScreens, SameTasks, SameUp, SameEntries,
        SameConnections, SameQueues
        DEF Untouched
    <3> QED
      BY <3>2, UntouchedSteady
  <2> QED
    BY <2>1, <2>2
<1>11. CallsSound'
  BY <1>1, <1>7, <1>10, AllSteady DEF ScreenInv
<1> QED
  BY <1>6, <1>7, <1>8, <1>9, <1>11 DEF ScreenInv

(* The server knows the room of a request: the other user's phone rings,   *)
(* or the caller is told that it cannot.                                   *)
LEMMA InitiateCallSteady ==
  ASSUME ScreenInv, NEW j \in jobs, InitiateCall(j), NEW c \in 1..calls, c = j.call, c \notin astray'
  PROVE  Steady(c)
<1> SUFFICES ASSUME NEW u \in Users, NEW p \in Users, NEW n \in 1..18, CallSound(c, u, p, n)
             PROVE  \E k \in 1..18 : CallSound(c, u, p, k)'
  BY DEF Steady
<1>1. j.kind = "initiate" /\ jobs' = jobs \ {j} /\ UNCHANGED <<screen, ref, pc, tasks, up, calls>>
  BY DEF InitiateCall, client, link
<1>2. /\ down \in [Users -> Seq(DownType)] /\ sock \in [Users -> BOOLEAN]
      /\ activeCalls \in [Users -> CallEntryType]
      /\ j \in JobsOf(c) /\ j.kind \notin Ends
  BY <1>1 DEF ScreenInv, CallTyped, JobsOf, Ends
<1>3. u \in Users /\ p \in Users /\ u # p /\ {u, p} \in DirectRooms
  BY DEF CallSound, Parties
<1>4. /\ StageJob(c, u, p, n, j) /\ OnlyJob(c, u, p, j)
      /\ NoTasks(c) /\ EndsUp(c, u, p) /\ OversDown(c, u, p)
  BY <1>2, TokenJob DEF CallSound
<1>5. n = 3 /\ j.room = {u, p} /\ j.user = u
  BY <1>1, <1>4 DEF StageJob, Job
<1>6. Other(j.room, j.user) = p
  <2>1. Directed(j.room, u)
    BY <1>3, <1>5 DEF Directed
  <2>2. j.room = {u, Other(j.room, u)} /\ Other(j.room, u) # u
    BY <2>1, OtherOne
  <2> QED
    BY <2>2, <1>3, <1>5
<1>7. JobsOf(c)' = JobsOf(c) \ {j}
  BY <1>1 DEF JobsOf
<1>8. /\ KeepTasks(c) /\ KeepUp(c) /\ KeepScreen(c) /\ KeepConnections(c)
      /\ \A v \in Users : Ordered(up[v], c) => Ordered(up'[v], c)
  BY <1>1, SameTasks, SameUp, SameScreens, SameConnections
<1>9. /\ NoTasks(c)' /\ EndsUp(c, u, p)' /\ EndsJobs(c, u, p)'
      /\ \A v \in Users : KeepLeaving(c, v)
  <2>1. EndsJobs(c, u, p)'
    BY <1>4, <1>7, JobLeft
  <2>2. SameEndsJobs(c)
    BY <1>2, <1>7, JobsSame
  <2> QED
    BY <2>1, <2>2, <1>4, <1>8, PlacesKept, KeptSame, LeavingSame
<1>10. /\ ~EndJob(c, u) /\ ~EndJob(c, p) /\ ~OverFor(c, u) /\ ~OverFor(c, p) /\ ~Leaving(c, p)
       /\ screen[u].call = c \/ Leaving(c, u)
       /\ screen[p].call # c /\ \A v \in Users : ~HasEntry(c, v)
       /\ screen[u].call = c => screen[u].status = "calling"
  <2>1. screen[p].call # c
    BY <1>3, <1>5 DEF CallSound, OnScreen
  <2>2. \A v \in Users : ~HasEntry(c, v)
    BY <1>3, <1>5 DEF CallSound, Entered
  <2>3. screen[u].call = c => screen[u].status = "calling"
    BY <1>5 DEF CallSound, OnScreen
  <2> QED
    BY <2>1, <2>2, <2>3, <1>5 DEF CallSound, Unrung
<1>11. Connections(c, u, p)'
  BY <1>8, ConnectionsKept DEF CallSound
<1>12. /\ ~EndJob(c, u)' /\ ~EndJob(c, p)' /\ ~Leaving(c, p)' /\ (Leaving(c, u)' <=> Leaving(c, u))
  BY <1>3, <1>9, <1>10 DEF KeepLeaving
<1>13. CASE ~Busy(u) /\ ~Busy(p) /\ sock[p]
  <2> PICK type : type = "incoming"
    OBVIOUS
  <2> PICK m : m = Message(type, {u, p}, c)
    OBVIOUS
  <2> PICK k \in 1..18 : k = 4
    OBVIOUS
  <2> PICK s : s = {u, p}
    OBVIOUS
  <2>1. /\ activeCalls' = [activeCalls EXCEPT
             ![u] = [status |-> "calling", role |-> "caller", room |-> s, call |-> c],
             ![p] = [status |-> "calling", role |-> "callee", room |-> s, call |-> c]]
        /\ down' = Told(p, type, s, c)
    BY <1>5, <1>6, <1>13 DEF InitiateCall
  <2>2. m.type = type /\ m.call = c /\ m.room = s /\ Message(type, s, c) \in DownType
        /\ m.type \notin Overs /\ m = Message(type, s, c)
    BY <1>3 DEF Message, DownType, Overs
  <2>3. TellsOne(p, type, s, c)
    BY <1>2, <2>1, <2>2, OneTold
  <2>4. /\ DownGets(c, p, m)
        /\ \A v \in Users : Ordered(down[v], c) /\ (v = p => Fits(down[v], m)) => Ordered(down'[v], c)
    BY <2>2, <2>3, <1>13 DEF TellsOne
  <2>5. \A v \in Users : KeepOver(c, v)
    BY <2>2, <2>4, DownSame
  <2>6. Placed(c, u, p, k)'
    <3>1. OnlyDown(c, u, p, p, m)'
      BY <1>4, <2>4, DownCome
    <3>2. StageDown(c, u, p, k, p, m)
      BY DEF StageDown
    <3> QED
      BY <3>1, <3>2, <1>9, NowDown
  <2>7. Queues(c)'
    <3>1. \A x \in Carried(down[p]) : x.call # c
      BY <1>4, <1>10 DEF OversDown, OverFor, DownOf
    <3>2. Fits(down[p], m)
      BY <3>1, <2>2 DEF Fits
    <3> QED
      BY <3>2, <2>4, <1>8 DEF CallSound, Queues
  <2>8. OnScreen(c, u, p, k)'
    BY <1>8, <1>10, OnScreenKept DEF CallSound
  <2>9. /\ \A v \in Users : v \notin {u, p} => activeCalls'[v] = activeCalls[v]
        /\ activeCalls'[u].call = c /\ activeCalls'[u].room = s /\ activeCalls'[u].role = "caller"
        /\ activeCalls'[u].status = "calling"
        /\ activeCalls'[p].call = c /\ activeCalls'[p].room = s /\ activeCalls'[p].role = "callee"
        /\ activeCalls'[p].status = "calling"
    BY <2>1, <1>2, <1>3
  <2>10. Entered(c, u, p, k)' /\ HasEntry(c, u)'
    BY <2>9, <1>10 DEF Entered, HasEntry
  <2>11. Unrung(c, u, p, k)'
    BY DEF Unrung
  <2>12. /\ Attached(c, p, k, u)' <=> screen[u].call = c
         /\ Attached(c, p, k, p)'
    BY <1>1, <1>3 DEF Attached
  <2>13. ~OverFor(c, u)' /\ ~OverFor(c, p)'
    BY <2>5, <1>10 DEF KeepOver
  <2>14. Leaving(c, u) => screen[u].call # c
    BY <1>5 DEF CallSound, Parting, PartingOf, Attached
  <2>15. Parting(c, u, p, k)'
    <3>1. PartingOf(c, u, p, k, u, p)'
      BY <1>10, <1>12, <2>10, <2>12, <2>13, <2>14 DEF PartingOf
    <3>2. PartingOf(c, u, p, k, p, u)'
      BY <1>10, <1>12, <2>10, <2>12, <2>13, <2>14 DEF PartingOf
    <3> QED
      BY <3>1, <3>2 DEF Parting
  <2>16. Stages(c, u, p, k)'
    BY <1>1, <1>10, <1>12, <2>9 DEF Stages, Live, Reached
  <2>17. CallSound(c, u, p, k)'
    BY <1>3, <1>11, <2>6, <2>7, <2>8, <2>10, <2>11, <2>15, <2>16 DEF CallSound, Parties
  <2> QED
    BY <2>17
<1>14. CASE ~Busy(u) /\ (Busy(p) \/ ~sock[p])
  <2> PICK type : type = IF Busy(p) THEN "busy" ELSE "offline"
    OBVIOUS
  <2> PICK m : m = Message(type, {u, p}, c)
    OBVIOUS
  <2> PICK k \in 1..18 : k = 18
    OBVIOUS
  <2> PICK s : s = {u, p}
    OBVIOUS
  <2>1. /\ activeCalls' = activeCalls /\ down' = Told(u, type, s, c) /\ sock[u]
    BY <1>5, <1>6, <1>14 DEF InitiateCall, Lost
  <2>2. m.type = type /\ m.call = c /\ m.room = s /\ Message(type, s, c) \in DownType
        /\ m.type \in Overs /\ m.type \in Closers /\ m.type \notin Openings /\ m = Message(type, s, c)
    BY <1>3 DEF Message, DownType, Overs, Closers, Openings
  <2>3. TellsOne(u, type, s, c)
    BY <1>2, <2>1, <2>2, OneTold
  <2>4. /\ DownGets(c, u, m)
        /\ \A v \in Users : Ordered(down[v], c) /\ (v = u => Fits(down[v], m)) => Ordered(down'[v], c)
    BY <2>1, <2>2, <2>3 DEF TellsOne
  <2>5. Placed(c, u, p, k)'
    <3>1. OversDown(c, u, p)'
      <4>1. \A v \in Users : \A y \in DownOf(c, v)' : y \in DownOf(c, v) \/ (v = u /\ y = m)
        BY <2>4 DEF DownGets
      <4> QED
        BY <4>1, <1>4, <2>2 DEF OversDown
    <3> QED
      BY <3>1, <1>9, NowSettled
  <2>6. Queues(c)'
    <3>1. Fits(down[u], m)
      BY <2>2 DEF Fits
    <3> QED
      BY <3>1, <2>4, <1>8 DEF CallSound, Queues
  <2>7. OnScreen(c, u, p, k)'
    BY <1>8, <1>10, OnScreenKept DEF CallSound
  <2>8. Entered(c, u, p, k)' /\ ~HasEntry(c, u)'
    <3>1. n >= 4 => k >= 4
      OBVIOUS
    <3>2. KeepEntries(c)
      BY <2>1, SameEntries
    <3> QED
      BY <3>1, <3>2, <1>10, EnteredKept DEF CallSound
  <2>9. Unrung(c, u, p, k)'
    BY DEF Unrung
  <2>10. /\ Attached(c, p, k, u)' <=> screen[u].call = c
         /\ ~Attached(c, p, k, p)'
    BY <1>1, <1>3, <1>10 DEF Attached
  <2>11. OverFor(c, u)'
    BY <2>2, <2>4 DEF OverFor, DownGets
  <2>12. Leaving(c, u) => screen[u].call # c
    BY <1>5 DEF CallSound, Parting, PartingOf, Attached
  <2>13. Parting(c, u, p, k)'
    <3>1. PartingOf(c, u, p, k, u, p)'
      BY <1>10, <1>12, <2>8, <2>10, <2>11, <2>12 DEF PartingOf
    <3>2. PartingOf(c, u, p, k, p, u)'
      BY <1>10, <1>12, <2>8, <2>10, <2>11, <2>12 DEF PartingOf
    <3> QED
      BY <3>1, <3>2 DEF Parting
  <2>14. Stages(c, u, p, k)'
    BY <2>8 DEF Stages, Live
  <2>15. CallSound(c, u, p, k)'
    BY <1>3, <1>11, <2>5, <2>6, <2>7, <2>8, <2>9, <2>13, <2>14 DEF CallSound, Parties
  <2> QED
    BY <2>15
<1>15. ~Busy(u)
  BY <1>5, <1>6 DEF InitiateCall
<1> QED
  BY <1>13, <1>14, <1>15 DEF InitiateCall

(* The request of a call keeps the invariant: refused, it makes the call   *)
(* astray; granted, both entries are made at once.                         *)
LEMMA InitiateCallKeeps ==
  ASSUME ScreenInv, NEW j \in jobs, InitiateCall(j)
  PROVE  ScreenInv'
<1> PICK c : c = j.call
  OBVIOUS
<1> PICK w : w = j.user
  OBVIOUS
<1> PICK x : x = Other(j.room, w)
  OBVIOUS
<1> PICK s : s = j.room
  OBVIOUS
<1>1. jobs' = jobs \ {j} /\ UNCHANGED <<screen, ref, media, pc, tasks, up, sock, calls>>
  BY DEF InitiateCall, client, link
<1>2. /\ down \in [Users -> Seq(DownType)] /\ sock \in [Users -> BOOLEAN] /\ OwnDown
      /\ j \in JobType /\ OwnJobs /\ jobs \subseteq JobType /\ astray \subseteq 1..calls
      /\ activeCalls \in [Users -> CallEntryType] /\ OwnEntries /\ calls \in Nat
  BY DEF ScreenInv, CallTyped
<1>3. c \in 1..calls /\ c # 0 /\ c \in 0..calls /\ s \in DirectRooms /\ w \in Users /\ Directed(s, w)
  BY <1>2 DEF JobType, OwnJobs
<1>4. x \in Users /\ x # w /\ Directed(s, x)
  BY <1>3, OtherOne
<1>5. /\ down' \in [Users -> Seq(DownType)] /\ OwnDown'
      /\ \A d : d # c => KeepDown(d) /\ \A v \in Users : Ordered(down[v], d) => Ordered(down'[v], d)
  <2>1. CASE down' = down
    BY <1>2, <2>1, SameDown
  <2>2. ASSUME NEW v \in {w, x}, NEW type, type \in {"incoming", "busy", "offline"}, down' = Told(v, type, s, c)
        PROVE  /\ down' \in [Users -> Seq(DownType)] /\ OwnDown'
               /\ \A d : d # c => KeepDown(d) /\ \A y \in Users : Ordered(down[y], d) => Ordered(down'[y], d)
    <3>1. Message(type, s, c) \in DownType
      BY <1>3, <2>2 DEF Message, DownType
    <3>2. v \in Users /\ Directed(s, v)
      BY <1>3, <1>4
    <3> QED
      BY <2>2, <3>1, <3>2, <1>2, Tells
  <2> PICK first : first = "incoming"
    OBVIOUS
  <2> PICK second : second = IF Busy(x) THEN "busy" ELSE "offline"
    OBVIOUS
  <2>3. down' = down \/ down' = Told(x, first, s, c) \/ down' = Told(w, second, s, c)
    BY DEF InitiateCall
  <2> QED
    BY <2>1, <2>2, <2>3
<1>6. /\ activeCalls' \in [Users -> CallEntryType] /\ OwnEntries'
      /\ \A d : d # c /\ d # 0 => KeepEntries(d)
  <2>1. CASE activeCalls' = activeCalls
    BY <1>2, <2>1, SameEntries
  <2>2. CASE activeCalls' # activeCalls
    <3> PICK a : a = [status |-> "calling", role |-> "caller", room |-> s, call |-> c]
      OBVIOUS
    <3> PICK b : b = [status |-> "calling", role |-> "callee", room |-> s, call |-> c]
      OBVIOUS
    <3>1. activeCalls' = [activeCalls EXCEPT ![w] = a, ![x] = b] /\ ~Busy(w) /\ ~Busy(x)
      BY <2>2 DEF InitiateCall
    <3>2. a \in CallEntryType /\ b \in CallEntryType /\ a.call = c /\ b.call = c /\ a.room = s /\ b.room = s
      BY <1>3 DEF CallEntryType
    <3>3. activeCalls[w].call = 0 /\ activeCalls[x].call = 0
      BY <3>1, <1>2, <1>3, <1>4 DEF Busy, OwnEntries
    <3>4. activeCalls' \in [Users -> CallEntryType]
      BY <3>1, <3>2, <1>2
    <3>5. \A v \in Users : activeCalls'[v] = IF v = x THEN b ELSE IF v = w THEN a ELSE activeCalls[v]
      BY <3>1, <1>2, <1>3, <1>4
    <3>6. NoCall.call = 0
      BY DEF NoCall
    <3>7. OwnEntries'
      BY <3>2, <3>5, <3>6, <1>2, <1>3, <1>4 DEF OwnEntries
    <3>8. \A d : d # c /\ d # 0 => KeepEntries(d)
      BY <3>2, <3>3, <3>5 DEF KeepEntries
    <3> QED
      BY <3>4, <3>7, <3>8
  <2> QED
    BY <2>1, <2>2
<1>7. /\ astray' \subseteq 1..calls /\ astray \subseteq astray' /\ jobs' \subseteq JobType /\ OwnJobs'
  <2>1. astray \subseteq astray' /\ \A d \in astray' : d \in astray \/ d = c
    BY DEF InitiateCall, Lost
  <2> QED
    BY <2>1, <1>1, <1>2, <1>3 DEF OwnJobs
<1>8. CallTyped'
  BY <1>1, <1>5, <1>6, <1>7, SameTypes DEF ScreenInv, CallTyped
<1>9. OwnScreens' /\ OwnTasks' /\ OwnUp' /\ OwnConnections' /\ OpenForScreen'
  BY <1>1, <1>7, SameScreens, SameTasks, SameUp, SameConnections DEF ScreenInv
<1>10. ASSUME NEW d \in 1..calls, d \notin astray'
       PROVE  Steady(d)
  <2>1. CASE d = c
    BY <2>1, <1>10, InitiateCallSteady
  <2>2. CASE d # c
    <3>1. KeepJobs(d) /\ d # 0
      BY <1>1, <1>2, <2>2 DEF KeepJobs, JobsOf
    <3>2. Untouched(d)
      BY <1>1, <1>5, <1>6, <2>2, <3>1, SameScreens, SameTasks, SameUp, SameConnections,
        SameQueues
        DEF Untouched
    <3> QED
      BY <3>2, UntouchedSteady
  <2> QED
    BY <2>1, <2>2
<1>11. CallsSound'
  BY <1>1, <1>7, <1>10, AllSteady DEF ScreenInv
<1> QED
  BY <1>5, <1>6, <1>7, <1>8, <1>9, <1>11 DEF ScreenInv

(* The callee's client accepts, and the server has or does not have a call *)
(* of that room for it.                                                    *)
Matched(w, r) == Busy(w) /\ activeCalls[w].room = r /\ activeCalls[w].role = "callee"

EntriesAccepted(w, r, e, x) ==
  /\ e \in 1..calls /\ e \in {Head(up[w]).call} \cup astray'
  /\ x \in Users /\ x # w /\ Directed(r, x) /\ r = {w, x}
  /\ sock[x] \/ e \in astray'
  /\ activeCalls[x].call \in {0, e} \cup astray'
  /\ activeCalls' \in [Users -> CallEntryType]
  /\ \A v \in Users : /\ activeCalls'[v].call = activeCalls[v].call
                      /\ activeCalls'[v].room = activeCalls[v].room
                      /\ activeCalls'[v].role = activeCalls[v].role
                      /\ v \in {w, x} /\ activeCalls[v].call # 0 => activeCalls'[v].status = "connected"
                      /\ v \notin {w, x} => activeCalls'[v] = activeCalls[v]
  /\ OwnEntries'
  /\ \A d : d # 0 /\ d # e /\ d \notin astray' => KeepEntries(d)

(* The entry that an accept meets is the one of its call, or that call and *)
(* the entry become astray.                                                *)
LEMMA AcceptsEntry ==
  ASSUME ScreenInv, NEW w \in Users, AcceptEntry(w), NEW r, r = Head(up[w]).room, Matched(w, r),
         NEW e, e = activeCalls[w].call, NEW x, x = Other(r, w)
  PROVE  EntriesAccepted(w, r, e, x)
<1>1. /\ activeCalls' = [v \in Users |-> IF v \in {w, x} /\ Busy(v)
                          THEN [activeCalls[v] EXCEPT !.status = "connected"] ELSE activeCalls[v]]
      /\ astray' = astray \cup ({e} \ {Head(up[w]).call}) \cup Lost(x, e)
                          \cup ({activeCalls[x].call} \ {0, e})
  BY DEF AcceptEntry, Matched
<1>2. /\ activeCalls \in [Users -> CallEntryType] /\ OwnEntries /\ calls \in Nat
      /\ sock \in [Users -> BOOLEAN]
  BY DEF ScreenInv, CallTyped
<1>3. e # 0 /\ e \in 0..calls /\ Directed(r, w)
  BY <1>2 DEF Matched, Busy, OwnEntries, CallEntryType
<1>4. x \in Users /\ x # w /\ Directed(r, x) /\ r = {w, x}
  BY <1>3, OtherOne
<1>5. /\ e \in {Head(up[w]).call} \cup astray' /\ (sock[x] \/ e \in astray')
      /\ activeCalls[x].call \in {0, e} \cup astray'
  BY <1>1, <1>2, <1>4 DEF Lost
<1>6. \A v \in Users : /\ [activeCalls[v] EXCEPT !.status = "connected"] \in CallEntryType
                       /\ [activeCalls[v] EXCEPT !.status = "connected"].call = activeCalls[v].call
                       /\ [activeCalls[v] EXCEPT !.status = "connected"].room = activeCalls[v].room
                       /\ [activeCalls[v] EXCEPT !.status = "connected"].role = activeCalls[v].role
                       /\ [activeCalls[v] EXCEPT !.status = "connected"].status = "connected"
  BY <1>2 DEF CallEntryType
<1>7. activeCalls' \in [Users -> CallEntryType]
  BY <1>1, <1>2, <1>6
<1>8. \A v \in Users : /\ activeCalls'[v].call = activeCalls[v].call
                       /\ activeCalls'[v].room = activeCalls[v].room
                       /\ activeCalls'[v].role = activeCalls[v].role
                       /\ v \in {w, x} /\ activeCalls[v].call # 0 => activeCalls'[v].status = "connected"
                       /\ v \notin {w, x} => activeCalls'[v] = activeCalls[v]
                       /\ activeCalls[v] = NoCall => activeCalls'[v] = NoCall
  BY <1>1, <1>6 DEF Busy, NoCall
<1>9. OwnEntries'
  <2>1. NoCall.call = 0
    BY DEF NoCall
  <2> QED
    BY <2>1, <1>2, <1>8 DEF OwnEntries
<1>10. ASSUME NEW d, d # 0, d # e, d \notin astray'
       PROVE  KeepEntries(d)
  BY <1>5, <1>8, <1>10 DEF KeepEntries
<1> QED
  BY <1>2, <1>3, <1>4, <1>5, <1>7, <1>8, <1>9, <1>10 DEF EntriesAccepted

(* The call that is accepted is connected at both users' entries. *)
LEMMA AcceptEntrySteady ==
  ASSUME ScreenInv, NEW w \in Users, AcceptEntry(w), NEW m, m = Head(up[w]),
         NEW c \in 1..calls, c = m.call, c \notin astray'
  PROVE  Steady(c)
<1> SUFFICES ASSUME NEW u \in Users, NEW p \in Users, NEW n \in 1..18, CallSound(c, u, p, n)
             PROVE  \E k \in 1..18 : CallSound(c, u, p, k)'
  BY DEF Steady
<1> PICK types : types = {"accept"}
  OBVIOUS
<1> PICK r : r = m.room
  OBVIOUS
<1> PICK e : e = activeCalls[w].call
  OBVIOUS
<1> PICK x : x = Other(r, w)
  OBVIOUS
<1>1. /\ Takes(w, types) /\ UNCHANGED <<screen, ref, pc, tasks, jobs, calls>>
  BY DEF AcceptEntry, client, link
<1>2. /\ up \in [Users -> Seq(UpType)] /\ down \in [Users -> Seq(DownType)]
      /\ sock \in [Users -> BOOLEAN] /\ c # 0
  BY DEF ScreenInv, CallTyped
<1>3. /\ m.type \in types /\ m \in UpOf(m.call, w) /\ UpLoses(m.call, w, m)
      /\ \A d : \A v \in Users : Ordered(up[v], d) => Ordered(up'[v], d)
  BY <1>1, <1>2, TakesHead
<1>4. m.type = "accept" /\ m.type \notin Ends /\ m.type \notin Closers
  BY <1>3 DEF Overs, Closers, Ends
<1>5. /\ StageUp(c, u, p, n, w, m) /\ OnlyUp(c, u, p, w, m)
      /\ NoTasks(c) /\ OversDown(c, u, p) /\ EndsJobs(c, u, p)
  BY <1>3, <1>4, TokenUp DEF CallSound
<1>6. n = 8 /\ w = p /\ r = {u, p}
  BY <1>4, <1>5 DEF StageUp, Message
<1>7. u \in Users /\ p \in Users /\ u # p /\ {u, p} \in DirectRooms
  BY DEF CallSound, Parties
<1>8. /\ KeepTasks(c) /\ KeepJobs(c) /\ KeepScreen(c) /\ KeepConnections(c)
  BY <1>1, SameTasks, SameJobs, SameScreens, SameConnections
<1>9. /\ NoTasks(c)' /\ EndsUp(c, u, p)' /\ EndsJobs(c, u, p)' /\ \A v \in Users : KeepLeaving(c, v)
  <2>1. EndsUp(c, u, p)'
    BY <1>3, <1>4, <1>5, UpLeft DEF CallSound
  <2>2. SameEndsUp(c)
    BY <1>3, <1>4, UpSame
  <2> QED
    BY <2>1, <2>2, <1>5, <1>8, PlacesKept, KeptSame, LeavingSame
<1>10. ASSUME KeepEntries(c), KeepDown(c), \A v \in Users : Ordered(down[v], c) => Ordered(down'[v], c),
              ~Live(c, u, p)
       PROVE  \E k \in 1..18 : CallSound(c, u, p, k)'
  <2> PICK k \in 1..18 : k = 18
    OBVIOUS
  <2>1. OversDown(c, u, p)' /\ \A v \in Users : KeepOver(c, v)
    BY <1>5, <1>10, PlacesKept, OverForKept
  <2>2. Placed(c, u, p, k)'
    BY <2>1, <1>9, NowSettled
  <2>3. Queues(c)'
    BY <1>3, <1>10 DEF CallSound, Queues
  <2>4. Moves(c, u, p, n, k)
    BY <1>6, <1>8, <1>9, <1>10, <2>1, <2>2, <2>3 DEF Moves
  <2>5. CallSound(c, u, p, k)'
    BY <2>4, Moved
  <2> QED
    BY <2>5
<1>11. CASE ~Matched(w, r)
  <2>1. activeCalls' = activeCalls /\ down' = down
    BY <1>11 DEF AcceptEntry, Matched
  <2>2. ~Live(c, u, p)
    <3> SUFFICES ASSUME Live(c, u, p)
                 PROVE  FALSE
      OBVIOUS
    <3>1. HasEntry(c, p) /\ activeCalls[p].room = {u, p} /\ activeCalls[p].role = "callee"
      BY DEF Live, CallSound, Entered
    <3>2. Busy(p)
      BY <3>1, <1>2 DEF HasEntry, Busy, NoCall
    <3> QED
      BY <3>1, <3>2, <1>6, <1>11 DEF Matched
  <2> QED
    BY <2>1, <2>2, <1>10, SameEntries, SameDown
<1>12. CASE Matched(w, r)
  <2> PICK type : type = "accepted"
    OBVIOUS
  <2>1. /\ e \in 1..calls
        /\ x \in Users /\ x # w /\ Directed(r, x) /\ r = {w, x}
        /\ sock[x] \/ e \in astray'
        /\ \A v \in Users : /\ activeCalls'[v].call = activeCalls[v].call
                            /\ activeCalls'[v].room = activeCalls[v].room
                            /\ activeCalls'[v].role = activeCalls[v].role
                            /\ v \in {w, x} /\ activeCalls[v].call # 0 => activeCalls'[v].status = "connected"
        /\ \A d : d # 0 /\ d # e /\ d \notin astray' => KeepEntries(d)
    <3>1. EntriesAccepted(w, r, e, x)
      BY <1>12, AcceptsEntry
    <3> QED
      BY <3>1 DEF EntriesAccepted
  <2>2. x = u
    BY <2>1, <1>6, <1>7
  <2>3. down' = Told(x, type, r, e)
    BY <1>12 DEF AcceptEntry, Matched
  <2>4. Message(type, r, e) \in DownType
    BY <2>1 DEF Message, DownType, Directed
  <2>5. CASE e # c
    <3>1. KeepDown(c) /\ \A v \in Users : Ordered(down[v], c) => Ordered(down'[v], c)
      <4>1. OthersUntold(e)
        BY <1>2, <2>1, <2>3, <2>4, OneTold
      <4> QED
        BY <4>1, <2>5 DEF OthersUntold
    <3>2. ~Live(c, u, p)
      BY <2>5, <1>6 DEF Live, CallSound, Entered, HasEntry
    <3> QED
      BY <2>1, <2>5, <3>1, <3>2, <1>2, <1>10
  <2>6. CASE e = c
    <3> PICK k \in 1..18 : k = 9
      OBVIOUS
    <3> PICK y : y = Message(type, r, c)
      OBVIOUS
    <3>1. y.type = type /\ y.call = c /\ y = Message("accepted", {u, p}, c)
      BY <1>6 DEF Message
    <3>2. TellsOne(x, type, r, e)
      BY <1>2, <2>1, <2>3, <2>4, OneTold
    <3>3. /\ DownGets(c, u, y)
          /\ \A v \in Users : Ordered(down[v], c) /\ (v = u => Fits(down[v], y)) => Ordered(down'[v], c)
      BY <2>1, <2>2, <2>6, <3>2 DEF TellsOne
    <3>4. y.type \notin Overs /\ y.type \notin Openings
      BY <3>1 DEF Overs, Openings
    <3>5. Placed(c, u, p, k)'
      <4>1. OnlyDown(c, u, p, u, y)'
        BY <1>5, <3>3, DownCome
      <4>2. StageDown(c, u, p, k, u, y)
        BY <3>1 DEF StageDown
      <4> QED
        BY <4>1, <4>2, <1>9, NowDown
    <3>6. Queues(c)'
      <4>1. Fits(down[u], y)
        BY <1>5, <3>1, <3>4, OversFit
      <4> QED
        BY <4>1, <3>3, <1>3 DEF CallSound, Queues
    <3>7. OnScreen(c, u, p, k)'
      BY <1>6, <1>8, OnScreenKept DEF CallSound
    <3>8. \A v \in Users : HasEntry(c, v)' <=> HasEntry(c, v)
      BY <2>1 DEF HasEntry
    <3>9. HasEntry(c, u) /\ HasEntry(c, p)
      <4>1. HasEntry(c, p)
        BY <2>6, <1>6 DEF HasEntry
      <4> QED
        BY <4>1 DEF CallSound, Entered
    <3>10. activeCalls'[u].status = "connected" /\ activeCalls'[p].status = "connected"
      BY <3>9, <2>1, <2>2, <1>2, <1>6 DEF HasEntry
    <3>11. Entered(c, u, p, k)'
      BY <2>1, <3>8, <3>10 DEF CallSound, Entered
    <3>12. Connections(c, u, p)'
      BY <1>8, ConnectionsKept DEF CallSound
    <3>13. \A v \in Users : KeepOver(c, v)
      BY <3>3, <3>4, DownSame
    <3>14. \A v \in {u, p} : Attached(c, p, k, v)' <=> Attached(c, p, n, v)
      BY <1>1, <1>6 DEF Attached
    <3>15. Reached(c, u, p, n) => Reached(c, u, p, k)'
      BY <1>1, <1>6, <3>10 DEF Reached
    <3>16. Goes(c, u, p, n, k)
      BY <1>6, <1>9, <3>5, <3>6, <3>7, <3>8, <3>11, <3>12, <3>13, <3>14, <3>15 DEF Goes
    <3>17. CallSound(c, u, p, k)'
      BY <3>16, Onward
    <3> QED
      BY <3>17
  <2> QED
    BY <2>5, <2>6
<1> QED
  BY <1>11, <1>12

(* call:accept keeps the invariant. *)
LEMMA AcceptEntryKeeps ==
  ASSUME ScreenInv, NEW w \in Users, AcceptEntry(w)
  PROVE  ScreenInv'
<1> PICK m : m = Head(up[w])
  OBVIOUS
<1> PICK c : c = m.call
  OBVIOUS
<1> PICK types : types = {"accept"}
  OBVIOUS
<1> PICK r : r = m.room
  OBVIOUS
<1> PICK e : e = activeCalls[w].call
  OBVIOUS
<1> PICK x : x = Other(r, w)
  OBVIOUS
<1>1. /\ Takes(w, types) /\ UNCHANGED <<screen, ref, media, pc, tasks, sock, jobs, calls>>
  BY DEF AcceptEntry, client, link
<1>2. /\ up \in [Users -> Seq(UpType)] /\ OwnUp /\ down \in [Users -> Seq(DownType)] /\ OwnDown
      /\ sock \in [Users -> BOOLEAN] /\ astray \subseteq 1..calls /\ calls \in Nat
      /\ activeCalls \in [Users -> CallEntryType] /\ OwnEntries
  BY DEF ScreenInv, CallTyped
<1>3. /\ up' \in [Users -> Seq(UpType)] /\ m \in UpType /\ OwnUp'
      /\ \A d : d # c => KeepUp(d)
      /\ \A d : \A v \in Users : Ordered(up[v], d) => Ordered(up'[v], d)
  BY <1>1, <1>2, TakesHead
<1>4. /\ down' \in [Users -> Seq(DownType)] /\ OwnDown'
      /\ activeCalls' \in [Users -> CallEntryType] /\ OwnEntries'
      /\ \A d : d # 0 /\ d # c /\ d \notin astray' =>
           KeepEntries(d) /\ KeepDown(d) /\ \A v \in Users : Ordered(down[v], d) => Ordered(down'[v], d)
      /\ astray' \subseteq 1..calls /\ astray \subseteq astray'
  <2>1. CASE ~Matched(w, r)
    <3>1. activeCalls' = activeCalls /\ down' = down /\ astray' = astray
      BY <2>1 DEF AcceptEntry, Matched
    <3> QED
      BY <3>1, <1>2, SameEntries, SameDown
  <2>2. CASE Matched(w, r)
    <3> PICK type : type = "accepted"
      OBVIOUS
    <3>1. /\ e \in 1..calls /\ e \in {c} \cup astray'
          /\ x \in Users /\ Directed(r, x)
          /\ activeCalls' \in [Users -> CallEntryType] /\ OwnEntries'
          /\ \A d : d # 0 /\ d # e /\ d \notin astray' => KeepEntries(d)
      <4>1. EntriesAccepted(w, r, e, x)
        BY <2>2, AcceptsEntry
      <4> QED
        BY <4>1 DEF EntriesAccepted
    <3>2. /\ down' = Told(x, type, r, e)
          /\ astray' = astray \cup ({e} \ {c}) \cup Lost(x, e) \cup ({activeCalls[x].call} \ {0, e})
      BY <2>2 DEF AcceptEntry, Matched
    <3>3. Message(type, r, e) \in DownType
      BY <3>1 DEF Message, DownType, Directed
    <3>4. /\ down' \in [Users -> Seq(DownType)] /\ OwnDown'
          /\ \A d : d # e => KeepDown(d) /\ \A v \in Users : Ordered(down[v], d) => Ordered(down'[v], d)
      BY <1>2, <3>1, <3>2, <3>3, Tells
    <3>5. astray' \subseteq 1..calls /\ astray \subseteq astray'
      <4>1. activeCalls[x].call \in 0..calls
        BY <1>2, <3>1 DEF CallEntryType
      <4>2. \A d \in astray' : d \in astray \/ d = e \/ (d = activeCalls[x].call /\ d # 0)
        BY <3>2 DEF Lost
      <4>3. astray \subseteq astray'
        BY <3>2
      <4>4. \A d \in 0..calls : d # 0 => d \in 1..calls
        BY <1>2
      <4> QED
        BY <4>1, <4>2, <4>3, <4>4, <1>2, <3>1
    <3> QED
      BY <3>1, <3>4, <3>5
  <2> QED
    BY <2>1, <2>2
<1>5. CallTyped'
  BY <1>1, <1>3, <1>4, SameTypes DEF ScreenInv, CallTyped
<1>6. OwnScreens' /\ OwnTasks' /\ OwnConnections' /\ OwnJobs' /\ OpenForScreen'
  BY <1>1, <1>4, SameScreens, SameTasks, SameConnections, SameJobs DEF ScreenInv
<1>7. ASSUME NEW d \in 1..calls, d \notin astray'
      PROVE  Steady(d)
  <2>1. CASE d = c
    BY <2>1, <1>7, AcceptEntrySteady
  <2>2. CASE d # c
    <3>1. d # 0
      BY <1>2
    <3>2. Untouched(d)
      BY <1>1, <1>3, <1>4, <1>7, <2>2, <3>1, SameScreens, SameTasks, SameConnections,
        SameJobs, SameQueues
        DEF Untouched
    <3> QED
      BY <3>2, UntouchedSteady
  <2> QED
    BY <2>1, <2>2
<1>8. CallsSound'
  BY <1>1, <1>4, <1>7, AllSteady DEF ScreenInv
<1> QED
  BY <1>3, <1>4, <1>5, <1>6, <1>8 DEF ScreenInv

(* A client ends or rejects.  The server's handler waits for the log, and  *)
(* the other user is told, when the server has a call of that room.        *)
EntryIn(w, r) == Busy(w) /\ activeCalls[w].room = r

Parted(w, r, e, x, kind) ==
  /\ e \in 1..calls /\ e \in {Head(up[w]).call} \cup astray'
  /\ x \in Users /\ x # w /\ Directed(r, x) /\ Directed(r, w) /\ r = {w, x}
  /\ sock[x] \/ e \in astray'
  /\ \E type \in Overs : /\ down' = Told(x, type, r, e) /\ Message(type, r, e) \in DownType
                         /\ TellsOne(x, type, r, e)
  /\ OthersUntold(e) /\ Awaited(kind, w, r, e)

(* The entry that an end or a reject meets. *)
LEMMA PartsCall ==
  ASSUME ScreenInv, NEW w \in Users, CloseCall(w), NEW r, r = Head(up[w]).room, EntryIn(w, r),
         NEW e, e = activeCalls[w].call, NEW x, x = Other(r, w), NEW kind, kind = Head(up[w]).type
  PROVE  Parted(w, r, e, x, kind)
<1> PICK type : type = IF kind = "reject" THEN "rejected" ELSE "ended"
  OBVIOUS
<1>1. /\ down' = Told(x, type, r, e) /\ Awaits(Job(kind, w, r, e)) /\ kind \in Ends /\ type \in Overs
      /\ astray' = astray \cup ({e} \ {Head(up[w]).call}) \cup Lost(x, e) \cup Overtaken(Head(up[w]))
  BY DEF CloseCall, EntryIn, Takes, Ends, Overs
<1>2. /\ activeCalls \in [Users -> CallEntryType] /\ OwnEntries /\ calls \in Nat
      /\ sock \in [Users -> BOOLEAN] /\ down \in [Users -> Seq(DownType)] /\ jobs \subseteq JobType
  BY DEF ScreenInv, CallTyped
<1>3. e # 0 /\ e \in 0..calls /\ Directed(r, w)
  BY <1>2 DEF EntryIn, Busy, OwnEntries, CallEntryType
<1>4. e \in 1..calls
  BY <1>2, <1>3
<1>5. x \in Users /\ x # w /\ Directed(r, x) /\ r = {w, x}
  BY <1>3, OtherOne
<1>6. e \in {Head(up[w]).call} \cup astray' /\ (sock[x] \/ e \in astray')
  BY <1>1 DEF Lost
<1>7. Message(type, r, e) \in DownType
  BY <1>1, <1>4, <1>5 DEF Message, DownType, Directed, Overs
<1>8. TellsOne(x, type, r, e) /\ OthersUntold(e)
  BY <1>1, <1>2, <1>5, <1>7, OneTold
<1>9. Awaited(kind, w, r, e)
  <2>1. Job(kind, w, r, e) \in JobType
    BY <1>1, <1>3, <1>4 DEF Job, JobType, Directed, Ends
  <2> QED
    BY <2>1, <1>1, <1>2, AwaitsJob
<1> QED
  BY <1>1, <1>3, <1>4, <1>5, <1>6, <1>7, <1>8, <1>9 DEF Parted

(* The call that is left: its handler waits, and the other user is told. *)
LEMMA CloseCallSteady ==
  ASSUME ScreenInv, NEW w \in Users, CloseCall(w), NEW m, m = Head(up[w]),
         NEW c \in 1..calls, c = m.call, c \notin astray'
  PROVE  Steady(c)
<1> SUFFICES ASSUME NEW u \in Users, NEW p \in Users, NEW n \in 1..18, CallSound(c, u, p, n)
             PROVE  CallSound(c, u, p, n)'
  BY DEF Steady
<1> PICK types : types = {"reject", "end"}
  OBVIOUS
<1> PICK r : r = m.room
  OBVIOUS
<1> PICK e : e = activeCalls[w].call
  OBVIOUS
<1> PICK x : x = Other(r, w)
  OBVIOUS
<1> PICK kind : kind = m.type
  OBVIOUS
<1>1. /\ Takes(w, types) /\ UNCHANGED <<screen, ref, pc, tasks, activeCalls, calls>>
  BY DEF CloseCall, client, link
<1>2. /\ up \in [Users -> Seq(UpType)] /\ c # 0
  BY DEF ScreenInv, CallTyped
<1>3. /\ m.type \in types /\ m \in UpOf(m.call, w) /\ UpLoses(m.call, w, m)
      /\ \A d : \A y \in Users : Ordered(up[y], d) => Ordered(up'[y], d)
  BY <1>1, <1>2, TakesHead
<1>4. m.type \in Ends
  BY <1>3 DEF Ends
<1>5. /\ u \in Users /\ p \in Users /\ u # p
      /\ w \in {u, p} /\ r = {u, p} /\ Leaving(c, w)
  BY <1>3, <1>4 DEF CallSound, Parties, Placed, PlacedUp, StageUp, Message, Ends, Leaving
<1>6. PICK v \in Users : (w = u /\ v = p) \/ (w = p /\ v = u)
  BY <1>5
<1>7. /\ KeepTasks(c) /\ KeepScreen(c) /\ KeepEntries(c) /\ KeepConnections(c)
  BY <1>1, SameTasks, SameScreens, SameEntries, SameConnections
<1>8. /\ \A y \in Users : y # w => UpOf(c, y)' = UpOf(c, y)
      /\ \A y \in Users : UpOf(c, y)' \subseteq UpOf(c, y)
      /\ \A y \in Users : \A z \in UpOf(c, y) : z \in UpOf(c, y)' \/ z = m
  BY <1>3 DEF UpLoses
<1>9. n # 3
  <2>1. ~ \E j \in jobs : j.kind = "initiate" /\ j.call = c
    BY DEF CloseCall, Overtaken
  <2> QED
    BY <2>1 DEF CallSound, Placed, Present, StageJob, Job, JobsOf
<1>10. n # 2
  <2> SUFFICES ASSUME n = 2
               PROVE  FALSE
    OBVIOUS
  <2>1. PICK y \in Users : \E z \in UpOf(c, y) : StageUp(c, u, p, n, y, z)
    BY DEF CallSound, Placed, Present
  <2>2. PICK z \in UpOf(c, y) : y = u /\ z.type = "initiate"
    BY <2>1 DEF StageUp, Message
  <2>3. w = u
    BY <1>5 DEF CallSound, Unrung
  <2>4. z \in UpOf(c, w)' /\ z.type \in Openings
    BY <2>2, <2>3, <1>4, <1>8 DEF Ends, Openings
  <2> QED
    BY <2>4, <1>3 DEF UpLoses, CallSound, Queues
<1>11. ASSUME JobsOf(c) \subseteq JobsOf(c)',
              \A j \in JobsOf(c)' : j \in JobsOf(c) \/ (j.kind \in Ends /\ j.room = {u, p} /\ j.user = w),
              \A y \in Users : DownOf(c, y) \subseteq DownOf(c, y)',
              \A y \in Users : \A z \in DownOf(c, y)' : z \in DownOf(c, y) \/ (y = v /\ z.type \in Overs)
       PROVE  Placed(c, u, p, n)'
  <2>1. Present(c, u, p, n)'
    <3>1. n \in {2, 8, 12, 15} => \E y \in Users : \E z \in UpOf(c, y)' : StageUp(c, u, p, n, y, z)
      <4>1. \A y, z : StageUp(c, u, p, n, y, z) => z.type \notin Ends
        BY DEF StageUp, Message, Ends
      <4> QED
        BY <4>1, <1>4, <1>8 DEF CallSound, Placed, Present
    <3>2. n \in {4, 9, 14, 17} => \E y \in Users : \E z \in DownOf(c, y)' : StageDown(c, u, p, n, y, z)
      BY <1>11 DEF CallSound, Placed, Present
    <3>3. n \in {3, 13, 16} => \E j \in JobsOf(c)' : StageJob(c, u, p, n, j)
      BY <1>11 DEF CallSound, Placed, Present
    <3>4. n \in {1, 6, 7, 10, 11} => \E y \in Users : \E t \in TasksOf(c, y)' : StageTask(c, u, p, n, y, t)
      BY <1>7 DEF CallSound, Placed, Present, KeepTasks
    <3> QED
      BY <3>1, <3>2, <3>3, <3>4, <1>1 DEF CallSound, Placed, Present
  <2>2. PlacedUp(c, u, p, n)'
    BY <1>8 DEF CallSound, Placed, PlacedUp
  <2>3. PlacedDown(c, u, p, n)'
    BY <1>6, <1>11 DEF CallSound, Placed, PlacedDown
  <2>4. PlacedJobs(c, u, p, n)'
    BY <1>5, <1>11 DEF CallSound, Placed, PlacedJobs
  <2>5. PlacedTasks(c, u, p, n)'
    BY <1>7 DEF CallSound, Placed, PlacedTasks, KeepTasks
  <2> QED
    BY <2>1, <2>2, <2>3, <2>4, <2>5 DEF Placed
<1>12. OnScreen(c, u, p, n)'
  BY <1>1 DEF CallSound, OnScreen
<1>13. Entered(c, u, p, n)' /\ (HasEntry(c, u)' <=> HasEntry(c, u))
  BY <1>7, EnteredKept DEF CallSound
<1>14. Connections(c, u, p)'
  BY <1>7, ConnectionsKept DEF CallSound
<1>15. \A y \in Users : Attached(c, p, n, y)' <=> Attached(c, p, n, y)
  BY <1>1 DEF Attached
<1>16. ~Attached(c, p, n, w)
  BY <1>5, <1>6 DEF CallSound, Parting, PartingOf
<1>17. CASE EntryIn(w, r) /\ e = c
  <2>1. Parted(w, r, c, x, kind)
    BY <1>17, PartsCall
  <2>2. x = v /\ sock[x]
    BY <2>1, <1>5, <1>6 DEF Parted
  <2>3. PICK type \in Overs : TellsOne(v, type, r, c)
    BY <2>1, <2>2 DEF Parted
  <2> PICK z : z = Message(type, r, c)
    OBVIOUS
  <2>4. z.type \in Overs /\ z.call = c
    BY DEF Message
  <2>5. /\ \A y \in Users : DownOf(c, y)' = IF y = v THEN DownOf(c, y) \cup {z} ELSE DownOf(c, y)
        /\ \A y \in Users : Ordered(down[y], c) /\ (y = v => Fits(down[y], z)) => Ordered(down'[y], c)
    BY <2>2, <2>3 DEF TellsOne, DownGets
  <2>6. Queues(c)'
    <3>1. Fits(down[v], z)
      BY <2>4 DEF Fits, Overs, Closers, Openings
    <3> QED
      BY <3>1, <2>5, <1>3 DEF CallSound, Queues
  <2>7. /\ JobsOf(c) \subseteq JobsOf(c)'
        /\ \A j \in JobsOf(c)' : j \in JobsOf(c) \/ (j.kind \in Ends /\ j.room = {u, p} /\ j.user = w)
        /\ \E j \in JobsOf(c)' : j.kind \in Ends /\ j.user = w
    BY <2>1, <1>4, <1>5 DEF Parted, Awaited
  <2>8. Placed(c, u, p, n)'
    <3>1. \A y \in Users : DownOf(c, y) \subseteq DownOf(c, y)'
      BY <2>5
    <3>2. \A y \in Users : \A q \in DownOf(c, y)' : q \in DownOf(c, y) \/ (y = v /\ q.type \in Overs)
      BY <2>4, <2>5
    <3> QED
      BY <3>1, <3>2, <2>7, <1>11
  <2>9. /\ EndJob(c, w)' /\ Leaving(c, w)' /\ OverFor(c, v)'
        /\ EndJob(c, v)' <=> EndJob(c, v)
        /\ Leaving(c, v)' <=> Leaving(c, v)
        /\ OverFor(c, w)' <=> OverFor(c, w)
    <3>1. w # v
      BY <1>5, <1>6
    <3>2. EndJob(c, w)' /\ Leaving(c, w)'
      BY <2>7 DEF EndJob, Leaving
    <3>3. EndJob(c, v)' <=> EndJob(c, v)
      BY <3>1, <2>7 DEF EndJob
    <3>4. Leaving(c, v)' <=> Leaving(c, v)
      BY <3>1, <3>3, <1>8 DEF Leaving
    <3>5. OverFor(c, v)' /\ (OverFor(c, w)' <=> OverFor(c, w))
      BY <3>1, <2>4, <2>5 DEF OverFor
    <3> QED
      BY <3>2, <3>3, <3>4, <3>5
  <2>10. HasEntry(c, u) /\ n >= 4
    <3>1. HasEntry(c, w)
      BY <1>17 DEF HasEntry
    <3> QED
      BY <3>1, <1>5 DEF CallSound, Entered
  <2>11. Unrung(c, u, p, n)'
    BY <2>10 DEF Unrung
  <2>12. Parting(c, u, p, n)'
    <3>1. PartingOf(c, u, p, n, w, v)'
      BY <2>9, <1>15, <1>16, <1>6, <1>13 DEF CallSound, Parting, PartingOf
    <3>2. PartingOf(c, u, p, n, v, w)'
      BY <2>9, <2>10, <1>15, <1>6, <1>13 DEF CallSound, Parting, PartingOf
    <3> QED
      BY <3>1, <3>2, <1>6 DEF Parting
  <2>13. Stages(c, u, p, n)'
    BY <2>9, <1>6 DEF Stages, Live
  <2> QED
    BY <2>6, <2>8, <2>11, <2>12, <2>13, <1>12, <1>13, <1>14 DEF CallSound, Parties
<1>18. CASE ~(EntryIn(w, r) /\ e = c)
  <2>1. KeepDown(c) /\ KeepJobs(c) /\ \A y \in Users : Ordered(down[y], c) => Ordered(down'[y], c)
    <3>1. CASE EntryIn(w, r)
      <4>1. Parted(w, r, e, x, kind)
        BY <3>1, PartsCall
      <4> QED
        BY <4>1, <3>1, <1>18 DEF Parted, OthersUntold, Awaited
    <3>2. CASE ~EntryIn(w, r)
      <4>1. down' = down /\ jobs' = jobs
        BY <3>2 DEF CloseCall, EntryIn
      <4> QED
        BY <4>1, SameDown, SameJobs
    <3> QED
      BY <3>1, <3>2
  <2>2. ~HasEntry(c, u)
    <3> SUFFICES ASSUME HasEntry(c, u)
                 PROVE  FALSE
      OBVIOUS
    <3>1. HasEntry(c, w) /\ activeCalls[w].room = {u, p}
      BY <1>5 DEF CallSound, Entered
    <3>2. Busy(w) /\ e = c
      BY <3>1, <1>2 DEF HasEntry, Busy, NoCall
    <3> QED
      BY <3>1, <3>2, <1>5, <1>18 DEF EntryIn
  <2>3. Placed(c, u, p, n)'
    BY <2>1, <1>11 DEF KeepDown, KeepJobs
  <2>4. Queues(c)'
    BY <2>1, <1>3 DEF CallSound, Queues
  <2>5. \A y \in Users : /\ EndJob(c, y)' <=> EndJob(c, y)
                         /\ Leaving(c, y)' => Leaving(c, y)
                         /\ OverFor(c, y)' <=> OverFor(c, y)
    <3>1. \A y \in Users : EndJob(c, y)' <=> EndJob(c, y)
      BY <2>1 DEF EndJob, KeepJobs
    <3>2. \A y \in Users : Leaving(c, y)' => Leaving(c, y)
      BY <3>1, <1>8 DEF Leaving
    <3>3. \A y \in Users : OverFor(c, y)' <=> OverFor(c, y)
      BY <2>1 DEF OverFor, KeepDown
    <3> QED
      BY <3>1, <3>2, <3>3
  <2>6. Unrung(c, u, p, n)'
    BY <2>5, <1>5, <1>9, <1>10 DEF CallSound, Unrung
  <2>7. Parting(c, u, p, n)'
    <3>1. PartingOf(c, u, p, n, u, p)'
      BY <2>2, <2>5, <1>5, <1>13, <1>15 DEF CallSound, Parting, PartingOf
    <3>2. PartingOf(c, u, p, n, p, u)'
      BY <2>2, <2>5, <1>5, <1>13, <1>15 DEF CallSound, Parting, PartingOf
    <3> QED
      BY <3>1, <3>2 DEF Parting
  <2>8. Stages(c, u, p, n)'
    BY <2>2, <1>13 DEF Stages, Live
  <2> QED
    BY <2>3, <2>4, <2>6, <2>7, <2>8, <1>12, <1>13, <1>14 DEF CallSound, Parties
<1> QED
  BY <1>17, <1>18

(* call:end and call:reject keep the invariant. *)
LEMMA CloseCallKeeps ==
  ASSUME ScreenInv, NEW w \in Users, CloseCall(w)
  PROVE  ScreenInv'
<1> PICK m : m = Head(up[w])
  OBVIOUS
<1> PICK c : c = m.call
  OBVIOUS
<1> PICK types : types = {"reject", "end"}
  OBVIOUS
<1> PICK r : r = m.room
  OBVIOUS
<1> PICK e : e = activeCalls[w].call
  OBVIOUS
<1> PICK x : x = Other(r, w)
  OBVIOUS
<1> PICK kind : kind = m.type
  OBVIOUS
<1>1. /\ Takes(w, types) /\ UNCHANGED <<screen, ref, media, pc, tasks, sock, activeCalls, calls>>
  BY DEF CloseCall, client, link
<1>2. /\ up \in [Users -> Seq(UpType)] /\ OwnUp /\ down \in [Users -> Seq(DownType)] /\ OwnDown
      /\ sock \in [Users -> BOOLEAN] /\ astray \subseteq 1..calls /\ jobs \subseteq JobType /\ OwnJobs
  BY DEF ScreenInv, CallTyped
<1>3. /\ up' \in [Users -> Seq(UpType)] /\ m \in UpType /\ OwnUp' /\ m.type \in types
      /\ \A d : d # c => KeepUp(d)
      /\ \A d : \A v \in Users : Ordered(up[v], d) => Ordered(up'[v], d)
  BY <1>1, <1>2, TakesHead
<1>4. c \in 1..calls
  BY <1>3 DEF UpType
<1>5. astray \subseteq astray' /\ \A d \in astray' : d \in astray \/ d = c \/ (EntryIn(w, r) /\ d = e)
  BY DEF CloseCall, EntryIn, Lost, Overtaken
<1>6. /\ down' \in [Users -> Seq(DownType)] /\ OwnDown' /\ jobs' \subseteq JobType /\ OwnJobs'
      /\ astray' \subseteq 1..calls
      /\ \A d : d # c /\ d \notin astray' =>
           KeepJobs(d) /\ KeepDown(d) /\ \A v \in Users : Ordered(down[v], d) => Ordered(down'[v], d)
  <2>1. CASE ~EntryIn(w, r)
    <3>1. jobs' = jobs /\ down' = down
      BY <2>1 DEF CloseCall, EntryIn
    <3>2. astray' \subseteq 1..calls
      BY <2>1, <1>2, <1>4, <1>5
    <3> QED
      BY <3>1, <3>2, <1>2, <1>5, SameJobs, SameDown
  <2>2. CASE EntryIn(w, r)
    <3>1. Parted(w, r, e, x, kind)
      BY <2>2, PartsCall
    <3>2. /\ e \in 1..calls /\ e \in {c} \cup astray'
          /\ x \in Users /\ Directed(r, x) /\ Directed(r, w)
          /\ OthersUntold(e) /\ Awaited(kind, w, r, e)
      BY <3>1 DEF Parted
    <3>3. down' \in [Users -> Seq(DownType)] /\ OwnDown'
      <4>1. PICK type \in Overs : down' = Told(x, type, r, e) /\ Message(type, r, e) \in DownType
        BY <3>1 DEF Parted
      <4> QED
        BY <4>1, <3>2, <1>2, Tells
    <3>4. jobs' \subseteq JobType /\ OwnJobs'
      <4>1. kind # "disconnect"
        BY <1>3
      <4> QED
        BY <4>1, <3>2, <1>2, <1>5 DEF Awaited, OwnJobs
    <3>5. astray' \subseteq 1..calls
      BY <3>2, <1>2, <1>4, <1>5
    <3>6. ASSUME NEW d, d # c, d \notin astray'
          PROVE  /\ KeepJobs(d) /\ KeepDown(d)
                 /\ \A v \in Users : Ordered(down[v], d) => Ordered(down'[v], d)
      <4>1. d # e
        BY <3>2, <3>6
      <4> QED
        BY <4>1, <3>2 DEF OthersUntold, Awaited
    <3> QED
      BY <3>3, <3>4, <3>5, <3>6
  <2> QED
    BY <2>1, <2>2
<1>7. CallTyped'
  BY <1>1, <1>3, <1>6, SameTypes DEF ScreenInv, CallTyped
<1>8. OwnScreens' /\ OwnTasks' /\ OwnEntries' /\ OwnConnections' /\ OpenForScreen'
  BY <1>1, <1>5, SameScreens, SameTasks, SameEntries, SameConnections DEF ScreenInv
<1>9. ASSUME NEW d \in 1..calls, d \notin astray'
      PROVE  Steady(d)
  <2>1. CASE d = c
    BY <2>1, <1>9, CloseCallSteady
  <2>2. CASE d # c
    <3>1. Untouched(d)
      BY <1>1, <1>3, <1>6, <1>9, <2>2, SameScreens, SameTasks, SameEntries, SameConnections,
        SameQueues
        DEF Untouched
    <3> QED
      BY <3>1, UntouchedSteady
  <2> QED
    BY <2>1, <2>2
<1>10. CallsSound'
  BY <1>1, <1>5, <1>9, AllSteady DEF ScreenInv
<1> QED
  BY <1>3, <1>6, <1>7, <1>8, <1>10 DEF ScreenInv

(* The log of a call is written: the entries of both users go.             *)
LEMMA RemoveCallSteady ==
  ASSUME ScreenInv, NEW j \in jobs, RemoveCall(j), NEW c \in 1..calls, c = j.call, c \notin astray'
  PROVE  Steady(c)
<1> SUFFICES ASSUME NEW u \in Users, NEW p \in Users, NEW n \in 1..18, CallSound(c, u, p, n)
             PROVE  CallSound(c, u, p, n)'
  BY DEF Steady
<1>1. /\ j.kind \in Closing /\ jobs' = jobs \ {j}
      /\ activeCalls' = [v \in Users |-> IF v \in j.room THEN NoCall ELSE activeCalls[v]]
      /\ c \notin astray /\ UNCHANGED <<screen, ref, pc, tasks, up, down, calls>>
  BY DEF RemoveCall, EntriesOf, client, wire, link
<1>2. j \in JobsOf(c) /\ j.kind \in Ends /\ c # 0
  BY <1>1 DEF ScreenInv, OwnJobs, JobsOf, Closing, Ends
<1>3. u \in Users /\ p \in Users /\ u # p
  BY DEF CallSound, Parties
<1>4. j.room = {u, p} /\ j.user \in {u, p}
  BY <1>2 DEF CallSound, Placed, PlacedJobs, StageJob, Job, Ends
<1>5. PICK w \in Users, v \in Users : w = j.user /\ ((w = u /\ v = p) \/ (w = p /\ v = u))
  BY <1>3, <1>4
<1>6. EndJob(c, w) /\ Leaving(c, w)
  BY <1>2, <1>5 DEF EndJob, Leaving
<1>7. n >= 4
  BY <1>5, <1>6 DEF CallSound, Unrung
<1>8. JobsOf(c)' = JobsOf(c) \ {j}
  BY <1>1 DEF JobsOf
<1>9. /\ KeepTasks(c) /\ KeepUp(c) /\ KeepDown(c) /\ KeepScreen(c) /\ KeepConnections(c) /\ KeepQueues(c)
  BY <1>1, SameTasks, SameUp, SameDown, SameScreens, SameConnections, SameQueues
<1>10. \A y \in Users : ~HasEntry(c, y)'
  <2>1. ASSUME NEW y \in Users
        PROVE  activeCalls'[y].call # c
    <3>1. CASE y \in {u, p}
      BY <3>1, <1>1, <1>2, <1>4 DEF NoCall
    <3>2. CASE y \notin {u, p}
      <4>1. activeCalls'[y] = activeCalls[y]
        BY <3>2, <1>1, <1>4
      <4> QED
        BY <4>1, <3>2 DEF CallSound, Entered, HasEntry
    <3> QED
      BY <3>1, <3>2
  <2> QED
    BY <2>1 DEF HasEntry
<1>11. Placed(c, u, p, n)'
  <2>1. Present(c, u, p, n)'
    <3>1. n \in {3, 13, 16} => \E x \in JobsOf(c)' : StageJob(c, u, p, n, x)
      <4>1. ~StageJob(c, u, p, n, j)
        BY <1>2 DEF StageJob, Job, Ends
      <4> QED
        BY <4>1, <1>8 DEF CallSound, Placed, Present
    <3> QED
      BY <3>1, <1>1, <1>9 DEF CallSound, Placed, Present, KeepTasks, KeepUp, KeepDown
  <2>2. PlacedTasks(c, u, p, n)' /\ PlacedUp(c, u, p, n)' /\ PlacedDown(c, u, p, n)'
    BY <1>9 DEF CallSound, Placed, PlacedTasks, PlacedUp, PlacedDown, KeepTasks, KeepUp,
      KeepDown
  <2>3. PlacedJobs(c, u, p, n)'
    BY <1>8 DEF CallSound, Placed, PlacedJobs
  <2> QED
    BY <2>1, <2>2, <2>3 DEF Placed
<1>12. Queues(c)' /\ OnScreen(c, u, p, n)' /\ Connections(c, u, p)'
  <2>1. Queues(c)'
    BY <1>9 DEF CallSound, KeepQueues
  <2>2. OnScreen(c, u, p, n)'
    BY <1>1 DEF CallSound, OnScreen
  <2> QED
    BY <2>1, <2>2, <1>9, ConnectionsKept DEF CallSound
<1>13. Entered(c, u, p, n)' /\ Stages(c, u, p, n)'
  BY <1>3, <1>10 DEF Entered, Stages, Live
<1>14. Unrung(c, u, p, n)'
  BY <1>7 DEF Unrung
<1>15. \A y \in Users : /\ EndJob(c, y)' => EndJob(c, y)
                        /\ Leaving(c, y)' => Leaving(c, y)
                        /\ OverFor(c, y)' <=> OverFor(c, y)
                        /\ Attached(c, p, n, y)' <=> Attached(c, p, n, y)
  <2>1. \A y \in Users : EndJob(c, y)' => EndJob(c, y)
    BY <1>8 DEF EndJob
  <2>2. \A y \in Users : Leaving(c, y)' => Leaving(c, y)
    BY <2>1, <1>9 DEF Leaving, KeepUp
  <2>3. \A y \in Users : OverFor(c, y)' <=> OverFor(c, y)
    BY <1>9 DEF OverFor, KeepDown
  <2>4. \A y \in Users : Attached(c, p, n, y)' <=> Attached(c, p, n, y)
    BY <1>1 DEF Attached
  <2> QED
    BY <2>1, <2>2, <2>3, <2>4
<1>16. ~Attached(c, p, n, w) /\ (Attached(c, p, n, v) => OverFor(c, v))
  BY <1>5, <1>6 DEF CallSound, Parting, PartingOf
<1>17. Parting(c, u, p, n)'
  <2>1. PartingOf(c, u, p, n, w, v)'
    BY <1>3, <1>5, <1>10, <1>15, <1>16 DEF CallSound, Parting, PartingOf
  <2>2. PartingOf(c, u, p, n, v, w)'
    BY <1>3, <1>5, <1>10, <1>15, <1>16 DEF CallSound, Parting, PartingOf
  <2> QED
    BY <2>1, <2>2, <1>5 DEF Parting
<1> QED
  BY <1>11, <1>12, <1>13, <1>14, <1>17 DEF CallSound, Parties

(* The removal of the entries keeps the invariant: an entry of another     *)
(* call makes that call astray.                                            *)
LEMMA RemoveCallKeeps ==
  ASSUME ScreenInv, NEW j \in jobs, RemoveCall(j)
  PROVE  ScreenInv'
<1> PICK c : c = j.call
  OBVIOUS
<1>1. /\ jobs' = jobs \ {j}
      /\ activeCalls' = [v \in Users |-> IF v \in j.room THEN NoCall ELSE activeCalls[v]]
      /\ astray' = astray \cup ({activeCalls[v].call : v \in j.room} \ {0, c})
      /\ UNCHANGED <<screen, ref, media, pc, tasks, up, down, sock, calls>>
  BY DEF RemoveCall, EntriesOf, client, wire, link
<1>2. /\ activeCalls \in [Users -> CallEntryType] /\ OwnEntries
      /\ j \in JobType /\ OwnJobs /\ jobs \subseteq JobType /\ astray \subseteq 1..calls /\ calls \in Nat
  BY DEF ScreenInv, CallTyped
<1>3. c \in 1..calls /\ j.room \subseteq Users
  BY <1>2, DirectRoomsAssumption DEF JobType
<1>4. NoCall \in CallEntryType /\ NoCall.call = 0
  BY <1>2 DEF NoCall, CallEntryType
<1>5. activeCalls' \in [Users -> CallEntryType] /\ OwnEntries'
  <2>1. activeCalls' \in [Users -> CallEntryType]
    BY <1>1, <1>2, <1>4
  <2>2. \A v \in Users : activeCalls'[v] = NoCall \/ activeCalls'[v] = activeCalls[v]
    BY <1>1
  <2> QED
    BY <2>1, <2>2, <1>2, <1>4 DEF OwnEntries
<1>6. astray' \subseteq 1..calls /\ astray \subseteq astray'
  <2>1. \A v \in j.room : activeCalls[v].call \in 0..calls
    BY <1>2, <1>3 DEF CallEntryType
  <2>2. \A d \in 0..calls : d # 0 => d \in 1..calls
    BY <1>2
  <2> QED
    BY <2>1, <2>2, <1>1, <1>2
<1>7. jobs' \subseteq JobType /\ OwnJobs'
  BY <1>1, <1>2, <1>6 DEF OwnJobs
<1>8. CallTyped'
  BY <1>1, <1>5, <1>6, <1>7, SameTypes DEF ScreenInv, CallTyped
<1>9. OwnScreens' /\ OwnTasks' /\ OwnUp' /\ OwnDown' /\ OwnConnections' /\ OpenForScreen'
  BY <1>1, <1>6, SameScreens, SameTasks, SameUp, SameDown, SameConnections DEF ScreenInv
<1>10. ASSUME NEW d \in 1..calls, d \notin astray'
       PROVE  Steady(d)
  <2>1. CASE d = c
    BY <2>1, <1>10, RemoveCallSteady
  <2>2. CASE d # c
    <3>1. KeepJobs(d)
      BY <1>1, <2>2 DEF KeepJobs, JobsOf
    <3>2. KeepEntries(d)
      <4>1. d # 0
        BY <1>2
      <4>2. \A v \in j.room : activeCalls[v].call # d
        BY <4>1, <1>1, <1>10, <2>2
      <4> QED
        BY <4>1, <4>2, <1>1, <1>4 DEF KeepEntries
    <3>3. Untouched(d)
      BY <1>1, <3>1, <3>2, SameScreens, SameTasks, SameUp, SameDown, SameConnections,
        SameQueues
        DEF Untouched
    <3> QED
      BY <3>3, UntouchedSteady
  <2> QED
    BY <2>1, <2>2
<1>11. CallsSound'
  BY <1>1, <1>6, <1>10, AllSteady DEF ScreenInv
<1> QED
  BY <1>5, <1>7, <1>8, <1>9, <1>11 DEF ScreenInv

(* A log that fails spoils its call and no other. *)
LEMMA FailLogKeeps ==
  ASSUME ScreenInv, NEW j \in jobs, FailLog(j)
  PROVE  ScreenInv'
<1> PICK c : c = j.call
  OBVIOUS
<1>1. /\ jobs' = jobs \ {j} /\ astray' = astray \cup {c}
      /\ UNCHANGED <<screen, ref, media, pc, tasks, up, down, sock, activeCalls, calls>>
  BY DEF FailLog, client, wire, link
<1>2. j \in JobType /\ OwnJobs /\ jobs \subseteq JobType /\ astray \subseteq 1..calls
  BY DEF ScreenInv, CallTyped
<1>3. astray' \subseteq 1..calls /\ astray \subseteq astray' /\ jobs' \subseteq JobType /\ OwnJobs'
  BY <1>1, <1>2 DEF JobType, OwnJobs
<1>4. CallTyped'
  BY <1>1, <1>3, SameTypes DEF ScreenInv, CallTyped
<1>5. /\ OwnScreens' /\ OwnTasks' /\ OwnUp' /\ OwnDown' /\ OwnEntries' /\ OwnConnections' /\ OpenForScreen'
  BY <1>1, <1>3, SameScreens, SameTasks, SameUp, SameDown, SameEntries, SameConnections DEF
    ScreenInv
<1>6. ASSUME NEW d \in 1..calls, d \notin astray'
      PROVE  Steady(d)
  <2>1. KeepJobs(d)
    BY <1>1, <1>6 DEF KeepJobs, JobsOf
  <2>2. Untouched(d)
    BY <1>1, <2>1, SameScreens, SameTasks, SameUp, SameDown, SameEntries, SameConnections,
      SameQueues
      DEF Untouched
  <2> QED
    BY <2>2, UntouchedSteady
<1>7. CallsSound'
  BY <1>1, <1>3, <1>6, AllSteady DEF ScreenInv
<1> QED
  BY <1>3, <1>4, <1>5, <1>7 DEF ScreenInv

(* A socket that comes back keeps the invariant. *)
LEMMA ReconnectKeeps ==
  ASSUME ScreenInv, NEW w \in Users, Reconnect(w)
  PROVE  ScreenInv'
<1>1. /\ sock' = [sock EXCEPT ![w] = TRUE]
      /\ UNCHANGED <<screen, ref, media, pc, tasks, up, down, activeCalls, jobs, calls, astray>>
  BY DEF Reconnect, client, serverState, link
<1>2. CallTyped'
  BY <1>1, SameTypes DEF ScreenInv, CallTyped
<1>3. /\ OwnScreens' /\ OwnTasks' /\ OwnUp' /\ OwnDown' /\ OwnEntries' /\ OwnConnections' /\ OwnJobs'
      /\ OpenForScreen'
  BY <1>1, SameScreens, SameTasks, SameUp, SameDown, SameEntries, SameConnections, SameJobs
    DEF ScreenInv
<1>4. ASSUME NEW c
      PROVE  Steady(c)
  <2>1. Untouched(c)
    BY <1>1, SameScreens, SameTasks, SameUp, SameDown, SameEntries, SameConnections,
      SameJobs, SameQueues
      DEF Untouched
  <2> QED
    BY <2>1, UntouchedSteady
<1>5. CallsSound'
  BY <1>1, <1>4, AllSteady DEF ScreenInv
<1> QED
  BY <1>2, <1>3, <1>5 DEF ScreenInv

(* A socket drops with what is in its queues: the calls named there, the   *)
(* one on the screen and the one of the entry are spoiled, and no other.   *)
DownDrops(w) ==
  /\ down' \in [Users -> Seq(DownType)] /\ OwnDown'
  /\ \A d : d \notin CallsIn(down[w]) \cup {activeCalls[w].call} =>
       KeepDown(d) /\ \A v \in Users : Ordered(down[v], d) => Ordered(down'[v], d)

JobsDrop(w) ==
  /\ jobs' \subseteq JobType /\ (activeCalls[w].call \in astray' => OwnJobs')
  /\ \A d : d # activeCalls[w].call => KeepJobs(d)

(* The messages and the handlers after the socket of a user drops who is   *)
(* in no call, or in one.                                                  *)
LEMMA DropsIdle ==
  ASSUME ScreenInv, NEW w \in Users, Drop(w), ~Busy(w)
  PROVE  DownDrops(w) /\ JobsDrop(w)
<1>1. /\ down' = [down EXCEPT ![w] = <<>>] /\ jobs' = jobs
      /\ astray \subseteq astray'
  BY DEF Drop
<1>2. /\ down \in [Users -> Seq(DownType)] /\ OwnDown /\ jobs \subseteq JobType /\ OwnJobs
  BY DEF ScreenInv, CallTyped
<1>3. <<>> \in Seq(DownType)
  BY EmptySeq
<1>4. down' \in [Users -> Seq(DownType)]
  BY <1>1, <1>2, <1>3
<1>5. down'[w] = <<>> /\ \A v \in Users : v # w => down'[v] = down[v]
  BY <1>1, <1>2
<1>6. OwnDown'
  BY <1>2, <1>5, EmptyQueue DEF OwnDown
<1>7. ASSUME NEW d, d \notin CallsIn(down[w])
      PROVE  KeepDown(d) /\ \A v \in Users : Ordered(down[v], d) => Ordered(down'[v], d)
  <2>1. DownOf(d, w) = {}
    BY <1>7 DEF DownOf, Carried, CallsIn
  <2>2. DownOf(d, w)' = {}
    BY <1>5, EmptyQueue DEF DownOf
  <2>3. \A v \in Users : v # w => DownOf(d, v)' = DownOf(d, v)
    BY <1>5 DEF DownOf
  <2> QED
    BY <2>1, <2>2, <2>3, <1>5, EmptyQueue DEF KeepDown
<1> QED
  BY <1>1, <1>2, <1>4, <1>6, <1>7, SameJobs DEF DownDrops, JobsDrop

LEMMA DropsBusy ==
  ASSUME ScreenInv, NEW w \in Users, Drop(w), Busy(w)
  PROVE  DownDrops(w) /\ JobsDrop(w)
<1> PICK r : r = activeCalls[w].room
  OBVIOUS
<1> PICK e : e = activeCalls[w].call
  OBVIOUS
<1> PICK x : x = Other(r, w)
  OBVIOUS
<1> PICK kind : kind = "disconnect"
  OBVIOUS
<1> PICK m : m = Message("ended", r, e)
  OBVIOUS
<1> PICK kept : kept = [down EXCEPT ![w] = <<>>]
  OBVIOUS
<1>1. /\ down' = IF sock[x] THEN [kept EXCEPT ![x] = Append(@, m)] ELSE kept
      /\ Awaits(Job(kind, w, r, e))
      /\ astray \subseteq astray'
  BY DEF Drop
<1>2. /\ down \in [Users -> Seq(DownType)] /\ OwnDown /\ jobs \subseteq JobType /\ OwnJobs
      /\ activeCalls \in [Users -> CallEntryType] /\ OwnEntries /\ calls \in Nat
  BY DEF ScreenInv, CallTyped
<1>3. e # 0 /\ e \in 0..calls /\ Directed(r, w)
  BY <1>2 DEF Busy, OwnEntries, CallEntryType
<1>4. x \in Users /\ x # w /\ Directed(r, x)
  BY <1>3, OtherOne
<1>5. m \in DownType /\ m.call = e /\ m.room = r
  BY <1>2, <1>3 DEF Message, DownType, Directed
<1>6. <<>> \in Seq(DownType)
  BY EmptySeq
<1>7. /\ kept \in [Users -> Seq(DownType)] /\ kept[w] = <<>> /\ \A v \in Users : v # w => kept[v] = down[v]
  BY <1>2, <1>6
<1>8. /\ down' \in [Users -> Seq(DownType)]
      /\ \A v \in Users : v # x => down'[v] = kept[v]
      /\ down'[x] = down[x] \/ down'[x] = Append(down[x], m)
  <2>1. Append(kept[x], m) \in Seq(DownType)
    BY <1>4, <1>5, <1>7, CarriedAppend
  <2> QED
    BY <2>1, <1>1, <1>4, <1>7
<1>9. Carried(down'[x]) \subseteq Carried(down[x]) \cup {m} /\ Carried(down[x]) \subseteq Carried(down'[x])
  <2>1. Carried(Append(down[x], m)) = Carried(down[x]) \cup {m}
    BY <1>2, <1>4, <1>5, CarriedAppend
  <2> QED
    BY <2>1, <1>8
<1>10. down'[w] = <<>> /\ \A v \in Users : v # w /\ v # x => down'[v] = down[v]
  BY <1>4, <1>7, <1>8
<1>11. OwnDown'
  <2>1. \A y \in Carried(down'[w]) : Directed(y.room, w)
    BY <1>10, EmptyQueue
  <2>2. \A y \in Carried(down'[x]) : Directed(y.room, x)
    BY <1>2, <1>4, <1>5, <1>9 DEF OwnDown
  <2> QED
    BY <2>1, <2>2, <1>2, <1>10 DEF OwnDown
<1>12. ASSUME NEW d, d \notin CallsIn(down[w]), d # e
       PROVE  KeepDown(d) /\ \A v \in Users : Ordered(down[v], d) => Ordered(down'[v], d)
  <2>1. DownOf(d, w) = {}
    BY <1>12 DEF DownOf, Carried, CallsIn
  <2>2. DownOf(d, w)' = {}
    BY <1>10, EmptyQueue DEF DownOf
  <2>3. DownOf(d, x)' = DownOf(d, x)
    BY <1>5, <1>9, <1>12 DEF DownOf
  <2>4. \A v \in Users : v # w /\ v # x => DownOf(d, v)' = DownOf(d, v)
    BY <1>10 DEF DownOf
  <2>5. KeepDown(d)
    BY <2>1, <2>2, <2>3, <2>4 DEF KeepDown
  <2>6. Ordered(down[x], d) => Ordered(down'[x], d)
    <3>1. Ordered(down[x], d) => Ordered(Append(down[x], m), d)
      BY <1>2, <1>4, <1>5, <1>12, OrderedAppend
    <3> QED
      BY <3>1, <1>8
  <2> QED
    BY <2>5, <2>6, <1>10, EmptyQueue
<1>13. DownDrops(w)
  BY <1>8, <1>11, <1>12 DEF DownDrops
<1>14. Awaited(kind, w, r, e)
  <2>1. Job(kind, w, r, e) \in JobType
    BY <1>2, <1>3 DEF Job, JobType, Directed
  <2> QED
    BY <2>1, <1>1, <1>2, AwaitsJob
<1>15. JobsDrop(w)
  <2>1. jobs' \subseteq JobType /\ \A d : d # e => KeepJobs(d)
    BY <1>14 DEF Awaited
  <2>2. e \in astray' => OwnJobs'
    BY <1>1, <1>2, <1>3, <1>14 DEF Awaited, OwnJobs
  <2> QED
    BY <2>1, <2>2 DEF JobsDrop
<1> QED
  BY <1>13, <1>15

(* A dropped socket keeps the invariant. *)
LEMMA DropKeeps ==
  ASSUME ScreenInv, NEW w \in Users, Drop(w)
  PROVE  ScreenInv'
<1> PICK e : e = activeCalls[w].call
  OBVIOUS
<1>1. /\ up' = [up EXCEPT ![w] = <<>>] /\ sock' = [sock EXCEPT ![w] = FALSE]
      /\ astray' = astray \cup CallsIn(up[w]) \cup CallsIn(down[w]) \cup ({e, screen[w].call} \ {0})
      /\ UNCHANGED <<screen, ref, media, pc, tasks, activeCalls, calls>>
  BY DEF Drop, client
<1>2. /\ up \in [Users -> Seq(UpType)] /\ OwnUp /\ down \in [Users -> Seq(DownType)]
      /\ sock \in [Users -> BOOLEAN] /\ astray \subseteq 1..calls /\ calls \in Nat
      /\ activeCalls \in [Users -> CallEntryType] /\ screen \in [Users -> CallType]
      /\ OwnEntries
  BY DEF ScreenInv, CallTyped
<1>3. <<>> \in Seq(UpType)
  BY EmptySeq
<1>4. up' \in [Users -> Seq(UpType)]
  BY <1>1, <1>2, <1>3
<1>5. up'[w] = <<>> /\ \A v \in Users : v # w => up'[v] = up[v]
  BY <1>1, <1>2
<1>6. OwnUp'
  BY <1>2, <1>5, EmptyQueue DEF OwnUp
<1>7. ASSUME NEW d, d \notin CallsIn(up[w])
      PROVE  KeepUp(d) /\ \A v \in Users : Ordered(up[v], d) => Ordered(up'[v], d)
  <2>1. UpOf(d, w) = {}
    BY <1>7 DEF UpOf, Carried, CallsIn
  <2>2. UpOf(d, w)' = {}
    BY <1>5, EmptyQueue DEF UpOf
  <2>3. \A v \in Users : v # w => UpOf(d, v)' = UpOf(d, v)
    BY <1>5 DEF UpOf
  <2> QED
    BY <2>1, <2>2, <2>3, <1>5, EmptyQueue DEF KeepUp
<1>8. DownDrops(w) /\ JobsDrop(w)
  BY DropsIdle, DropsBusy
<1>9. astray' \subseteq 1..calls /\ astray \subseteq astray'
  <2>1. CallsIn(up[w]) \subseteq 1..calls
    <3>1. Carried(up[w]) \subseteq UpType
      BY <1>2, CarriedType
    <3>2. \A m \in Carried(up[w]) : m.call \in 1..calls
      BY <3>1 DEF UpType
    <3> QED
      BY <3>2 DEF CallsIn, Carried
  <2>2. CallsIn(down[w]) \subseteq 1..calls
    <3>1. Carried(down[w]) \subseteq DownType
      BY <1>2, CarriedType
    <3>2. \A m \in Carried(down[w]) : m.call \in 1..calls
      BY <3>1 DEF DownType
    <3> QED
      BY <3>2 DEF CallsIn, Carried
  <2>3. e \in 0..calls /\ screen[w].call \in 0..calls
    BY <1>2 DEF CallEntryType, CallType
  <2>4. \A d \in 0..calls : d # 0 => d \in 1..calls
    BY <1>2
  <2> QED
    BY <2>1, <2>2, <2>3, <2>4, <1>1, <1>2
<1>10. jobs' \subseteq JobType /\ OwnJobs'
  <2>1. CASE Busy(w)
    <3>1. e \in astray'
      BY <2>1, <1>1, <1>2 DEF Busy, OwnEntries
    <3> QED
      BY <3>1, <1>8 DEF JobsDrop
  <2>2. CASE ~Busy(w)
    <3>1. jobs' = jobs
      BY <2>2 DEF Drop
    <3> QED
      BY <3>1, <1>9, SameJobs DEF ScreenInv, CallTyped
  <2> QED
    BY <2>1, <2>2
<1>11. CallTyped'
  BY <1>1, <1>4, <1>8, <1>9, <1>10, SameTypes DEF ScreenInv, CallTyped, DownDrops
<1>12. OwnScreens' /\ OwnTasks' /\ OwnDown' /\ OwnEntries' /\ OwnConnections' /\ OpenForScreen'
  BY <1>1, <1>8, <1>9, SameScreens, SameTasks, SameEntries, SameConnections DEF ScreenInv,
    DownDrops
<1>13. ASSUME NEW d \in 1..calls, d \notin astray'
       PROVE  Steady(d)
  <2>1. d # e
    <3>1. d # 0
      BY <1>2
    <3> QED
      BY <3>1, <1>1, <1>13
  <2>2. /\ KeepDown(d) /\ KeepJobs(d) /\ \A v \in Users : Ordered(down[v], d) => Ordered(down'[v], d)
    BY <2>1, <1>1, <1>8, <1>13 DEF DownDrops, JobsDrop
  <2>3. KeepUp(d) /\ \A v \in Users : Ordered(up[v], d) => Ordered(up'[v], d)
    BY <1>1, <1>7, <1>13
  <2>4. Untouched(d)
    BY <1>1, <2>2, <2>3, SameScreens, SameTasks, SameEntries, SameConnections, SameQueues
      DEF Untouched
  <2> QED
    BY <2>4, UntouchedSteady
<1>14. CallsSound'
  BY <1>1, <1>9, <1>13, AllSteady DEF ScreenInv
<1> QED
  BY <1>6, <1>10, <1>11, <1>12, <1>14 DEF ScreenInv

-----------------------------------------------------------------------------
(* The theorems. *)

(* The three facts of the induction. *)
LEMMA ScreenStarts ==
  ASSUME ScreenInit
  PROVE  ScreenInv
<1>1. /\ screen = [u \in Users |-> NoScreen] /\ ref = screen
      /\ media = [u \in Users |-> NoMedia] /\ pc = [u \in Users |-> NoConnection]
      /\ tasks = [u \in Users |-> {}]
      /\ up = [u \in Users |-> <<>>] /\ down = [u \in Users |-> <<>>]
      /\ sock = [u \in Users |-> TRUE]
      /\ activeCalls = [u \in Users |-> NoCall] /\ jobs = {}
      /\ calls = 0 /\ astray = {}
  BY DEF ScreenInit
<1>2. /\ NoScreen \in CallType /\ NoConnection \in ConnectionType /\ NoCall \in CallEntryType
      /\ NoMedia \in MediaType
  BY <1>1 DEF NoScreen, NoConnection, NoCall, NoMedia, CallType, ConnectionType,
    CallEntryType, MediaType
<1>3. <<>> \in Seq(UpType) /\ <<>> \in Seq(DownType)
  BY EmptySeq
<1>4. CallTyped
  BY <1>1, <1>2, <1>3 DEF CallTyped
<1>5. /\ NoScreen.status = "idle" /\ NoScreen.call = 0 /\ NoCall.call = 0 /\ NoMedia.live = {}
      /\ NoConnection.call = 0 /\ NoConnection.state = "none"
  BY DEF NoScreen, NoConnection, NoCall, NoMedia
<1>6. OwnScreens /\ OwnEntries /\ OwnConnections /\ OpenForScreen
  BY <1>1, <1>5 DEF OwnScreens, OwnEntries, OwnConnections, OpenForScreen
<1>7. OwnTasks /\ OwnUp /\ OwnDown /\ OwnJobs
  BY <1>1, EmptyQueue DEF OwnTasks, OwnUp, OwnDown, OwnJobs
<1>8. CallsSound
  BY <1>1 DEF CallsSound
<1> QED
  BY <1>4, <1>6, <1>7, <1>8 DEF ScreenInv

(* A listener that is attached changes none of this. *)
LEMMA ScreenStays ==
  ASSUME ScreenInv, (UNCHANGED screenVars) \/ \E u \in Users : Attach(u)
  PROVE  ScreenInv'
<1>1. UNCHANGED <<screen, ref, media, pc, tasks, up, down, sock, activeCalls, jobs, calls, astray>>
  BY DEF screenVars, client, wire, link, serverState, Attach
<1>2. CallTyped'
  BY <1>1, SameTypes DEF ScreenInv, CallTyped
<1>3. /\ OwnScreens' /\ OwnTasks' /\ OwnUp' /\ OwnDown' /\ OwnEntries' /\ OwnConnections' /\ OwnJobs'
      /\ OpenForScreen'
  BY <1>1, SameScreens, SameTasks, SameUp, SameDown, SameEntries, SameConnections, SameJobs
    DEF ScreenInv
<1>4. ASSUME NEW c
      PROVE  Steady(c)
  <2>1. Untouched(c)
    BY <1>1, SameScreens, SameTasks, SameUp, SameDown, SameEntries, SameConnections,
      SameJobs, SameQueues
      DEF Untouched
  <2> QED
    BY <2>1, UntouchedSteady
<1>5. CallsSound'
  BY <1>1, <1>4, AllSteady DEF ScreenInv
<1> QED
  BY <1>2, <1>3, <1>5 DEF ScreenInv

LEMMA ScreenSteps ==
  ASSUME ScreenInv, ScreenNext
  PROVE  ScreenInv'
<1>1. CASE \E u \in Users : AcceptCall(u) \/ HangUp(u) \/ CopyToRef(u)
  BY <1>1, AcceptCallKeeps, HangUpKeeps, CopyToRefKeeps
<1>2. CASE \E u \in Users : HandleIncoming(u) \/ HandleAccepted(u) \/ HandleOver(u) \/ HandleSignal(u)
  BY <1>2, HandleIncomingKeeps, HandleAcceptedKeeps, HandleOverKeeps, HandleSignalKeeps
<1>3. CASE \E u \in Users : FindRoom(u) \/ AcceptEntry(u) \/ CloseCall(u) \/ Drop(u) \/ Reconnect(u)
  BY <1>3, FindRoomKeeps, AcceptEntryKeeps, CloseCallKeeps, DropKeeps, ReconnectKeeps
<1>4. CASE \E u \in Users : \E r \in DirectRooms : StartCall(u, r)
  BY <1>4, StartCallKeeps
<1>5. CASE \E u \in Users : \E t \in tasks[u] :
             MediaReady(u, t) \/ TaskThrows(u, t) \/ IceFetched(u, t) \/ CreateOffer(u, t)
  BY <1>5, MediaReadyKeeps, TaskThrowsKeeps, IceFetchedKeeps, CreateOfferKeeps
<1>7. CASE \E u \in Users : Attach(u) \/ Unheard(u)
  BY <1>7, ScreenStays, UnheardKeeps
<1>6. CASE \E j \in jobs : InitiateCall(j) \/ ForwardSignal(j) \/ RemoveCall(j) \/ FailLog(j)
  BY <1>6, InitiateCallKeeps, ForwardSignalKeeps, RemoveCallKeeps, FailLogKeeps
<1> QED
  BY <1>1, <1>2, <1>3, <1>4, <1>5, <1>6, <1>7 DEF ScreenNext

(* The invariant of the call screen, for any users, rooms, calls and       *)
(* faults.                                                                 *)
THEOREM CallScreenInvariant == ScreenSpec => []ScreenInv
BY ScreenStarts, ScreenStays, ScreenSteps, PTL DEF ScreenSpec

(* At rest a call that is sound is ringing or negotiated, and who shows it *)
(* is who has its entry.                                                   *)
LEMMA AtRestNothing ==
  ASSUME AtRest, NEW c
  PROVE  /\ \A v \in Users : TasksOf(c, v) = {} /\ UpOf(c, v) = {} /\ DownOf(c, v) = {}
         /\ JobsOf(c) = {}
         /\ \A v \in Users : ~Leaving(c, v) /\ ~OverFor(c, v)
<1>1. \A v \in Users : TasksOf(c, v) = {} /\ UpOf(c, v) = {} /\ DownOf(c, v) = {}
  BY EmptyQueue DEF AtRest, TasksOf, UpOf, DownOf
<1>2. JobsOf(c) = {}
  BY DEF AtRest, JobsOf
<1> QED
  BY <1>1, <1>2 DEF Leaving, EndJob, OverFor

Resting(c, u, p, n) ==
  /\ n \in {5, 18}
  /\ \A v \in Users : screen[v].call = c <=> HasEntry(c, v)
  /\ \A v \in Users : screen[v].call = c =>
       /\ v \in {u, p} /\ HasEntry(c, u) /\ Reached(c, u, p, n)
       /\ activeCalls[v].status = activeCalls[u].status
       /\ screen[v].status = "connected" <=> n = 18

LEMMA RestingCall ==
  ASSUME AtRest, NEW c, NEW u \in Users, NEW p \in Users, NEW n \in 1..18, CallSound(c, u, p, n)
  PROVE  Resting(c, u, p, n)
<1>1. n \in {5, 18}
  BY AtRestNothing DEF CallSound, Placed, Present
<1>2. /\ u # p /\ \A v \in Users : screen[v].call = c \/ HasEntry(c, v) => v \in {u, p}
      /\ HasEntry(c, u) <=> HasEntry(c, p)
  BY DEF CallSound, Parties, OnScreen, Entered
<1>3. \A v \in {u, p} : screen[v].call = c <=> HasEntry(c, u)
  BY <1>1, <1>2, AtRestNothing DEF CallSound, Parting, PartingOf, Attached
<1>4. ASSUME HasEntry(c, u)
      PROVE  Reached(c, u, p, n) /\ activeCalls[p].status = activeCalls[u].status
  BY <1>4, AtRestNothing DEF CallSound, Stages, Live, Entered
<1>5. ASSUME NEW v \in Users, screen[v].call = c
      PROVE  screen[v].status = "connected" <=> n = 18
  <2>1. HasEntry(c, u) /\ Reached(c, u, p, n)
    BY <1>2, <1>3, <1>4, <1>5
  <2>2. CASE v = u
    BY <2>1, <2>2, <1>1 DEF Reached
  <2>3. CASE v = p
    BY <2>3, <1>1, <1>5 DEF CallSound, OnScreen
  <2> QED
    BY <2>2, <2>3, <1>2, <1>5
<1> QED
  BY <1>1, <1>2, <1>3, <1>4, <1>5 DEF Resting

(* The three properties follow from the invariant: a call at rest rings or *)
(* is negotiated, and one that is not sound is astray.                     *)
LEMMA ScreensAgreeByInv ==
  ASSUME ScreenInv
  PROVE  ScreensAgree
<1> SUFFICES ASSUME AtRest, NEW v \in Users, screen[v].call \notin astray, activeCalls[v].call \notin astray
             PROVE  /\ screen[v].call = activeCalls[v].call
                    /\ screen[v].status = "connected" <=> activeCalls[v].status = "connected"
  BY DEF ScreensAgree
<1>1. /\ screen[v].call \in 0..calls /\ activeCalls[v].call \in 0..calls /\ calls \in Nat
      /\ screen[v].status = "idle" <=> screen[v].call = 0
      /\ activeCalls[v].call = 0 <=> activeCalls[v] = NoCall
  BY DEF ScreenInv, CallTyped, CallType, CallEntryType, OwnScreens, OwnEntries
<1>2. ASSUME NEW c \in 1..calls, c \notin astray, screen[v].call = c \/ HasEntry(c, v)
      PROVE  /\ screen[v].call = c /\ activeCalls[v].call = c
             /\ screen[v].status = "connected" <=> activeCalls[v].status = "connected"
  <2>1. PICK u \in Users, p \in Users, n \in 1..18 : CallSound(c, u, p, n)
    BY <1>2 DEF ScreenInv, CallsSound
  <2>2. /\ n \in {5, 18} /\ screen[v].call = c /\ HasEntry(c, v) /\ Reached(c, u, p, n)
        /\ activeCalls[v].status = activeCalls[u].status
        /\ screen[v].status = "connected" <=> n = 18
    <3>1. Resting(c, u, p, n)
      BY <2>1, RestingCall
    <3> QED
      BY <3>1, <1>2 DEF Resting
  <2> QED
    BY <2>2 DEF HasEntry, Reached
<1>3. CASE screen[v].call = 0 /\ activeCalls[v].call = 0
  BY <1>1, <1>3 DEF NoCall
<1>4. CASE screen[v].call # 0
  <2>1. screen[v].call \in 1..calls
    BY <1>1, <1>4
  <2> QED
    BY <2>1, <1>2
<1>5. CASE activeCalls[v].call # 0
  <2>1. activeCalls[v].call \in 1..calls
    BY <1>1, <1>5
  <2> QED
    BY <2>1, <1>2 DEF HasEntry
<1> QED
  BY <1>3, <1>4, <1>5

LEMMA NothingLeftOpenByInv ==
  ASSUME ScreenInv
  PROVE  NothingLeftOpen
BY DEF ScreenInv, OpenForScreen, NothingLeftOpen

LEMMA NegotiatedByInv ==
  ASSUME ScreenInv
  PROVE  Negotiated
<1> SUFFICES ASSUME AtRest, NEW v \in Users, screen[v].status = "connected", screen[v].call \notin astray
             PROVE  pc[v].call = screen[v].call /\ pc[v].state = "stable"
  BY DEF Negotiated
<1> PICK c : c = screen[v].call
  OBVIOUS
<1>1. c \in 1..calls
  <2>1. c \in 0..calls /\ calls \in Nat /\ c # 0
    BY DEF ScreenInv, CallTyped, CallType, OwnScreens
  <2> QED
    BY <2>1
<1>2. PICK u \in Users, p \in Users, n \in 1..18 : CallSound(c, u, p, n)
  BY <1>1 DEF ScreenInv, CallsSound
<1>3. v \in {u, p} /\ n = 18 /\ Reached(c, u, p, n)
  <2>1. Resting(c, u, p, n)
    BY <1>2, RestingCall
  <2> QED
    BY <2>1 DEF Resting
<1>4. pc[v].state = "stable"
  BY <1>3 DEF Reached
<1>5. pc[v].call = c
  BY <1>3 DEF Reached
<1> QED
  BY <1>4, <1>5

(* ScreensAgree: once everything has arrived, each client shows the call   *)
(* that the server has for it, in the same state, but for astray calls,    *)
(* which met an unguarded case, such as a client without listeners or a    *)
(* connection that cannot be made (CallContext's handlers against the      *)
(* activeCalls of the server).                                             *)
THEOREM ScreensComeToAgree == ScreenSpec => []ScreensAgree
BY CallScreenInvariant, ScreensAgreeByInv, PTL

(* NothingLeftOpen: at no time does a camera or a connection of the client *)
(* outlive the screen it was opened for, but for astray calls (startCall,  *)
(* acceptCall and webrtcManager.cleanup).                                  *)
THEOREM NothingStaysOpen == ScreenSpec => []NothingLeftOpen
BY CallScreenInvariant, NothingLeftOpenByInv, PTL

(* Negotiated: a call that a client shows as connected, once everything    *)
(* has arrived, has had its offer and its answer, but for astray calls,    *)
(* among them those of clients without listeners (handleAccepted,          *)
(* handleSignal).                                                          *)
THEOREM CallsAreNegotiated == ScreenSpec => []Negotiated
BY CallScreenInvariant, NegotiatedByInv, PTL
=============================================================================
