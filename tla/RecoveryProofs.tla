--------------------------- MODULE RecoveryProofs ---------------------------
(***************************************************************************)
(* What the recovery client promises, for every number of rooms, events,   *)
(* pages and generations, and whichever events the client cannot read:     *)
(* the safety properties of Recovery, from one inductive invariant.        *)
(*                                                                         *)
(* The properties speak of the stores; the invariant adds what the loop    *)
(* knows while it is the current one: the cursor it read still stands, and *)
(* the page it holds continues what is in the store.  A loop that was      *)
(* superseded knows nothing, but it never applies anything either.         *)
(***************************************************************************)
EXTENDS Recovery, SequenceTheorems, TLAPS

Looping == run.pc # "none"

Explained(s, seq) ==
  \/ Processed(s, seq)
  \/ seq < minRetained[s]
  \/ <<s, seq>> \in Unknown
  \/ s = User /\ seq <= idb.purged

(* A loop holds the promise, and its generation is not ahead. *)
GenerationsSound == Looping => run.gen <= sync.gen /\ sync.promise # 0

(* The user stream is not pruned, and a purge keeps its cursor. *)
UserStreamKept == minRetained[User] = 0 /\ idb.purged <= idb.cursor[User]

(* A cursor stops only where nothing was applied. *)
CursorStops == \A s \in Streams : ~Processed(s, idb.cursor[s] + 1)

(* A superseded loop after the purge. *)
Purged == ~Current /\ idb.rooms = {}

(* The cursor the loop has read still stands. *)
AfterIsCursor ==
  run.pc \in {"request", "find"} => run.after = idb.cursor[run.stream] \/ Purged

Applying == run.pc = "apply" /\ Current

(* A page is a run of numbers the server has given out. *)
PageInOrder ==
  run.pc = "apply" => \A i \in DOMAIN run.page :
    run.page[i] \in 1..latest[run.stream] /\ run.page[i] = run.page[1] + i - 1

(* What is missing below the page is explained. *)
PageExplained ==
  Applying /\ run.page # <<>> =>
    \A seq \in 1..(run.page[1] - 1) : Explained(run.stream, seq)

(* What the page has and a later event of the store has overtaken is       *)
(* nothing to apply any more.                                              *)
PageIsNew ==
  Applying => \A i \in DOMAIN run.page : \A j \in DOMAIN idb.applied[run.stream] :
    idb.applied[run.stream][j] > run.page[i] =>
      \/ Processed(run.stream, run.page[i])
      \/ <<run.stream, run.page[i]>> \in Unknown

(* The numbers the loop set out for were the server's. *)
GoalSound == Looping => \A s \in Streams : run.goal[s] <= latest[s]

Done(r) == CaughtUp(r) \/ Stuck(r)

(* The rooms the loop has left behind are done. *)
RoomsDone ==
  run.stream \in Rooms => \A r \in idb.rooms : r \in run.todo \/ r = run.stream \/ Done(r)

(* The page brings the room to the goal, or the room is stuck and none of  *)
(* the page can move its cursor.                                           *)
PageReaches ==
  run.stream \in Rooms /\ run.pc = "apply" =>
    LET cursor == idb.cursor[run.stream] IN
    \/ Purged
    \/ /\ run.page # <<>> => run.page[1] = cursor + 1
       /\ ~run.more => cursor + Len(run.page) >= run.goal[run.stream]
    \/ /\ run.page # <<>> => run.page[1] > cursor + 1
       /\ Stuck(run.stream)

(* The user stream has no gaps: its events are applied one after another.  *)
UserApplied == Range(idb.applied[User]) = (idb.purged + 1)..idb.cursor[User]

UserPageFollows ==
  Applying /\ run.stream = User /\ run.page # <<>> =>
    run.page[1] = idb.cursor[User] + 1

StoreSound ==
  AppliedOnceInOrder /\ CursorIsExact /\ GapsAreExplained /\ UserStreamKept /\ CursorStops
LoopSound ==
  GenerationsSound /\ AfterIsCursor /\ PageInOrder /\ PageExplained /\ PageIsNew
GoalsSound == GoalSound /\ RoomsDone /\ PageReaches
RoomsSound == UserApplied /\ UserPageFollows /\ RoomsFollowUserStream

RInv == TypeOK /\ StoreSound /\ LoopSound /\ GoalsSound /\ RoomsSound

-----------------------------------------------------------------------------
(* Facts about the types and the operators. *)

LEMMA Types ==
  ASSUME TypeOK
  PROVE  /\ \A s \in Streams :
              /\ latest[s] \in Nat /\ minRetained[s] \in Nat
              /\ idb.cursor[s] \in Nat /\ idb.applied[s] \in Seq(Nat) /\ run.goal[s] \in Nat
         /\ idb.rooms \subseteq Rooms /\ idb.purged \in Nat
         /\ sync.gen \in Nat /\ sync.promise \in Nat
         /\ run.gen \in Nat /\ run.stream \in Streams /\ run.todo \subseteq Rooms
         /\ run.after \in Nat /\ run.page \in Seq(Nat) /\ User \in Streams /\ Rooms \subseteq Streams
<1>1. User \in Streams /\ Rooms \subseteq Streams
  BY DEF Streams
<1> QED
  BY <1>1 DEF TypeOK

(* A page of the log holds the numbers from the first one retained on, and *)
(* all there are when it is not full.                                      *)
PageFrom(first, s, after, p) ==
  /\ p \in Seq(Nat) /\ first \in Nat /\ first > after /\ first >= minRetained[s]
  /\ first = after + 1 \/ first = minRetained[s]
  /\ DOMAIN p = 1..Len(p) /\ Len(p) \in Nat
  /\ \A i \in 1..Len(p) : p[i] = first + i - 1 /\ p[i] \in 1..latest[s]
  /\ p # <<>> => p[1] = first /\ Len(p) > 0
  /\ Len(p) # Limit => first + Len(p) - 1 >= latest[s]

LEMMA PageFacts ==
  ASSUME TypeOK, NEW s \in Streams, NEW after \in Nat
  PROVE  PageFrom(FirstAfter(s, after), s, after, PageAfter(s, after))
<1> DEFINE p == PageAfter(s, after)
           first == FirstAfter(s, after)
<1>1. latest[s] \in Nat /\ minRetained[s] \in Nat /\ Limit \in Nat \ {0}
  BY Types, LimitAssumption
<1>2. first \in Nat /\ first > after /\ first >= minRetained[s]
      /\ (first = after + 1 \/ first = minRetained[s])
  BY <1>1 DEF FirstAfter
<1> DEFINE count == IF latest[s] - first + 1 < Limit THEN latest[s] - first + 1 ELSE Limit
           n == IF count < 0 THEN 0 ELSE count
<1>3. p = [i \in 1..count |-> first + i - 1]
  BY DEF PageAfter
<1>4. first + n - 1 <= latest[s] \/ n = 0
  BY <1>1, <1>2
<1>5. n \in Nat /\ 1..count = 1..n
  BY <1>1, <1>2
<1>6. n # Limit => first + n - 1 >= latest[s]
  BY <1>1, <1>2
<1> HIDE DEF count, n
<1>7. p = [i \in 1..n |-> first + i - 1] /\ \A i \in 1..n : first + i - 1 \in Nat
  BY <1>2, <1>3, <1>5
<1>8. p \in [1..n -> Nat]
  BY <1>7
<1>9. p \in Seq(Nat) /\ Len(p) = n /\ DOMAIN p = 1..n
  BY <1>5, <1>8
<1>10. \A i \in 1..n : p[i] = first + i - 1 /\ p[i] \in 1..latest[s]
  BY <1>1, <1>2, <1>4, <1>5, <1>7
<1>11. p # <<>> => n > 0 /\ 1 \in 1..n
  BY <1>5, <1>9
<1>12. p # <<>> => p[1] = first
  BY <1>2, <1>10, <1>11
<1> HIDE DEF p, first
<1>13. PageFrom(first, s, after, p)
  BY <1>2, <1>5, <1>6, <1>9, <1>10, <1>11, <1>12 DEF PageFrom
<1> QED
  BY <1>13 DEF p, first

(* What is left of a page after its first event. *)
LEMMA RestOfPage ==
  ASSUME NEW p \in Seq(Nat), p # <<>>
  PROVE  /\ Head(p) = p[1] /\ p[1] \in Nat /\ 1 \in DOMAIN p
         /\ Tail(p) \in Seq(Nat) /\ Len(Tail(p)) = Len(p) - 1 /\ Len(p) \in Nat
         /\ \A i \in DOMAIN Tail(p) : i \in Nat /\ i + 1 \in DOMAIN p /\ Tail(p)[i] = p[i + 1]
         /\ Tail(p) # <<>> => 1 \in DOMAIN Tail(p)
<1>1. Len(p) \in Nat \ {0} /\ DOMAIN p = 1..Len(p) /\ \A i \in 1..Len(p) : p[i] \in Nat
  OBVIOUS
<1>2. Head(p) = p[1] /\ 1 \in DOMAIN p
  BY <1>1
<1>3. /\ Tail(p) \in Seq(Nat) /\ Len(Tail(p)) = Len(p) - 1
      /\ \A i \in 1..(Len(p) - 1) : Tail(p)[i] = p[i + 1]
  BY <1>1
<1>4. DOMAIN Tail(p) = 1..(Len(p) - 1)
  BY <1>3
<1>5. Tail(p) # <<>> => 1 \in DOMAIN Tail(p)
  BY <1>1, <1>3, <1>4
<1> QED
  BY <1>1, <1>2, <1>3, <1>4, <1>5

LEMMA InitRInv == Init => RInv
<1> SUFFICES ASSUME Init PROVE RInv
  OBVIOUS
<1>1. /\ latest = [s \in Streams |-> 0] /\ minRetained = [s \in Streams |-> 0] /\ userLog = <<>>
      /\ User \in Streams
  BY DEF Init, Streams
<1>2. /\ idb.cursor = [s \in Streams |-> 0] /\ idb.applied = [s \in Streams |-> <<>>]
      /\ idb.rooms = {} /\ idb.purged = 0
  BY DEF Init, EmptyIdb
<1>3. run.pc = "none" /\ run.stream = User /\ User \notin Rooms
  BY StreamsAssumption DEF Init, NoRun
<1>4. TypeOK
  BY <1>1 DEF Init, TypeOK, EmptyIdb, NoRun, FreshSync, States
<1>5. \A s \in Streams : \A seq : ~Processed(s, seq)
  BY <1>2 DEF Processed, Range
<1>6. StoreSound
  BY <1>1, <1>2, <1>5
  DEF StoreSound, AppliedOnceInOrder, CursorIsExact, GapsAreExplained, UserStreamKept, CursorStops
<1>7. LoopSound /\ GoalsSound /\ UserPageFollows
  BY <1>3
  DEF LoopSound, GenerationsSound, AfterIsCursor, PageInOrder, PageExplained, PageIsNew,
      GoalsSound, GoalSound, RoomsDone, PageReaches, UserPageFollows, Looping, Applying
<1>8. UserApplied
  BY <1>1, <1>2 DEF UserApplied, Range
<1>9. RoomsFollowUserStream
  <2>1. SubSeq(userLog, 1, 0) = <<>>
    BY <1>1
  <2>2. Replay(<<>>) = {}
    BY DEF Replay
  <2>3. idb.purged + 1 = 1 /\ idb.cursor[User] = 0 /\ idb.rooms = {}
    BY <1>1, <1>2
  <2> QED
    BY <2>1, <2>2, <2>3, Zenon DEF RoomsFollowUserStream
<1> QED
  BY <1>4, <1>6, <1>7, <1>8, <1>9 DEF RInv, RoomsSound

-----------------------------------------------------------------------------
(* Steps that leave the store, or the loop, as it is. *)

LEMMA StoreKept ==
  ASSUME StoreSound, UserApplied, RoomsFollowUserStream, UNCHANGED <<server, idb>>
  PROVE  StoreSound' /\ UserApplied' /\ RoomsFollowUserStream'
  BY DEF server, StoreSound, AppliedOnceInOrder, CursorIsExact, GapsAreExplained,
         UserStreamKept, CursorStops, UserApplied, RoomsFollowUserStream, Processed

LEMMA NoLoop ==
  ASSUME run' = NoRun
  PROVE  LoopSound' /\ GoalsSound' /\ UserPageFollows'
<1>1. run'.pc = "none" /\ run'.stream = User /\ User \notin Rooms
  BY StreamsAssumption DEF NoRun
<1> QED
  BY <1>1
  DEF LoopSound, GenerationsSound, AfterIsCursor, PageInOrder, PageExplained, PageIsNew,
      GoalsSound, GoalSound, RoomsDone, PageReaches, UserPageFollows, Looping, Applying

LEMMA LoopKept ==
  ASSUME RInv, run' = run, UNCHANGED <<server, idb>>, sync'.gen \in Nat,
         sync'.gen >= sync.gen, sync'.promise = sync.promise
  PROVE  LoopSound' /\ GoalsSound' /\ UserPageFollows'
<1>1. LoopSound /\ GoalsSound /\ UserPageFollows /\ run.gen \in Nat /\ sync.gen \in Nat
  BY Types DEF RInv, RoomsSound
<1>2. Looping /\ Current' => Current
  BY <1>1 DEF LoopSound, GenerationsSound, Current
<1>3. Looping /\ Purged => Purged'
  BY <1>2 DEF Purged
<1>4. GenerationsSound'
  BY <1>1 DEF LoopSound, GenerationsSound, Looping
<1>5. AfterIsCursor'
  BY <1>1, <1>3 DEF LoopSound, AfterIsCursor, Looping
<1>6. PageInOrder' /\ GoalSound'
  BY <1>1 DEF server, LoopSound, GoalsSound, PageInOrder, GoalSound, Looping
<1>7. PageExplained' /\ PageIsNew' /\ UserPageFollows'
  BY <1>1, <1>2
  DEF server, LoopSound, PageExplained, PageIsNew, UserPageFollows, Applying, Looping,
      Explained, Processed
<1>8. RoomsDone'
  BY <1>1 DEF server, GoalsSound, RoomsDone, Done, CaughtUp, Stuck, NeedsResync
<1>9. PageReaches'
  BY <1>1, <1>3 DEF server, GoalsSound, PageReaches, Looping, Stuck, NeedsResync
<1> QED
  BY <1>4, <1>5, <1>6, <1>7, <1>8, <1>9 DEF LoopSound, GoalsSound

-----------------------------------------------------------------------------
(* Replaying the user's events. *)

UserEvents == [room : Rooms, granted : BOOLEAN]

(* The events before the end of the log do not change when it grows.       *)
LEMMA PrefixKept ==
  ASSUME NEW log \in Seq(UserEvents), NEW e \in UserEvents,
         NEW m \in Nat \ {0}, NEW n \in Nat, n <= Len(log)
  PROVE  SubSeq(Append(log, e), m, n) = SubSeq(log, m, n)
<1>1. Len(log) \in Nat /\ \A i \in 1..Len(log) : Append(log, e)[i] = log[i]
  BY AppendProperties
<1>2. \A i \in 1..(1 + n - m) : i + m - 1 \in 1..Len(log)
  BY <1>1
<1> QED
  BY <1>1, <1>2 DEF SubSeq

(* One more event grants its room or takes it. *)
LEMMA ReplayNext ==
  ASSUME NEW log \in Seq(UserEvents), NEW m \in Nat \ {0}, NEW c \in Nat,
         m <= c + 1, c + 1 <= Len(log), NEW e, e = log[c + 1]
  PROVE  /\ e \in UserEvents
         /\ \A r \in Rooms : r \in Replay(SubSeq(log, m, c + 1)) <=>
              IF r = e.room THEN e.granted ELSE r \in Replay(SubSeq(log, m, c))
<1> DEFINE n == c + 1 - m
           S == SubSeq(log, m, c)
           T == SubSeq(log, m, c + 1)
<1>1. /\ n \in Nat /\ Len(log) \in Nat /\ e \in UserEvents
      /\ \A i \in 1..Len(log) : log[i] \in UserEvents
  OBVIOUS
<1>2. \A i \in m..(c + 1) : log[i] \in UserEvents
  BY <1>1
<1>3. S \in Seq(UserEvents) /\ Len(S) = n /\ \A i \in 1..n : S[i] = log[m + i - 1]
  BY <1>1, <1>2, SubSeqProperties
<1>4. T \in Seq(UserEvents) /\ Len(T) = n + 1 /\ \A i \in 1..(n + 1) : T[i] = log[m + i - 1]
  BY <1>1, <1>2, SubSeqProperties
<1>5. DOMAIN S = 1..n /\ DOMAIN T = 1..(n + 1)
  BY <1>3, <1>4
<1>6. T[n + 1] = e /\ \A i \in 1..n : T[i] = S[i]
  BY <1>1, <1>3, <1>4
<1>7. e.room \in Rooms /\ e.granted \in BOOLEAN /\ e = [room |-> e.room, granted |-> e.granted]
  BY <1>1 DEF UserEvents
<1> HIDE DEF n, S, T
<1>8. ASSUME NEW r \in Rooms
      PROVE  r \in Replay(T) <=> IF r = e.room THEN e.granted ELSE r \in Replay(S)
  <2> DEFINE G == [room |-> r, granted |-> TRUE]
  <2>1. CASE r = e.room
    <3>1. ASSUME r \in Replay(T) PROVE e.granted
      <4>1. PICK i \in 1..(n + 1) : T[i] = G /\ \A j \in (i + 1)..(n + 1) : T[j].room # r
        BY <3>1, <1>4, <1>5 DEF Replay
      <4>2. i = n + 1
        BY <4>1, <1>1, <1>6, <2>1
      <4> QED
        BY <4>1, <4>2, <1>6
    <3>2. ASSUME e.granted PROVE r \in Replay(T)
      <4>1. e = G
        BY <3>2, <2>1, <1>7
      <4>2. n + 1 \in DOMAIN T /\ T[n + 1] = G /\ \A j \in (n + 2)..Len(T) : T[j].room # r
        BY <4>1, <1>1, <1>4, <1>5, <1>6
      <4> QED
        BY <4>2, <1>1 DEF Replay
    <3> QED
      BY <2>1, <3>1, <3>2, <1>7
  <2>2. CASE r # e.room
    <3>1. ASSUME r \in Replay(T) PROVE r \in Replay(S)
      <4>1. PICK i \in 1..(n + 1) : T[i] = G /\ \A j \in (i + 1)..(n + 1) : T[j].room # r
        BY <3>1, <1>4, <1>5 DEF Replay
      <4>2. i \in 1..n
        BY <4>1, <1>1, <1>6, <2>2
      <4>3. S[i] = G /\ \A j \in (i + 1)..n : S[j].room # r
        BY <4>1, <4>2, <1>1, <1>6
      <4> QED
        BY <4>2, <4>3, <1>3, <1>5 DEF Replay
    <3>2. ASSUME r \in Replay(S) PROVE r \in Replay(T)
      <4>1. PICK i \in 1..n : S[i] = G /\ \A j \in (i + 1)..n : S[j].room # r
        BY <3>2, <1>3, <1>5 DEF Replay
      <4>2. T[i] = G /\ i \in 1..(n + 1) /\ \A j \in (i + 1)..(n + 1) : T[j].room # r
        BY <4>1, <1>1, <1>6, <2>2
      <4> QED
        BY <4>2, <1>4, <1>5 DEF Replay
    <3> QED
      BY <2>2, <3>1, <3>2
  <2> QED
    BY <2>1, <2>2
<1> QED
  BY <1>1, <1>8 DEF S, T

-----------------------------------------------------------------------------
(* The server's steps: logs grow, and floors rise. *)

LEMMA ServerGrows ==
  ASSUME RInv, UNCHANGED <<idb, sync, run>>, latest' \in [Streams -> Nat],
         minRetained' \in [Streams -> Nat], minRetained'[User] = 0,
         \A s \in Streams : latest'[s] >= latest[s] /\ minRetained'[s] >= minRetained[s]
  PROVE  StoreSound' /\ LoopSound' /\ GoalsSound' /\ UserApplied' /\ UserPageFollows'
<1>0. idb' = idb /\ sync' = sync /\ run' = run
  OBVIOUS
<1>1. StoreSound /\ LoopSound /\ GoalsSound /\ UserApplied /\ UserPageFollows
  BY DEF RInv, RoomsSound
<1>2. /\ \A s \in Streams : /\ latest[s] \in Nat /\ latest'[s] \in Nat
                            /\ minRetained[s] \in Nat /\ minRetained'[s] \in Nat
                            /\ idb.cursor[s] \in Nat /\ idb.applied[s] \in Seq(Nat)
                            /\ run.goal[s] \in Nat
      /\ run.stream \in Streams /\ run.page \in Seq(Nat) /\ idb.rooms \subseteq Streams
  BY Types DEF RInv
<1>3. \A s \in Streams : \A seq : Processed(s, seq)' <=> Processed(s, seq)
  BY DEF Processed
<1>4. \A s \in Streams, seq \in Nat : Explained(s, seq) => Explained(s, seq)'
  BY <1>2, <1>3 DEF Explained
<1>5. \A r \in Streams : Stuck(r) => Stuck(r)'
  BY <1>2 DEF Stuck, NeedsResync
<1>6. AppliedOnceInOrder' /\ CursorStops' /\ UserStreamKept'
  BY <1>1, <1>3 DEF StoreSound, AppliedOnceInOrder, CursorStops, UserStreamKept
<1>7. CursorIsExact'
  BY <1>1, <1>2, <1>3, SMTT(30) DEF StoreSound, CursorIsExact
<1>8. GapsAreExplained'
  <2> SUFFICES ASSUME NEW s \in Streams, NEW i \in DOMAIN idb.applied[s],
                      NEW seq \in 1..idb.applied[s][i]
               PROVE  Explained(s, seq)'
    BY DEF GapsAreExplained, Explained
  <2>1. idb.applied[s][i] \in Nat /\ seq \in Nat
    BY <1>2
  <2>2. Explained(s, seq)
    BY <1>1 DEF StoreSound, GapsAreExplained, Explained
  <2> QED
    BY <2>1, <2>2, <1>4
<1>9. GenerationsSound' /\ AfterIsCursor' /\ UserApplied'
  BY <1>0, <1>1
  DEF LoopSound, GenerationsSound, AfterIsCursor, UserApplied, Looping, Current, Purged
<1>15. PageIsNew' /\ UserPageFollows'
  BY <1>0, <1>1, <1>3
  DEF LoopSound, PageIsNew, UserPageFollows, Applying, Current, Processed
<1>10. PageInOrder'
  <2> SUFFICES ASSUME run.pc = "apply", NEW i \in DOMAIN run.page
               PROVE  run.page[i] \in 1..latest'[run.stream] /\ run.page[i] = run.page[1] + i - 1
    BY <1>0 DEF PageInOrder
  <2>1. run.page[i] \in 1..latest[run.stream] /\ run.page[i] = run.page[1] + i - 1
    BY <1>1 DEF LoopSound, PageInOrder
  <2> QED
    BY <2>1, <1>2
<1>11. PageExplained'
  <2> SUFFICES ASSUME Applying, run.page # <<>>, NEW seq \in 1..(run.page[1] - 1)
               PROVE  Explained(run.stream, seq)'
    BY DEF PageExplained, Applying, Current, Explained
  <2>1. run.page[1] \in Nat
    BY <1>2
  <2>2. Explained(run.stream, seq)
    BY <1>1 DEF LoopSound, PageExplained
  <2>3. \A s \in Streams : s = run.stream => Explained(s, seq)'
    BY <2>1, <2>2, <1>4
  <2> QED
    BY <2>3, <1>2 DEF Explained
<1>12. GoalSound'
  <2> SUFFICES ASSUME Looping, NEW s \in Streams PROVE run.goal[s] <= latest'[s]
    BY <1>0 DEF GoalSound, Looping
  <2>1. run.goal[s] <= latest[s]
    BY <1>1 DEF GoalsSound, GoalSound
  <2> QED
    BY <2>1, <1>2
<1>13. RoomsDone'
  BY <1>1, <1>2, <1>5 DEF GoalsSound, RoomsDone, Done, CaughtUp
<1>14. PageReaches'
  BY <1>1, <1>2, <1>5
  DEF GoalsSound, PageReaches, Purged, Current, Stuck, NeedsResync
<1> QED
  BY <1>6, <1>7, <1>8, <1>9, <1>10, <1>15, <1>11, <1>12, <1>13, <1>14
  DEF StoreSound, LoopSound, GoalsSound

LEMMA PostEventStep ==
  ASSUME RInv, NEW r \in Rooms, PostEvent(r)
  PROVE  RInv'
<1>1. TypeOK /\ RoomsSound /\ StoreSound
  BY DEF RInv
<1>2. /\ latest' = [latest EXCEPT ![r] = latest[r] + 1]
      /\ minRetained' = minRetained /\ userLog' = userLog /\ idb' = idb /\ sync' = sync /\ run' = run
  BY DEF PostEvent
<1>3. r \in Streams /\ r # User /\ User \in Streams
  BY StreamsAssumption DEF Streams
<1>0. /\ latest \in [Streams -> Nat] /\ minRetained \in [Streams -> Nat]
      /\ minRetained[User] = 0
  BY <1>1 DEF TypeOK, StoreSound, UserStreamKept
<1>4. /\ latest' \in [Streams -> Nat] /\ latest'[User] = latest[User]
      /\ \A s \in Streams : latest'[s] >= latest[s] /\ minRetained'[s] >= minRetained[s]
      /\ minRetained' \in [Streams -> Nat] /\ minRetained'[User] = 0
  BY <1>0, <1>2, <1>3
<1>5. StoreSound' /\ LoopSound' /\ GoalsSound' /\ UserApplied' /\ UserPageFollows'
  BY <1>2, <1>4, ServerGrows
<1>6. TypeOK'
  BY <1>1, <1>2, <1>4 DEF TypeOK
<1>7. RoomsFollowUserStream'
  BY <1>1, <1>2 DEF RoomsSound, RoomsFollowUserStream
<1> QED
  BY <1>5, <1>6, <1>7 DEF RInv, RoomsSound

LEMMA PruneStep ==
  ASSUME RInv, NEW r \in Rooms, Prune(r)
  PROVE  RInv'
<1>1. TypeOK /\ RoomsSound /\ StoreSound
  BY DEF RInv
<1>2. PICK boundary \in 1..latest[r] :
        boundary >= minRetained[r] /\ minRetained' = [minRetained EXCEPT ![r] = boundary + 1]
  BY DEF Prune
<1>3. r \in Streams /\ r # User /\ User \in Streams
  BY StreamsAssumption DEF Streams
<1>4. latest' = latest /\ userLog' = userLog /\ idb' = idb /\ sync' = sync /\ run' = run
  BY DEF Prune
<1>0. /\ latest \in [Streams -> Nat] /\ minRetained \in [Streams -> Nat]
      /\ minRetained[User] = 0
  BY <1>1 DEF TypeOK, StoreSound, UserStreamKept
<1>5. /\ latest' \in [Streams -> Nat] /\ minRetained' \in [Streams -> Nat]
      /\ minRetained'[User] = 0
      /\ \A s \in Streams : latest'[s] >= latest[s] /\ minRetained'[s] >= minRetained[s]
  BY <1>0, <1>2, <1>3, <1>4
<1>6. StoreSound' /\ LoopSound' /\ GoalsSound' /\ UserApplied' /\ UserPageFollows'
  BY <1>4, <1>5, ServerGrows
<1>7. TypeOK'
  BY <1>1, <1>4, <1>5 DEF TypeOK
<1>8. RoomsFollowUserStream'
  BY <1>1, <1>4 DEF RoomsSound, RoomsFollowUserStream
<1> QED
  BY <1>6, <1>7, <1>8 DEF RInv, RoomsSound

LEMMA ChangeAccessStep ==
  ASSUME RInv, NEW r \in Rooms, ChangeAccess(r)
  PROVE  RInv'
<1>1. TypeOK /\ RoomsSound /\ StoreSound
  BY DEF RInv
<1> DEFINE e == [room |-> r, granted |-> ~Member(r)]
<1>2. /\ latest' = [latest EXCEPT ![r] = latest[r] + 1, ![User] = latest[User] + 1]
      /\ userLog' = Append(userLog, e)
      /\ minRetained' = minRetained /\ idb' = idb /\ sync' = sync /\ run' = run
  BY StreamsAssumption DEF ChangeAccess, TypeOK
<1>3. r \in Streams /\ r # User /\ User \in Streams
  BY StreamsAssumption DEF Streams
<1>4. Member(r) \in BOOLEAN
  BY DEF Member
<1>5. e \in UserEvents
  BY <1>4 DEF UserEvents
<1> HIDE DEF e
<1>6. userLog \in Seq(UserEvents) /\ Len(userLog) = latest[User] /\ latest[User] \in Nat
  BY <1>1, <1>3 DEF TypeOK, UserEvents
<1>7. userLog' \in Seq(UserEvents) /\ Len(userLog') = latest[User] + 1
  BY <1>2, <1>5, <1>6, AppendProperties
<1>0. /\ latest \in [Streams -> Nat] /\ minRetained \in [Streams -> Nat]
      /\ minRetained[User] = 0
  BY <1>1 DEF TypeOK, StoreSound, UserStreamKept
<1>8. /\ latest' \in [Streams -> Nat] /\ latest'[User] = latest[User] + 1
      /\ minRetained' \in [Streams -> Nat] /\ minRetained'[User] = 0
      /\ \A s \in Streams : latest'[s] >= latest[s] /\ minRetained'[s] >= minRetained[s]
  <2> DEFINE a == latest[r] + 1
             b == latest[User] + 1
  <2>1. a \in Nat /\ b \in Nat /\ a >= latest[r] /\ b >= latest[User]
    BY <1>0, <1>3
  <2>2. \A s \in Streams : latest[s] >= latest[s] /\ minRetained[s] >= minRetained[s]
    BY <1>0
  <2>3. latest' = [latest EXCEPT ![r] = a, ![User] = b] /\ minRetained' = minRetained
    BY <1>2
  <2>4. latest'[User] = b /\ \A s \in Streams : latest'[s] \in {latest[s], a, b}
    BY <2>3, <1>0, <1>3
  <2> HIDE DEF a, b
  <2>5. latest' \in [Streams -> Nat]
    BY <2>1, <2>3, <1>0, <1>3
  <2>6. \A s \in Streams : latest'[s] >= latest[s]
    BY <2>1, <2>2, <2>3, <1>0, <1>3
  <2> QED
    BY <2>2, <2>3, <2>4, <2>5, <2>6, <1>0 DEF b
<1>9. StoreSound' /\ LoopSound' /\ GoalsSound' /\ UserApplied' /\ UserPageFollows'
  BY <1>2, <1>8, ServerGrows
<1>10. TypeOK'
  BY <1>1, <1>2, <1>7, <1>8 DEF TypeOK, UserEvents
<1>11. RoomsFollowUserStream'
  <2>1. idb.purged + 1 \in Nat \ {0} /\ idb.cursor[User] \in Nat /\ idb.cursor[User] <= latest[User]
    BY <1>1, <1>3, Types DEF StoreSound, CursorIsExact
  <2>2. SubSeq(userLog', idb.purged + 1, idb.cursor[User])
          = SubSeq(userLog, idb.purged + 1, idb.cursor[User])
    BY <2>1, <1>2, <1>5, <1>6, PrefixKept
  <2> QED
    BY <2>2, <1>1, <1>2 DEF RoomsSound, RoomsFollowUserStream
<1> QED
  BY <1>9, <1>10, <1>11 DEF RInv, RoomsSound

-----------------------------------------------------------------------------
(* The app's steps: a loop goes on, starts, or is gone. *)

SyncType ==
  [state : States, gen : Nat, promise : Nat, subscribed : BOOLEAN,
   app : {"active", "paused", "loggedOut"}]

IdbType ==
  [cursor : [Streams -> Nat], applied : [Streams -> Seq(Nat)], rooms : SUBSET Rooms, purged : Nat]

RunType ==
  [pc : {"none", "read", "request", "find", "apply", "cleanup", "rooms"},
   gen : Nat, pass : {1, 2}, stream : Streams, todo : SUBSET Rooms,
   after : Nat, page : Seq(Nat), more : BOOLEAN, goal : [Streams -> Nat]]

LEMMA CancelledSync ==
  ASSUME NEW s \in SyncType, NEW a \in {"active", "paused", "loggedOut"}
  PROVE  LET c == [Cancelled(s) EXCEPT !.app = a] IN
         c \in SyncType /\ c.gen = s.gen + 1 /\ c.promise = s.promise
<1>1. "IDLE" \in States
  BY DEF States
<1> DEFINE g == s.gen + 1
<1>2. g \in Nat
  BY DEF SyncType
<1> HIDE DEF g
<1>3. LET c == [s EXCEPT !.gen = g, !.state = "IDLE", !.app = a] IN
      c \in SyncType /\ c.gen = g /\ c.promise = s.promise
  BY <1>1, <1>2 DEF SyncType
<1> QED
  BY <1>3 DEF g, Cancelled

LEMMA StartedSync ==
  ASSUME NEW s \in SyncType
  PROVE  LET c == [s EXCEPT !.gen = s.gen + 1, !.promise = s.gen + 1,
                            !.state = "RECOVERING_USER_STREAM"] IN
         c \in SyncType /\ c.gen = s.gen + 1 /\ c.promise = s.gen + 1
<1>1. "RECOVERING_USER_STREAM" \in States
  BY DEF States
<1> DEFINE g == s.gen + 1
<1>2. g \in Nat
  BY DEF SyncType
<1> HIDE DEF g
<1>3. LET c == [s EXCEPT !.gen = g, !.promise = g, !.state = "RECOVERING_USER_STREAM"] IN
      c \in SyncType /\ c.gen = g /\ c.promise = g
  BY <1>1, <1>2 DEF SyncType
<1> QED
  BY <1>3 DEF g

LEMMA NoRunTyped == NoRun \in RunType
<1>1. User \in Streams /\ <<>> \in Seq(Nat) /\ [s \in Streams |-> 0] \in [Streams -> Nat]
  BY DEF Streams
<1> QED
  BY <1>1 DEF NoRun, RunType

LEMMA RunSet ==
  ASSUME NEW r \in RunType, NEW g \in Nat, NEW goal \in [Streams -> Nat]
  PROVE  [r EXCEPT !.pc = "read", !.gen = g, !.goal = goal] \in RunType
  BY DEF RunType

LEMMA StartOrJoinStep ==
  ASSUME RInv, NEW s, s = sync \/ s = [sync EXCEPT !.app = "active"],
         StartOrJoin(s), UNCHANGED <<server, idb>>
  PROVE  RInv'
<1>1. TypeOK /\ StoreSound /\ RoomsSound
  BY DEF RInv
<1>2. /\ s \in SyncType
      /\ s.gen = sync.gen /\ s.promise = sync.promise
  BY <1>1 DEF TypeOK, SyncType
<1>3. StoreSound' /\ UserApplied' /\ RoomsFollowUserStream'
  BY <1>1, StoreKept DEF RoomsSound
<1>4. latest' = latest /\ minRetained' = minRetained /\ userLog' = userLog /\ idb' = idb
  BY DEF server
<1>5. CASE s.promise # 0
  <2>1. sync' = s /\ run' = run
    BY <1>5 DEF StartOrJoin
  <2>4. s.gen \in Nat /\ s.gen >= sync.gen
    BY <1>1, <1>2, Types
  <2>2. LoopSound' /\ GoalsSound' /\ UserPageFollows'
    BY <2>1, <2>4, <1>2, LoopKept
  <2>3. TypeOK'
    BY <2>1, <1>1, <1>2, <1>4 DEF TypeOK, SyncType
  <2> QED
    BY <2>2, <2>3, <1>3 DEF RInv, RoomsSound
<1>6. CASE s.promise = 0
  <2>1. /\ sync' = [s EXCEPT !.gen = s.gen + 1, !.promise = s.gen + 1,
                             !.state = "RECOVERING_USER_STREAM"]
        /\ run' = [NoRun EXCEPT !.pc = "read", !.gen = s.gen + 1, !.goal = latest]
    BY <1>6 DEF StartOrJoin
  <2>2. /\ sync'.gen = s.gen + 1 /\ sync'.promise = s.gen + 1 /\ sync' \in SyncType
    BY <2>1, <1>2, StartedSync
  <2>9. s.gen \in Nat
    BY <1>2 DEF SyncType
  <2>3. /\ run'.pc = "read" /\ run'.gen = s.gen + 1 /\ run'.goal = latest /\ run'.stream = User
        /\ run'.after = 0 /\ run'.page = <<>> /\ run'.more = FALSE /\ run'.todo = {}
        /\ run'.pass = 1
    BY <2>1 DEF NoRun
  <2>4. latest \in [Streams -> Nat] /\ User \in Streams /\ User \notin Rooms
    BY <1>1, StreamsAssumption DEF TypeOK, Streams
  <2>5. run' \in RunType
    <3> DEFINE g == s.gen + 1
    <3>1. g \in Nat
      BY <2>9
    <3> HIDE DEF g
    <3>2. [NoRun EXCEPT !.pc = "read", !.gen = g, !.goal = latest] \in RunType
      BY <3>1, <2>4, NoRunTyped, RunSet
    <3> QED
      BY <2>1, <3>2 DEF g
  <2>6. TypeOK'
    BY <2>2, <2>5, <1>1, <1>4 DEF TypeOK, SyncType, RunType
  <2>7. GenerationsSound' /\ GoalSound'
    BY <2>2, <2>3, <2>4, <2>9, <1>4 DEF GenerationsSound, GoalSound, Looping
  <2>8. /\ AfterIsCursor' /\ PageInOrder' /\ PageExplained' /\ PageIsNew'
        /\ RoomsDone' /\ PageReaches' /\ UserPageFollows'
    BY <2>3, <2>4
    DEF AfterIsCursor, PageInOrder, PageExplained, PageIsNew, RoomsDone, PageReaches,
        UserPageFollows, Applying
  <2> QED
    BY <2>6, <2>7, <2>8, <1>3 DEF RInv, LoopSound, GoalsSound, RoomsSound
<1> QED
  BY <1>5, <1>6

LEMMA PauseStep == RInv /\ Pause => RInv'
<1> SUFFICES ASSUME RInv, Pause PROVE RInv'
  OBVIOUS
<1>1. TypeOK /\ StoreSound /\ RoomsSound
  BY DEF RInv
<1>2. /\ sync' = [Cancelled(sync) EXCEPT !.app = "paused"] /\ run' = run
      /\ UNCHANGED <<server, idb>>
  BY DEF Pause
<1>3. /\ sync'.gen = sync.gen + 1 /\ sync'.promise = sync.promise /\ sync.gen \in Nat
      /\ sync' \in SyncType
  <2>1. sync \in SyncType /\ sync.gen \in Nat
    BY <1>1 DEF TypeOK, SyncType
  <2> QED
    BY <2>1, <1>2, CancelledSync
<1>4. TypeOK'
  BY <1>1, <1>2, <1>3 DEF TypeOK, SyncType, server
<1>5. LoopSound' /\ GoalsSound' /\ UserPageFollows'
  BY <1>2, <1>3, LoopKept
<1>6. StoreSound' /\ UserApplied' /\ RoomsFollowUserStream'
  BY <1>1, <1>2, StoreKept DEF RoomsSound
<1> QED
  BY <1>4, <1>5, <1>6 DEF RInv, RoomsSound

LEMMA ReloadStep == RInv /\ Reload => RInv'
<1> SUFFICES ASSUME RInv, Reload PROVE RInv'
  OBVIOUS
<1>1. TypeOK /\ StoreSound /\ RoomsSound
  BY DEF RInv
<1>2. run' = NoRun /\ UNCHANGED <<server, idb>>
  BY DEF Reload
<1>3. sync' = [FreshSync EXCEPT !.app = "active"]
      \/ sync' = [FreshSync EXCEPT !.app = "loggedOut"]
  BY DEF Reload
<1>4. sync' \in SyncType
  <2>1. "IDLE" \in States
    BY DEF States
  <2>2. FreshSync \in SyncType
    BY <2>1 DEF FreshSync, SyncType
  <2>3. \A a \in {"active", "paused", "loggedOut"} : [FreshSync EXCEPT !.app = a] \in SyncType
    BY <2>2 DEF SyncType
  <2> QED
    BY <1>3, <2>3
<1>5. run' \in RunType
  BY <1>2, NoRunTyped
<1>6. TypeOK'
  BY <1>1, <1>2, <1>4, <1>5 DEF TypeOK, SyncType, RunType, server
<1>7. StoreSound' /\ UserApplied' /\ RoomsFollowUserStream'
  BY <1>1, <1>2, StoreKept DEF RoomsSound
<1> QED
  BY <1>2, <1>6, <1>7, NoLoop DEF RInv, RoomsSound

LEMMA TriggerResumeLogin == RInv /\ (Trigger \/ Resume \/ Login) => RInv'
<1>1. ASSUME RInv, Trigger PROVE RInv'
  <2>1. StartOrJoin(sync) /\ UNCHANGED <<server, idb>>
    BY <1>1 DEF Trigger
  <2> QED
    BY <1>1, <2>1, StartOrJoinStep
<1>2. ASSUME RInv, Resume PROVE RInv'
  <2>1. StartOrJoin([sync EXCEPT !.app = "active"]) /\ UNCHANGED <<server, idb>>
    BY <1>2 DEF Resume
  <2> QED
    BY <1>2, <2>1, StartOrJoinStep
<1>3. ASSUME RInv, Login PROVE RInv'
  <2>1. StartOrJoin([sync EXCEPT !.app = "active"]) /\ UNCHANGED <<server, idb>>
    BY <1>3 DEF Login
  <2> QED
    BY <1>3, <2>1, StartOrJoinStep
<1> QED
  BY <1>1, <1>2, <1>3

(* The purge empties the store under a loop that is superseded by it. *)
LEMMA LogoutStep == RInv /\ Logout => RInv'
<1> SUFFICES ASSUME RInv, Logout PROVE RInv'
  OBVIOUS
<1>1. TypeOK /\ StoreSound /\ LoopSound /\ GoalsSound
  BY DEF RInv
<1>2. /\ sync' = [Cancelled(sync) EXCEPT !.app = "loggedOut", !.subscribed = FALSE]
      /\ idb' = Purge(idb) /\ run' = run
      /\ latest' = latest /\ minRetained' = minRetained /\ userLog' = userLog
  BY DEF Logout, server
<1> DEFINE c == idb.cursor[User]
<1>3. /\ c \in Nat /\ c <= latest[User] /\ User \in Streams /\ User \notin Rooms
      /\ minRetained[User] = 0 /\ latest \in [Streams -> Nat]
      /\ idb.cursor \in [Streams -> Nat]
  BY <1>1, Types, StreamsAssumption DEF StoreSound, CursorIsExact, UserStreamKept, TypeOK
<1>4. /\ idb'.cursor = [s \in Streams |-> IF s = User THEN c ELSE 0]
      /\ idb'.applied = [s \in Streams |-> <<>>] /\ idb'.rooms = {} /\ idb'.purged = c
      /\ idb' = [cursor |-> idb'.cursor, applied |-> idb'.applied, rooms |-> {}, purged |-> c]
  BY <1>2, <1>3 DEF Purge, EmptyIdb
<1> HIDE DEF c
<1>5. sync' \in SyncType /\ sync'.gen = sync.gen + 1 /\ sync'.promise = sync.promise
  <2>1. sync \in SyncType
    BY <1>1 DEF TypeOK, SyncType
  <2>2. LET d == [Cancelled(sync) EXCEPT !.app = "loggedOut"] IN
        d \in SyncType /\ d.gen = sync.gen + 1 /\ d.promise = sync.promise
    BY <2>1, CancelledSync
  <2>3. \A d \in SyncType : LET e == [d EXCEPT !.subscribed = FALSE] IN
          e \in SyncType /\ e.gen = d.gen /\ e.promise = d.promise
    BY DEF SyncType
  <2> HIDE DEF Cancelled
  <2> QED
    BY <1>2, <2>2, <2>3
<1>6. TypeOK'
  <2>1. idb' \in [cursor : [Streams -> Nat], applied : [Streams -> Seq(Nat)],
                  rooms : SUBSET Rooms, purged : Nat]
    <3>1. idb'.cursor \in [Streams -> Nat] /\ idb'.applied \in [Streams -> Seq(Nat)]
      BY <1>3, <1>4
    <3> QED
      BY <3>1, <1>3, <1>4
  <2> QED
    BY <2>1, <1>1, <1>2, <1>5 DEF TypeOK, SyncType
<1>7. \A s \in Streams : DOMAIN idb'.applied[s] = {}
  BY <1>4
<1>8. \A s \in Streams : \A seq : ~Processed(s, seq)'
  BY <1>7 DEF Processed, Range
<1>9. AppliedOnceInOrder' /\ GapsAreExplained' /\ CursorStops' /\ UserStreamKept'
  BY <1>2, <1>3, <1>4, <1>7, <1>8
  DEF AppliedOnceInOrder, GapsAreExplained, CursorStops, UserStreamKept
<1>10. CursorIsExact'
  <2>1. \A s \in Streams : idb'.cursor[s] = IF s = User THEN c ELSE 0
    BY <1>4
  <2>2. \A s \in Streams : latest[s] \in Nat
    BY <1>3
  <2> QED
    BY <1>2, <1>3, <1>4, <2>1, <2>2 DEF CursorIsExact
<1>11. Looping => ~Current' /\ Purged'
  <2>1. run.gen \in Nat /\ sync.gen \in Nat /\ (Looping => run.gen <= sync.gen)
    BY <1>1, Types DEF LoopSound, GenerationsSound
  <2>2. Looping => run.gen # sync.gen + 1
    BY <2>1
  <2> QED
    BY <2>2, <1>2, <1>4, <1>5 DEF Current, Purged
<1>12. GenerationsSound' /\ GoalSound'
  <2>1. run.gen \in Nat /\ sync.gen \in Nat
    BY <1>1, Types
  <2> QED
    BY <2>1, <1>1, <1>2, <1>5
    DEF LoopSound, GoalsSound, GenerationsSound, GoalSound, Looping
<1>13. AfterIsCursor' /\ PageExplained' /\ PageIsNew' /\ UserPageFollows' /\ PageReaches'
  BY <1>2, <1>11
  DEF AfterIsCursor, PageExplained, PageIsNew, UserPageFollows, PageReaches, Applying, Looping
<1>14. PageInOrder' /\ RoomsDone'
  BY <1>1, <1>2, <1>4 DEF LoopSound, PageInOrder, RoomsDone
<1>15. UserApplied' /\ RoomsFollowUserStream'
  <2>1. idb'.cursor[User] = c /\ idb'.purged = c
    BY <1>3, <1>4
  <2>2. Range(idb'.applied[User]) = {} /\ (c + 1)..c = {}
    BY <1>3, <1>7 DEF Range
  <2>3. SubSeq(userLog, c + 1, c) = <<>>
    BY <1>3, SubSeqEmpty
  <2>4. Replay(<<>>) = {}
    BY DEF Replay
  <2>5. UserApplied'
    BY <2>1, <2>2 DEF UserApplied
  <2>6. Replay(SubSeq(userLog', idb'.purged + 1, idb'.cursor[User])) = {}
    BY <1>2, <2>1, <2>3, <2>4
  <2> QED
    BY <1>4, <2>5, <2>6 DEF RoomsFollowUserStream, Replay
<1> QED
  BY <1>6, <1>9, <1>10, <1>12, <1>13, <1>14, <1>15
  DEF RInv, StoreSound, LoopSound, GoalsSound, RoomsSound

-----------------------------------------------------------------------------
(* The loop's steps. *)

LEMMA ThrowStep ==
  ASSUME RInv, NEW st \in States, Throw(st), UNCHANGED <<server, idb>>
  PROVE  RInv'
<1>1. TypeOK /\ StoreSound /\ RoomsSound
  BY DEF RInv
<1>2. run' = NoRun /\ (sync' = sync \/ sync' = [sync EXCEPT !.state = st, !.promise = 0])
  BY DEF Throw
<1>3. sync' \in SyncType /\ run' \in RunType
  <2>1. sync \in SyncType
    BY <1>1 DEF TypeOK, SyncType
  <2>2. [sync EXCEPT !.state = st, !.promise = 0] \in SyncType
    BY <2>1 DEF SyncType
  <2> QED
    BY <1>2, <2>1, <2>2, NoRunTyped
<1>4. TypeOK'
  BY <1>1, <1>3 DEF TypeOK, SyncType, RunType, server
<1>5. StoreSound' /\ UserApplied' /\ RoomsFollowUserStream'
  BY <1>1, StoreKept DEF RoomsSound
<1> QED
  BY <1>2, <1>4, <1>5, NoLoop DEF RInv, RoomsSound

(* A loop that goes on with the same generation and the same goal.         *)
GoesOn ==
  /\ run' \in RunType /\ run'.gen = run.gen /\ run'.goal = run.goal
  /\ sync' \in SyncType /\ sync'.gen = sync.gen /\ sync'.promise = sync.promise

LEMMA LoopGoesOn ==
  ASSUME RInv, Looping, GoesOn, UNCHANGED <<server, idb>>
  PROVE  /\ TypeOK' /\ StoreSound' /\ UserApplied' /\ RoomsFollowUserStream'
         /\ GenerationsSound' /\ GoalSound'
         /\ (Current' <=> Current) /\ (Purged' <=> Purged)
         /\ \A r \in Rooms : Stuck(r)' <=> Stuck(r)
         /\ \A r \in Rooms : Done(r)' <=> Done(r)
         /\ \A s \in Streams : \A seq : Explained(s, seq)' <=> Explained(s, seq)
<1>1. TypeOK /\ StoreSound /\ LoopSound /\ GoalsSound /\ RoomsSound
  BY DEF RInv
<1>2. TypeOK'
  BY <1>1 DEF TypeOK, SyncType, RunType, server, GoesOn
<1>3. StoreSound' /\ UserApplied' /\ RoomsFollowUserStream'
  BY <1>1, StoreKept DEF RoomsSound
<1>4. GenerationsSound'
  BY <1>1 DEF GoesOn, LoopSound, GenerationsSound, Looping
<1>5. GoalSound'
  BY <1>1 DEF GoesOn, GoalsSound, GoalSound, Looping, server
<1>6. (Current' <=> Current) /\ (Purged' <=> Purged)
  BY DEF GoesOn, Current, Purged
<1>7. \A r \in Rooms : Stuck(r)' <=> Stuck(r)
  BY DEF Stuck, NeedsResync, server
<1>8. \A r \in Rooms : CaughtUp(r)' <=> CaughtUp(r)
  BY DEF CaughtUp, GoesOn
<1>9. \A r \in Rooms : Done(r)' <=> Done(r)
  BY <1>7, <1>8 DEF Done
<1>10. \A s \in Streams : \A seq : Explained(s, seq)' <=> Explained(s, seq)
  BY DEF Explained, Processed, server
<1> QED
  BY <1>2, <1>3, <1>4, <1>5, <1>6, <1>7, <1>9, <1>10

LEMMA ReadCursorStep == RInv /\ ReadCursor => RInv'
<1> SUFFICES ASSUME RInv, ReadCursor PROVE RInv'
  OBVIOUS
<1>1. TypeOK /\ LoopSound /\ GoalsSound
  BY DEF RInv
<1>2. run.pc = "read" /\ UNCHANGED <<server, idb>>
  BY DEF ReadCursor
<1>3. CASE ~Current
  <2>1. Throw("DIRTY") /\ "DIRTY" \in States
    BY <1>3 DEF ReadCursor, States
  <2> QED
    BY <1>2, <2>1, ThrowStep
<1>4. CASE Current
  <2>1. run' = [run EXCEPT !.pc = "request", !.after = idb.cursor[run.stream]] /\ sync' = sync
    BY <1>4 DEF ReadCursor
  <2>2. /\ run \in RunType /\ sync \in SyncType /\ idb.cursor[run.stream] \in Nat
    BY <1>1, Types DEF TypeOK, RunType, SyncType
  <2>3. /\ GoesOn /\ run'.pc = "request" /\ run'.after = idb.cursor[run.stream]
        /\ run'.stream = run.stream /\ run'.todo = run.todo
    <3>1. /\ run' \in RunType /\ run'.gen = run.gen /\ run'.goal = run.goal
          /\ run'.pc = "request" /\ run'.after = idb.cursor[run.stream]
          /\ run'.stream = run.stream /\ run'.todo = run.todo
      BY <2>1, <2>2 DEF RunType
    <3> QED
      BY <2>1, <2>2, <3>1 DEF GoesOn
  <2>4. /\ TypeOK' /\ StoreSound' /\ UserApplied' /\ RoomsFollowUserStream'
        /\ GenerationsSound' /\ GoalSound' /\ \A r \in Rooms : Done(r)' <=> Done(r)
    BY <1>2, <2>3, LoopGoesOn DEF Looping
  <2>5. AfterIsCursor'
    BY <1>2, <2>3 DEF AfterIsCursor
  <2>6. PageInOrder' /\ PageExplained' /\ PageIsNew' /\ PageReaches' /\ UserPageFollows'
    BY <2>3
    DEF PageInOrder, PageExplained, PageIsNew, PageReaches, UserPageFollows, Applying
  <2>7. RoomsDone'
    BY <1>1, <1>2, <2>2, <2>3, <2>4 DEF GoalsSound, RoomsDone, TypeOK
  <2> QED
    BY <2>4, <2>5, <2>6, <2>7 DEF RInv, LoopSound, GoalsSound, RoomsSound
<1> QED
  BY <1>3, <1>4

(* A page is received: it continues what the loop has read. *)
LEMMA ReceiveStep ==
  ASSUME RInv, run.pc \in {"request", "find"}, NEW s \in Streams, s = run.stream,
         NEW p, p = PageAfter(s, run.after), Receive(p), UNCHANGED <<server, idb>>
  PROVE  RInv'
<1>1. TypeOK /\ StoreSound /\ LoopSound /\ GoalsSound
  BY DEF RInv
<1> DEFINE first == FirstAfter(s, run.after)
           cursor == idb.cursor[s]
<1>2. /\ run.after \in Nat /\ cursor \in Nat /\ latest[s] \in Nat /\ minRetained[s] \in Nat
      /\ run.goal[s] \in Nat /\ idb.applied[s] \in Seq(Nat)
      /\ run \in RunType /\ sync \in SyncType
  BY <1>1, Types DEF TypeOK, RunType, SyncType
<1>3. PageFrom(first, s, run.after, p)
  BY <1>1, <1>2, PageFacts
<1> HIDE DEF first
<1>18. /\ first \in Nat /\ first > run.after /\ first >= minRetained[s]
       /\ first = run.after + 1 \/ first = minRetained[s]
  BY <1>3 DEF PageFrom
<1>4. run' = [run EXCEPT !.pc = "apply", !.page = p, !.more = HasMore(p)] /\ sync' = sync
  BY DEF Receive
<1>5. HasMore(p) \in BOOLEAN /\ (~HasMore(p) => Len(p) # Limit)
  BY DEF HasMore
<1>6. /\ GoesOn /\ run'.pc = "apply" /\ run'.page = p /\ run'.more = HasMore(p)
      /\ run'.stream = s /\ run'.todo = run.todo
  <2>1. /\ run' \in RunType /\ run'.gen = run.gen /\ run'.goal = run.goal
        /\ run'.pc = "apply" /\ run'.page = p /\ run'.more = HasMore(p)
        /\ run'.stream = run.stream /\ run'.todo = run.todo
    <3> DEFINE m == HasMore(p)
    <3> HIDE DEF m
    <3>1. run' = [run EXCEPT !.pc = "apply", !.page = p, !.more = m] /\ m \in BOOLEAN
          /\ run \in RunType /\ p \in Seq(Nat)
      BY <1>2, <1>3, <1>4, <1>5 DEF m, PageFrom
    <3> QED
      BY <3>1 DEF RunType, m
  <2> QED
    BY <1>2, <1>4, <2>1 DEF GoesOn
<1>7. /\ TypeOK' /\ StoreSound' /\ UserApplied' /\ RoomsFollowUserStream'
      /\ GenerationsSound' /\ GoalSound'
      /\ (Current' <=> Current) /\ (Purged' <=> Purged)
      /\ \A r \in Rooms : Stuck(r)' <=> Stuck(r)
      /\ \A r \in Rooms : Done(r)' <=> Done(r)
      /\ \A t \in Streams : \A seq : Explained(t, seq)' <=> Explained(t, seq)
  BY <1>6, LoopGoesOn DEF Looping
<1>8. idb' = idb /\ latest' = latest /\ minRetained' = minRetained
  BY DEF server
<1>9. run.after = cursor \/ Purged
  BY <1>1 DEF LoopSound, AfterIsCursor
<1>10. Current => run.after = cursor
  BY <1>9 DEF Purged
<1>11. AfterIsCursor'
  BY <1>6 DEF AfterIsCursor
<1>12. PageInOrder'
  <2>1. \A i \in DOMAIN p : p[i] = p[1] + i - 1 /\ p[i] \in 1..latest[s]
    BY <1>3 DEF PageFrom
  <2> QED
    BY <2>1, <1>6, <1>8 DEF PageInOrder
<1>13. PageExplained'
  <2> SUFFICES ASSUME Current, p # <<>>, NEW seq \in 1..(p[1] - 1)
               PROVE  Explained(s, seq)
    BY <1>6, <1>7 DEF PageExplained, Applying
  <2>3. p[1] = first /\ run.after = cursor /\ seq \in Nat \ {0} /\ seq < first
    BY <1>3, <1>10 DEF PageFrom
  <2>1. seq \in 1..cursor \/ seq < minRetained[s]
    BY <2>3, <1>2, <1>3 DEF PageFrom
  <2>2. seq \in 1..cursor => Processed(s, seq) \/ (s = User /\ seq <= idb.purged)
    BY <1>1 DEF StoreSound, CursorIsExact
  <2> QED
    BY <2>1, <2>2 DEF Explained
<1>14. PageIsNew'
  <2> SUFFICES ASSUME Current, NEW i \in DOMAIN p, NEW j \in DOMAIN idb.applied[s],
                      idb.applied[s][j] > p[i]
               PROVE  Processed(s, p[i]) \/ <<s, p[i]>> \in Unknown
    BY <1>6, <1>7, <1>8 DEF PageIsNew, Applying, Processed
  <2>1. p[i] \in 1..idb.applied[s][j] /\ p[i] >= first /\ p[i] \in Nat
    <3>1. DOMAIN p = 1..Len(p) /\ Len(p) \in Nat
      BY <1>3 DEF PageFrom
    <3>3. idb.applied[s][j] \in Nat
      BY <1>2
    <3>2. i \in Nat \ {0} /\ p[i] = first + i - 1 /\ p[i] \in 1..latest[s]
      BY <3>1, <1>3 DEF PageFrom
    <3>4. latest[s] \in Nat /\ first \in Nat /\ p[i] \in Nat /\ p[i] >= 1 /\ p[i] >= first
      BY <3>2, <1>2, <1>18
    <3> QED
      BY <3>3, <3>4
  <2>2. Processed(s, p[i]) \/ p[i] < minRetained[s] \/ <<s, p[i]>> \in Unknown
        \/ (s = User /\ p[i] <= idb.purged)
    BY <2>1, <1>1 DEF StoreSound, GapsAreExplained
  <2>3. ~(p[i] < minRetained[s])
    BY <2>1, <1>2, <1>3, SMTT(30) DEF PageFrom
  <2>4. ~(s = User /\ p[i] <= idb.purged)
    <3>1. s = User => idb.purged <= cursor
      BY <1>1 DEF StoreSound, UserStreamKept
    <3>2. idb.purged \in Nat
      BY <1>1, Types
    <3> QED
      BY <2>1, <3>1, <3>2, <1>2, <1>10, <1>18
  <2> QED
    BY <2>2, <2>3, <2>4
<1>15. UserPageFollows'
  <2> SUFFICES ASSUME Current, s = User, p # <<>> PROVE p[1] = cursor + 1
    BY <1>6, <1>7, <1>8 DEF UserPageFollows, Applying
  <2>1. minRetained[s] = 0
    BY <1>1 DEF StoreSound, UserStreamKept
  <2> QED
    BY <2>1, <1>2, <1>3, <1>10 DEF PageFrom
<1>16. RoomsDone'
  BY <1>1, <1>6, <1>7, <1>8, Types DEF GoalsSound, RoomsDone
<1>17. PageReaches'
  <2> SUFFICES ASSUME s \in Rooms, ~Purged
               PROVE  \/ /\ p # <<>> => p[1] = cursor + 1
                         /\ ~HasMore(p) => cursor + Len(p) >= run.goal[s]
                      \/ /\ p # <<>> => p[1] > cursor + 1
                         /\ Stuck(s)
    BY <1>6, <1>7, <1>8 DEF PageReaches, GoesOn
  <2>1. run.after = cursor /\ run.goal[s] <= latest[s] /\ Len(p) \in Nat
    BY <1>1, <1>3, <1>9 DEF GoalsSound, GoalSound, Looping, PageFrom
  <2>2. CASE first = cursor + 1
    BY <2>1, <2>2, <1>2, <1>3, <1>5, SMTT(30) DEF PageFrom
  <2>3. CASE first # cursor + 1
    <3>1. first = minRetained[s] /\ minRetained[s] > cursor + 1
      BY <2>1, <2>3, <1>2, <1>18
    <3>2. NeedsResync(s, cursor)
      BY <3>1, <1>2 DEF NeedsResync
    <3> QED
      BY <3>1, <3>2, <1>3 DEF Stuck, PageFrom
  <2> QED
    BY <2>2, <2>3
<1> QED
  BY <1>7, <1>11, <1>12, <1>13, <1>14, <1>15, <1>16, <1>17
  DEF RInv, LoopSound, GoalsSound, RoomsSound

LEMMA SyncUserEventsStep == RInv /\ SyncUserEvents => RInv'
<1> SUFFICES ASSUME RInv, SyncUserEvents PROVE RInv'
  OBVIOUS
<1>1. /\ run.pc \in {"request", "find"} /\ run.stream = User /\ UNCHANGED <<server, idb>>
      /\ Receive(PageAfter(User, run.after))
  BY DEF SyncUserEvents
<1>2. User \in Streams
  BY DEF Streams
<1> QED
  BY <1>1, <1>2, ReceiveStep

LEMMA FindRoomEventsStep == RInv /\ FindRoomEvents => RInv'
<1> SUFFICES ASSUME RInv, FindRoomEvents PROVE RInv'
  OBVIOUS
<1>1. /\ run.pc \in {"request", "find"} /\ UNCHANGED <<server, idb>>
      /\ Receive(PageAfter(run.stream, run.after))
  BY DEF FindRoomEvents
<1>2. run.stream \in Streams
  BY Types DEF RInv
<1> QED
  BY <1>1, <1>2, ReceiveStep

LEMMA RequestFailsStep == RInv /\ RequestFails => RInv'
<1> SUFFICES ASSUME RInv, RequestFails PROVE RInv'
  OBVIOUS
<1>1. Throw("DIRTY") /\ UNCHANGED <<server, idb>> /\ "DIRTY" \in States
  BY DEF RequestFails, States
<1> QED
  BY <1>1, ThrowStep

(* A room that needs a resync answers with nothing, and is stuck. *)
LEMMA AuthorizeSyncStep == RInv /\ AuthorizeSync => RInv'
<1> SUFFICES ASSUME RInv, AuthorizeSync PROVE RInv'
  OBVIOUS
<1>1. TypeOK /\ LoopSound /\ GoalsSound
  BY DEF RInv
<1>2. run.pc = "request" /\ run.stream \in Rooms /\ UNCHANGED <<server, idb>>
  BY DEF AuthorizeSync
<1>3. run \in RunType /\ sync \in SyncType /\ <<>> \in Seq(Nat) /\ Rooms \subseteq Streams
  <2>1. run \in RunType /\ sync \in SyncType
    BY <1>1 DEF TypeOK, RunType, SyncType
  <2> QED
    BY <2>1 DEF Streams
<1>4. CASE Throw("DIRTY")
  <2>1. "DIRTY" \in States
    BY DEF States
  <2> QED
    BY <1>2, <1>4, <2>1, ThrowStep
<1>5. CASE NeedsResync(run.stream, run.after) /\ Receive(<<>>)
  <2>1. HasMore(<<>>) = FALSE
    BY LimitAssumption DEF HasMore
  <2>2. run' = [run EXCEPT !.pc = "apply", !.page = <<>>, !.more = FALSE] /\ sync' = sync
    <3>1. run' = [run EXCEPT !.pc = "apply", !.page = <<>>, !.more = HasMore(<<>>)]
          /\ sync' = sync
      BY <1>5 DEF Receive
    <3> QED
      BY <2>1, <3>1, Zenon
  <2>3. /\ GoesOn /\ run'.pc = "apply" /\ run'.page = <<>>
        /\ run'.stream = run.stream /\ run'.todo = run.todo
    <3>1. /\ run' \in RunType /\ run'.gen = run.gen /\ run'.goal = run.goal
          /\ run'.pc = "apply" /\ run'.page = <<>>
          /\ run'.stream = run.stream /\ run'.todo = run.todo
      BY <1>3, <2>2 DEF RunType
    <3> QED
      BY <1>3, <2>2, <3>1 DEF GoesOn
  <2>4. /\ TypeOK' /\ StoreSound' /\ UserApplied' /\ RoomsFollowUserStream'
        /\ GenerationsSound' /\ GoalSound' /\ (Purged' <=> Purged)
        /\ \A r \in Rooms : Stuck(r)' <=> Stuck(r)
        /\ \A r \in Rooms : Done(r)' <=> Done(r)
    BY <1>2, <2>3, LoopGoesOn DEF Looping
  <2>5. /\ AfterIsCursor' /\ PageExplained' /\ UserPageFollows' /\ PageInOrder' /\ PageIsNew'
    BY <2>3
    DEF AfterIsCursor, PageExplained, UserPageFollows, PageInOrder, PageIsNew, Applying
  <2>6. RoomsDone'
    BY <1>1, <1>2, <1>3, <2>3, <2>4, Types DEF GoalsSound, RoomsDone
  <2>7. Purged \/ Stuck(run.stream)
    BY <1>1, <1>2, <1>5 DEF LoopSound, AfterIsCursor, Stuck
  <2>8. PageReaches'
    BY <1>2, <2>3, <2>4, <2>7 DEF PageReaches, Stuck
  <2> QED
    BY <2>4, <2>5, <2>6, <2>8 DEF RInv, LoopSound, GoalsSound, RoomsSound
<1>6. CASE run' = [run EXCEPT !.pc = "find"] /\ sync' = sync
  <2>1. /\ GoesOn /\ run'.pc = "find" /\ run'.after = run.after
        /\ run'.stream = run.stream /\ run'.todo = run.todo
    <3>1. /\ run' \in RunType /\ run'.gen = run.gen /\ run'.goal = run.goal
          /\ run'.pc = "find" /\ run'.after = run.after
          /\ run'.stream = run.stream /\ run'.todo = run.todo
      BY <1>3, <1>6 DEF RunType
    <3> QED
      BY <1>3, <1>6, <3>1 DEF GoesOn
  <2>2. /\ TypeOK' /\ StoreSound' /\ UserApplied' /\ RoomsFollowUserStream'
        /\ GenerationsSound' /\ GoalSound' /\ (Purged' <=> Purged)
        /\ \A r \in Rooms : Done(r)' <=> Done(r)
    BY <1>2, <2>1, LoopGoesOn DEF Looping
  <2>3. AfterIsCursor'
    BY <1>1, <1>2, <2>1, <2>2 DEF LoopSound, AfterIsCursor
  <2>4. PageInOrder' /\ PageExplained' /\ PageIsNew' /\ PageReaches' /\ UserPageFollows'
    BY <2>1 DEF PageInOrder, PageExplained, PageIsNew, PageReaches, UserPageFollows, Applying
  <2>5. RoomsDone'
    BY <1>1, <1>2, <1>3, <2>1, <2>2, Types DEF GoalsSound, RoomsDone
  <2> QED
    BY <2>2, <2>3, <2>4, <2>5 DEF RInv, LoopSound, GoalsSound, RoomsSound
<1> QED
  BY <1>4, <1>5, <1>6 DEF AuthorizeSync

(* Between two pages the loop holds nothing of a stream. *)
LEMMA BetweenPages ==
  ASSUME RInv, Looping, GoesOn, UNCHANGED <<server, idb>>,
         run'.pc \in {"read", "cleanup", "rooms"}, RoomsDone'
  PROVE  RInv'
<1>1. /\ TypeOK' /\ StoreSound' /\ UserApplied' /\ RoomsFollowUserStream'
      /\ GenerationsSound' /\ GoalSound'
  BY LoopGoesOn
<1>2. /\ AfterIsCursor' /\ PageInOrder' /\ PageExplained' /\ PageIsNew' /\ PageReaches'
      /\ UserPageFollows'
  BY DEF AfterIsCursor, PageInOrder, PageExplained, PageIsNew, PageReaches, UserPageFollows,
         Applying
<1> QED
  BY <1>1, <1>2 DEF RInv, LoopSound, GoalsSound, RoomsSound

(* The loop goes to a room left over, to the second pass, or is done.      *)
LEMMA NextRoomStep ==
  ASSUME RInv, Looping, NEW todo \in SUBSET Rooms, NextRoom(todo), UNCHANGED <<server, idb>>,
         \A r \in idb.rooms : r \in todo \/ Done(r)
  PROVE  RInv'
<1>1. TypeOK /\ StoreSound /\ RoomsSound
  BY DEF RInv
<1>2. /\ run \in RunType /\ sync \in SyncType /\ idb.rooms \subseteq Rooms
      /\ User \notin Rooms /\ idb' = idb
  BY <1>1, Types, StreamsAssumption DEF TypeOK, RunType, SyncType
<1>3. ASSUME NEW r \in todo,
             run' = [run EXCEPT !.pc = "read", !.stream = r, !.todo = todo \ {r}], sync' = sync
      PROVE  RInv'
  <2> DEFINE rest == todo \ {r}
  <2>1. rest \in SUBSET Rooms /\ r \in Rooms /\ Rooms \subseteq Streams
    BY DEF Streams
  <2> HIDE DEF rest
  <2>2. run' = [run EXCEPT !.pc = "read", !.stream = r, !.todo = rest]
    BY <1>3 DEF rest
  <2>3. /\ run' \in RunType /\ run'.gen = run.gen /\ run'.goal = run.goal
        /\ run'.pc = "read" /\ run'.stream = r /\ run'.todo = rest
    BY <1>2, <2>1, <2>2 DEF RunType
  <2>4. GoesOn
    BY <1>2, <1>3, <2>3 DEF GoesOn
  <2>5. \A q \in Rooms : Done(q)' <=> Done(q)
    BY <2>4, LoopGoesOn
  <2>6. RoomsDone'
    BY <1>2, <2>3, <2>5 DEF RoomsDone, rest
  <2> QED
    BY <2>3, <2>4, <2>6, BetweenPages
<1>4. CASE /\ run' = [run EXCEPT !.pc = "read", !.stream = User, !.pass = 2, !.todo = {}]
           /\ Enter("FINAL_CATCH_UP")
  <2>1. /\ run' \in RunType /\ run'.gen = run.gen /\ run'.goal = run.goal
        /\ run'.pc = "read" /\ run'.stream = User
    <3>1. User \in Streams
      BY DEF Streams
    <3> QED
      BY <1>2, <1>4, <3>1 DEF RunType
  <2>2. "FINAL_CATCH_UP" \in States
    BY DEF States
  <2>3. sync' \in SyncType /\ sync'.gen = sync.gen /\ sync'.promise = sync.promise
    BY <1>2, <1>4, <2>2 DEF Enter, SyncType
  <2>4. GoesOn
    BY <2>1, <2>3 DEF GoesOn
  <2>5. RoomsDone'
    BY <1>2, <2>1 DEF RoomsDone
  <2> QED
    BY <2>1, <2>4, <2>5, BetweenPages
<1>5. CASE /\ run' = NoRun
           /\ sync' = [sync EXCEPT !.state = "READY", !.promise = IF Current THEN 0 ELSE @]
  <2>1. sync' \in SyncType /\ run' \in RunType
    <3>1. "READY" \in States
      BY DEF States
    <3> DEFINE p == IF Current THEN 0 ELSE sync.promise
    <3>2. p \in Nat
      BY <1>2 DEF SyncType
    <3>3. sync' = [sync EXCEPT !.state = "READY", !.promise = p]
      BY <1>5
    <3> HIDE DEF p
    <3>4. sync' \in SyncType
      BY <1>2, <3>1, <3>2, <3>3 DEF SyncType
    <3> QED
      BY <1>5, <3>4, NoRunTyped
  <2>2. TypeOK'
    BY <1>1, <2>1 DEF TypeOK, SyncType, RunType, server
  <2>3. StoreSound' /\ UserApplied' /\ RoomsFollowUserStream'
    BY <1>1, StoreKept DEF RoomsSound
  <2> QED
    BY <1>5, <2>2, <2>3, NoLoop DEF RInv, RoomsSound
<1> QED
  BY <1>3, <1>4, <1>5 DEF NextRoom

(* What the loop has brought a room to when its last page is done.         *)
LEMMA RoomDone ==
  ASSUME RInv, run.pc = "apply", run.page = <<>>, ~run.more, run.stream \in Rooms,
         NEW r \in idb.rooms
  PROVE  r \in run.todo \/ Done(r)
<1>1. GoalsSound /\ TypeOK
  BY DEF RInv
<1>2. CASE r # run.stream
  BY <1>1, <1>2 DEF GoalsSound, RoomsDone
<1>3. CASE r = run.stream
  <2>1. ~Purged
    BY DEF Purged
  <2>2. Len(run.page) = 0 /\ idb.cursor[r] \in Nat
    BY <1>1, <1>3, Types
  <2>3. idb.cursor[r] + 0 >= run.goal[r] \/ Stuck(r)
    BY <1>1, <1>3, <2>1, <2>2 DEF GoalsSound, PageReaches
  <2> QED
    BY <2>2, <2>3 DEF Done, CaughtUp
<1> QED
  BY <1>2, <1>3

LEMMA PageDoneStep == RInv /\ PageDone => RInv'
<1> SUFFICES ASSUME RInv, PageDone PROVE RInv'
  OBVIOUS
<1>1. TypeOK /\ GoalsSound /\ run.pc = "apply" /\ run.page = <<>> /\ UNCHANGED <<server, idb>>
  BY DEF RInv, PageDone
<1>2. run \in RunType /\ sync \in SyncType /\ User \notin Rooms /\ run.todo \in SUBSET Rooms
      /\ idb.rooms \subseteq Rooms /\ idb' = idb
  BY <1>1, Types, StreamsAssumption DEF TypeOK, RunType, SyncType
<1>3. ASSUME NEW pc \in {"read", "cleanup", "rooms"},
             run' = [run EXCEPT !.pc = pc], sync' = sync,
             pc = "read" \/ run.stream = User
      PROVE  RInv'
  <2>1. /\ run' \in RunType /\ run'.gen = run.gen /\ run'.goal = run.goal
        /\ run'.pc = pc /\ run'.stream = run.stream /\ run'.todo = run.todo
    BY <1>2, <1>3 DEF RunType
  <2>2. GoesOn
    BY <1>2, <1>3, <2>1 DEF GoesOn
  <2>3. \A q \in Rooms : Done(q)' <=> Done(q)
    BY <1>1, <2>2, LoopGoesOn DEF Looping
  <2>4. RoomsDone'
    BY <1>1, <1>2, <2>1, <2>3 DEF GoalsSound, RoomsDone
  <2> QED
    BY <1>1, <2>1, <2>2, <2>4, BetweenPages DEF Looping
<1>4. ASSUME ~run.more, run.stream \in Rooms, NextRoom(run.todo)
      PROVE  RInv'
  <2>1. \A r \in idb.rooms : r \in run.todo \/ Done(r)
    BY <1>1, <1>4, RoomDone
  <2> QED
    BY <1>1, <1>2, <1>4, <2>1, NextRoomStep DEF Looping
<1> QED
  <2>1. CASE run' = [run EXCEPT !.pc = "read"] /\ sync' = sync
    BY <1>3, <2>1
  <2>2. CASE /\ run.stream = User /\ sync' = sync
             /\ run' = [run EXCEPT !.pc = IF run.pass = 1 THEN "cleanup" ELSE "rooms"]
    BY <1>3, <2>2
  <2> QED
    BY <1>4, <2>1, <2>2 DEF PageDone

LEMMA ProcessCleanupStep == RInv /\ ProcessCleanupIntents => RInv'
<1> SUFFICES ASSUME RInv, ProcessCleanupIntents PROVE RInv'
  OBVIOUS
<1>1. TypeOK /\ GoalsSound /\ run.pc = "cleanup" /\ UNCHANGED <<server, idb>>
  BY DEF RInv, ProcessCleanupIntents
<1>2. run \in RunType /\ sync \in SyncType /\ idb.rooms \subseteq Rooms /\ idb' = idb
  BY <1>1 DEF TypeOK, RunType, SyncType
<1>3. /\ run' = [run EXCEPT !.pc = "rooms"]
      /\ sync' = [sync EXCEPT !.state = "RECOVERING_ROOM_STREAMS"]
      /\ "RECOVERING_ROOM_STREAMS" \in States
  BY DEF ProcessCleanupIntents, Enter, States
<1>4. /\ run' \in RunType /\ run'.gen = run.gen /\ run'.goal = run.goal
      /\ run'.pc = "rooms" /\ run'.stream = run.stream /\ run'.todo = run.todo
  BY <1>2, <1>3 DEF RunType
<1>5. sync' \in SyncType /\ sync'.gen = sync.gen /\ sync'.promise = sync.promise
  BY <1>2, <1>3 DEF SyncType
<1>6. GoesOn
  BY <1>4, <1>5 DEF GoesOn
<1>7. \A q \in Rooms : Done(q)' <=> Done(q)
  BY <1>1, <1>6, LoopGoesOn DEF Looping
<1>8. RoomsDone'
  BY <1>1, <1>2, <1>4, <1>7 DEF GoalsSound, RoomsDone
<1> QED
  BY <1>1, <1>4, <1>6, <1>8, BetweenPages DEF Looping

LEMMA ReadRoomsStep == RInv /\ ReadRooms => RInv'
<1> SUFFICES ASSUME RInv, ReadRooms PROVE RInv'
  OBVIOUS
<1>1. run.pc = "rooms" /\ UNCHANGED <<server, idb>> /\ (Throw("DIRTY") \/ NextRoom(idb.rooms))
  BY DEF ReadRooms
<1>2. "DIRTY" \in States /\ idb.rooms \in SUBSET Rooms
  BY Types DEF RInv, States
<1>3. CASE Throw("DIRTY")
  BY <1>1, <1>2, <1>3, ThrowStep
<1>4. CASE NextRoom(idb.rooms)
  <2>1. \A r \in idb.rooms : r \in idb.rooms \/ Done(r)
    OBVIOUS
  <2> QED
    BY <1>1, <1>2, <1>4, <2>1, NextRoomStep DEF Looping
<1> QED
  BY <1>1, <1>3, <1>4

-----------------------------------------------------------------------------
(* Applying an event. *)

(* The event at the head of the page, what is left behind it, and what the *)
(* loop knows of both.                                                     *)
Heads(s, h, p) ==
  /\ h = run.page[1] /\ p \in Seq(Nat) /\ Len(run.page) \in Nat /\ Len(p) = Len(run.page) - 1
  /\ \A i \in DOMAIN p :
       /\ i \in Nat /\ i + 1 \in DOMAIN run.page /\ p[i] = run.page[i + 1]
       /\ p[i] \in 1..latest[s] /\ p[i] = h + i /\ p[i] = p[1] + i - 1
  /\ p # <<>> => 1 \in DOMAIN p /\ p[1] = h + 1
  /\ \A seq \in 1..(h - 1) : Explained(s, seq)
  /\ \A j \in DOMAIN idb.applied[s] : idb.applied[s][j] > h =>
       Processed(s, h) \/ <<s, h>> \in Unknown
  /\ s = User => h = idb.cursor[User] + 1

LEMMA HeadOfPage ==
  ASSUME RInv, Applying, run.page # <<>>, NEW s \in Streams, s = run.stream,
         NEW h, h = Head(run.page)
  PROVE  h \in Nat \ {0} /\ h <= latest[s] /\ Heads(s, h, Tail(run.page))
<1>1. TypeOK /\ LoopSound /\ RoomsSound /\ run.page \in Seq(Nat) /\ latest[s] \in Nat
  BY Types DEF RInv
<1>2. /\ h = run.page[1] /\ h \in Nat /\ 1 \in DOMAIN run.page
      /\ Tail(run.page) \in Seq(Nat) /\ Len(run.page) \in Nat
      /\ Len(Tail(run.page)) = Len(run.page) - 1
      /\ \A i \in DOMAIN Tail(run.page) :
           i \in Nat /\ i + 1 \in DOMAIN run.page /\ Tail(run.page)[i] = run.page[i + 1]
      /\ Tail(run.page) # <<>> => 1 \in DOMAIN Tail(run.page)
  BY <1>1, RestOfPage
<1>3. \A i \in DOMAIN run.page : run.page[i] \in 1..latest[s] /\ run.page[i] = h + i - 1
  BY <1>1, <1>2 DEF LoopSound, PageInOrder, Applying
<1>4. h \in 1..latest[s]
  BY <1>2, <1>3
<1>5. \A i \in DOMAIN Tail(run.page) :
        Tail(run.page)[i] \in 1..latest[s] /\ Tail(run.page)[i] = h + i
  <2> TAKE i \in DOMAIN Tail(run.page)
  <2>1. i \in Nat /\ i + 1 \in DOMAIN run.page /\ Tail(run.page)[i] = run.page[i + 1]
    BY <1>2
  <2>2. run.page[i + 1] \in 1..latest[s] /\ run.page[i + 1] = h + (i + 1) - 1
    BY <2>1, <1>3
  <2> QED
    BY <2>1, <2>2, <1>2
<1>6. \A seq \in 1..(h - 1) : Explained(s, seq)
  BY <1>1, <1>2 DEF LoopSound, PageExplained
<1>7. \A j \in DOMAIN idb.applied[s] : idb.applied[s][j] > h =>
        Processed(s, h) \/ <<s, h>> \in Unknown
  BY <1>1, <1>2 DEF LoopSound, PageIsNew
<1>8. s = User => h = idb.cursor[User] + 1
  BY <1>1, <1>2 DEF RoomsSound, UserPageFollows
<1>9. h \in Nat \ {0} /\ h <= latest[s]
  BY <1>1, <1>4
<1>10. Tail(run.page) # <<>> => Tail(run.page)[1] = h + 1
  BY <1>2, <1>5
<1>11. \A i \in DOMAIN Tail(run.page) : Tail(run.page)[i] = Tail(run.page)[1] + i - 1
  <2> TAKE i \in DOMAIN Tail(run.page)
  <2>1. Tail(run.page) # <<>>
    BY <1>2
  <2>2. Tail(run.page)[1] = h + 1 /\ i \in Nat /\ Tail(run.page)[i] = h + i
    BY <2>1, <1>2, <1>5, <1>10
  <2> QED
    BY <2>2, <1>9, SMTT(30)
<1> QED
  BY <1>2, <1>5, <1>6, <1>7, <1>8, <1>9, <1>10, <1>11, Zenon DEF Heads

(* An event that was applied before, or whose type the client lacks.       *)
LEMMA SkipStep ==
  ASSUME RInv, Applying, run.page # <<>>, NEW s \in Streams, s = run.stream,
         NEW h, h = Head(run.page), Processed(s, h) \/ <<s, h>> \in Unknown,
         run' = [run EXCEPT !.page = Tail(run.page)], sync' = sync, UNCHANGED <<server, idb>>
  PROVE  RInv'
<1>1. TypeOK /\ StoreSound /\ LoopSound /\ GoalsSound /\ RoomsSound
  BY DEF RInv
<1> DEFINE p == Tail(run.page)
<1>2. h \in Nat \ {0} /\ Heads(s, h, p)
  BY HeadOfPage
<1> HIDE DEF p
<1>3. run \in RunType /\ sync \in SyncType /\ idb.rooms \subseteq Rooms /\ idb.cursor[s] \in Nat
  BY <1>1 DEF TypeOK, RunType, SyncType
<1>4. /\ run' \in RunType /\ run'.gen = run.gen /\ run'.goal = run.goal
      /\ run'.pc = "apply" /\ run'.page = p /\ run'.more = run.more
      /\ run'.stream = s /\ run'.todo = run.todo
  <2>1. run' = [run EXCEPT !.page = p] /\ run.pc = "apply"
    BY DEF p, Applying
  <2>2. p \in Seq(Nat)
    BY <1>2 DEF Heads
  <2> QED
    BY <1>3, <2>1, <2>2 DEF RunType
<1>5. GoesOn
  BY <1>3, <1>4 DEF GoesOn
<1>6. /\ TypeOK' /\ StoreSound' /\ UserApplied' /\ RoomsFollowUserStream'
      /\ GenerationsSound' /\ GoalSound' /\ Current'
      /\ \A r \in Rooms : Stuck(r)' <=> Stuck(r)
      /\ \A r \in Rooms : Done(r)' <=> Done(r)
      /\ \A t \in Streams : \A seq : Explained(t, seq)' <=> Explained(t, seq)
  BY <1>5, LoopGoesOn DEF Looping, Applying
<1>7. idb' = idb /\ latest' = latest /\ minRetained' = minRetained
  BY DEF server
<1>8. AfterIsCursor'
  BY <1>4 DEF AfterIsCursor
<1>9. (p # <<>> => p[1] = h + 1) /\ h \in Nat
  BY <1>2 DEF Heads
<1>10. PageInOrder'
  BY <1>2, <1>4, <1>7 DEF PageInOrder, Heads
<1>11. PageExplained'
  <2> SUFFICES ASSUME p # <<>>, NEW seq \in 1..(p[1] - 1) PROVE Explained(s, seq)
    BY <1>4, <1>6 DEF PageExplained
  <2>1. seq \in 1..(h - 1) \/ seq = h
    BY <1>9
  <2> QED
    BY <2>1, <1>2 DEF Explained, Heads
<1>12. PageIsNew'
  <2> SUFFICES ASSUME NEW i \in DOMAIN p, NEW j \in DOMAIN idb.applied[s],
                      idb.applied[s][j] > p[i]
               PROVE  Processed(s, p[i]) \/ <<s, p[i]>> \in Unknown
    BY <1>4, <1>6, <1>7 DEF PageIsNew, Applying, Processed
  <2>1. i + 1 \in DOMAIN run.page /\ p[i] = run.page[i + 1]
    BY <1>2 DEF Heads
  <2> QED
    BY <2>1, <1>1 DEF LoopSound, PageIsNew
<1>13. s # User
  <2> SUFFICES ASSUME s = User PROVE FALSE
    OBVIOUS
  <2>1. h = idb.cursor[s] + 1
    BY <1>2 DEF Heads
  <2>2. ~Processed(s, h)
    BY <2>1, <1>1 DEF StoreSound, CursorStops
  <2> QED
    BY <2>2, UnknownAssumption, StreamsAssumption
<1>14. UserPageFollows' /\ s \in Rooms
  BY <1>4, <1>13 DEF UserPageFollows, Streams
<1>15. RoomsDone'
  BY <1>1, <1>3, <1>4, <1>6, <1>7 DEF GoalsSound, RoomsDone
<1>16. PageReaches'
  <2>1. \/ h = idb.cursor[s] + 1
        \/ h > idb.cursor[s] + 1 /\ Stuck(s)
    BY <1>1, <1>2, <1>14 DEF GoalsSound, PageReaches, Applying, Purged, Heads
  <2>2. h = idb.cursor[s] + 1 => ~Processed(s, h)
    BY <1>1 DEF StoreSound, CursorStops
  <2>3. Stuck(s)
    BY <2>1, <2>2 DEF Stuck
  <2>4. p # <<>> => p[1] > idb.cursor[s] + 1
    BY <2>1, <1>3, <1>9
  <2> QED
    BY <2>3, <2>4, <1>4, <1>6, <1>7, <1>14 DEF PageReaches, Stuck
<1> QED
  BY <1>6, <1>8, <1>10, <1>11, <1>12, <1>14, <1>15, <1>16
  DEF RInv, LoopSound, GoalsSound, RoomsSound

(* What applying an event of a stream writes. *)
Grown(s, h) ==
  /\ idb'.purged = idb.purged
  /\ idb'.cursor \in [Streams -> Nat] /\ idb'.applied \in [Streams -> Seq(Nat)]
  /\ idb'.cursor[s] = IF h = idb.cursor[s] + 1 THEN h ELSE idb.cursor[s]
  /\ \A t \in Streams : t # s => idb'.cursor[t] = idb.cursor[t] /\ idb'.applied[t] = idb.applied[t]
  /\ idb'.applied[s] = Append(idb.applied[s], h)
  /\ idb'.rooms = IF s = User THEN Project(userLog[h]) ELSE idb.rooms

LEMMA ApplyGrows ==
  ASSUME TypeOK, NEW s \in Streams, NEW h \in Nat, ~Processed(s, h), <<s, h>> \notin Unknown,
         Apply(s, h), s = User => h \in 1..Len(userLog)
  PROVE  idb' \in IdbType /\ Grown(s, h)
<1> DEFINE c == IF Contiguous(s, h) THEN h ELSE idb.cursor[s]
           a == Append(idb.applied[s], h)
           rs == IF s = User THEN Project(userLog[h]) ELSE idb.rooms
           cs == [idb.cursor EXCEPT ![s] = c]
           as == [idb.applied EXCEPT ![s] = a]
<1>1. /\ idb \in [cursor : [Streams -> Nat], applied : [Streams -> Seq(Nat)],
                  rooms : SUBSET Rooms, purged : Nat]
      /\ userLog \in Seq([room : Rooms, granted : BOOLEAN])
  BY DEF TypeOK
<1>2. c \in Nat /\ a \in Seq(Nat) /\ c = IF h = idb.cursor[s] + 1 THEN h ELSE idb.cursor[s]
  BY <1>1 DEF Contiguous
<1>3. rs \in SUBSET Rooms
  <2>1. CASE s = User
    <3>1. userLog \in Seq(UserEvents) /\ h \in 1..Len(userLog)
      BY <1>1, <2>1 DEF UserEvents
    <3>2. userLog[h] \in UserEvents
      BY <3>1
    <3>3. userLog[h].room \in Rooms
      BY <3>2 DEF UserEvents
    <3> QED
      BY <1>1, <2>1, <3>3 DEF Project
  <2> QED
    BY <1>1, <2>1
<1>4. idb' = [idb EXCEPT !.applied = as, !.cursor = cs, !.rooms = rs]
  BY <1>1 DEF Apply
<1> HIDE DEF c, a, rs
<1>5. /\ cs \in [Streams -> Nat] /\ as \in [Streams -> Seq(Nat)] /\ cs[s] = c /\ as[s] = a
      /\ \A t \in Streams : t # s => cs[t] = idb.cursor[t] /\ as[t] = idb.applied[t]
  BY <1>1, <1>2
<1> HIDE DEF cs, as
<1>6. /\ idb'.purged = idb.purged /\ idb'.cursor = cs /\ idb'.applied = as /\ idb'.rooms = rs
      /\ idb' \in IdbType
  BY <1>1, <1>3, <1>4, <1>5 DEF IdbType
<1>7. idb'.rooms = IF s = User THEN Project(userLog[h]) ELSE idb.rooms
  BY <1>6 DEF rs
<1>8. idb'.applied[s] = Append(idb.applied[s], h)
  BY <1>5, <1>6 DEF a
<1> QED
  BY <1>2, <1>5, <1>6, <1>7, <1>8 DEF Grown

(* The event is at the end of what was applied, and nothing else is new.   *)
Appended(s, h, n) ==
  /\ n \in Nat /\ DOMAIN idb.applied[s] = 1..n /\ DOMAIN idb'.applied[s] = 1..(n + 1)
  /\ idb'.applied[s][n + 1] = h
  /\ \A j \in 1..n : idb'.applied[s][j] = idb.applied[s][j] /\ idb.applied[s][j] \in Nat
  /\ \A t \in Streams : \A q : Processed(t, q)' <=> Processed(t, q) \/ (t = s /\ q = h)

LEMMA GrownApplied ==
  ASSUME TypeOK, NEW s \in Streams, NEW h \in Nat, Grown(s, h)
  PROVE  Appended(s, h, Len(idb.applied[s]))
<1> DEFINE n == Len(idb.applied[s])
<1>1. idb.applied[s] \in Seq(Nat) /\ idb'.applied[s] = Append(idb.applied[s], h)
  BY Types DEF Grown
<1>2. /\ n \in Nat /\ DOMAIN idb.applied[s] = 1..n /\ DOMAIN idb'.applied[s] = 1..(n + 1)
      /\ idb'.applied[s][n + 1] = h
      /\ \A j \in 1..n : idb'.applied[s][j] = idb.applied[s][j] /\ idb.applied[s][j] \in Nat
  BY <1>1
<1>3. \A q : q \in Range(idb'.applied[s]) <=> q \in Range(idb.applied[s]) \/ q = h
  <2> TAKE q
  <2>1. q \in Range(idb'.applied[s]) <=> \E j \in 1..(n + 1) : q = idb'.applied[s][j]
    BY <1>2 DEF Range
  <2>2. q \in Range(idb.applied[s]) <=> \E j \in 1..n : q = idb.applied[s][j]
    BY <1>2 DEF Range
  <2>3. n + 1 \in 1..(n + 1) /\ \A j \in 1..(n + 1) : j \in 1..n \/ j = n + 1
    BY <1>2
  <2>4. \A j \in 1..n : j \in 1..(n + 1)
    BY <1>2
  <2> QED
    BY <1>2, <2>1, <2>2, <2>3, <2>4
<1>4. \A t \in Streams : t # s => idb'.applied[t] = idb.applied[t]
  BY DEF Grown
<1>5. \A t \in Streams : \A q : Processed(t, q)' <=> Processed(t, q) \/ (t = s /\ q = h)
  BY <1>3, <1>4 DEF Processed
<1> QED
  BY <1>2, <1>5 DEF Appended

(* The head of the page, and what applying it writes.                      *)
Fresh(s, h, p) ==
  /\ TypeOK /\ StoreSound /\ Current /\ s = run.stream
  /\ h \in Nat \ {0} /\ h <= latest[s] /\ Heads(s, h, p)
  /\ ~Processed(s, h) /\ <<s, h>> \notin Unknown
  /\ idb' \in IdbType /\ Grown(s, h) /\ UNCHANGED server

(* What was applied before came before. *)
LEMMA FreshIsLast ==
  ASSUME NEW s \in Streams, NEW h, NEW p, Fresh(s, h, p)
  PROVE  \A j \in DOMAIN idb.applied[s] : idb.applied[s][j] < h
<1> TAKE j \in DOMAIN idb.applied[s]
<1>1. idb.applied[s] \in Seq(Nat) /\ h \in Nat
  BY Types DEF Fresh
<1>2. idb.applied[s][j] \in Nat
  BY <1>1
<1>3. idb.applied[s][j] # h
  BY DEF Fresh, Processed, Range
<1>4. ~(idb.applied[s][j] > h)
  BY DEF Fresh, Heads
<1> QED
  BY <1>1, <1>2, <1>3, <1>4

LEMMA FreshStore ==
  ASSUME NEW s \in Streams, NEW h, NEW p, Fresh(s, h, p)
  PROVE  StoreSound'
<1>1. /\ TypeOK /\ StoreSound /\ Grown(s, h) /\ h \in Nat /\ h \in Nat \ {0} /\ h <= latest[s]
      /\ latest' = latest /\ minRetained' = minRetained
  BY DEF Fresh, server
<1> DEFINE n == Len(idb.applied[s])
<1>2. /\ n \in Nat /\ DOMAIN idb.applied[s] = 1..n /\ DOMAIN idb'.applied[s] = 1..(n + 1)
      /\ idb'.applied[s][n + 1] = h
      /\ \A j \in 1..n : idb'.applied[s][j] = idb.applied[s][j] /\ idb.applied[s][j] \in Nat
      /\ \A t \in Streams : \A q : Processed(t, q)' <=> Processed(t, q) \/ (t = s /\ q = h)
  <2>1. Appended(s, h, n)
    BY <1>1, GrownApplied, Zenon
  <2> QED
    BY <2>1 DEF Appended
<1> HIDE DEF n
<1>3. \A j \in 1..n : idb.applied[s][j] < h
  BY <1>2, FreshIsLast
<1>4. /\ idb'.purged = idb.purged /\ idb.purged \in Nat /\ idb.cursor[s] \in Nat
      /\ idb'.cursor[s] = IF h = idb.cursor[s] + 1 THEN h ELSE idb.cursor[s]
      /\ \A t \in Streams : t # s => idb'.cursor[t] = idb.cursor[t] /\ idb'.applied[t] = idb.applied[t]
  BY <1>1, Types DEF Grown
<1>5. AppliedOnceInOrder'
  <2>1. ASSUME NEW i \in 1..(n + 1), NEW j \in 1..(n + 1), i < j
        PROVE  idb'.applied[s][i] < idb'.applied[s][j]
    <3>1. i \in 1..n
      BY <1>2, <2>1
    <3>2. CASE j = n + 1
      BY <1>2, <1>3, <3>1, <3>2
    <3>3. CASE j \in 1..n
      BY <1>1, <1>2, <2>1, <3>1, <3>3 DEF StoreSound, AppliedOnceInOrder
    <3> QED
      BY <1>2, <3>2, <3>3
  <2>2. ASSUME NEW t \in Streams, t # s, NEW i \in DOMAIN idb'.applied[t],
               NEW j \in DOMAIN idb'.applied[t], i < j
        PROVE  idb'.applied[t][i] < idb'.applied[t][j]
    BY <1>1, <1>4, <2>2 DEF StoreSound, AppliedOnceInOrder
  <2> QED
    BY <1>2, <2>1, <2>2 DEF AppliedOnceInOrder
<1>6. CursorIsExact'
  <2>1. \A t \in Streams : t # s =>
          /\ \A seq \in 1..idb'.cursor[t] : Processed(t, seq)' \/ (t = User /\ seq <= idb'.purged)
          /\ idb'.cursor[t] <= latest[t]
    BY <1>1, <1>2, <1>4 DEF StoreSound, CursorIsExact
  <2>2. ASSUME NEW seq \in 1..idb'.cursor[s]
        PROVE  Processed(s, seq)' \/ (s = User /\ seq <= idb'.purged)
    <3>1. seq \in 1..idb.cursor[s] \/ seq = h
      BY <1>1, <1>4
    <3> QED
      BY <1>1, <1>2, <1>4, <3>1 DEF StoreSound, CursorIsExact
  <2>3. idb'.cursor[s] <= latest[s]
    BY <1>1, <1>4 DEF StoreSound, CursorIsExact
  <2> QED
    BY <1>1, <2>1, <2>2, <2>3 DEF CursorIsExact
<1>7. \A t \in Streams : \A q : Explained(t, q) => Explained(t, q)'
  BY <1>1, <1>2, <1>4 DEF Explained
<1>8. GapsAreExplained'
  <2>1. \A t \in Streams : \A i \in DOMAIN idb.applied[t] : \A seq \in 1..idb.applied[t][i] :
          Explained(t, seq)'
    BY <1>1, <1>7 DEF StoreSound, GapsAreExplained, Explained
  <2>2. ASSUME NEW seq \in 1..h PROVE Explained(s, seq)'
    <3>1. seq = h \/ seq \in 1..(h - 1)
      BY <1>1
    <3>2. Processed(s, h)' /\ \A q \in 1..(h - 1) : Explained(s, q)
      BY <1>2 DEF Fresh, Heads
    <3> QED
      BY <1>7, <3>1, <3>2 DEF Explained
  <2>3. ASSUME NEW i \in 1..(n + 1), NEW seq \in 1..idb'.applied[s][i]
        PROVE  Explained(s, seq)'
    <3>1. CASE i \in 1..n
      BY <1>2, <2>1, <2>3, <3>1
    <3>2. CASE i = n + 1
      BY <1>2, <2>2, <2>3, <3>2
    <3> QED
      BY <1>2, <3>1, <3>2
  <2>4. \A t \in Streams : \A i \in DOMAIN idb'.applied[t] : \A seq \in 1..idb'.applied[t][i] :
          Explained(t, seq)'
    BY <1>2, <1>4, <2>1, <2>3
  <2> QED
    BY <2>4 DEF GapsAreExplained, Explained
<1>9. UserStreamKept'
  <2>1. idb.cursor[s] <= idb'.cursor[s]
    BY <1>1, <1>4
  <2> QED
    BY <1>1, <1>4, <2>1, Types DEF StoreSound, UserStreamKept
<1>10. CursorStops'
  <2>1. \A t \in Streams : t # s => idb'.cursor[t] + 1 \notin Range(idb'.applied[t])
    BY <1>1, <1>4 DEF StoreSound, CursorStops, Processed
  <2>2. \A q : q \in Range(idb'.applied[s]) <=> q \in Range(idb.applied[s]) \/ q = h
    BY <1>2 DEF Processed
  <2>3. idb'.cursor[s] + 1 \notin Range(idb'.applied[s])
    <3>1. CASE h = idb.cursor[s] + 1
      <4>1. idb'.cursor[s] = h /\ h + 1 # h
        BY <1>1, <1>4, <3>1
      <4>2. \A j \in 1..n : idb.applied[s][j] # h + 1
        BY <1>1, <1>2, <1>3
      <4>3. h + 1 \notin Range(idb.applied[s])
        BY <4>2, <1>2 DEF Range
      <4> QED
        BY <2>2, <4>1, <4>3
    <3>2. CASE h # idb.cursor[s] + 1
      <4>1. idb'.cursor[s] = idb.cursor[s]
        BY <1>4, <3>2
      <4>2. idb.cursor[s] + 1 \notin Range(idb.applied[s])
        BY <1>1 DEF StoreSound, CursorStops, Processed
      <4> QED
        BY <2>2, <3>2, <4>1, <4>2
    <3> QED
      BY <3>1, <3>2
  <2> QED
    BY <2>1, <2>3 DEF CursorStops, Processed
<1> QED
  BY <1>5, <1>6, <1>8, <1>9, <1>10 DEF StoreSound

(* The loop after the event. *)
LEMMA FreshLoop ==
  ASSUME NEW s \in Streams, NEW h, NEW p, Fresh(s, h, p),
         LoopSound, GoalsSound, Looping, run.pc = "apply", run.page # <<>>, GoesOn,
         run'.pc = "apply", run'.page = p, run'.more = run.more, run'.stream = s,
         run'.todo = run.todo
  PROVE  LoopSound' /\ GoalsSound'
<1>1. /\ TypeOK /\ StoreSound /\ Grown(s, h) /\ h \in Nat /\ h \in Nat \ {0} /\ s = run.stream
      /\ latest' = latest /\ minRetained' = minRetained /\ Current /\ Heads(s, h, p)
  BY DEF Fresh, server
<1> DEFINE n == Len(idb.applied[s])
<1>2. /\ n \in Nat /\ DOMAIN idb.applied[s] = 1..n /\ DOMAIN idb'.applied[s] = 1..(n + 1)
      /\ idb'.applied[s][n + 1] = h
      /\ \A j \in 1..n : idb'.applied[s][j] = idb.applied[s][j] /\ idb.applied[s][j] \in Nat
      /\ \A t \in Streams : \A q : Processed(t, q)' <=> Processed(t, q) \/ (t = s /\ q = h)
  <2>1. Appended(s, h, n)
    BY <1>1, GrownApplied, Zenon
  <2> QED
    BY <2>1 DEF Appended
<1> HIDE DEF n
<1>3. \A j \in 1..n : idb.applied[s][j] < h
  BY <1>2, FreshIsLast
<1>4. /\ idb'.purged = idb.purged /\ idb.purged \in Nat /\ idb.cursor[s] \in Nat
      /\ idb'.cursor[s] = IF h = idb.cursor[s] + 1 THEN h ELSE idb.cursor[s]
      /\ \A t \in Streams : t # s => idb'.cursor[t] = idb.cursor[t]
      /\ idb'.rooms = IF s = User THEN Project(userLog[h]) ELSE idb.rooms
  BY <1>1, Types DEF Grown
<1>5. (p # <<>> => p[1] = h + 1) /\ h \in Nat
  BY <1>1 DEF Heads
<1>6. GenerationsSound' /\ GoalSound' /\ AfterIsCursor'
  BY <1>1 DEF GoesOn, LoopSound, GoalsSound, GenerationsSound, GoalSound, AfterIsCursor, Looping
<1>7. PageInOrder'
  BY <1>1 DEF PageInOrder, Heads
<1>8. \A q : Explained(s, q) => Explained(s, q)'
  BY <1>1, <1>2, <1>4 DEF Explained
<1>9. PageExplained'
  <2> SUFFICES ASSUME p # <<>>, NEW seq \in 1..(p[1] - 1) PROVE Explained(s, seq)'
    BY DEF PageExplained, Explained
  <2>1. seq \in 1..(h - 1) \/ seq = h
    BY <1>5
  <2>2. Explained(s, h)'
    BY <1>2 DEF Explained
  <2>3. seq \in 1..(h - 1) => Explained(s, seq)
    BY <1>1 DEF Heads
  <2> QED
    BY <1>8, <2>1, <2>2, <2>3
<1>10. PageIsNew'
  <2> SUFFICES ASSUME NEW i \in DOMAIN p, NEW j \in 1..(n + 1), idb'.applied[s][j] > p[i]
               PROVE  FALSE
    BY <1>2 DEF PageIsNew
  <2>1. p[i] = h + i /\ i \in Nat
    BY <1>1 DEF Heads
  <2>2. idb'.applied[s][j] <= h /\ idb'.applied[s][j] \in Nat
    <3>1. CASE j = n + 1
      BY <1>2, <1>5, <3>1
    <3>2. CASE j \in 1..n
      <4>1. idb'.applied[s][j] = idb.applied[s][j] /\ idb.applied[s][j] \in Nat
        BY <1>2, <3>2
      <4>2. idb.applied[s][j] < h
        BY <1>3, <3>2
      <4> QED
        BY <1>5, <4>1, <4>2
    <3> QED
      BY <1>2, <3>1, <3>2
  <2> QED
    BY <1>5, <2>1, <2>2
<1>11. \A r \in Rooms : r # s => (Done(r)' <=> Done(r))
  BY <1>1, <1>4 DEF GoesOn, Done, CaughtUp, Stuck, NeedsResync, Streams
<1>12. RoomsDone'
  <2> SUFFICES ASSUME s \in Rooms, NEW r \in idb.rooms, r # s PROVE r \in run.todo \/ Done(r)'
    BY <1>4, StreamsAssumption DEF RoomsDone
  <2>1. r \in run.todo \/ Done(r)
    BY <1>1 DEF GoalsSound, RoomsDone
  <2>2. r \in Rooms
    BY <1>1, Types
  <2> QED
    BY <1>11, <2>1, <2>2
<1>13. PageReaches'
  <2> SUFFICES ASSUME s \in Rooms
               PROVE  \/ /\ p # <<>> => p[1] = idb'.cursor[s] + 1
                         /\ ~run.more => idb'.cursor[s] + Len(p) >= run.goal[s]
                      \/ /\ p # <<>> => p[1] > idb'.cursor[s] + 1
                         /\ Stuck(s)'
    BY DEF PageReaches, GoesOn, Stuck
  <2>1. \/ /\ h = idb.cursor[s] + 1
           /\ ~run.more => idb.cursor[s] + Len(run.page) >= run.goal[s]
        \/ h > idb.cursor[s] + 1 /\ Stuck(s)
    BY <1>1 DEF GoalsSound, PageReaches, Purged, Heads
  <2>2. CASE /\ h = idb.cursor[s] + 1
             /\ ~run.more => idb.cursor[s] + Len(run.page) >= run.goal[s]
    <3>1. Len(p) = Len(run.page) - 1 /\ Len(run.page) \in Nat
      BY <1>1 DEF Heads
    <3>2. idb'.cursor[s] = h /\ idb'.cursor[s] + Len(p) = idb.cursor[s] + Len(run.page)
      BY <1>4, <1>5, <2>2, <3>1
    <3> QED
      BY <1>5, <2>2, <3>2
  <2>3. CASE h > idb.cursor[s] + 1 /\ Stuck(s)
    <3>1. idb'.cursor[s] = idb.cursor[s]
      BY <1>4, <1>5, <2>3
    <3>2. Stuck(s)'
      BY <1>1, <2>3, <3>1 DEF Stuck, NeedsResync
    <3>3. h + 1 > idb.cursor[s] + 1
      BY <1>4, <1>5, <2>3
    <3> QED
      BY <1>5, <3>1, <3>2, <3>3
  <2> QED
    BY <2>1, <2>2, <2>3
<1> QED
  BY <1>6, <1>7, <1>9, <1>10, <1>12, <1>13 DEF LoopSound, GoalsSound

(* The rooms after the event. *)
LEMMA FreshRooms ==
  ASSUME NEW s \in Streams, NEW h, NEW p, Fresh(s, h, p), RoomsSound,
         run'.page = p, run'.stream = s
  PROVE  RoomsSound'
<1>1. /\ TypeOK /\ StoreSound /\ Grown(s, h) /\ h \in Nat /\ h <= latest[s] /\ Heads(s, h, p)
      /\ idb' \in IdbType /\ latest' = latest /\ minRetained' = minRetained /\ userLog' = userLog
  BY DEF Fresh, server
<1> DEFINE n == Len(idb.applied[s])
<1>2. /\ n \in Nat /\ DOMAIN idb.applied[s] = 1..n /\ DOMAIN idb'.applied[s] = 1..(n + 1)
      /\ idb'.applied[s][n + 1] = h
      /\ \A j \in 1..n : idb'.applied[s][j] = idb.applied[s][j] /\ idb.applied[s][j] \in Nat
      /\ \A t \in Streams : \A q : Processed(t, q)' <=> Processed(t, q) \/ (t = s /\ q = h)
  <2>1. Appended(s, h, n)
    BY <1>1, GrownApplied, Zenon
  <2> QED
    BY <2>1 DEF Appended
<1> HIDE DEF n
<1>3. CASE s # User
  <2>1. /\ idb'.purged = idb.purged /\ idb'.rooms = idb.rooms
        /\ idb'.cursor[User] = idb.cursor[User] /\ idb'.applied[User] = idb.applied[User]
    BY <1>1, <1>3 DEF Grown, Streams
  <2> QED
    BY <1>1, <1>3, <2>1
    DEF RoomsSound, UserApplied, UserPageFollows, RoomsFollowUserStream
<1>4. CASE s = User
  <2>1. /\ h = idb.cursor[User] + 1 /\ idb.cursor[User] \in Nat /\ idb.purged \in Nat
        /\ idb.purged <= idb.cursor[User] /\ h \in Nat
    BY <1>1, <1>4, Types DEF Heads, StoreSound, UserStreamKept
  <2>2. /\ idb'.purged = idb.purged /\ idb'.cursor[User] = h /\ idb'.rooms = Project(userLog[h])
    BY <1>1, <1>4, <2>1 DEF Grown
  <2>3. UserPageFollows'
    BY <1>1, <1>4, <2>2 DEF UserPageFollows, Heads
  <2>4. UserApplied'
    <3>1. \A q : q \in Range(idb'.applied[User]) <=> q \in Range(idb.applied[User]) \/ q = h
      BY <1>4, <1>2 DEF Processed, Streams
    <3>2. \A q : q \in (idb.purged + 1)..h <=> q \in (idb.purged + 1)..idb.cursor[User] \/ q = h
      BY <2>1
    <3>3. \A q : q \in Range(idb'.applied[User]) <=> q \in (idb'.purged + 1)..idb'.cursor[User]
      BY <2>2, <3>1, <3>2 DEF RoomsSound, UserApplied
    <3> QED
      BY <3>3 DEF UserApplied
  <2>5. RoomsFollowUserStream'
    <3> DEFINE e == userLog[h]
               S == SubSeq(userLog, idb.purged + 1, idb.cursor[User])
               T == SubSeq(userLog, idb.purged + 1, h)
    <3>1. userLog \in Seq(UserEvents) /\ h <= Len(userLog)
      BY <1>1, <1>4 DEF TypeOK, UserEvents
    <3>2. idb.purged + 1 \in Nat \ {0} /\ idb.purged + 1 <= idb.cursor[User] + 1
      BY <2>1
    <3>3. /\ e \in UserEvents
          /\ \A r \in Rooms : r \in Replay(T) <=> IF r = e.room THEN e.granted ELSE r \in Replay(S)
      BY <2>1, <3>1, <3>2, ReplayNext
    <3>4. idb.rooms = Replay(S) /\ Replay(T) \subseteq Rooms /\ idb'.rooms \subseteq Rooms
      BY <1>1 DEF RoomsSound, RoomsFollowUserStream, Replay, IdbType
    <3> HIDE DEF e, S, T
    <3>5. e.granted \in BOOLEAN
      BY <3>3 DEF UserEvents
    <3>6. \A r \in Rooms : r \in Project(e) <=> IF r = e.room THEN e.granted ELSE r \in idb.rooms
      BY <3>5 DEF Project
    <3>7. idb'.rooms = Project(e)
      BY <2>2 DEF e
    <3>8. idb'.rooms = Replay(T)
      BY <3>3, <3>4, <3>6, <3>7
    <3> QED
      BY <1>1, <2>2, <3>8 DEF RoomsFollowUserStream, T
  <2> QED
    BY <2>3, <2>4, <2>5 DEF RoomsSound
<1> QED
  BY <1>3, <1>4

(* An event applied for the first time. *)
LEMMA FreshStep ==
  ASSUME RInv, Applying, run.page # <<>>, NEW s \in Streams, s = run.stream,
         NEW h, h = Head(run.page), ~Processed(s, h), <<s, h>> \notin Unknown, Apply(s, h),
         run' = [run EXCEPT !.page = Tail(run.page)], sync' = sync, UNCHANGED server
  PROVE  RInv'
<1>1. TypeOK /\ StoreSound /\ LoopSound /\ GoalsSound /\ RoomsSound
  BY DEF RInv
<1> DEFINE p == Tail(run.page)
<1>2. h \in Nat \ {0} /\ h <= latest[s] /\ Heads(s, h, p)
  BY HeadOfPage
<1>3. s = User => h \in 1..Len(userLog)
  <2>1. latest[s] \in Nat /\ Len(userLog) = latest[User]
    BY <1>1, Types DEF TypeOK
  <2> QED
    BY <1>2, <2>1
<1>4. idb' \in IdbType /\ Grown(s, h)
  BY <1>1, <1>2, <1>3, ApplyGrows
<1> HIDE DEF p
<1>5. Fresh(s, h, p)
  BY <1>1, <1>2, <1>4 DEF Fresh, Applying
<1>6. run \in RunType /\ sync \in SyncType
  BY <1>1 DEF TypeOK, RunType, SyncType
<1>7. /\ run' \in RunType /\ run'.gen = run.gen /\ run'.goal = run.goal
      /\ run'.pc = "apply" /\ run'.page = p /\ run'.more = run.more
      /\ run'.stream = s /\ run'.todo = run.todo
  <2>1. run' = [run EXCEPT !.page = p] /\ run.pc = "apply"
    BY DEF p, Applying
  <2>2. p \in Seq(Nat)
    BY <1>2 DEF Heads
  <2> QED
    BY <1>6, <2>1, <2>2 DEF RunType
<1>8. GoesOn
  BY <1>6, <1>7 DEF GoesOn
<1>9. TypeOK'
  <2>1. latest' = latest /\ minRetained' = minRetained /\ userLog' = userLog
    BY DEF server
  <2> QED
    BY <1>1, <1>4, <1>6, <1>7, <2>1 DEF TypeOK, IdbType, RunType, SyncType
<1>10. StoreSound'
  BY <1>5, FreshStore
<1>11. LoopSound' /\ GoalsSound'
  BY <1>1, <1>5, <1>7, <1>8, FreshLoop DEF Looping, Applying
<1>12. RoomsSound'
  BY <1>1, <1>5, <1>7, FreshRooms
<1> QED
  BY <1>9, <1>10, <1>11, <1>12 DEF RInv

LEMMA ApplyEventStep == RInv /\ ApplyEvent => RInv'
<1> SUFFICES ASSUME RInv, ApplyEvent PROVE RInv'
  OBVIOUS
<1> DEFINE h == Head(run.page)
           s == run.stream
<1>1. run.pc = "apply" /\ run.page # <<>> /\ UNCHANGED server /\ s \in Streams
  BY Types DEF RInv, ApplyEvent
<1>2. /\ "DIRTY" \in States /\ "CLIENT_UPGRADE_REQUIRED" \in States
      /\ (UNCHANGED <<server, idb>> <=> UNCHANGED server /\ idb' = idb)
  BY DEF States
<1> HIDE DEF h, s
<1>3. CASE \/ Throw("DIRTY") /\ UNCHANGED idb
           \/ Throw("CLIENT_UPGRADE_REQUIRED") /\ UNCHANGED idb
  BY <1>1, <1>2, <1>3, ThrowStep
<1>4. ASSUME Current, Apply(s, h), run' = [run EXCEPT !.page = Tail(run.page)], sync' = sync
      PROVE  RInv'
  <2>1. Applying
    BY <1>1, <1>4 DEF Applying
  <2>2. CASE Processed(s, h) \/ <<s, h>> \in Unknown
    <3>1. UNCHANGED <<server, idb>>
      BY <1>1, <1>4, <2>2 DEF Apply
    <3> QED
      BY <1>1, <1>4, <2>1, <2>2, <3>1, SkipStep DEF s, h
  <2>3. CASE ~(Processed(s, h) \/ <<s, h>> \in Unknown)
    BY <1>1, <1>4, <2>1, <2>3, FreshStep DEF s, h
  <2> QED
    BY <2>2, <2>3
<1>5. \/ Throw("DIRTY") /\ UNCHANGED idb
      \/ Throw("CLIENT_UPGRADE_REQUIRED") /\ UNCHANGED idb
      \/ Current /\ Apply(s, h) /\ run' = [run EXCEPT !.page = Tail(run.page)] /\ sync' = sync
  BY DEF ApplyEvent, s, h
<1> QED
  BY <1>3, <1>4, <1>5

-----------------------------------------------------------------------------
(* The theorems. *)

LEMMA NextRInv ==
  ASSUME RInv, [Next]_vars
  PROVE  RInv'
<1>1. CASE UNCHANGED vars
  <2>1. /\ UNCHANGED <<server, idb>> /\ run' = run /\ sync' = sync /\ sync.gen \in Nat
        /\ TypeOK /\ StoreSound /\ RoomsSound
    BY <1>1, Types DEF vars, server, RInv
  <2>2. TypeOK'
    BY <1>1, <2>1 DEF vars, TypeOK
  <2>3. StoreSound' /\ UserApplied' /\ RoomsFollowUserStream'
    BY <2>1, StoreKept DEF RoomsSound
  <2>4. LoopSound' /\ GoalsSound' /\ UserPageFollows'
    BY <2>1, LoopKept
  <2> QED
    BY <2>2, <2>3, <2>4 DEF RInv, RoomsSound
<1>2. CASE ServerStep
  BY <1>2, PostEventStep, ChangeAccessStep, PruneStep DEF ServerStep
<1>3. CASE AppStep
  BY <1>3, TriggerResumeLogin, PauseStep, LogoutStep, ReloadStep DEF AppStep
<1>4. CASE LoopStep
  BY <1>4, ReadCursorStep, SyncUserEventsStep, AuthorizeSyncStep, FindRoomEventsStep,
     RequestFailsStep, ApplyEventStep, PageDoneStep, ProcessCleanupStep, ReadRoomsStep
  DEF LoopStep
<1> QED
  BY <1>1, <1>2, <1>3, <1>4 DEF Next

(* The store and what the loop knows of it stay consistent, whatever the   *)
(* order of server steps, app events and steps of the loop                 *)
(* (RecoveryCoordinator, CanonicalReconciler).                             *)
THEOREM RecoveryInvariant == Spec => []RInv
<1>1. RInv /\ [Next]_vars => RInv'
  BY NextRInv
<1> QED
  BY InitRInv, <1>1, PTL DEF Spec

(* No event is applied twice, or after a later one of its stream           *)
(* (CanonicalReconciler), however the loop is cancelled and repeated.      *)
THEOREM EventsAreAppliedInOrder == Spec => []AppliedOnceInOrder
<1>1. RInv => AppliedOnceInOrder
  BY DEF RInv, StoreSound
<1> QED
  BY RecoveryInvariant, <1>1, PTL

(* No cursor passes an event that was not applied, none is ahead of the    *)
(* server, and every gap below an applied event has one of the reasons     *)
(* retention, an unknown type or the purge (CanonicalReconciler 90-100).   *)
THEOREM GapsHaveReasons == Spec => []NothingPassedOver
<1>1. RInv => NothingPassedOver
  BY DEF RInv, StoreSound, NothingPassedOver
<1> QED
  BY RecoveryInvariant, <1>1, PTL

(* The rooms the client shows are those the user events since the last     *)
(* purge leave it in (applyUserEvent's projections).                       *)
THEOREM RoomsAreReplayed == Spec => []RoomsFollowUserStream
<1>1. RInv => RoomsFollowUserStream
  BY DEF RInv, RoomsSound
<1> QED
  BY RecoveryInvariant, <1>1, PTL

LEMMA OneLoop ==
  ASSUME RInv, [Next]_vars, run.pc # "none", run'.pc # "none"
  PROVE  run'.gen = run.gen
<1>1. sync.promise # 0 /\ run \in RunType /\ sync \in SyncType
  BY DEF RInv, LoopSound, GenerationsSound, Looping, TypeOK, RunType, SyncType
<1>2. NoRun.pc = "none"
  BY DEF NoRun
<1>3. CASE UNCHANGED vars \/ ServerStep \/ Pause \/ Logout
  BY <1>3 DEF vars, ServerStep, PostEvent, ChangeAccess, Prune, Pause, Logout
<1>4. ASSUME NEW s, s = sync \/ s = [sync EXCEPT !.app = "active"], StartOrJoin(s)
      PROVE  run'.gen = run.gen
  <2>1. s.promise = sync.promise
    BY <1>1, <1>4 DEF SyncType
  <2> QED
    BY <1>1, <1>4, <2>1 DEF StartOrJoin
<1>5. CASE Trigger \/ Resume \/ Login
  BY <1>4, <1>5 DEF Trigger, Resume, Login
<1>6. CASE Reload
  BY <1>2, <1>6 DEF Reload
<1>7. \A st : ~Throw(st)
  BY <1>2 DEF Throw
<1>8. CASE ReadCursor \/ SyncUserEvents \/ AuthorizeSync \/ FindRoomEvents \/ RequestFails
  BY <1>1, <1>7, <1>8
  DEF ReadCursor, SyncUserEvents, AuthorizeSync, FindRoomEvents, RequestFails, Receive, RunType
<1>9. CASE ApplyEvent \/ ProcessCleanupIntents
  BY <1>1, <1>7, <1>9 DEF ApplyEvent, ProcessCleanupIntents, RunType
<1>10. ASSUME NEW todo, NextRoom(todo) PROVE run'.gen = run.gen
  BY <1>1, <1>2, <1>10 DEF NextRoom, RunType
<1>11. CASE PageDone \/ ReadRooms
  BY <1>1, <1>7, <1>10, <1>11 DEF PageDone, ReadRooms, RunType
<1> QED
  BY <1>3, <1>5, <1>6, <1>8, <1>9, <1>11 DEF Next, AppStep, LoopStep

(* While a loop awaits, even a superseded one, no other loop starts        *)
(* (triggerRecovery, RecoveryCoordinator 47): the promise outlives a       *)
(* cancellation.                                                           *)
THEOREM OneLoopAtATime == Spec => SingleFlight
<1>1. RInv /\ [Next]_vars => [(run.pc # "none" /\ run'.pc # "none") => run'.gen = run.gen]_vars
  BY OneLoop
<1> QED
  BY RecoveryInvariant, <1>1, PTL DEF Spec, SingleFlight

(* Only the end of the second pass writes READY. *)
LEMMA ReadyAfterRooms ==
  ASSUME RInv, [Next]_vars, sync.state # "READY", sync'.state = "READY"
  PROVE  \A r \in idb.rooms : CaughtUp(r) \/ Stuck(r)
<1>1. run \in RunType /\ sync \in SyncType
  BY DEF RInv, TypeOK, RunType, SyncType
<1>2. CASE UNCHANGED vars \/ ServerStep
  BY <1>2 DEF vars, ServerStep, PostEvent, ChangeAccess, Prune
<1>3. CASE Pause \/ Logout \/ Reload
  BY <1>1, <1>3 DEF Pause, Logout, Reload, Cancelled, FreshSync, SyncType
<1>4. ASSUME NEW s, s = sync \/ s = [sync EXCEPT !.app = "active"], StartOrJoin(s)
      PROVE  FALSE
  <2>1. s \in SyncType /\ s.state = sync.state
    BY <1>1, <1>4 DEF SyncType
  <2> DEFINE g == s.gen + 1
  <2>2. sync' = s \/ sync' = [s EXCEPT !.gen = g, !.promise = g, !.state = "RECOVERING_USER_STREAM"]
    BY <1>4 DEF StartOrJoin
  <2> HIDE DEF g
  <2> QED
    BY <2>1, <2>2 DEF SyncType
<1>5. CASE Trigger \/ Resume \/ Login
  BY <1>4, <1>5 DEF Trigger, Resume, Login
<1>6. \A st : st # "READY" => ~Throw(st)
  BY <1>1 DEF Throw, SyncType
<1>7. CASE ReadCursor \/ SyncUserEvents \/ AuthorizeSync \/ FindRoomEvents \/ RequestFails
  BY <1>6, <1>7
  DEF ReadCursor, SyncUserEvents, AuthorizeSync, FindRoomEvents, RequestFails, Receive
<1>8. CASE ApplyEvent \/ ProcessCleanupIntents
  BY <1>1, <1>6, <1>8 DEF ApplyEvent, ProcessCleanupIntents, Enter, SyncType
<1>9. ASSUME NEW todo, NextRoom(todo) PROVE todo = {}
  BY <1>1, <1>9 DEF NextRoom, Enter, SyncType
<1>10. CASE PageDone
  <2>1. /\ run.pc = "apply" /\ run.page = <<>> /\ ~run.more /\ run.stream \in Rooms
        /\ run.todo = {}
    BY <1>1, <1>9, <1>10 DEF PageDone
  <2> QED
    BY <2>1, RoomDone DEF Done
<1>11. CASE ReadRooms
  <2>1. idb.rooms = {}
    BY <1>6, <1>9, <1>11 DEF ReadRooms
  <2> QED
    BY <2>1
<1> QED
  BY <1>2, <1>3, <1>5, <1>7, <1>8, <1>10, <1>11 DEF Next, AppStep, LoopStep

(* When the state becomes READY, every room the client knows has reached   *)
(* the number the server had when the run started, unless it needs a       *)
(* resync or meets an event of an unknown type (RecoveryCoordinator 97).   *)
THEOREM ReadyIsCaughtUp == Spec => ReadyMeansCaughtUp
<1>1. RInv /\ [Next]_vars =>
        [(sync.state # "READY" /\ sync'.state = "READY")
           => \A r \in idb.rooms : CaughtUp(r) \/ Stuck(r)]_vars
  BY ReadyAfterRooms
<1> QED
  BY RecoveryInvariant, <1>1, PTL DEF Spec, ReadyMeansCaughtUp
=============================================================================
