---------------------------- MODULE StoresProofs ----------------------------
(***************************************************************************)
(* What a client keeps in IndexedDB: its outbox, for any mutations, rooms  *)
(* and number of overlapping flushes, and the stores of an account that    *)
(* are exported, restored and purged beside the recovery, for any number   *)
(* of events and of each of these.  The properties of Outbox and of        *)
(* Backup, each from an inductive invariant of its own.                    *)
(*                                                                         *)
(* An answer in a flush is true while the row is as it was read, and the   *)
(* rows that no flush has begun are as they were written.  A cursor or a   *)
(* marker is in the stores without its message only while a purge that has *)
(* still to clear it, or a restore that will install the message, is at    *)
(* work; and a backup that met neither has none.                           *)
(***************************************************************************)
EXTENDS Outbox, Backup, FiniteSetTheorems, SequenceTheorems, TLAPS

-----------------------------------------------------------------------------
(* The inductive invariant. *)

(* The sequence numbers handed out are at most as many as the rows, so that *)
(* a new row comes last.                                                    *)
OrdersCounted ==
  /\ IsFiniteSet(Queued)
  /\ \A m \in Queued : queue[m].order <= Cardinality(Queued)

(* A flush in progress is numbered, and works on rows of the store.         *)
FlushesSound ==
  /\ begun \subseteq Queued
  /\ \A f \in Flushers :
       /\ flushes[f].todo \subseteq Queued
       /\ flushes[f].pc # "none" => flushes[f].id \in 1..started
       /\ flushes[f].pc \in {"validate", "wait"} => Item(f) \in begun

(* A row no flush has begun is as enqueueMutation wrote it: every flush     *)
(* that reads the store takes it.                                           *)
UnbegunIsDue ==
  \A m \in Queued \ begun : queue[m].status = "PENDING" /\ queue[m].due

(* An answer is kept by a flush only while it is true.                      *)
AnswersAreTrue ==
  \A f \in Flushers : flushes[f].pc = "wait" =>
    /\ flushes[f].ack = "ok" /\ Item(f) \in Sends => IsStored(Item(f))
    /\ flushes[f].ack = "refused" => Refused(Item(f))

(* The list of a flush, read long ago, still holds every earlier row of the *)
(* rooms it goes on with, except those that have been begun.                *)
ListsComplete ==
  \A f \in Flushers : flushes[f].pc \in {"next", "validate", "wait"} =>
    \A n \in flushes[f].todo : RoomOf[n] \notin flushes[f].blocked =>
      \A m \in Mutations : Before(m, n) => m \in begun \cup flushes[f].todo

(* Only the flush that wrote VALIDATING takes a row out of that status.     *)
ValidatingIsHeld ==
  \A m \in Mutations : queue[m].status = "VALIDATING" =>
    \/ m \in stranded
    \/ \E f \in Flushers : flushes[f].pc = "validate" /\ Item(f) = m

OInv ==
  /\ TypeOK /\ OrdersCounted /\ FlushesSound /\ UnbegunIsDue
  /\ VerdictsAreTrue /\ AnswersAreTrue
  /\ BegunInOrder /\ ListsComplete
  /\ ValidatingIsHeld

LEMMA InitOInv == Init => OInv
<1> SUFFICES ASSUME Init PROVE OInv
  OBVIOUS
<1>1. Queued = {} /\ begun = {}
  BY DEF Init, Queued
<1>2. \A f \in Flushers : flushes[f] = NoFlush
  BY DEF Init
<1>3. TypeOK
  BY BoundsAssumption DEF Init, TypeOK, NoFlush, Statuses, Processable
<1>4. OrdersCounted
  BY <1>1, FS_EmptySet DEF OrdersCounted
<1>5. FlushesSound /\ AnswersAreTrue /\ ListsComplete
  BY <1>1, <1>2 DEF FlushesSound, AnswersAreTrue, ListsComplete, NoFlush
<1>6. UnbegunIsDue /\ BegunInOrder
  BY <1>1 DEF UnbegunIsDue, BegunInOrder
<1>7. VerdictsAreTrue /\ ValidatingIsHeld
  BY MutationsAssumption
  DEF Init, VerdictsAreTrue, AcknowledgedIsStored, RejectedOnlyIfRefused, ValidatingIsHeld
<1> QED
  BY <1>3, <1>4, <1>5, <1>6, <1>7 DEF OInv

-----------------------------------------------------------------------------
(* Steps that leave the rows of the store and their order as they are. *)

KeepsRows ==
  \A m \in Mutations :
    /\ queue'[m].status = "NONE" <=> queue[m].status = "NONE"
    /\ queue'[m].order = queue[m].order

LEMMA RowsKept ==
  ASSUME KeepsRows
  PROVE  /\ Queued' = Queued
         /\ \A m, n \in Mutations : Before(m, n)' <=> Before(m, n)
         /\ OrdersCounted => OrdersCounted'
<1>1. Queued' = Queued
  BY DEF KeepsRows, Queued
<1>2. \A m, n \in Mutations : Before(m, n)' <=> Before(m, n)
  BY <1>1 DEF KeepsRows, Before
<1>3. \A m \in Queued : m \in Mutations
  BY DEF Queued
<1>4. OrdersCounted => OrdersCounted'
  BY <1>1, <1>3 DEF KeepsRows, OrdersCounted
<1> QED
  BY <1>1, <1>2, <1>4

(* A status is written to a row that exists. *)
LEMMA WriteKeepsRows ==
  ASSUME TypeOK, NEW m \in Queued, NEW s \in Statuses \ {"NONE"}, Write(m, s)
  PROVE  /\ KeepsRows
         /\ queue' \in [Mutations -> [status : Statuses, order : Nat, due : BOOLEAN]]
         /\ queue'[m].status = s
         /\ \A n \in Mutations : n # m => queue'[n] = queue[n]
<1>1. m \in Mutations /\ queue[m].status # "NONE"
  BY DEF Queued
<1>2. queue' = [queue EXCEPT ![m].status = s]
  BY DEF Write
<1>3. queue \in [Mutations -> [status : Statuses, order : Nat, due : BOOLEAN]]
  BY DEF TypeOK
<1> QED
  BY <1>1, <1>2, <1>3 DEF KeepsRows

-----------------------------------------------------------------------------
(* Each step preserves the invariant. *)

LEMMA StartStep ==
  ASSUME TypeOK, FlushesSound, NEW f \in Flushers, Start(f)
  PROVE  /\ started' \in 0..MaxFlushes /\ started' >= started
         /\ flushes' \in [Flushers -> [pc : {"none", "read", "next", "validate", "wait"},
                                  id : Nat, todo : SUBSET Mutations,
                                  item : Mutations \cup {"none"}, blocked : SUBSET Rooms,
                                  ack : {"none", "ok", "retry", "refused"}]]
         /\ flushes'[f].pc = "read" /\ flushes'[f].id \in 1..started'
         /\ flushes'[f].todo = flushes[f].todo
         /\ \A g \in Flushers : g # f => flushes'[g] = flushes[g]
<1>1. started \in 0..MaxFlushes /\ started + 1 \in 1..MaxFlushes /\ started' = started + 1
  BY BoundsAssumption DEF TypeOK, Start
<1>2. flushes' = [flushes EXCEPT ![f] = [flushes[f] EXCEPT !.pc = "read", !.id = started + 1]]
  BY DEF Start, TypeOK
<1>3. started + 1 \in Nat /\ started + 1 \in 1..(started + 1)
  BY <1>1
<1>4. started' \in 0..MaxFlushes /\ started' >= started
  BY <1>1
<1> QED
  BY <1>1, <1>2, <1>3, <1>4 DEF TypeOK

LEMMA EnqueueStep ==
  ASSUME OInv, NEW m \in Mutations, NEW f \in Flushers, Enqueue(m, f)
  PROVE  OInv'
<1>0. TypeOK /\ OrdersCounted /\ FlushesSound
  BY DEF OInv
<1>1. Start(f) /\ m \notin Queued
  BY DEF Enqueue
<1>2. queue' = [queue EXCEPT
       ![m] = [status |-> "PENDING", order |-> Cardinality(Queued) + 1, due |-> TRUE]]
  BY DEF Enqueue
<1>3. UNCHANGED <<wire, stored, refusing, begun, stranded>>
  BY DEF Enqueue
<1>4. Cardinality(Queued) \in Nat /\ Queued \subseteq Mutations
  BY <1>0, FS_CardinalityType DEF OrdersCounted, Queued
<1>5. /\ queue'[m] = [status |-> "PENDING", order |-> Cardinality(Queued) + 1, due |-> TRUE]
      /\ \A n \in Mutations : n # m => queue'[n] = queue[n]
  BY <1>0, <1>2 DEF TypeOK
<1>6. queue' \in [Mutations -> [status : Statuses, order : Nat, due : BOOLEAN]]
  <2>1. [status |-> "PENDING", order |-> Cardinality(Queued) + 1, due |-> TRUE]
          \in [status : Statuses, order : Nat, due : BOOLEAN]
    BY <1>4 DEF Statuses, Processable
  <2> QED
    BY <1>0, <1>2, <2>1 DEF TypeOK
<1>7. Queued' = Queued \cup {m}
  BY <1>5, <1>4 DEF Queued
<1>8. TypeOK'
  BY <1>0, <1>1, <1>3, <1>6, StartStep, BoundsAssumption DEF TypeOK
<1>9. \A n \in Queued : queue'[n] = queue[n] /\ queue[n].order \in Nat
  BY <1>0, <1>1, <1>4, <1>5 DEF TypeOK
<1>10. OrdersCounted'
  <2>1. IsFiniteSet(Queued') /\ Cardinality(Queued') = Cardinality(Queued) + 1
    BY <1>0, <1>1, <1>7, FS_AddElement DEF OrdersCounted
  <2> QED
    BY <2>1, <1>0, <1>4, <1>5, <1>7, <1>9 DEF OrdersCounted
<1>11. FlushesSound'
  <2>1. started \in Nat
    BY <1>0, BoundsAssumption DEF TypeOK
  <2>2. started' \in Nat /\ started <= started'
    BY <1>0, <1>1, StartStep, <2>1, BoundsAssumption
  <2> SUFFICES ASSUME NEW g \in Flushers
      PROVE  /\ flushes'[g].todo \subseteq Queued'
             /\ flushes'[g].pc # "none" => flushes'[g].id \in 1..started'
             /\ flushes'[g].pc \in {"validate", "wait"} => Item(g)' \in begun'
    BY <1>0, <1>3, <1>7 DEF FlushesSound
  <2>3. CASE g = f
    BY <2>3, <1>0, <1>1, <1>7, StartStep DEF FlushesSound
  <2>4. CASE g # f
    BY <2>4, <2>1, <2>2, <1>0, <1>1, <1>3, <1>7, StartStep DEF FlushesSound, Item
  <2> QED
    BY <2>3, <2>4
<1>12. UnbegunIsDue'
  BY <1>3, <1>5, <1>7, <1>9 DEF OInv, UnbegunIsDue
<1>13. VerdictsAreTrue'
  BY <1>3, <1>5, MutationsAssumption
  DEF OInv, VerdictsAreTrue, AcknowledgedIsStored, RejectedOnlyIfRefused, Refused, IsStored
<1>14. \A g \in Flushers : flushes'[g].pc # "read" => flushes'[g] = flushes[g]
  BY <1>0, <1>1, StartStep
<1>15. AnswersAreTrue'
  BY <1>3, <1>14 DEF OInv, AnswersAreTrue, Refused, IsStored, Item
<1>16. \A n \in Queued : \A x \in Mutations : Before(x, n)' => Before(x, n)
  <2> SUFFICES ASSUME NEW n \in Queued, NEW x \in Mutations, Before(x, n)'
      PROVE  Before(x, n)
    OBVIOUS
  <2>1. x # m
    BY <1>0, <1>4, <1>5, <1>9 DEF Before, OrdersCounted
  <2> QED
    BY <2>1, <1>5, <1>7, <1>9 DEF Before
<1>17. BegunInOrder'
  BY <1>0, <1>3, <1>16 DEF OInv, BegunInOrder, FlushesSound
<1>18. ListsComplete'
  BY <1>0, <1>3, <1>14, <1>16 DEF OInv, ListsComplete, FlushesSound
<1>19. ValidatingIsHeld'
  <2> SUFFICES ASSUME NEW n \in Mutations, queue'[n].status = "VALIDATING"
      PROVE  \/ n \in stranded'
             \/ \E g \in Flushers : flushes'[g].pc = "validate" /\ Item(g)' = n
    BY DEF ValidatingIsHeld
  <2>1. queue[n].status = "VALIDATING"
    BY <1>5
  <2>2. \A g \in Flushers : flushes[g].pc = "validate" => flushes'[g] = flushes[g]
    BY <1>1, <1>0, StartStep DEF Start
  <2> QED
    BY <2>1, <2>2, <1>3 DEF OInv, ValidatingIsHeld, Item
<1> QED
  BY <1>8, <1>10, <1>11, <1>12, <1>13, <1>15, <1>17, <1>18, <1>19 DEF OInv

LEMMA ConnectStep ==
  ASSUME OInv, NEW f \in Flushers, Connect(f)
  PROVE  OInv'
<1>0. TypeOK /\ OrdersCounted /\ FlushesSound
  BY DEF OInv
<1>1. Start(f) /\ UNCHANGED <<queue, wire, stored, refusing, begun, stranded>>
  BY DEF Connect
<1>2. Queued' = Queued /\ (\A m, n \in Mutations : Before(m, n)' <=> Before(m, n))
      /\ OrdersCounted'
  BY <1>0, <1>1, RowsKept DEF KeepsRows
<1>3. TypeOK'
  BY <1>0, <1>1, StartStep, BoundsAssumption DEF TypeOK
<1>4. \A g \in Flushers : flushes'[g].pc # "read" => flushes'[g] = flushes[g]
  BY <1>0, <1>1, StartStep
<1>5. FlushesSound'
  <2>1. started \in Nat /\ started' \in Nat /\ started <= started'
    BY <1>0, <1>1, StartStep, BoundsAssumption DEF TypeOK
  <2> SUFFICES ASSUME NEW g \in Flushers
      PROVE  /\ flushes'[g].todo \subseteq Queued'
             /\ flushes'[g].pc # "none" => flushes'[g].id \in 1..started'
             /\ flushes'[g].pc \in {"validate", "wait"} => Item(g)' \in begun'
    BY <1>0, <1>1, <1>2 DEF FlushesSound
  <2>2. CASE g = f
    BY <2>2, <1>0, <1>1, <1>2, StartStep DEF FlushesSound
  <2>3. CASE g # f
    BY <2>3, <2>1, <1>0, <1>1, <1>2, StartStep DEF FlushesSound, Item
  <2> QED
    BY <2>2, <2>3
<1>6. UnbegunIsDue' /\ VerdictsAreTrue'
  BY <1>1, <1>2
  DEF OInv, UnbegunIsDue, VerdictsAreTrue, AcknowledgedIsStored, RejectedOnlyIfRefused, Refused, IsStored
<1>7. AnswersAreTrue'
  BY <1>1, <1>4 DEF OInv, AnswersAreTrue, Refused, IsStored, Item
<1>8. BegunInOrder' /\ ListsComplete'
  BY <1>0, <1>1, <1>2, <1>4 DEF OInv, BegunInOrder, ListsComplete, FlushesSound, TypeOK
<1>9. ValidatingIsHeld'
  <2>1. \A g \in Flushers : flushes[g].pc = "validate" => flushes'[g] = flushes[g]
    BY <1>1, <1>0, StartStep DEF Start
  <2> QED
    BY <2>1, <1>1 DEF OInv, ValidatingIsHeld, Item
<1> QED
  BY <1>2, <1>3, <1>5, <1>6, <1>7, <1>8, <1>9 DEF OInv

(* Steps of one flush: the record of the others is as it was.               *)
LEMMA ReadQueueStep ==
  ASSUME OInv, NEW f \in Flushers, ReadQueue(f)
  PROVE  OInv'
<1>0. TypeOK /\ OrdersCounted /\ FlushesSound
  BY DEF OInv
<1> DEFINE Rows == {m \in Mutations : Due(m)}
<1>1. /\ flushes[f].pc = "read"
      /\ UNCHANGED <<queue, wire, started, stored, refusing, begun, stranded>>
  BY DEF ReadQueue
<1>2. flushes' = [flushes EXCEPT ![f] = [flushes[f] EXCEPT !.pc = "next", !.todo = Rows]]
  BY <1>0 DEF ReadQueue, TypeOK
<1>3. /\ flushes'[f] = [flushes[f] EXCEPT !.pc = "next", !.todo = Rows]
      /\ \A g \in Flushers : g # f => flushes'[g] = flushes[g]
  BY <1>0, <1>2 DEF TypeOK
<1>4. /\ flushes'[f].pc = "next" /\ flushes'[f].todo = Rows /\ flushes'[f].id = flushes[f].id
  BY <1>0, <1>3 DEF TypeOK
<1>5. Rows \subseteq Queued
  BY DEF Due, Queued, Processable
<1>6. Queued' = Queued /\ (\A m, n \in Mutations : Before(m, n)' <=> Before(m, n))
      /\ OrdersCounted'
  BY <1>0, <1>1, RowsKept DEF KeepsRows
<1>7. TypeOK'
  <2>1. [flushes[f] EXCEPT !.pc = "next", !.todo = Rows]
          \in [pc : {"none", "read", "next", "validate", "wait"},
               id : Nat, todo : SUBSET Mutations,
               item : Mutations \cup {"none"}, blocked : SUBSET Rooms,
               ack : {"none", "ok", "retry", "refused"}]
    BY <1>0 DEF TypeOK
  <2> HIDE DEF Rows
  <2> QED
    BY <1>0, <1>1, <1>2, <2>1 DEF TypeOK
<1> HIDE DEF Rows
<1>8. FlushesSound'
  BY <1>0, <1>1, <1>3, <1>4, <1>5, <1>6 DEF FlushesSound, Item
<1>9. UnbegunIsDue' /\ VerdictsAreTrue' /\ BegunInOrder'
  BY <1>0, <1>1, <1>6
  DEF OInv, UnbegunIsDue, VerdictsAreTrue, AcknowledgedIsStored, RejectedOnlyIfRefused, Refused, IsStored,
      BegunInOrder, TypeOK
<1>10. AnswersAreTrue'
  BY <1>1, <1>3, <1>4 DEF OInv, AnswersAreTrue, Refused, IsStored, Item
<1>11. ListsComplete'
  <2>1. \A m \in Queued \ begun : m \in Rows
    BY DEF OInv, UnbegunIsDue, Rows, Due, Processable, Queued
  <2>2. \A m, n \in Mutations : Before(m, n) => m \in begun \cup Rows
    BY <2>1 DEF Before
  <2>3. Rows \subseteq Mutations
    BY DEF Rows
  <2> SUFFICES ASSUME NEW g \in Flushers, flushes'[g].pc \in {"next", "validate", "wait"},
                      NEW n \in flushes'[g].todo, RoomOf[n] \notin flushes'[g].blocked,
                      NEW m \in Mutations, Before(m, n)'
      PROVE  m \in begun' \cup flushes'[g].todo
    BY DEF ListsComplete
  <2>4. CASE g = f
    BY <2>4, <2>2, <2>3, <1>1, <1>4, <1>6
  <2>5. CASE g # f
    <3>1. n \in Mutations
      BY <1>0, <1>3, <2>5 DEF TypeOK
    <3> QED
      BY <3>1, <2>5, <1>1, <1>3, <1>6 DEF OInv, ListsComplete
  <2> QED
    BY <2>4, <2>5
<1>12. ValidatingIsHeld'
  BY <1>1, <1>3 DEF OInv, ValidatingIsHeld, Item
<1> QED
  BY <1>6, <1>7, <1>8, <1>9, <1>10, <1>11, <1>12 DEF OInv

(* A flush skips a row of a blocked room. *)
LEMMA SkipStep ==
  ASSUME OInv, NEW f \in Flushers, flushes[f].pc = "next", NEW m \in Mutations,
         RoomOf[m] \in flushes[f].blocked,
         flushes' = [flushes EXCEPT ![f].todo = @ \ {m}],
         UNCHANGED <<queue, wire, started, stored, refusing, begun, stranded>>
  PROVE  OInv'
<1>0. TypeOK /\ OrdersCounted /\ FlushesSound
  BY DEF OInv
<1>1. /\ \A g \in Flushers : g # f => flushes'[g] = flushes[g]
      /\ flushes'[f].todo = flushes[f].todo \ {m}
      /\ flushes'[f].pc = "next" /\ flushes'[f].id = flushes[f].id
      /\ flushes'[f].blocked = flushes[f].blocked
  BY <1>0 DEF TypeOK
<1>2. Queued' = Queued /\ (\A x, n \in Mutations : Before(x, n)' <=> Before(x, n))
      /\ OrdersCounted'
  BY <1>0, RowsKept DEF KeepsRows
<1>3. TypeOK'
  BY <1>0 DEF TypeOK
<1>4. FlushesSound'
  BY <1>0, <1>1, <1>2 DEF FlushesSound, Item
<1>5. UnbegunIsDue' /\ VerdictsAreTrue' /\ BegunInOrder'
  BY <1>0, <1>2
  DEF OInv, UnbegunIsDue, VerdictsAreTrue, AcknowledgedIsStored, RejectedOnlyIfRefused, Refused, IsStored,
      BegunInOrder, TypeOK
<1>6. AnswersAreTrue' /\ ValidatingIsHeld'
  BY <1>1 DEF OInv, AnswersAreTrue, Refused, ValidatingIsHeld, IsStored, Item
<1>7. ListsComplete'
  <2> SUFFICES ASSUME NEW g \in Flushers, flushes'[g].pc \in {"next", "validate", "wait"},
                      NEW n \in flushes'[g].todo, RoomOf[n] \notin flushes'[g].blocked,
                      NEW x \in Mutations, Before(x, n)'
      PROVE  x \in begun' \cup flushes'[g].todo
    BY DEF ListsComplete
  <2>1. n \in flushes[g].todo /\ n \in Mutations /\ RoomOf[n] \notin flushes[g].blocked
    BY <1>0, <1>1 DEF TypeOK
  <2>2. Before(x, n) /\ x \in begun \cup flushes[g].todo
    BY <2>1, <1>1, <1>2 DEF OInv, ListsComplete
  <2>3. g = f => x # m
    BY <2>1, <2>2 DEF Before
  <2> QED
    BY <2>2, <2>3, <1>1
<1> QED
  BY <1>2, <1>3, <1>4, <1>5, <1>6, <1>7 DEF OInv

(* A flush takes the first row it has left: of its room, every earlier row  *)
(* has been begun.                                                          *)
LEMMA TakeStep ==
  ASSUME OInv, NEW f \in Flushers, flushes[f].pc = "next", NEW m \in Mutations,
         First(m, flushes[f].todo), RoomOf[m] \notin flushes[f].blocked,
         flushes' = [flushes EXCEPT ![f] = [flushes[f] EXCEPT !.pc = "validate", !.item = m]],
         Write(m, "VALIDATING"), begun' = begun \cup {m},
         UNCHANGED <<wire, started, stored, refusing, stranded>>
  PROVE  OInv'
<1>0. TypeOK /\ OrdersCounted /\ FlushesSound
  BY DEF OInv
<1>1. /\ flushes[f].todo \subseteq Mutations
      /\ flushes \in [Flushers -> [pc : {"none", "read", "next", "validate", "wait"},
                                   id : Nat, todo : SUBSET Mutations,
                                   item : Mutations \cup {"none"}, blocked : SUBSET Rooms,
                                   ack : {"none", "ok", "retry", "refused"}]]
  BY <1>0 DEF TypeOK
<1>2. /\ \A g \in Flushers : g # f => flushes'[g] = flushes[g]
      /\ flushes'[f].todo = flushes[f].todo /\ flushes'[f].item = m
      /\ flushes'[f].pc = "validate" /\ flushes'[f].id = flushes[f].id
      /\ flushes'[f].blocked = flushes[f].blocked
  BY <1>1
<1>3. m \in flushes[f].todo /\ m \in Queued
  BY <1>0 DEF First, FlushesSound
<1>4. /\ KeepsRows
      /\ queue' \in [Mutations -> [status : Statuses, order : Nat, due : BOOLEAN]]
      /\ queue'[m].status = "VALIDATING"
      /\ \A n \in Mutations : n # m => queue'[n] = queue[n]
  BY <1>0, <1>3, WriteKeepsRows DEF Statuses
<1>5. Queued' = Queued /\ (\A x, n \in Mutations : Before(x, n)' <=> Before(x, n))
      /\ OrdersCounted'
  BY <1>0, <1>4, RowsKept
<1>6. TypeOK'
  <2>1. [flushes[f] EXCEPT !.pc = "validate", !.item = m]
          \in [pc : {"none", "read", "next", "validate", "wait"},
               id : Nat, todo : SUBSET Mutations,
               item : Mutations \cup {"none"}, blocked : SUBSET Rooms,
               ack : {"none", "ok", "retry", "refused"}]
    BY <1>0 DEF TypeOK
  <2> QED
    BY <1>0, <1>1, <1>4, <2>1 DEF TypeOK
<1>7. FlushesSound'
  BY <1>0, <1>2, <1>3, <1>5 DEF FlushesSound, Item
<1>8. UnbegunIsDue'
  BY <1>4, <1>5 DEF OInv, UnbegunIsDue, Queued
<1>9. VerdictsAreTrue'
  BY <1>4, MutationsAssumption
  DEF OInv, VerdictsAreTrue, AcknowledgedIsStored, RejectedOnlyIfRefused, Refused, IsStored
<1>10. AnswersAreTrue'
  BY <1>2 DEF OInv, AnswersAreTrue, Refused, IsStored, Item
<1>11. BegunInOrder'
  <2> SUFFICES ASSUME NEW n \in begun', NEW x \in Mutations, Before(x, n)'
      PROVE  x \in begun'
    BY DEF BegunInOrder
  <2>1. n \in Mutations /\ Before(x, n)
    BY <1>0, <1>5 DEF TypeOK
  <2>2. CASE n \in begun
    BY <2>1, <2>2 DEF OInv, BegunInOrder
  <2>3. CASE n = m
    <3>1. x \in begun \cup flushes[f].todo
      BY <2>1, <2>3, <1>3 DEF OInv, ListsComplete
    <3>2. x \notin flushes[f].todo
      <4>1. queue[x].order < queue[m].order
        BY <2>1, <2>3 DEF Before
      <4>2. queue[x].order \in Nat /\ queue[m].order \in Nat
        BY <1>0 DEF TypeOK
      <4>3. x \in flushes[f].todo => queue[m].order <= queue[x].order
        BY DEF First
      <4> QED
        BY <4>1, <4>2, <4>3
    <3> QED
      BY <3>1, <3>2
  <2> QED
    BY <2>2, <2>3
<1>12. ListsComplete'
  <2> SUFFICES ASSUME NEW g \in Flushers, flushes'[g].pc \in {"next", "validate", "wait"},
                      NEW n \in flushes'[g].todo, RoomOf[n] \notin flushes'[g].blocked,
                      NEW x \in Mutations, Before(x, n)'
      PROVE  x \in begun' \cup flushes'[g].todo
    BY DEF ListsComplete
  <2>1. /\ n \in flushes[g].todo /\ n \in Mutations /\ RoomOf[n] \notin flushes[g].blocked
        /\ flushes[g].pc \in {"next", "validate", "wait"}
    BY <1>0, <1>2 DEF TypeOK
  <2> QED
    BY <2>1, <1>2, <1>5 DEF OInv, ListsComplete
<1>13. ValidatingIsHeld'
  BY <1>2, <1>4 DEF OInv, ValidatingIsHeld, Item
<1> QED
  BY <1>5, <1>6, <1>7, <1>8, <1>9, <1>10, <1>11, <1>12, <1>13 DEF OInv

LEMMA BeginItemStep ==
  ASSUME OInv, NEW f \in Flushers, BeginItem(f)
  PROVE  OInv'
<1>1. PICK m \in Mutations :
        /\ First(m, flushes[f].todo)
        /\ IF RoomOf[m] \in flushes[f].blocked
           THEN /\ flushes' = [flushes EXCEPT ![f].todo = @ \ {m}]
                /\ UNCHANGED <<queue, begun>>
           ELSE /\ flushes' = [flushes EXCEPT ![f].pc = "validate", ![f].item = m]
                /\ Write(m, "VALIDATING")
                /\ begun' = begun \cup {m}
  BY DEF BeginItem
<1>2. flushes[f].pc = "next" /\ UNCHANGED <<wire, started, stored, refusing, stranded>>
  BY DEF BeginItem
<1>3. CASE RoomOf[m] \in flushes[f].blocked
  BY <1>1, <1>2, <1>3, SkipStep
<1>4. CASE RoomOf[m] \notin flushes[f].blocked
  <2>1. flushes' = [flushes EXCEPT ![f] = [flushes[f] EXCEPT !.pc = "validate", !.item = m]]
    BY <1>1, <1>4 DEF OInv, TypeOK
  <2>2. Write(m, "VALIDATING") /\ begun' = begun \cup {m}
    BY <1>1, <1>4
  <2> QED
    BY <2>1, <2>2, <1>1, <1>2, <1>4, TakeStep
<1> QED
  BY <1>3, <1>4

(* A flush ends, at the end of its list or because it could not read one.   *)
LEMMA ClosedStep ==
  ASSUME OInv, NEW f \in Flushers, flushes[f].pc \in {"read", "next"},
         flushes' = [flushes EXCEPT ![f] = NoFlush],
         UNCHANGED <<queue, wire, started, stored, refusing, begun, stranded>>
  PROVE  OInv'
<1>0. TypeOK /\ OrdersCounted /\ FlushesSound
  BY DEF OInv
<1>1. /\ flushes[f].pc # "validate" /\ flushes' = [flushes EXCEPT ![f] = NoFlush]
      /\ UNCHANGED <<queue, wire, started, stored, refusing, begun, stranded>>
  OBVIOUS
<1>2. /\ \A g \in Flushers : g # f => flushes'[g] = flushes[g]
      /\ flushes'[f].pc = "none" /\ flushes'[f].todo = {}
  BY <1>0, <1>1 DEF TypeOK, NoFlush
<1>3. Queued' = Queued /\ (\A x, n \in Mutations : Before(x, n)' <=> Before(x, n))
      /\ OrdersCounted'
  BY <1>0, <1>1, RowsKept DEF KeepsRows
<1>4. TypeOK'
  BY <1>0, <1>1 DEF TypeOK, NoFlush
<1>5. FlushesSound' /\ AnswersAreTrue' /\ ValidatingIsHeld'
  BY <1>0, <1>1, <1>2, <1>3
  DEF OInv, FlushesSound, AnswersAreTrue, Refused, ValidatingIsHeld, IsStored, Item
<1>6. UnbegunIsDue' /\ VerdictsAreTrue' /\ BegunInOrder'
  BY <1>0, <1>1, <1>3
  DEF OInv, UnbegunIsDue, VerdictsAreTrue, AcknowledgedIsStored, RejectedOnlyIfRefused, Refused, IsStored,
      BegunInOrder, TypeOK
<1>7. ListsComplete'
  BY <1>0, <1>1, <1>2, <1>3 DEF OInv, ListsComplete, TypeOK
<1> QED
  BY <1>3, <1>4, <1>5, <1>6, <1>7 DEF OInv

LEMMA SendStep ==
  ASSUME OInv, NEW f \in Flushers, Send(f)
  PROVE  OInv'
<1>0. TypeOK /\ OrdersCounted /\ FlushesSound
  BY DEF OInv
<1> DEFINE m == Item(f)
           ack == IF m \in Sends THEN "none" ELSE "ok"
           sent == [m |-> m, flush |-> flushes[f].id]
<1>1. /\ flushes[f].pc = "validate" /\ Write(m, "SENDING") /\ wire' = wire \cup {sent}
      /\ UNCHANGED <<started, stored, refusing, begun, stranded>>
  BY DEF Send
<1>2. /\ flushes' = [flushes EXCEPT ![f] = [flushes[f] EXCEPT !.pc = "wait", !.ack = ack]]
      /\ ack \in {"none", "ok"}
  BY <1>0 DEF TypeOK, Send
<1>3. m \in begun /\ m \in Queued /\ m \in Mutations /\ flushes[f].id \in 1..started
  BY <1>0, <1>1 DEF FlushesSound, Queued
<1>4. ack = "ok" => m \notin Sends
  OBVIOUS
<1>5. flushes[f].item = m
  BY DEF Item
<1> HIDE DEF ack, m
<1>6. /\ \A g \in Flushers : g # f => flushes'[g] = flushes[g]
      /\ flushes'[f].todo = flushes[f].todo /\ flushes'[f].item = m
      /\ flushes'[f].pc = "wait" /\ flushes'[f].id = flushes[f].id
      /\ flushes'[f].blocked = flushes[f].blocked /\ flushes'[f].ack = ack
  BY <1>0, <1>2, <1>5 DEF TypeOK
<1>7. /\ KeepsRows
      /\ queue' \in [Mutations -> [status : Statuses, order : Nat, due : BOOLEAN]]
      /\ queue'[m].status = "SENDING"
      /\ \A n \in Mutations : n # m => queue'[n] = queue[n]
  BY <1>0, <1>1, <1>3, WriteKeepsRows DEF Statuses, Processable
<1>8. Queued' = Queued /\ (\A x, n \in Mutations : Before(x, n)' <=> Before(x, n))
      /\ OrdersCounted'
  BY <1>0, <1>7, RowsKept
<1>9. TypeOK'
  <2>1. [flushes[f] EXCEPT !.pc = "wait", !.ack = ack]
          \in [pc : {"none", "read", "next", "validate", "wait"},
               id : Nat, todo : SUBSET Mutations,
               item : Mutations \cup {"none"}, blocked : SUBSET Rooms,
               ack : {"none", "ok", "retry", "refused"}]
    BY <1>0, <1>2 DEF TypeOK
  <2>2. sent \in [m : Mutations, flush : 1..MaxFlushes]
    BY <1>0, <1>3, BoundsAssumption DEF TypeOK
  <2> HIDE DEF sent
  <2> QED
    BY <1>0, <1>1, <1>2, <1>7, <2>1, <2>2 DEF TypeOK
<1>10. FlushesSound'
  BY <1>0, <1>1, <1>3, <1>6, <1>8 DEF FlushesSound, Item
<1>11. UnbegunIsDue'
  BY <1>1, <1>3, <1>7, <1>8 DEF OInv, UnbegunIsDue, Queued
<1>12. VerdictsAreTrue'
  BY <1>1, <1>7, MutationsAssumption
  DEF OInv, VerdictsAreTrue, AcknowledgedIsStored, RejectedOnlyIfRefused, Refused, IsStored
<1>13. AnswersAreTrue'
  BY <1>1, <1>2, <1>4, <1>6 DEF OInv, AnswersAreTrue, Refused, IsStored, Item
<1>14. BegunInOrder'
  BY <1>0, <1>1, <1>8 DEF OInv, BegunInOrder, TypeOK
<1>15. ListsComplete'
  BY <1>0, <1>1, <1>6, <1>8 DEF OInv, ListsComplete, TypeOK
<1>16. ValidatingIsHeld'
  BY <1>1, <1>5, <1>6, <1>7 DEF OInv, ValidatingIsHeld, Item
<1> QED
  BY <1>8, <1>9, <1>10, <1>11, <1>12, <1>13, <1>14, <1>15, <1>16 DEF OInv

(* A flush writes what became of its row and goes on with the next.         *)
LEMMA LeaveStep ==
  ASSUME OInv, NEW f \in Flushers, flushes[f].pc = "wait",
         NEW s \in Statuses \ {"NONE", "VALIDATING"}, NEW d \in BOOLEAN, NEW b \in SUBSET Rooms,
         s = "ACKNOWLEDGED" /\ Item(f) \in Sends => IsStored(Item(f)),
         s = "PERMANENTLY_REJECTED" => Refused(Item(f)),
         queue' = [queue EXCEPT ![Item(f)] = [queue[Item(f)] EXCEPT !.status = s, !.due = d]],
         Leave(f, b),
         UNCHANGED <<wire, started, stored, refusing, begun, stranded>>
  PROVE  OInv'
<1>0. TypeOK /\ OrdersCounted /\ FlushesSound
  BY DEF OInv
<1> DEFINE m == Item(f)
<1>1. m \in begun /\ m \in Queued /\ m \in Mutations /\ queue[m].status # "NONE"
  BY <1>0 DEF FlushesSound, Queued
<1>2. flushes' = [flushes EXCEPT
        ![f] = [flushes[f] EXCEPT !.pc = "next", !.todo = flushes[f].todo \ {m}, !.item = "none",
                                  !.blocked = flushes[f].blocked \cup b, !.ack = "none"]]
  BY DEF Leave
<1>3. queue' = [queue EXCEPT ![m] = [queue[m] EXCEPT !.status = s, !.due = d]]
  OBVIOUS
<1>4. /\ s = "ACKNOWLEDGED" /\ m \in Sends => m \in stored
      /\ s = "PERMANENTLY_REJECTED" => Refused(m)
  BY DEF IsStored
<1> HIDE DEF m
<1>5. /\ \A g \in Flushers : g # f => flushes'[g] = flushes[g]
      /\ flushes'[f].todo = flushes[f].todo \ {m}
      /\ flushes'[f].pc = "next" /\ flushes'[f].id = flushes[f].id
      /\ flushes'[f].blocked = flushes[f].blocked \cup b
  BY <1>0, <1>2 DEF TypeOK
<1>6. /\ KeepsRows
      /\ queue' \in [Mutations -> [status : Statuses, order : Nat, due : BOOLEAN]]
      /\ queue'[m].status = s
      /\ \A n \in Mutations : n # m => queue'[n] = queue[n]
  <2>1. queue \in [Mutations -> [status : Statuses, order : Nat, due : BOOLEAN]]
    BY <1>0 DEF TypeOK
  <2>2. queue[m] \in [status : Statuses, order : Nat, due : BOOLEAN]
    BY <1>1, <2>1
  <2> DEFINE row == [queue[m] EXCEPT !.status = s, !.due = d]
  <2>3. /\ row \in [status : Statuses, order : Nat, due : BOOLEAN]
        /\ row.status = s /\ row.order = queue[m].order
    BY <2>2
  <2>a. queue' = [queue EXCEPT ![m] = row]
    BY <1>3
  <2> HIDE DEF row
  <2>4. /\ queue'[m] = row
        /\ \A n \in Mutations : n # m => queue'[n] = queue[n]
        /\ queue' \in [Mutations -> [status : Statuses, order : Nat, due : BOOLEAN]]
    BY <1>1, <2>a, <2>1, <2>3
  <2>5. queue'[m].status = s /\ queue'[m].order = queue[m].order
    BY <2>3, <2>4
  <2> QED
    BY <1>1, <2>4, <2>5 DEF KeepsRows
<1>7. Queued' = Queued /\ (\A x, n \in Mutations : Before(x, n)' <=> Before(x, n))
      /\ OrdersCounted'
  BY <1>0, <1>6, RowsKept
<1>8. TypeOK'
  <2>1. [flushes[f] EXCEPT !.pc = "next", !.todo = flushes[f].todo \ {m}, !.item = "none",
                           !.blocked = flushes[f].blocked \cup b, !.ack = "none"]
          \in [pc : {"none", "read", "next", "validate", "wait"},
               id : Nat, todo : SUBSET Mutations,
               item : Mutations \cup {"none"}, blocked : SUBSET Rooms,
               ack : {"none", "ok", "retry", "refused"}]
    BY <1>0 DEF TypeOK
  <2> QED
    BY <1>0, <1>2, <1>6, <2>1 DEF TypeOK
<1>9. FlushesSound'
  BY <1>0, <1>5, <1>7 DEF FlushesSound, Item
<1>10. UnbegunIsDue'
  BY <1>1, <1>6, <1>7 DEF OInv, UnbegunIsDue, Queued
<1>11. VerdictsAreTrue'
  BY <1>4, <1>6, MutationsAssumption
  DEF OInv, VerdictsAreTrue, AcknowledgedIsStored, RejectedOnlyIfRefused, Refused, IsStored
<1>12. AnswersAreTrue'
  BY <1>5 DEF OInv, AnswersAreTrue, Refused, IsStored, Item
<1>13. BegunInOrder'
  BY <1>0, <1>7 DEF OInv, BegunInOrder, TypeOK
<1>14. ListsComplete'
  <2> SUFFICES ASSUME NEW g \in Flushers, flushes'[g].pc \in {"next", "validate", "wait"},
                      NEW n \in flushes'[g].todo, RoomOf[n] \notin flushes'[g].blocked,
                      NEW x \in Mutations, Before(x, n)'
      PROVE  x \in begun' \cup flushes'[g].todo
    BY DEF ListsComplete
  <2>1. /\ n \in flushes[g].todo /\ n \in Mutations /\ RoomOf[n] \notin flushes[g].blocked
        /\ flushes[g].pc \in {"next", "validate", "wait"}
    BY <1>0, <1>5 DEF TypeOK
  <2>2. x \in begun \cup flushes[g].todo
    BY <2>1, <1>7 DEF OInv, ListsComplete
  <2> QED
    BY <2>2, <1>1, <1>5
<1>15. ValidatingIsHeld'
  BY <1>5, <1>6 DEF OInv, ValidatingIsHeld, Item
<1> QED
  BY <1>7, <1>8, <1>9, <1>10, <1>11, <1>12, <1>13, <1>14, <1>15 DEF OInv

(* A flush leaves a row as it is and goes on: it was not written.           *)
LEMMA MoveOnStep ==
  ASSUME OInv, NEW f \in Flushers, NEW m \in Queued, flushes[f].pc # "none",
         \A x \in Mutations : Before(x, m) => x \in begun,
         flushes[f].pc = "validate" => Item(f) \in stranded',
         flushes[f].pc # "read",
         stranded \subseteq stranded', stranded' \subseteq Mutations,
         flushes' \in [Flushers -> [pc : {"none", "read", "next", "validate", "wait"},
                                  id : Nat, todo : SUBSET Mutations,
                                  item : Mutations \cup {"none"}, blocked : SUBSET Rooms,
                                  ack : {"none", "ok", "retry", "refused"}]],
         \A g \in Flushers : g # f => flushes'[g] = flushes[g],
         flushes'[f].pc = "next", flushes'[f].todo = flushes[f].todo \ {m},
         flushes'[f].id = flushes[f].id, flushes'[f].blocked = flushes[f].blocked,
         begun' = begun \cup {m}, UNCHANGED <<queue, wire, started, stored, refusing>>
  PROVE  OInv'
<1>0. TypeOK /\ OrdersCounted /\ FlushesSound /\ m \in Mutations
  BY DEF OInv, Queued
<1>1. Queued' = Queued /\ (\A x, n \in Mutations : Before(x, n)' <=> Before(x, n))
      /\ OrdersCounted'
  BY <1>0, RowsKept DEF KeepsRows
<1>2. TypeOK'
  BY <1>0 DEF TypeOK
<1>3. FlushesSound'
  BY <1>0, <1>1 DEF FlushesSound, Item
<1>4. UnbegunIsDue' /\ VerdictsAreTrue'
  BY <1>0, <1>1
  DEF OInv, UnbegunIsDue, VerdictsAreTrue, AcknowledgedIsStored, RejectedOnlyIfRefused, Refused,
      IsStored
<1>5. AnswersAreTrue'
  BY DEF OInv, AnswersAreTrue, Refused, IsStored, Item
<1>6. BegunInOrder'
  BY <1>0, <1>1 DEF OInv, BegunInOrder, TypeOK
<1>7. ListsComplete'
  <2> SUFFICES ASSUME NEW g \in Flushers, flushes'[g].pc \in {"next", "validate", "wait"},
                      NEW n \in flushes'[g].todo, RoomOf[n] \notin flushes'[g].blocked,
                      NEW x \in Mutations, Before(x, n)'
      PROVE  x \in begun' \cup flushes'[g].todo
    BY DEF ListsComplete
  <2>1. n \in flushes[g].todo /\ n \in Mutations /\ RoomOf[n] \notin flushes[g].blocked
    BY <1>0 DEF TypeOK
  <2>2. flushes[g].pc \in {"next", "validate", "wait"}
    BY <1>0 DEF TypeOK
  <2>3. x \in begun \cup flushes[g].todo
    BY <2>1, <2>2, <1>1 DEF OInv, ListsComplete
  <2> QED
    BY <2>3
<1>8. ValidatingIsHeld'
  BY DEF OInv, ValidatingIsHeld, Item
<1> QED
  BY <1>1, <1>2, <1>3, <1>4, <1>5, <1>6, <1>7, <1>8 DEF OInv

(* The row of a flush that waits has a type of its own.                     *)
LEMMA ItemRow ==
  ASSUME TypeOK, FlushesSound, NEW f \in Flushers, flushes[f].pc \in {"validate", "wait"}
  PROVE  /\ Item(f) \in Mutations /\ RoomOf[Item(f)] \in Rooms
         /\ queue[Item(f)] \in [status : Statuses, order : Nat, due : BOOLEAN]
         /\ queue \in [Mutations -> [status : Statuses, order : Nat, due : BOOLEAN]]
BY MutationsAssumption DEF TypeOK, FlushesSound, Queued

LEMMA OutcomeStep ==
  ASSUME OInv, NEW f \in Flushers, Acknowledged(f) \/ Rejected(f) \/ TimeoutOrRetry(f)
  PROVE  OInv'
<1>0. TypeOK /\ FlushesSound /\ flushes[f].pc = "wait"
  BY DEF OInv, Acknowledged, Rejected, TimeoutOrRetry
<1> DEFINE m == Item(f)
<1>1. /\ m \in Mutations /\ RoomOf[m] \in Rooms
      /\ queue[m] \in [status : Statuses, order : Nat, due : BOOLEAN]
      /\ queue \in [Mutations -> [status : Statuses, order : Nat, due : BOOLEAN]]
  BY <1>0, ItemRow
<1>2. UNCHANGED <<wire, started, stored, refusing, begun, stranded>>
  BY DEF Acknowledged, Rejected, TimeoutOrRetry
<1>3. CASE Acknowledged(f)
  <2>1. queue' = [queue EXCEPT ![m] = [queue[m] EXCEPT !.status = "ACKNOWLEDGED",
                                                       !.due = queue[m].due]]
    BY <1>1, <1>3 DEF Acknowledged, Write
  <2>2. Leave(f, {}) /\ (m \in Sends => IsStored(m))
    BY <1>0, <1>3 DEF Acknowledged, OInv, AnswersAreTrue
  <2>3. /\ "ACKNOWLEDGED" \in Statuses \ {"NONE", "VALIDATING"}
        /\ "ACKNOWLEDGED" # "PERMANENTLY_REJECTED"
        /\ {} \in SUBSET Rooms /\ queue[m].due \in BOOLEAN
    BY <1>1 DEF Statuses
  <2> QED
    BY <2>1, <2>2, <2>3, <1>0, <1>2, LeaveStep
<1>4. CASE Rejected(f)
  <2>1. queue' = [queue EXCEPT ![m] = [queue[m] EXCEPT !.status = "PERMANENTLY_REJECTED",
                                                       !.due = queue[m].due]]
    BY <1>1, <1>4 DEF Rejected, Write
  <2>2. Leave(f, {}) /\ Refused(m)
    BY <1>0, <1>4 DEF Rejected, OInv, AnswersAreTrue
  <2>3. /\ "PERMANENTLY_REJECTED" \in Statuses \ {"NONE", "VALIDATING"}
        /\ "PERMANENTLY_REJECTED" # "ACKNOWLEDGED"
        /\ {} \in SUBSET Rooms /\ queue[m].due \in BOOLEAN
    BY <1>1 DEF Statuses
  <2> QED
    BY <2>1, <2>2, <2>3, <1>0, <1>2, LeaveStep
<1>5. CASE TimeoutOrRetry(f)
  <2>1. queue' = [queue EXCEPT ![m] = [queue[m] EXCEPT !.status = "RETRYABLE_FAILURE",
                                                       !.due = FALSE]]
    BY <1>1, <1>5 DEF TimeoutOrRetry, AfterTimeout
  <2>2. Leave(f, {RoomOf[m]})
    BY <1>5 DEF TimeoutOrRetry
  <2>3. /\ "RETRYABLE_FAILURE" \in Statuses \ {"NONE", "VALIDATING"}
        /\ "RETRYABLE_FAILURE" # "ACKNOWLEDGED"
        /\ "RETRYABLE_FAILURE" # "PERMANENTLY_REJECTED"
        /\ {RoomOf[m]} \in SUBSET Rooms /\ FALSE \in BOOLEAN
    BY <1>1 DEF Statuses, Processable
  <2> QED
    BY <2>1, <2>2, <2>3, <1>0, <1>2, LeaveStep
<1> QED
  BY <1>3, <1>4, <1>5

LEMMA BackoffStep ==
  ASSUME OInv, NEW m \in Mutations, BackoffEnds(m)
  PROVE  OInv'
<1>0. TypeOK /\ OrdersCounted /\ FlushesSound
  BY DEF OInv
<1>1. /\ queue' = [queue EXCEPT ![m].due = TRUE]
      /\ UNCHANGED <<flushes, wire, started, stored, refusing, begun, stranded>>
  BY DEF BackoffEnds
<1>2. /\ queue' \in [Mutations -> [status : Statuses, order : Nat, due : BOOLEAN]]
      /\ \A n \in Mutations : /\ queue'[n].status = queue[n].status
                              /\ queue'[n].order = queue[n].order
                              /\ queue[n].due => queue'[n].due
  BY <1>0, <1>1 DEF TypeOK
<1>3. Queued' = Queued /\ (\A x, n \in Mutations : Before(x, n)' <=> Before(x, n))
      /\ OrdersCounted'
  BY <1>2, <1>0, RowsKept DEF KeepsRows
<1>4. TypeOK'
  BY <1>0, <1>1, <1>2 DEF TypeOK
<1>5. FlushesSound' /\ AnswersAreTrue' /\ ValidatingIsHeld'
  BY <1>0, <1>1, <1>2, <1>3
  DEF OInv, FlushesSound, AnswersAreTrue, Refused, ValidatingIsHeld, IsStored, Item
<1>6. UnbegunIsDue' /\ VerdictsAreTrue'
  BY <1>1, <1>2, <1>3, MutationsAssumption
  DEF OInv, UnbegunIsDue, VerdictsAreTrue, AcknowledgedIsStored, RejectedOnlyIfRefused, Refused, IsStored,
      Queued
<1>7. BegunInOrder' /\ ListsComplete'
  BY <1>0, <1>1, <1>3 DEF OInv, BegunInOrder, ListsComplete, TypeOK
<1> QED
  BY <1>3, <1>4, <1>5, <1>6, <1>7 DEF OInv

LEMMA StoreFailsStep ==
  ASSUME OInv, NEW f \in Flushers, StoreFails(f)
  PROVE  OInv'
<1>0. /\ TypeOK /\ FlushesSound /\ flushes[f].pc # "none"
      /\ UNCHANGED <<queue, wire, started, stored, refusing>>
  BY DEF OInv, StoreFails
<1>1. CASE flushes[f].pc = "read"
  <2>1. flushes' = [flushes EXCEPT ![f] = NoFlush] /\ UNCHANGED <<begun, stranded>>
    BY <1>1 DEF StoreFails
  <2> QED
    BY <2>1, <1>0, <1>1, ClosedStep
<1>2. CASE flushes[f].pc = "next"
  <2>1. PICK m \in Mutations :
          /\ First(m, flushes[f].todo) /\ RoomOf[m] \notin flushes[f].blocked
          /\ flushes' = [flushes EXCEPT ![f].todo = @ \ {m}]
          /\ begun' = begun \cup {m}
    BY <1>2 DEF StoreFails
  <2>2. stranded' = stranded
    BY <1>2 DEF StoreFails
  <2>3. flushes[f].todo \subseteq Mutations /\ m \in flushes[f].todo /\ m \in Queued
    BY <1>0, <2>1 DEF TypeOK, FlushesSound, First
  <2>4. \A x \in Mutations : Before(x, m) => x \in begun
    BY <1>0, <1>2, <2>1, <2>3 DEF OInv, ListsComplete, First, Before, TypeOK
  <2>5. /\ flushes' \in [Flushers -> [pc : {"none", "read", "next", "validate", "wait"},
                                  id : Nat, todo : SUBSET Mutations,
                                  item : Mutations \cup {"none"}, blocked : SUBSET Rooms,
                                  ack : {"none", "ok", "retry", "refused"}]]
        /\ \A g \in Flushers : g # f => flushes'[g] = flushes[g]
        /\ flushes'[f].pc = "next" /\ flushes'[f].todo = flushes[f].todo \ {m}
        /\ flushes'[f].id = flushes[f].id /\ flushes'[f].blocked = flushes[f].blocked
    BY <1>0, <1>2, <2>1 DEF TypeOK
  <2>6. stranded \subseteq stranded' /\ stranded' \subseteq Mutations
    BY <1>0, <2>2 DEF TypeOK
  <2> QED
    BY <1>0, <1>2, <2>1, <2>3, <2>4, <2>5, <2>6, MoveOnStep
<1>3. CASE flushes[f].pc \in {"validate", "wait"}
  <2> DEFINE m == Item(f)
  <2>1. Leave(f, {}) /\ begun' = begun
    BY <1>3 DEF StoreFails
  <2>2. m \in begun /\ m \in Queued /\ m \in Mutations
    BY <1>0, <1>3 DEF FlushesSound, Queued
  <2>3. begun' = begun \cup {m} /\ \A x \in Mutations : Before(x, m) => x \in begun
    BY <2>1, <2>2 DEF OInv, BegunInOrder
  <2>4. flushes' = [flushes EXCEPT
          ![f] = [flushes[f] EXCEPT !.pc = "next", !.todo = flushes[f].todo \ {m},
                    !.item = "none", !.blocked = flushes[f].blocked \cup {}, !.ack = "none"]]
    BY <2>1 DEF Leave
  <2>5. /\ stranded \subseteq stranded' /\ stranded' \subseteq Mutations
        /\ flushes[f].pc = "validate" => m \in stranded'
    BY <1>0, <1>3, <2>2 DEF StoreFails, TypeOK
  <2> HIDE DEF m
  <2>6. /\ flushes' \in [Flushers -> [pc : {"none", "read", "next", "validate", "wait"},
                                  id : Nat, todo : SUBSET Mutations,
                                  item : Mutations \cup {"none"}, blocked : SUBSET Rooms,
                                  ack : {"none", "ok", "retry", "refused"}]]
        /\ \A g \in Flushers : g # f => flushes'[g] = flushes[g]
        /\ flushes'[f].pc = "next" /\ flushes'[f].todo = flushes[f].todo \ {m}
        /\ flushes'[f].id = flushes[f].id /\ flushes'[f].blocked = flushes[f].blocked
    BY <1>0, <2>4 DEF TypeOK
  <2>7. flushes[f].pc = "validate" => Item(f) \in stranded'
    BY <2>5 DEF m
  <2> QED
    BY <1>0, <1>3, <2>2, <2>3, <2>5, <2>6, <2>7, MoveOnStep
<1> QED
  BY <1>1, <1>2, <1>3, <1>0 DEF StoreFails

(* The rejected messages are taken up again: a row changes its status from  *)
(* rejected to pending or not at all.                                       *)
LEMMA RevivedRows ==
  ASSUME TypeOK, queue' = Revived
  PROVE  /\ queue' \in [Mutations -> [status : Statuses, order : Nat, due : BOOLEAN]]
         /\ KeepsRows
         /\ \A m \in Mutations :
              \/ queue'[m].status = queue[m].status /\ queue'[m].due = queue[m].due
              \/ queue[m].status = "PERMANENTLY_REJECTED" /\ queue'[m].status = "PENDING"
<1>1. \A m \in Mutations :
        /\ queue'[m] \in [status : Statuses, order : Nat, due : BOOLEAN]
        /\ queue'[m].order = queue[m].order
        /\ \/ queue'[m].status = queue[m].status /\ queue'[m].due = queue[m].due
           \/ queue[m].status = "PERMANENTLY_REJECTED" /\ queue'[m].status = "PENDING"
  <2> TAKE m \in Mutations
  <2>1. queue[m] \in [status : Statuses, order : Nat, due : BOOLEAN] /\ "PENDING" \in Statuses
    BY DEF TypeOK, Statuses, Processable
  <2> QED
    BY <2>1 DEF Revived
<1>2. queue' \in [Mutations -> [status : Statuses, order : Nat, due : BOOLEAN]]
  BY <1>1 DEF Revived
<1> QED
  BY <1>1, <1>2 DEF KeepsRows

LEMMA InitAgainStep == OInv /\ InitAgain => OInv'
<1> SUFFICES ASSUME OInv, InitAgain PROVE OInv'
  OBVIOUS
<1>0. TypeOK /\ OrdersCounted /\ FlushesSound
  BY DEF OInv
<1>1. queue' = Revived /\ UNCHANGED <<flushes, wire, started, stored, refusing, begun, stranded>>
  BY DEF InitAgain
<1>2. /\ queue' \in [Mutations -> [status : Statuses, order : Nat, due : BOOLEAN]]
      /\ KeepsRows
      /\ \A m \in Mutations :
           \/ queue'[m].status = queue[m].status /\ queue'[m].due = queue[m].due
           \/ queue[m].status = "PERMANENTLY_REJECTED" /\ queue'[m].status = "PENDING"
  BY <1>0, <1>1, RevivedRows
<1>3. Queued' = Queued /\ (\A x, n \in Mutations : Before(x, n)' <=> Before(x, n))
      /\ OrdersCounted'
  BY <1>0, <1>2, RowsKept
<1>4. TypeOK'
  BY <1>0, <1>1, <1>2 DEF TypeOK
<1>5. FlushesSound' /\ AnswersAreTrue' /\ ListsComplete'
  BY <1>0, <1>1, <1>3
  DEF OInv, FlushesSound, AnswersAreTrue, ListsComplete, Refused, IsStored, Item, TypeOK
<1>6. UnbegunIsDue' /\ VerdictsAreTrue'
  BY <1>1, <1>2, <1>3, MutationsAssumption
  DEF OInv, UnbegunIsDue, VerdictsAreTrue, AcknowledgedIsStored, RejectedOnlyIfRefused, Refused,
      IsStored, Queued
<1>7. BegunInOrder' /\ ValidatingIsHeld'
  BY <1>0, <1>1, <1>2, <1>3 DEF OInv, BegunInOrder, ValidatingIsHeld, Item, TypeOK
<1> QED
  BY <1>3, <1>4, <1>5, <1>6, <1>7 DEF OInv

LEMMA RestartStep == OInv /\ Restart => OInv'
<1> SUFFICES ASSUME OInv, Restart PROVE OInv'
  OBVIOUS
<1>0. TypeOK /\ OrdersCounted /\ FlushesSound
  BY DEF OInv
<1>1. /\ flushes' = [f \in Flushers |-> NoFlush] /\ queue' = Revived
      /\ stranded' = stranded \cup {m \in Mutations : queue[m].status = "VALIDATING"}
      /\ UNCHANGED <<wire, started, stored, refusing, begun>>
  BY DEF Restart
<1>2. /\ queue' \in [Mutations -> [status : Statuses, order : Nat, due : BOOLEAN]]
      /\ KeepsRows
      /\ \A m \in Mutations :
           \/ queue'[m].status = queue[m].status /\ queue'[m].due = queue[m].due
           \/ queue[m].status = "PERMANENTLY_REJECTED" /\ queue'[m].status = "PENDING"
  BY <1>0, <1>1, RevivedRows
<1>3. Queued' = Queued /\ (\A x, n \in Mutations : Before(x, n)' <=> Before(x, n))
      /\ OrdersCounted'
  BY <1>0, <1>2, RowsKept
<1>4. \A f \in Flushers : flushes'[f].pc = "none" /\ flushes'[f].todo = {}
  BY <1>1 DEF NoFlush
<1>5. TypeOK'
  BY <1>0, <1>1, <1>2 DEF TypeOK, NoFlush
<1>6. FlushesSound' /\ AnswersAreTrue' /\ ListsComplete'
  BY <1>0, <1>1, <1>3, <1>4 DEF FlushesSound, AnswersAreTrue, ListsComplete
<1>7. UnbegunIsDue' /\ VerdictsAreTrue'
  BY <1>1, <1>2, <1>3, MutationsAssumption
  DEF OInv, UnbegunIsDue, VerdictsAreTrue, AcknowledgedIsStored, RejectedOnlyIfRefused, Refused, IsStored,
      Queued
<1>8. BegunInOrder' /\ ValidatingIsHeld'
  BY <1>0, <1>1, <1>2, <1>3 DEF OInv, BegunInOrder, ValidatingIsHeld, TypeOK
<1> QED
  BY <1>3, <1>5, <1>6, <1>7, <1>8 DEF OInv

(* An answer reaches only the flush that still waits for this request.      *)
LEMMA AnswerFrame ==
  ASSUME TypeOK, NEW w \in wire, NEW a \in {"ok", "retry", "refused"}, Answer(w, a)
  PROVE  /\ flushes' \in [Flushers -> [pc : {"none", "read", "next", "validate", "wait"},
                                  id : Nat, todo : SUBSET Mutations,
                                  item : Mutations \cup {"none"}, blocked : SUBSET Rooms,
                                  ack : {"none", "ok", "retry", "refused"}]]
         /\ \A f \in Flushers :
              /\ flushes'[f].pc = flushes[f].pc /\ flushes'[f].id = flushes[f].id
              /\ flushes'[f].todo = flushes[f].todo /\ flushes'[f].item = flushes[f].item
              /\ flushes'[f].blocked = flushes[f].blocked
              /\ \/ flushes'[f].ack = flushes[f].ack
                 \/ flushes[f].item = w.m /\ flushes'[f].ack = a
<1>1. \A f \in Flushers :
        flushes'[f] = IF Awaits(f, w) THEN [flushes[f] EXCEPT !.ack = a] ELSE flushes[f]
  BY DEF Answer
<1>2. \A f \in Flushers :
        /\ flushes'[f] \in [pc : {"none", "read", "next", "validate", "wait"},
                            id : Nat, todo : SUBSET Mutations,
                            item : Mutations \cup {"none"}, blocked : SUBSET Rooms,
                            ack : {"none", "ok", "retry", "refused"}]
        /\ flushes'[f].pc = flushes[f].pc /\ flushes'[f].id = flushes[f].id
        /\ flushes'[f].todo = flushes[f].todo /\ flushes'[f].item = flushes[f].item
        /\ flushes'[f].blocked = flushes[f].blocked
        /\ \/ flushes'[f].ack = flushes[f].ack
           \/ flushes[f].item = w.m /\ flushes'[f].ack = a
  <2> TAKE f \in Flushers
  <2>1. flushes[f] \in [pc : {"none", "read", "next", "validate", "wait"},
                        id : Nat, todo : SUBSET Mutations,
                        item : Mutations \cup {"none"}, blocked : SUBSET Rooms,
                        ack : {"none", "ok", "retry", "refused"}]
    BY DEF TypeOK
  <2>2. CASE Awaits(f, w)
    <3>1. flushes'[f] = [flushes[f] EXCEPT !.ack = a] /\ flushes[f].item = w.m
      BY <1>1, <2>2 DEF Awaits, Item
    <3> QED
      BY <2>1, <3>1
  <2>3. CASE ~Awaits(f, w)
    BY <1>1, <2>1, <2>3
  <2> QED
    BY <2>2, <2>3
<1>3. flushes' = [f \in Flushers |-> flushes'[f]]
  BY DEF Answer
<1> QED
  BY <1>2, <1>3

LEMMA ServerStep ==
  ASSUME OInv, \/ \E w \in wire : HandleSend(w) \/ HandleOther(w)
               \/ \E r \in Rooms : Refuse(r)
  PROVE  OInv'
<1>0. TypeOK /\ OrdersCounted /\ FlushesSound
  BY DEF OInv
<1>1. UNCHANGED <<queue, started, begun, stranded>>
  BY DEF HandleSend, HandleOther, Refuse
<1>2. /\ wire' \subseteq wire /\ stored \subseteq stored' /\ refusing \subseteq refusing'
      /\ refusing' \subseteq Rooms /\ stored' \subseteq Sends
  BY <1>0 DEF HandleSend, HandleOther, Refuse, TypeOK
<1>3. /\ flushes' \in [Flushers -> [pc : {"none", "read", "next", "validate", "wait"},
                                  id : Nat, todo : SUBSET Mutations,
                                  item : Mutations \cup {"none"}, blocked : SUBSET Rooms,
                                  ack : {"none", "ok", "retry", "refused"}]]
      /\ \A f \in Flushers :
           /\ flushes'[f].pc = flushes[f].pc /\ flushes'[f].id = flushes[f].id
           /\ flushes'[f].todo = flushes[f].todo /\ flushes'[f].item = flushes[f].item
           /\ flushes'[f].blocked = flushes[f].blocked
           /\ \/ flushes'[f].ack = flushes[f].ack
              \/ flushes'[f].ack = "ok" /\ flushes[f].item \in stored'
              \/ flushes'[f].ack = "refused" /\ Refused(flushes[f].item)
              \/ flushes'[f].ack = "retry"
  <2>1. CASE UNCHANGED flushes
    BY <2>1, <1>0 DEF TypeOK
  <2>2. CASE \E w \in wire : HandleSend(w)
    <3> PICK w \in wire : HandleSend(w)
      BY <2>2
    <3>1. CASE Answer(w, "refused") /\ Refused(w.m)
      BY <3>1, <1>0, <1>2, AnswerFrame
    <3>2. CASE Answer(w, "ok") /\ stored' = stored \cup {w.m}
      BY <3>2, <1>0, <1>2, AnswerFrame
    <3>3. CASE Answer(w, "retry")
      BY <3>3, <1>0, <1>2, AnswerFrame
    <3> QED
      BY <3>1, <3>2, <3>3, <2>1 DEF HandleSend
  <2> QED
    BY <2>1, <2>2 DEF HandleOther, Refuse
<1>4. Queued' = Queued /\ (\A x, n \in Mutations : Before(x, n)' <=> Before(x, n))
      /\ OrdersCounted'
  BY <1>0, <1>1, RowsKept DEF KeepsRows
<1>5. TypeOK'
  BY <1>0, <1>1, <1>2, <1>3 DEF TypeOK
<1>6. FlushesSound' /\ ValidatingIsHeld'
  BY <1>0, <1>1, <1>3, <1>4 DEF OInv, FlushesSound, ValidatingIsHeld, Item
<1>7. AnswersAreTrue'
  BY <1>2, <1>3 DEF OInv, AnswersAreTrue, Refused, IsStored, Item
<1>8. UnbegunIsDue' /\ VerdictsAreTrue'
  BY <1>1, <1>2, <1>4
  DEF OInv, UnbegunIsDue, VerdictsAreTrue, AcknowledgedIsStored, RejectedOnlyIfRefused, Refused, IsStored
<1>9. BegunInOrder' /\ ListsComplete'
  BY <1>0, <1>1, <1>3, <1>4 DEF OInv, BegunInOrder, ListsComplete, TypeOK
<1> QED
  BY <1>4, <1>5, <1>6, <1>7, <1>8, <1>9 DEF OInv

-----------------------------------------------------------------------------
(* The theorems. *)

LEMMA NextOInv == OInv /\ [Next]_vars => OInv'
<1> SUFFICES ASSUME OInv, [Next]_vars PROVE OInv'
  OBVIOUS
<1>1. ASSUME NEW f \in Flushers, FlushStep(f) \/ Connect(f) \/ \E m \in Mutations : Enqueue(m, f)
      PROVE  OInv'
  <2>1. CASE EndFlush(f)
    BY <2>1, ClosedStep DEF EndFlush
  <2> QED
    BY <2>1, <1>1, EnqueueStep, ConnectStep, ReadQueueStep, BeginItemStep, SendStep, OutcomeStep,
       StoreFailsStep DEF FlushStep
<1>2. CASE \E m \in Mutations : BackoffEnds(m)
  BY <1>2, BackoffStep
<1>3. CASE \/ \E w \in wire : HandleSend(w) \/ HandleOther(w)
           \/ \E r \in Rooms : Refuse(r)
  BY <1>3, ServerStep
<1>4. CASE InitAgain \/ Restart
  BY <1>4, InitAgainStep, RestartStep
<1>5. CASE UNCHANGED vars
  BY <1>5 DEF vars, OInv, TypeOK, OrdersCounted, FlushesSound, UnbegunIsDue, VerdictsAreTrue,
     AcknowledgedIsStored, RejectedOnlyIfRefused, Refused, IsStored, AnswersAreTrue, BegunInOrder,
     ListsComplete, ValidatingIsHeld, Queued, Before, Item
<1> QED
  BY <1>1, <1>2, <1>3, <1>4, <1>5 DEF Next

(* The inductive invariant of the outbox, for any mutations and rooms and   *)
(* any number of flushes that overlap.                                      *)
THEOREM OutboxInvariant == Spec => []OInv
BY InitOInv, NextOInv, PTL DEF Spec

(* What a row says has become of its message is what has: acknowledged only *)
(* if the server stored it, rejected only if the server would refuse it,    *)
(* whichever of the overlapping flushes wrote last (OutboxService 203-210). *)
THEOREM RowsTellTheTruth == Spec => []VerdictsAreTrue
<1>1. OInv => VerdictsAreTrue
  BY DEF OInv
<1> QED
  BY <1>1, OutboxInvariant, PTL

(* No flush begins a mutation before an earlier one of its room has been    *)
(* begun by some flush (OutboxService 85-93).                               *)
THEOREM RoomsGoInOrder == Spec => []BegunInOrder
<1>1. OInv => BegunInOrder
  BY DEF OInv
<1> QED
  BY <1>1, OutboxInvariant, PTL

(* A message that is not on the server stays in reach of a flush or is      *)
(* rejected by a server that refuses it, unless a stop of the app or an     *)
(* error of the store left it in VALIDATING (OutboxService 81, 98, 107).    *)
THEOREM MessagesStayInReach == Spec => []NothingIsDropped
<1>1. OInv => NothingIsDropped
  <2> SUFFICES ASSUME OInv, NEW m \in Sends \cap Queued
      PROVE  \/ IsStored(m) \/ queue[m].status \in Processable \/ InHand(m)
             \/ queue[m].status = "PERMANENTLY_REJECTED" /\ Refused(m)
             \/ m \in stranded
    BY DEF NothingIsDropped
  <2>1. m \in Mutations /\ queue[m].status \in Statuses /\ queue[m].status # "NONE"
    BY DEF OInv, TypeOK, Queued
  <2>2. CASE queue[m].status = "VALIDATING"
    BY <2>1, <2>2 DEF OInv, ValidatingIsHeld, InHand
  <2>3. CASE queue[m].status = "ACKNOWLEDGED"
    BY <2>3 DEF OInv, VerdictsAreTrue, AcknowledgedIsStored
  <2>4. CASE queue[m].status = "PERMANENTLY_REJECTED"
    BY <2>1, <2>4 DEF OInv, VerdictsAreTrue, RejectedOnlyIfRefused
  <2> QED
    BY <2>1, <2>2, <2>3, <2>4 DEF Statuses
<1> QED
  BY <1>1, OutboxInvariant, PTL

-----------------------------------------------------------------------------
(* The stores of an account: what holds of them in every state. *)

(* The stores of the room, and their places in ALL_ACCOUNT_STORES. *)
RoomStores == {"roomCursor", "known", "messages", "processed"}
Place == [roomCursor |-> 1, known |-> 3, messages |-> 4, processed |-> 5]

StoresType ==
  [roomCursor : Nat, userCursor : Nat, known : BOOLEAN, messages : SUBSET Nat,
   processed : SUBSET Nat, sentinel : BOOLEAN]

RestoreType ==
  [pc : {"none", "sentinel", "check", "purge", "install"}, next : Nat,
   stale : BOOLEAN, failed : BOOLEAN]

CountsType ==
  [exports : Nat, restores : Nat, logouts : Nat, crashes : Nat, faults : Nat]

Typed ==
  /\ published \in Nat /\ idb \in StoresType /\ app \in {"out", "starting", "up"}
  /\ run \in [phase : {"idle", "user", "room"}, todo : Seq(Nat)]
  /\ purges \in [Purgers -> 0..6]
  /\ export \in [next : 0..6, read : StoresType] /\ backup \in StoresType
  /\ restore \in RestoreType /\ counts \in CountsType /\ unfinished \in BOOLEAN

(* The two ways in which the stores of a room say that an event was applied.*)
CursorHolds(S) == \A e \in 1..MaxEvents : e <= S.roomCursor => e \in S.messages
MarkersHold(S) == \A e \in 1..MaxEvents : e \in S.processed => e \in S.messages

(* A purge that will come to the store after this place. *)
StillToClear(k) == \E p \in Purgers : purges[p] \in 1..k

StoresHold ==
  /\ CursorHolds(idb) \/ Installing \/ StillToClear(1)
  /\ MarkersHold(idb) \/ Installing \/ StillToClear(5)

(* Nothing is written behind a purge but by the install. *)
PurgesClear ==
  Installing \/ \A p \in Purgers, s \in RoomStores :
    Place[s] < purges[p] => idb[s] = Empty[s]

InstallSound ==
  Installing => \A s \in RoomStores :
    idb[s] = IF Place[s] < restore.next THEN backup[s] ELSE Empty[s]

(* What an export has read is still what there is. *)
ExportSound ==
  \A s \in RoomStores : Place[s] < export.next => export.read[s] = idb[s]

BackupSound == CursorHolds(backup) /\ MarkersHold(backup)

Undisturbed ==
  torn = {} => StoresHold /\ PurgesClear /\ InstallSound /\ ExportSound /\ BackupSound

(* Purges and phases. *)
PhasesSound ==
  /\ app # "starting" => purges["init"] = 0
  /\ restore.pc = "purge" <=> purges["restore"] # 0
  /\ restore.failed => torn # {}
  /\ restore.pc = "install" => restore.next # 0

(* Nothing writes to the room while nobody is signed in, but what clears. *)
OutSound ==
  app = "out" =>
    /\ run = NoRun /\ (restore.pc = "none" \/ restore.stale)
    /\ unfinished \/ \A s \in RoomStores :
         purges["logout"] = 0 \/ Place[s] < purges["logout"] => idb[s] = Empty[s]

BInv == Typed /\ Undisturbed /\ PhasesSound /\ OutSound

-----------------------------------------------------------------------------
(* Stores and places. *)

LEMMA StoreNames ==
  /\ Len(Stores) = 6 /\ DOMAIN Stores = 1..6
  /\ Stores[1] = "roomCursor" /\ Stores[2] = "userCursor" /\ Stores[3] = "known"
  /\ Stores[4] = "messages" /\ Stores[5] = "processed" /\ Stores[6] = "sentinel"
  BY DEF Stores

LEMMA PlaceNames ==
  /\ Place["roomCursor"] = 1 /\ Place["known"] = 3
  /\ Place["messages"] = 4 /\ Place["processed"] = 5
  /\ \A s \in RoomStores : Place[s] \in 1..5 /\ Stores[Place[s]] = s
  /\ \A s \in RoomStores, k \in 1..6 : Stores[k] = s => Place[s] = k
<1>1. /\ Place["roomCursor"] = 1 /\ Place["known"] = 3
      /\ Place["messages"] = 4 /\ Place["processed"] = 5
  BY DEF Place
<1>2. \A s \in RoomStores : Place[s] \in 1..5 /\ Stores[Place[s]] = s
  BY <1>1, StoreNames DEF RoomStores
<1>3. ASSUME NEW s \in RoomStores, NEW k \in 1..6, Stores[k] = s PROVE Place[s] = k
  <2>1. k = 1 \/ k = 2 \/ k = 3 \/ k = 4 \/ k = 5 \/ k = 6
    OBVIOUS
  <2> QED
    BY <1>1, <1>3, <2>1, StoreNames DEF RoomStores
<1> QED
  BY <1>1, <1>2, <1>3

(* The store at place k of S becomes v. *)
Rewritten(S, T, k, v) ==
  /\ T \in StoresType
  /\ \A s \in RoomStores : T[s] = IF Place[s] = k THEN v ELSE S[s]

LEMMA StoreWritten ==
  ASSUME NEW S \in StoresType, NEW k \in 1..6, NEW v, NEW T,
         T = [S EXCEPT ![Stores[k]] = v], \E W \in StoresType : v = W[Stores[k]]
  PROVE  Rewritten(S, T, k, v)
<1>1. k = 1 \/ k = 2 \/ k = 3 \/ k = 4 \/ k = 5 \/ k = 6
  OBVIOUS
<1>2. PICK W \in StoresType : v = W[Stores[k]]
  OBVIOUS
<1>3. CASE k = 1
  <2>1. T = [S EXCEPT !.roomCursor = v] /\ v = W.roomCursor
    BY <1>2, <1>3, StoreNames
  <2> QED
    BY <2>1, <1>3, PlaceNames DEF StoresType, Rewritten, RoomStores
<1>4. CASE k = 2
  <2>1. T = [S EXCEPT !.userCursor = v] /\ v = W.userCursor
    BY <1>2, <1>4, StoreNames
  <2> QED
    BY <2>1, <1>4, PlaceNames DEF StoresType, Rewritten, RoomStores
<1>5. CASE k = 3
  <2>1. T = [S EXCEPT !.known = v] /\ v = W.known
    BY <1>2, <1>5, StoreNames
  <2> QED
    BY <2>1, <1>5, PlaceNames DEF StoresType, Rewritten, RoomStores
<1>6. CASE k = 4
  <2>1. T = [S EXCEPT !.messages = v] /\ v = W.messages
    BY <1>2, <1>6, StoreNames
  <2> QED
    BY <2>1, <1>6, PlaceNames DEF StoresType, Rewritten, RoomStores
<1>7. CASE k = 5
  <2>1. T = [S EXCEPT !.processed = v] /\ v = W.processed
    BY <1>2, <1>7, StoreNames
  <2> QED
    BY <2>1, <1>7, PlaceNames DEF StoresType, Rewritten, RoomStores
<1>8. CASE k = 6
  <2>1. T = [S EXCEPT !.sentinel = v] /\ v = W.sentinel
    BY <1>2, <1>8, StoreNames
  <2> QED
    BY <2>1, <1>8, PlaceNames DEF StoresType, Rewritten, RoomStores
<1> QED
  BY <1>1, <1>3, <1>4, <1>5, <1>6, <1>7, <1>8

LEMMA EmptyTyped == Empty \in StoresType
  BY DEF Empty, StoresType

-----------------------------------------------------------------------------
(* Steps and what they leave alone. *)

LEMMA Pieces ==
  ASSUME BInv
  PROVE  /\ Typed /\ Undisturbed /\ PhasesSound /\ OutSound
         /\ purges \in [Purgers -> 0..6] /\ idb \in StoresType
         /\ restore \in RestoreType /\ run.todo \in Seq(Nat)
  BY DEF BInv, Typed

(* Neither the stores of the room nor who is at work on them. *)
LEMMA StoresUntouched ==
  ASSUME Undisturbed, torn \subseteq torn',
         \A s \in RoomStores : idb'[s] = idb[s],
         UNCHANGED <<purges, restore, export, backup>>
  PROVE  Undisturbed'
<1>1. /\ idb'["roomCursor"] = idb["roomCursor"] /\ idb'["messages"] = idb["messages"]
      /\ idb'["processed"] = idb["processed"]
  BY DEF RoomStores
<1> QED
  BY <1>1 DEF Undisturbed, StoresHold, PurgesClear, InstallSound, ExportSound, BackupSound,
              CursorHolds, MarkersHold, Installing, SessionUnchanged, StillToClear

(* The numbers a room page holds. *)
LEMMA PageTyped ==
  ASSUME NEW a \in Nat, NEW b \in Nat
  PROVE  [i \in 1 .. a - b |-> b + i] \in Seq(Nat)
<1> DEFINE n == IF a < b THEN 0 ELSE a - b
<1>1. n \in Nat /\ 1 .. a - b = 1..n
  OBVIOUS
<1>2. [i \in 1..n |-> b + i] \in [1..n -> Nat]
  BY <1>1
<1>3. [i \in 1..n |-> b + i] \in Seq(Nat)
  BY <1>1, <1>2
<1> QED
  BY <1>1, <1>3

(* The recovery reads, and applies nothing yet. *)
LEMMA RunStep ==
  BInv /\ (Publish \/ RecoverUserStream \/ RecoverRoomStreams \/ EndRun) => BInv'
<1> SUFFICES ASSUME BInv, Publish \/ RecoverUserStream \/ RecoverRoomStreams \/ EndRun
             PROVE  BInv'
  OBVIOUS
<1>1. Typed /\ Undisturbed /\ PhasesSound /\ OutSound
  BY Pieces
<1>2. UNCHANGED <<idb, app, purges, export, backup, restore, counts, torn, unfinished>>
  BY DEF Publish, RecoverUserStream, RecoverRoomStreams, EndRun
<1>3. published' \in Nat /\ run' \in [phase : {"idle", "user", "room"}, todo : Seq(Nat)]
  <2>1. CASE Publish
    BY <1>1, <2>1 DEF Publish, Typed
  <2>2. CASE RecoverUserStream
    BY <1>1, <2>2 DEF RecoverUserStream, Typed
  <2>3. CASE RecoverRoomStreams
    <3>1. [i \in 1 .. published - idb.roomCursor |-> idb.roomCursor + i] \in Seq(Nat)
      BY <1>1, PageTyped DEF Typed, StoresType
    <3> QED
      BY <1>1, <2>3, <3>1 DEF RecoverRoomStreams, Typed, NoRun
  <2>4. CASE EndRun
    BY <1>1, <2>4 DEF EndRun, Typed, NoRun
  <2> QED
    BY <2>1, <2>2, <2>3, <2>4
<1>4. Typed'
  BY <1>1, <1>2, <1>3 DEF Typed
<1>5. Undisturbed'
  BY <1>1, <1>2, StoresUntouched
<1>6. app = "out" => run' = run
  BY <1>1 DEF OutSound, NoRun, Publish, RecoverUserStream, RecoverRoomStreams, EndRun
<1>7. OutSound' /\ PhasesSound'
  BY <1>1, <1>2, <1>6 DEF OutSound, PhasesSound
<1> QED
  BY <1>4, <1>5, <1>7 DEF BInv

(* An event is applied with its message; beside a rewriting it is noted.   *)
LEMMA ApplyEventStep == BInv /\ ApplyEvent => BInv'
<1> SUFFICES ASSUME BInv, ApplyEvent PROVE BInv'
  OBVIOUS
<1>1. Typed /\ Undisturbed /\ PhasesSound /\ OutSound
  BY Pieces
<1> DEFINE e == Head(run.todo)
<1>2. /\ run.todo # <<>> /\ idb' = Applied(e) /\ run' = [run EXCEPT !.todo = Tail(run.todo)]
      /\ UNCHANGED <<published, app, purges, export, backup, restore, counts, unfinished>>
  BY DEF ApplyEvent
<1>3. run \in [phase : {"idle", "user", "room"}, todo : Seq(Nat)]
  BY <1>1 DEF Typed
<1>4. e \in Nat /\ Tail(run.todo) \in Seq(Nat)
  BY <1>2, <1>3
<1>5. idb' \in StoresType
  BY <1>1, <1>2, <1>4 DEF Applied, Typed, StoresType
<1>6. Typed'
  BY <1>1, <1>2, <1>3, <1>4, <1>5 DEF Typed
<1>7. CursorHolds(idb) => CursorHolds(idb')
  BY <1>1, <1>2, <1>4 DEF Applied, Typed, StoresType, CursorHolds
<1>8. MarkersHold(idb) => MarkersHold(idb')
  BY <1>1, <1>2, <1>4 DEF Applied, Typed, StoresType, MarkersHold
<1>9. torn' = {} => torn = {} /\ ~Rewriting /\ export.next = 0
  BY DEF ApplyEvent
<1>10. Undisturbed'
  <2> SUFFICES ASSUME torn' = {}
               PROVE (StoresHold /\ PurgesClear /\ InstallSound /\ ExportSound /\ BackupSound)'
    BY DEF Undisturbed
  <2>1. ~Installing /\ ~Installing' /\ \A p \in Purgers : purges[p] = 0 /\ purges'[p] = 0
    BY <1>2, <1>9 DEF Rewriting, Installing
  <2>2. CursorHolds(idb) /\ MarkersHold(idb) /\ BackupSound
    BY <1>1, <1>9, <2>1 DEF Undisturbed, StoresHold, StillToClear
  <2>3. StoresHold'
    BY <1>7, <1>8, <2>2 DEF StoresHold
  <2>4. PurgesClear' /\ ExportSound'
    BY <1>2, <1>9, <2>1, PlaceNames DEF PurgesClear, ExportSound
  <2> QED
    BY <1>2, <2>1, <2>2, <2>3, <2>4 DEF InstallSound, BackupSound
<1>11. app # "out"
  BY <1>1, <1>2 DEF OutSound, NoRun
<1>12. OutSound' /\ PhasesSound'
  BY <1>1, <1>2, <1>9, <1>11 DEF OutSound, PhasesSound
<1> QED
  BY <1>6, <1>10, <1>12 DEF BInv

-----------------------------------------------------------------------------
(* The purges. *)

(* What a purge clears is empty, and one more store is behind it.          *)
LEMMA ClearStoreFacts ==
  ASSUME BInv, NEW p \in Purgers, ClearStore(p)
  PROVE  /\ purges[p] \in 1..6
         /\ idb' \in StoresType
         /\ \A s \in RoomStores :
              idb'[s] = IF Place[s] = purges[p] THEN Empty[s] ELSE idb[s]
         /\ purges' \in [Purgers -> 0..6]
         /\ purges'[p] = IF purges[p] = 6 THEN 0 ELSE purges[p] + 1
         /\ \A q \in Purgers : q # p => purges'[q] = purges[q]
<1> DEFINE k == purges[p]
<1>1. purges \in [Purgers -> 0..6] /\ idb \in StoresType
  BY Pieces
<1>2. k \in 1..6
  BY <1>1 DEF ClearStore
<1>3. /\ idb' = [idb EXCEPT ![Stores[k]] = Cleared(Stores[k])]
      /\ purges' = [purges EXCEPT ![p] = IF k = 6 THEN 0 ELSE k + 1]
  BY StoreNames DEF ClearStore
<1>4. \E W \in StoresType : Cleared(Stores[k]) = W[Stores[k]]
  BY <1>1, EmptyTyped DEF Cleared
<1>5. Rewritten(idb, idb', k, Cleared(Stores[k]))
  BY <1>1, <1>2, <1>3, <1>4, StoreWritten
<1>6. \A s \in RoomStores : Place[s] = k => Cleared(Stores[k]) = Empty[s]
  BY <1>2, PlaceNames DEF Cleared, RoomStores
<1> QED
  BY <1>1, <1>2, <1>3, <1>5, <1>6 DEF Rewritten

LEMMA ClearStoreUndisturbed ==
  ASSUME BInv, NEW p \in Purgers, ClearStore(p)
  PROVE  Undisturbed'
<1> DEFINE k == purges[p]
<1>1. Typed /\ Undisturbed /\ PhasesSound
  BY Pieces
<1>2. /\ k \in 1..6 /\ idb' \in StoresType
      /\ \A s \in RoomStores : idb'[s] = IF Place[s] = k THEN Empty[s] ELSE idb[s]
      /\ purges' \in [Purgers -> 0..6]
      /\ purges'[p] = IF k = 6 THEN 0 ELSE k + 1
      /\ \A q \in Purgers : q # p => purges'[q] = purges[q]
  BY ClearStoreFacts
<1>3. SUFFICES ASSUME torn' = {}
               PROVE (StoresHold /\ PurgesClear /\ InstallSound /\ ExportSound /\ BackupSound)'
  BY DEF Undisturbed
<1>4. torn = {} /\ export = NoExport /\ ~Installing
  BY <1>3 DEF ClearStore
<1>5. StoresHold /\ PurgesClear /\ BackupSound
  BY <1>1, <1>4 DEF Undisturbed
<1>6. \A s \in RoomStores : Place[s] < k => idb[s] = Empty[s]
  BY <1>4, <1>5 DEF PurgesClear
<1>7. /\ idb'["roomCursor"] = IF k = 1 THEN 0 ELSE idb["roomCursor"]
      /\ idb'["messages"] = IF k = 4 THEN {} ELSE idb["messages"]
      /\ idb'["processed"] = IF k = 5 THEN {} ELSE idb["processed"]
  BY <1>2, PlaceNames DEF RoomStores, Empty
<1>8. CursorHolds(idb') \/ StillToClear(1)'
  <2>1. CASE k \in {1, 4}
    <3>1. idb'["roomCursor"] = 0
      BY <1>6, <1>7, <2>1, PlaceNames DEF RoomStores, Empty
    <3> QED
      BY <3>1 DEF CursorHolds
  <2>2. CASE k \notin {1, 4}
    <3>1. CASE CursorHolds(idb)
      BY <1>7, <2>2, <3>1 DEF CursorHolds
    <3>2. CASE StillToClear(1)
      BY <1>2, <2>2, <3>2 DEF StillToClear
    <3> QED
      BY <1>4, <1>5, <3>1, <3>2 DEF StoresHold
  <2> QED
    BY <2>1, <2>2
<1>9. MarkersHold(idb') \/ StillToClear(5)'
  <2>1. CASE k < 5
    BY <1>2, <2>1 DEF StillToClear
  <2>2. CASE k = 5
    BY <1>7, <2>2 DEF MarkersHold
  <2>3. CASE k = 6
    <3>1. CASE MarkersHold(idb)
      BY <1>7, <2>3, <3>1 DEF MarkersHold
    <3>2. CASE StillToClear(5)
      BY <1>2, <2>3, <3>2 DEF StillToClear
    <3> QED
      BY <1>4, <1>5, <3>1, <3>2 DEF StoresHold
  <2> QED
    BY <1>2, <2>1, <2>2, <2>3
<1>10. StoresHold'
  BY <1>8, <1>9 DEF StoresHold
<1>11. PurgesClear'
  <2> SUFFICES ASSUME NEW q \in Purgers, NEW s \in RoomStores, Place[s] < purges'[q]
               PROVE idb'[s] = Empty[s]
    BY DEF PurgesClear
  <2>1. CASE q = p
    BY <1>2, <1>6, <2>1, PlaceNames
  <2>2. CASE q # p
    BY <1>2, <1>4, <1>5, <2>2 DEF PurgesClear
  <2> QED
    BY <2>1, <2>2
<1>12. InstallSound'
  <2> SUFFICES ASSUME Installing', NEW s \in RoomStores
               PROVE idb'[s] = IF Place[s] < restore'.next THEN backup'[s] ELSE Empty[s]
    BY DEF InstallSound
  <2>1. k = 6 /\ restore' = [restore EXCEPT !.pc = "install", !.next = 1]
    BY <1>4, StoreNames DEF ClearStore, Installing, SessionUnchanged
  <2>2. restore'.next = 1
    BY <1>1, <2>1 DEF Typed, RestoreType
  <2> QED
    BY <1>2, <1>6, <2>1, <2>2, PlaceNames
<1>13. ExportSound' /\ BackupSound'
  BY <1>4, <1>5, PlaceNames DEF ClearStore, ExportSound, BackupSound, NoExport
<1> QED
  BY <1>10, <1>11, <1>12, <1>13

LEMMA ClearStoreStep ==
  ASSUME BInv, NEW p \in Purgers, ClearStore(p)
  PROVE  BInv'
<1> DEFINE k == purges[p]
<1>1. Typed /\ PhasesSound /\ OutSound
  BY Pieces
<1>2. /\ k \in 1..6 /\ idb' \in StoresType
      /\ \A s \in RoomStores : idb'[s] = IF Place[s] = k THEN Empty[s] ELSE idb[s]
      /\ purges' \in [Purgers -> 0..6]
      /\ purges'[p] = IF k = 6 THEN 0 ELSE k + 1
      /\ \A q \in Purgers : q # p => purges'[q] = purges[q]
  BY ClearStoreFacts
<1>3. /\ app' = IF k = 6 /\ p = "init" THEN "up" ELSE app
      /\ restore' = IF k = 6 /\ p = "restore" THEN [restore EXCEPT !.pc = "install", !.next = 1]
                    ELSE restore
      /\ torn \subseteq torn'
      /\ UNCHANGED <<published, run, export, backup, counts, unfinished>>
  BY StoreNames DEF ClearStore
<1>4. restore' \in RestoreType /\ app' \in {"out", "starting", "up"}
  BY <1>1, <1>3 DEF Typed, RestoreType
<1>5. Typed'
  BY <1>1, <1>2, <1>3, <1>4 DEF Typed
<1>6. Undisturbed'
  BY ClearStoreUndisturbed
<1>7. app' # "starting" => purges'["init"] = 0
  BY <1>1, <1>2, <1>3 DEF PhasesSound, Purgers
<1>8. restore'.pc = "purge" <=> purges'["restore"] # 0
  BY <1>1, <1>2, <1>3 DEF PhasesSound, Purgers, Typed, RestoreType
<1>9. /\ restore'.failed => torn' # {}
      /\ restore'.pc = "install" => restore'.next # 0
  BY <1>1, <1>3 DEF PhasesSound, Typed, RestoreType
<1>10. PhasesSound'
  BY <1>7, <1>8, <1>9 DEF PhasesSound
<1>11. OutSound'
  <2> SUFFICES ASSUME app' = "out"
               PROVE /\ run' = NoRun /\ (restore'.pc = "none" \/ restore'.stale)
                     /\ unfinished' \/ \A s \in RoomStores :
                          purges'["logout"] = 0 \/ Place[s] < purges'["logout"]
                            => idb'[s] = Empty[s]
    BY DEF OutSound
  <2>1. /\ app = "out" /\ run = NoRun /\ (restore.pc = "none" \/ restore.stale)
        /\ unfinished \/ \A s \in RoomStores :
             purges["logout"] = 0 \/ Place[s] < purges["logout"] => idb[s] = Empty[s]
    BY <1>1, <1>3 DEF OutSound
  <2>2. restore'.pc = "none" \/ restore'.stale
    BY <1>1, <1>2, <1>3, <2>1 DEF PhasesSound, Typed, RestoreType
  <2>3. ASSUME ~unfinished, NEW s \in RoomStores,
               purges'["logout"] = 0 \/ Place[s] < purges'["logout"]
        PROVE  idb'[s] = Empty[s]
    <3>1. CASE p = "logout"
      BY <1>2, <2>1, <2>3, <3>1, PlaceNames
    <3>2. CASE p # "logout"
      BY <1>2, <2>1, <2>3, <3>2 DEF Purgers
    <3> QED
      BY <3>1, <3>2
  <2> QED
    BY <1>3, <2>1, <2>2, <2>3
<1> QED
  BY <1>5, <1>6, <1>10, <1>11 DEF BInv

-----------------------------------------------------------------------------
(* Sign-in, sign-out and the page. *)

LEMMA SentinelWritten ==
  ASSUME NEW S \in StoresType, NEW T,
         T = [S EXCEPT !.sentinel = TRUE] \/ T = [S EXCEPT !.sentinel = FALSE]
  PROVE  T \in StoresType /\ \A s \in RoomStores : T[s] = S[s]
  BY DEF StoresType, RoomStores

LEMMA CountTyped ==
  ASSUME Typed, NEW what, NEW max, Count(what, max),
         what \in {"exports", "restores", "logouts", "crashes", "faults"}
  PROVE  counts' \in CountsType
  BY DEF Count, Typed, CountsType

LEMMA CallInitStep == BInv /\ CallInit => BInv'
<1> SUFFICES ASSUME BInv, CallInit PROVE BInv'
  OBVIOUS
<1>1. Typed /\ Undisturbed /\ PhasesSound /\ OutSound
  BY Pieces
<1>2. /\ app' = "starting"
      /\ UNCHANGED <<published, idb, run, purges, export, backup, restore, counts, torn, unfinished>>
  BY DEF CallInit
<1>3. Typed'
  BY <1>1, <1>2 DEF Typed
<1>4. Undisturbed'
  BY <1>1, <1>2, StoresUntouched
<1>5. PhasesSound' /\ OutSound'
  BY <1>1, <1>2 DEF PhasesSound, OutSound
<1> QED
  BY <1>3, <1>4, <1>5 DEF BInv

(* A purge that begins has nothing behind it yet. *)
LEMMA PurgeBegins ==
  ASSUME Typed, NEW p \in Purgers, StartPurge(p)
  PROVE  /\ purges' \in [Purgers -> 0..6] /\ purges'[p] = 1
         /\ \A q \in Purgers : q # p => purges'[q] = purges[q]
  BY DEF Typed, StartPurge

(* It may begin where no purge of its kind is at work. *)
LEMMA PurgeBeginsUndisturbed ==
  ASSUME BInv, NEW p \in Purgers, StartPurge(p), purges[p] = 0,
         \A s \in RoomStores : idb'[s] = idb[s], Installing' <=> Installing,
         restore'.next = restore.next \/ ~Installing,
         UNCHANGED <<export, backup, torn>>
  PROVE  Undisturbed'
<1>1. Typed /\ Undisturbed
  BY Pieces
<1>2. /\ purges' \in [Purgers -> 0..6] /\ purges'[p] = 1
      /\ \A q \in Purgers : q # p => purges'[q] = purges[q]
  BY <1>1, PurgeBegins
<1>3. SUFFICES ASSUME torn = {}
               PROVE (StoresHold /\ PurgesClear /\ InstallSound /\ ExportSound /\ BackupSound)'
  BY DEF Undisturbed
<1>4. StoresHold /\ PurgesClear /\ InstallSound /\ ExportSound /\ BackupSound
  BY <1>1, <1>3 DEF Undisturbed
<1>5. StoresHold'
  BY <1>2 DEF StoresHold, StillToClear
<1>6. PurgesClear'
  BY <1>2, <1>4, PlaceNames DEF PurgesClear
<1>7. InstallSound' /\ ExportSound' /\ BackupSound'
  BY <1>4 DEF InstallSound, ExportSound, BackupSound
<1> QED
  BY <1>5, <1>6, <1>7

LEMMA CheckSentinelStep == BInv /\ CheckSentinel => BInv'
<1> SUFFICES ASSUME BInv, CheckSentinel PROVE BInv'
  OBVIOUS
<1>1. Typed /\ Undisturbed /\ PhasesSound /\ OutSound
  BY Pieces
<1>2. /\ app = "starting" /\ purges["init"] = 0 /\ "init" \in Purgers
      /\ UNCHANGED <<published, run, export, backup, restore, counts, torn, unfinished>>
  BY DEF CheckSentinel, Purgers
<1>3. CASE idb.sentinel
  <2>1. idb' = [idb EXCEPT !.sentinel = FALSE] /\ StartPurge("init") /\ app' = app
    BY <1>3 DEF CheckSentinel
  <2>2. idb' \in StoresType /\ \A s \in RoomStores : idb'[s] = idb[s]
    BY <1>1, <2>1, SentinelWritten DEF Typed
  <2>3. /\ purges' \in [Purgers -> 0..6] /\ purges'["init"] = 1
        /\ \A q \in Purgers : q # "init" => purges'[q] = purges[q]
    BY <1>1, <1>2, <2>1, PurgeBegins
  <2>4. Typed'
    BY <1>1, <1>2, <2>1, <2>2, <2>3 DEF Typed
  <2>5. Installing' <=> Installing
    BY <1>2 DEF Installing, SessionUnchanged
  <2>6. Undisturbed'
    BY <1>2, <2>1, <2>2, <2>5, PurgeBeginsUndisturbed
  <2>7. PhasesSound'
    BY <1>1, <1>2, <2>1, <2>3 DEF PhasesSound, Purgers
  <2>8. OutSound'
    BY <1>2, <2>1 DEF OutSound
  <2> QED
    BY <2>4, <2>6, <2>7, <2>8 DEF BInv
<1>4. CASE ~idb.sentinel
  <2>1. app' = "up" /\ UNCHANGED <<idb, purges>>
    BY <1>4 DEF CheckSentinel
  <2>2. Undisturbed'
    BY <1>1, <1>2, <2>1, StoresUntouched
  <2> QED
    BY <1>1, <1>2, <2>1, <2>2 DEF BInv, Typed, PhasesSound, OutSound
<1> QED
  BY <1>3, <1>4

(* A sign-out stops a restore where it is; the purge that begins with it   *)
(* clears what the restore has written.                                    *)
LEMMA LogoutStep == BInv /\ Logout => BInv'
<1> SUFFICES ASSUME BInv, Logout PROVE BInv'
  OBVIOUS
<1>1. Typed /\ Undisturbed /\ PhasesSound
  BY Pieces
<1>2. /\ app = "up" /\ purges["logout"] = 0 /\ app' = "out" /\ run' = NoRun
      /\ restore' = IF restore.pc = "none" THEN restore ELSE [restore EXCEPT !.stale = TRUE]
      /\ StartPurge("logout") /\ unfinished' = FALSE /\ "logout" \in Purgers
      /\ Count("logouts", MaxLogouts)
      /\ UNCHANGED <<published, idb, export, backup, torn>>
  BY DEF Logout, Purgers
<1>3. /\ purges' \in [Purgers -> 0..6] /\ purges'["logout"] = 1
      /\ \A q \in Purgers : q # "logout" => purges'[q] = purges[q]
  BY <1>1, <1>2, PurgeBegins
<1>4. restore' \in RestoreType /\ restore'.pc = restore.pc
      /\ restore'.next = restore.next /\ restore'.failed = restore.failed
      /\ (restore.pc # "none" => restore'.stale)
  BY <1>1, <1>2 DEF Typed, RestoreType
<1>5. counts' \in CountsType
  BY <1>1, <1>2, CountTyped
<1>6. NoRun \in [phase : {"idle", "user", "room"}, todo : Seq(Nat)]
  BY DEF NoRun
<1>7. Typed'
  BY <1>1, <1>2, <1>3, <1>4, <1>5, <1>6 DEF Typed
<1>8. PhasesSound'
  BY <1>1, <1>2, <1>3, <1>4 DEF PhasesSound, Purgers
<1>9. OutSound'
  BY <1>2, <1>3, <1>4, PlaceNames DEF OutSound
<1>10. ~Installing'
  BY <1>4 DEF Installing, SessionUnchanged
<1>11. Undisturbed'
  <2> SUFFICES ASSUME torn = {}
               PROVE (StoresHold /\ PurgesClear /\ InstallSound /\ ExportSound /\ BackupSound)'
    BY <1>2 DEF Undisturbed
  <2>1. StoresHold /\ PurgesClear /\ ExportSound /\ BackupSound
    BY <1>1 DEF Undisturbed
  <2>2. StoresHold'
    BY <1>2, <1>3 DEF StoresHold, StillToClear
  <2>3. PurgesClear'
    <3> SUFFICES ASSUME NEW q \in Purgers, NEW s \in RoomStores, Place[s] < purges'[q]
                 PROVE idb'[s] = Empty[s]
      BY DEF PurgesClear
    <3>1. q = "restore" /\ purges["restore"] # 0 /\ purges'[q] = purges["restore"]
      BY <1>1, <1>2, <1>3, PlaceNames DEF PhasesSound, Purgers
    <3>2. ~Installing
      BY <1>1, <3>1 DEF PhasesSound, Installing
    <3> QED
      BY <1>2, <2>1, <3>1, <3>2 DEF PurgesClear
  <2>4. InstallSound' /\ ExportSound' /\ BackupSound'
    BY <1>2, <1>10, <2>1 DEF InstallSound, ExportSound, BackupSound
  <2> QED
    BY <2>2, <2>3, <2>4
<1> QED
  BY <1>7, <1>8, <1>9, <1>11 DEF BInv

(* The page is loaded again: whatever was at work is gone, and the stores  *)
(* stay as they are.                                                       *)
LEMMA ReloadedKeeps ==
  ASSUME BInv, Reloaded, backup' = backup, torn \subseteq torn',
         \A s \in RoomStores : idb'[s] = idb[s],
         unfinished' <=> (unfinished \/ purges["logout"] # 0),
         torn' = {} => CursorHolds(idb) /\ MarkersHold(idb)
  PROVE  Undisturbed' /\ PhasesSound' /\ OutSound'
<1>1. Undisturbed /\ PhasesSound /\ OutSound
  BY Pieces
<1>2. /\ app' = IF app = "out" THEN "out" ELSE "starting"
      /\ run' = NoRun /\ purges' = [p \in Purgers |-> 0]
      /\ export' = NoExport /\ restore' = NoRestore
  BY DEF Reloaded
<1>3. \A p \in Purgers : purges'[p] = 0
  BY <1>2
<1>4. /\ idb'["roomCursor"] = idb["roomCursor"] /\ idb'["messages"] = idb["messages"]
      /\ idb'["processed"] = idb["processed"]
  BY DEF RoomStores
<1>5. ~Installing'
  BY <1>2 DEF Installing, NoRestore
<1>6. Undisturbed'
  <2> SUFFICES ASSUME torn' = {}
               PROVE (StoresHold /\ PurgesClear /\ InstallSound /\ ExportSound /\ BackupSound)'
    BY DEF Undisturbed
  <2>1. BackupSound
    BY <1>1 DEF Undisturbed
  <2>2. StoresHold'
    BY <1>4 DEF StoresHold, CursorHolds, MarkersHold
  <2>3. PurgesClear'
    BY <1>3, PlaceNames DEF PurgesClear
  <2>4. InstallSound' /\ ExportSound' /\ BackupSound'
    BY <1>2, <1>5, <2>1, PlaceNames DEF InstallSound, ExportSound, BackupSound, NoExport
  <2> QED
    BY <2>2, <2>3, <2>4
<1>7. PhasesSound'
  BY <1>2, <1>3 DEF PhasesSound, NoRestore, Purgers
<1>8. OutSound'
  BY <1>1, <1>2, <1>3 DEF OutSound, NoRestore, Purgers
<1> QED
  BY <1>6, <1>7, <1>8

LEMMA ReloadedTyped ==
  ASSUME Typed, Reloaded, idb' \in StoresType, counts' \in CountsType,
         unfinished' \in BOOLEAN, UNCHANGED <<published, backup>>
  PROVE  Typed'
<1>1. /\ NoRun \in [phase : {"idle", "user", "room"}, todo : Seq(Nat)]
      /\ NoExport \in [next : 0..6, read : StoresType] /\ NoRestore \in RestoreType
      /\ [p \in Purgers |-> 0] \in [Purgers -> 0..6]
  BY EmptyTyped DEF NoRun, NoExport, NoRestore, RestoreType
<1>2. app' \in {"out", "starting", "up"}
  BY DEF Reloaded
<1> QED
  BY <1>1, <1>2 DEF Typed, Reloaded

(* With no purge and no install at work, the stores hold.                  *)
LEMMA StoresHoldAtRest ==
  ASSUME BInv, torn = {}, ~Installing, \A p \in Purgers : purges[p] = 0
  PROVE  CursorHolds(idb) /\ MarkersHold(idb)
<1>1. StoresHold
  BY Pieces DEF Undisturbed
<1>2. ~StillToClear(1) /\ ~StillToClear(5)
  BY DEF StillToClear
<1> QED
  BY <1>1, <1>2 DEF StoresHold

LEMMA CrashStep == BInv /\ Crash => BInv'
<1> SUFFICES ASSUME BInv, Crash PROVE BInv'
  OBVIOUS
<1>1. Typed /\ PhasesSound
  BY Pieces
<1>2. /\ Reloaded /\ Count("crashes", MaxCrashes) /\ torn \subseteq torn'
      /\ unfinished' = (unfinished \/ purges["logout"] # 0)
      /\ UNCHANGED <<published, idb, backup>>
  BY DEF Crash
<1>3. counts' \in CountsType
  BY <1>1, <1>2, CountTyped
<1>4. Typed'
  BY <1>1, <1>2, <1>3, ReloadedTyped DEF Typed
<1>5. ASSUME torn' = {} PROVE CursorHolds(idb) /\ MarkersHold(idb)
  <2>1. /\ torn = {} /\ restore.pc \notin {"purge", "install"}
        /\ ~\E p \in {"logout", "init"} : purges[p] # 0
    BY <1>5 DEF Crash
  <2>2. \A p \in Purgers : purges[p] = 0
    BY <1>1, <2>1 DEF PhasesSound, Purgers
  <2> QED
    BY <2>1, <2>2, StoresHoldAtRest DEF Installing
<1>6. Undisturbed' /\ PhasesSound' /\ OutSound'
  BY <1>2, <1>5, ReloadedKeeps
<1> QED
  BY <1>4, <1>6 DEF BInv

-----------------------------------------------------------------------------
(* The export. *)

LEMMA StartExportStep == BInv /\ StartExport => BInv'
<1> SUFFICES ASSUME BInv, StartExport PROVE BInv'
  OBVIOUS
<1>1. Typed /\ Undisturbed /\ PhasesSound /\ OutSound
  BY Pieces
<1>2. /\ export' = [NoExport EXCEPT !.next = 1] /\ Count("exports", MaxExports)
      /\ UNCHANGED <<published, idb, app, run, purges, backup, restore, torn, unfinished>>
  BY DEF StartExport
<1>3. export' \in [next : 0..6, read : StoresType] /\ export'.next = 1
  BY <1>2, EmptyTyped DEF NoExport
<1>4. counts' \in CountsType
  BY <1>1, <1>2, CountTyped
<1>5. Typed'
  BY <1>1, <1>2, <1>3, <1>4 DEF Typed
<1>6. ExportSound'
  BY <1>3, PlaceNames DEF ExportSound
<1>7. Undisturbed'
  BY <1>1, <1>2, <1>6 DEF Undisturbed, StoresHold, PurgesClear, InstallSound, BackupSound,
                          Installing, SessionUnchanged, StillToClear
<1>8. PhasesSound' /\ OutSound'
  BY <1>1, <1>2 DEF PhasesSound, OutSound
<1> QED
  BY <1>5, <1>7, <1>8 DEF BInv

(* The last store makes a file of what was there all the time.             *)
LEMMA ReadStoreStep == BInv /\ ReadStore => BInv'
<1> SUFFICES ASSUME BInv, ReadStore PROVE BInv'
  OBVIOUS
<1> DEFINE k == export.next
           read == [export.read EXCEPT ![Stores[k]] = idb[Stores[k]]]
<1>1. Typed /\ Undisturbed /\ PhasesSound /\ OutSound
  BY Pieces
<1>2. /\ k # 0
      /\ IF k = 6 THEN export' = NoExport /\ backup' = read
         ELSE export' = [next |-> k + 1, read |-> read] /\ backup' = backup
      /\ torn' = IF Rewriting THEN torn \cup {"overlap"} ELSE torn
      /\ UNCHANGED <<published, idb, app, run, purges, restore, counts, unfinished>>
  BY StoreNames DEF ReadStore
<1>3. k \in 1..6 /\ export.read \in StoresType
  BY <1>1, <1>2 DEF Typed
<1>4. Rewritten(export.read, read, k, idb[Stores[k]])
  BY <1>1, <1>3, StoreWritten DEF Typed
<1>5. read \in StoresType
  BY <1>4 DEF Rewritten
<1>6. export' \in [next : 0..6, read : StoresType] /\ backup' \in StoresType
  BY <1>1, <1>2, <1>3, <1>5, EmptyTyped, SMTT(30) DEF NoExport, Typed
<1>7. Typed'
  BY <1>1, <1>2, <1>6 DEF Typed
<1>8. Undisturbed'
  <2> SUFFICES ASSUME torn' = {}
               PROVE (StoresHold /\ PurgesClear /\ InstallSound /\ ExportSound /\ BackupSound)'
    BY DEF Undisturbed
  <2>1. torn = {} /\ ~Rewriting
    BY <1>2
  <2>2. ~Installing /\ ~Installing' /\ \A p \in Purgers : purges[p] = 0
    BY <1>2, <2>1 DEF Rewriting, Installing
  <2>3. CursorHolds(idb) /\ MarkersHold(idb)
    BY <2>1, <2>2, StoresHoldAtRest
  <2>4. ExportSound /\ BackupSound
    BY <1>1, <2>1 DEF Undisturbed
  <2>5. \A s \in RoomStores : Place[s] <= k => read[s] = idb[s]
    <3> SUFFICES ASSUME NEW s \in RoomStores, Place[s] <= k PROVE read[s] = idb[s]
      OBVIOUS
    <3>1. CASE Place[s] = k
      BY <1>4, <3>1, PlaceNames DEF Rewritten
    <3>2. CASE Place[s] # k
      BY <1>3, <1>4, <2>4, <3>2, PlaceNames DEF Rewritten, ExportSound
    <3> QED
      BY <3>1, <3>2
  <2>6. StoresHold' /\ PurgesClear' /\ InstallSound'
    BY <1>2, <2>2, <2>3, PlaceNames DEF StoresHold, PurgesClear, InstallSound
  <2>7. CASE k = 6
    <3>1. backup' = read /\ export'.next = 0
      BY <1>2, <2>7 DEF NoExport
    <3>2. /\ read["roomCursor"] = idb["roomCursor"] /\ read["messages"] = idb["messages"]
          /\ read["processed"] = idb["processed"]
      BY <2>5, <2>7, PlaceNames DEF RoomStores
    <3>3. CursorHolds(backup') /\ MarkersHold(backup')
      BY <2>3, <3>1, <3>2 DEF CursorHolds, MarkersHold
    <3> QED
      BY <2>6, <3>1, <3>3, PlaceNames DEF BackupSound, ExportSound
  <2>8. CASE k # 6
    <3>1. backup' = backup /\ export'.next = k + 1 /\ export'.read = read
      BY <1>2, <2>8
    <3>2. ExportSound'
      BY <1>2, <1>3, <2>5, <3>1, PlaceNames DEF ExportSound
    <3> QED
      BY <2>4, <2>6, <3>1, <3>2 DEF BackupSound
  <2> QED
    BY <2>7, <2>8
<1>9. torn' = {} => torn = {}
  BY <1>2
<1>10. PhasesSound' /\ OutSound'
  BY <1>1, <1>2, <1>9 DEF PhasesSound, OutSound
<1> QED
  BY <1>7, <1>8, <1>10 DEF BInv

-----------------------------------------------------------------------------
(* The restore. *)

LEMMA StartRestoreStep == BInv /\ StartRestore => BInv'
<1> SUFFICES ASSUME BInv, StartRestore PROVE BInv'
  OBVIOUS
<1>1. Typed /\ Undisturbed /\ PhasesSound /\ OutSound
  BY Pieces
<1>2. /\ app = "up" /\ restore = NoRestore
      /\ restore' = [NoRestore EXCEPT !.pc = "sentinel"] /\ Count("restores", MaxRestores)
      /\ UNCHANGED <<published, idb, app, run, purges, export, backup, torn, unfinished>>
  BY DEF StartRestore
<1>3. restore' \in RestoreType /\ restore'.pc = "sentinel" /\ ~restore'.failed
  BY <1>2 DEF NoRestore, RestoreType
<1>4. counts' \in CountsType
  BY <1>1, <1>2, CountTyped
<1>5. Typed'
  BY <1>1, <1>2, <1>3, <1>4 DEF Typed
<1>6. ~Installing /\ ~Installing'
  BY <1>2, <1>3 DEF Installing, NoRestore
<1>7. Undisturbed'
  BY <1>1, <1>2, <1>6 DEF Undisturbed, StoresHold, PurgesClear, InstallSound, ExportSound,
                          BackupSound, StillToClear
<1>8. PhasesSound' /\ OutSound'
  BY <1>1, <1>2, <1>3 DEF PhasesSound, OutSound, NoRestore
<1> QED
  BY <1>5, <1>7, <1>8 DEF BInv

LEMMA WriteSentinelStep == BInv /\ WriteSentinel => BInv'
<1> SUFFICES ASSUME BInv, WriteSentinel PROVE BInv'
  OBVIOUS
<1>1. Typed /\ Undisturbed /\ PhasesSound /\ OutSound
  BY Pieces
<1>2. /\ restore.pc = "sentinel" /\ restore' = [restore EXCEPT !.pc = "check"]
      /\ UNCHANGED <<published, app, run, purges, export, backup, torn, unfinished>>
  BY DEF WriteSentinel
<1>3. idb' \in StoresType /\ \A s \in RoomStores : idb'[s] = idb[s]
  BY <1>1, SentinelWritten DEF WriteSentinel, Typed
<1>4. counts' \in CountsType
  BY <1>1, CountTyped DEF WriteSentinel, Typed
<1>5. /\ restore' \in RestoreType /\ restore'.pc = "check"
      /\ restore'.stale = restore.stale /\ restore'.failed = restore.failed
  BY <1>1, <1>2 DEF Typed, RestoreType
<1>6. Typed'
  BY <1>1, <1>2, <1>3, <1>4, <1>5 DEF Typed
<1>7. ~Installing /\ ~Installing'
  BY <1>2, <1>5 DEF Installing
<1>8. /\ idb'["roomCursor"] = idb["roomCursor"] /\ idb'["messages"] = idb["messages"]
      /\ idb'["processed"] = idb["processed"]
  BY <1>3 DEF RoomStores
<1>9. Undisturbed'
  BY <1>1, <1>2, <1>3, <1>7, <1>8
  DEF Undisturbed, StoresHold, PurgesClear, InstallSound, ExportSound, BackupSound,
      StillToClear, CursorHolds, MarkersHold
<1>10. PhasesSound' /\ OutSound'
  BY <1>1, <1>2, <1>3, <1>5 DEF PhasesSound, OutSound
<1> QED
  BY <1>6, <1>9, <1>10 DEF BInv

LEMMA PurgeBeforeRestoreStep == BInv /\ PurgeBeforeRestore => BInv'
<1> SUFFICES ASSUME BInv, PurgeBeforeRestore PROVE BInv'
  OBVIOUS
<1>1. Typed /\ Undisturbed /\ PhasesSound /\ OutSound
  BY Pieces
<1>2. /\ restore.pc = "check" /\ "restore" \in Purgers
      /\ UNCHANGED <<published, idb, app, run, export, backup, counts, torn, unfinished>>
  BY DEF PurgeBeforeRestore, Purgers
<1>3. CASE SessionUnchanged
  <2>1. restore' = [restore EXCEPT !.pc = "purge"] /\ StartPurge("restore")
    BY <1>3 DEF PurgeBeforeRestore
  <2>2. /\ purges' \in [Purgers -> 0..6] /\ purges'["restore"] = 1
        /\ \A q \in Purgers : q # "restore" => purges'[q] = purges[q]
    BY <1>1, <1>2, <2>1, PurgeBegins
  <2>3. /\ restore' \in RestoreType /\ restore'.pc = "purge"
        /\ restore'.stale = restore.stale /\ restore'.failed = restore.failed
    BY <1>1, <2>1 DEF Typed, RestoreType
  <2>4. Typed'
    BY <1>1, <1>2, <2>2, <2>3 DEF Typed
  <2>5. ~Installing /\ ~Installing' /\ purges["restore"] = 0
    BY <1>1, <1>2, <2>3 DEF Installing, PhasesSound
  <2>6. Undisturbed'
    BY <1>2, <2>1, <2>5, PurgeBeginsUndisturbed
  <2>7. PhasesSound'
    BY <1>1, <1>2, <2>2, <2>3 DEF PhasesSound, Purgers
  <2>8. OutSound'
    BY <1>1, <1>2, <2>2, <2>3 DEF OutSound, Purgers
  <2> QED
    BY <2>4, <2>6, <2>7, <2>8 DEF BInv
<1>4. CASE ~SessionUnchanged
  <2>1. restore' = NoRestore /\ purges' = purges
    BY <1>4 DEF PurgeBeforeRestore
  <2>2. restore' \in RestoreType /\ restore'.pc = "none" /\ ~restore'.failed
    BY <2>1 DEF NoRestore, RestoreType
  <2>3. Typed'
    BY <1>1, <1>2, <2>1, <2>2 DEF Typed
  <2>4. ~Installing /\ ~Installing'
    BY <1>2, <2>2 DEF Installing
  <2>5. Undisturbed'
    BY <1>1, <1>2, <2>1, <2>4 DEF Undisturbed, StoresHold, PurgesClear, InstallSound,
                                  ExportSound, BackupSound, StillToClear
  <2>6. PhasesSound' /\ OutSound'
    BY <1>1, <1>2, <2>1, <2>2 DEF PhasesSound, OutSound
  <2> QED
    BY <2>3, <2>5, <2>6 DEF BInv
<1> QED
  BY <1>3, <1>4

(* Records that are put over stores of the right type have it again.       *)
LEMMA InstalledTyped ==
  ASSUME Typed, NEW k \in 1..6
  PROVE  \E W \in StoresType : Installed(Stores[k]) = W[Stores[k]]
<1>1. idb \in StoresType /\ backup \in StoresType
  BY DEF Typed
<1>2. CASE k \in {1, 2}
  <2>1. Installed(Stores[k]) = backup[Stores[k]]
    BY <1>2, StoreNames DEF Installed
  <2> QED
    BY <1>1, <2>1
<1>3. CASE k \in {3, 6}
  <2>1. Stores[k] \in {"known", "sentinel"}
    BY <1>3, StoreNames
  <2>2. Installed(Stores[k]) = (idb[Stores[k]] \/ backup[Stores[k]])
    BY <2>1 DEF Installed
  <2>3. /\ idb[Stores[k]] \in BOOLEAN /\ backup[Stores[k]] \in BOOLEAN
    BY <1>1, <2>1 DEF StoresType
  <2>4. Installed(Stores[k]) = idb[Stores[k]] \/ Installed(Stores[k]) = backup[Stores[k]]
    BY <2>2, <2>3
  <2> QED
    BY <1>1, <2>4
<1>4. CASE k \in {4, 5}
  <2> DEFINE W == [idb EXCEPT !.messages = idb.messages \cup backup.messages,
                              !.processed = idb.processed \cup backup.processed]
  <2>1. W \in StoresType
    BY <1>1 DEF StoresType
  <2>2. Installed(Stores[k]) = W[Stores[k]]
    BY <1>1, <1>4, StoreNames DEF Installed, StoresType
  <2> QED
    BY <2>1, <2>2
<1> QED
  BY <1>2, <1>3, <1>4

(* What is installed into an empty store is the backup's.                  *)
LEMMA InstalledIntoEmpty ==
  ASSUME Typed, NEW s \in RoomStores, idb[s] = Empty[s]
  PROVE  Installed(s) = backup[s]
<1>1. idb \in StoresType /\ backup \in StoresType
  BY DEF Typed
<1>2. CASE s = "roomCursor"
  BY <1>2 DEF Installed
<1>3. CASE s = "known"
  <2>1. idb[s] = FALSE /\ Installed(s) = (idb[s] \/ backup[s])
    BY <1>3 DEF Installed, Empty
  <2>2. backup[s] \in BOOLEAN
    BY <1>1, <1>3 DEF StoresType
  <2> QED
    BY <2>1, <2>2
<1>4. CASE s \in {"messages", "processed"}
  BY <1>4 DEF Installed, Empty
<1> QED
  BY <1>2, <1>3, <1>4 DEF RoomStores

LEMMA InstallStoreStep == BInv /\ InstallStore => BInv'
<1> SUFFICES ASSUME BInv, InstallStore PROVE BInv'
  OBVIOUS
<1>1. Typed /\ Undisturbed /\ PhasesSound /\ OutSound
  BY Pieces
<1>2. /\ Installing
      /\ UNCHANGED <<published, app, run, purges, export, backup, unfinished>>
  BY DEF InstallStore
<1>3. restore.pc = "install" /\ ~restore.stale
  BY <1>2 DEF Installing, SessionUnchanged
<1>4. PICK k \in Remaining : IsNext(k) /\
        \/ /\ idb' = [idb EXCEPT ![Stores[k]] = Installed(Stores[k])]
           /\ restore' = [restore EXCEPT !.next = k + 1]
           /\ torn' = IF export = NoExport THEN torn ELSE torn \cup {"overlap"}
           /\ counts' = counts
        \/ /\ Count("faults", MaxFaults)
           /\ restore' = [restore EXCEPT !.next = k + 1, !.failed = TRUE]
           /\ torn' = torn \cup {"restore"} /\ idb' = idb
  BY DEF InstallStore
<1>5. k \in 1..6 /\ restore.next <= k /\ restore.next \in Nat
  BY <1>1, <1>3, <1>4, StoreNames DEF Remaining, PhasesSound, Typed, RestoreType
<1>6. /\ restore' \in RestoreType /\ restore'.next = k + 1
      /\ restore'.pc = "install" /\ restore'.stale = restore.stale
  <2>1. restore \in RestoreType /\ k + 1 \in Nat
    BY <1>1, <1>5 DEF Typed
  <2>2. \/ restore' = [restore EXCEPT !.next = k + 1]
        \/ restore' = [restore EXCEPT !.next = k + 1, !.failed = TRUE]
    BY <1>4
  <2> QED
    BY <1>3, <2>1, <2>2 DEF RestoreType
<1>7. app # "out"
  BY <1>1, <1>3 DEF OutSound
<1>8. OutSound'
  BY <1>2, <1>7 DEF OutSound
<1>9. CASE /\ idb' = [idb EXCEPT ![Stores[k]] = Installed(Stores[k])]
           /\ restore' = [restore EXCEPT !.next = k + 1]
           /\ torn' = IF export = NoExport THEN torn ELSE torn \cup {"overlap"}
           /\ counts' = counts
  <2>1. Rewritten(idb, idb', k, Installed(Stores[k]))
    BY <1>1, <1>5, <1>9, StoreWritten, InstalledTyped DEF Typed
  <2>2. Typed'
    BY <1>1, <1>2, <1>6, <1>9, <2>1 DEF Typed, Rewritten
  <2>3. Undisturbed'
    <3> SUFFICES ASSUME torn' = {}
                 PROVE (StoresHold /\ PurgesClear /\ InstallSound /\ ExportSound /\ BackupSound)'
      BY DEF Undisturbed
    <3>1. torn = {} /\ export = NoExport
      BY <1>9
    <3>2. InstallSound /\ BackupSound
      BY <1>1, <3>1 DEF Undisturbed
    <3>3. Installing'
      BY <1>3, <1>6 DEF Installing, SessionUnchanged
    <3>4. InstallSound'
      <4> SUFFICES ASSUME NEW s \in RoomStores
                   PROVE idb'[s] = IF Place[s] < k + 1 THEN backup[s] ELSE Empty[s]
        BY <1>2, <1>6 DEF InstallSound
      <4>1. Place[s] \in 1..5 /\ Stores[Place[s]] = s
        BY PlaceNames
      <4>2. idb[s] = IF Place[s] < restore.next THEN backup[s] ELSE Empty[s]
        BY <1>2, <3>2 DEF InstallSound
      <4>3. CASE Place[s] = k
        <5>1. idb[s] = Empty[s] /\ idb'[s] = Installed(s)
          BY <1>5, <2>1, <4>1, <4>2, <4>3 DEF Rewritten
        <5>2. Installed(s) = backup[s]
          BY <1>1, <5>1, InstalledIntoEmpty
        <5> QED
          BY <1>5, <4>3, <5>1, <5>2
      <4>4. CASE Place[s] # k
        <5>1. idb'[s] = idb[s]
          BY <2>1, <4>4 DEF Rewritten
        <5>2. restore.next <= Place[s] /\ Place[s] < k => Place[s] \notin Remaining
          BY <1>4, <1>5, <4>1 DEF IsNext
        <5>3. restore.next <= Place[s] /\ Place[s] < k => backup[s] = Empty[s]
          BY <1>5, <4>1, <5>2, StoreNames DEF Remaining
        <5> QED
          BY <1>5, <4>1, <4>2, <4>4, <5>1, <5>3
      <4> QED
        BY <4>3, <4>4
    <3>5. ExportSound' /\ BackupSound'
      BY <1>2, <3>1, <3>2, PlaceNames DEF ExportSound, BackupSound, NoExport
    <3> QED
      BY <3>3, <3>4, <3>5 DEF StoresHold, PurgesClear
  <2>4. PhasesSound'
    BY <1>1, <1>2, <1>3, <1>5, <1>6, <1>9 DEF PhasesSound, Typed, RestoreType
  <2> QED
    BY <1>8, <2>2, <2>3, <2>4 DEF BInv
<1>10. CASE /\ Count("faults", MaxFaults)
            /\ restore' = [restore EXCEPT !.next = k + 1, !.failed = TRUE]
            /\ torn' = torn \cup {"restore"} /\ idb' = idb
  <2>1. counts' \in CountsType
    BY <1>1, <1>10, CountTyped
  <2>2. Typed'
    BY <1>1, <1>2, <1>6, <1>10, <2>1 DEF Typed
  <2>3. Undisturbed'
    BY <1>10 DEF Undisturbed
  <2>4. PhasesSound'
    BY <1>1, <1>2, <1>3, <1>5, <1>6, <1>10 DEF PhasesSound
  <2> QED
    BY <1>8, <2>2, <2>3, <2>4 DEF BInv
<1> QED
  BY <1>4, <1>9, <1>10

LEMMA GiveUpStep == BInv /\ GiveUp => BInv'
<1> SUFFICES ASSUME BInv, GiveUp PROVE BInv'
  OBVIOUS
<1>1. Typed /\ Undisturbed /\ PhasesSound /\ OutSound
  BY Pieces
<1>2. /\ restore.pc = "install" /\ (restore.failed \/ ~SessionUnchanged)
      /\ restore' = NoRestore
      /\ UNCHANGED <<published, idb, app, run, purges, export, backup, counts, torn, unfinished>>
  BY DEF GiveUp
<1>3. restore' \in RestoreType /\ restore'.pc = "none" /\ ~restore'.failed
  BY <1>2 DEF NoRestore, RestoreType
<1>4. Typed'
  BY <1>1, <1>2, <1>3 DEF Typed
<1>5. Undisturbed'
  <2>1. CASE restore.failed
    BY <1>1, <1>2, <2>1 DEF Undisturbed, PhasesSound
  <2>2. CASE ~SessionUnchanged
    <3>1. ~Installing /\ ~Installing'
      BY <1>3, <2>2 DEF Installing
    <3> QED
      BY <1>1, <1>2, <3>1 DEF Undisturbed, StoresHold, PurgesClear, InstallSound,
                              ExportSound, BackupSound, StillToClear
  <2> QED
    BY <1>2, <2>1, <2>2
<1>6. PhasesSound' /\ OutSound'
  BY <1>1, <1>2, <1>3 DEF PhasesSound, OutSound
<1> QED
  BY <1>4, <1>5, <1>6 DEF BInv

(* A restore that ends well has made the stores what the backup was.       *)
LEMMA FinishRestoreStep == BInv /\ FinishRestore => BInv'
<1> SUFFICES ASSUME BInv, FinishRestore PROVE BInv'
  OBVIOUS
<1>1. Typed /\ Undisturbed /\ PhasesSound
  BY Pieces
<1>2. /\ restore.pc = "install" /\ Remaining = {}
      /\ idb' = [idb EXCEPT !.sentinel = FALSE]
      /\ Reloaded /\ torn \subseteq torn'
      /\ unfinished' = (unfinished \/ purges["logout"] # 0)
      /\ UNCHANGED <<published, backup, counts>>
  BY DEF FinishRestore
<1>3. idb' \in StoresType /\ \A s \in RoomStores : idb'[s] = idb[s]
  BY <1>1, <1>2, SentinelWritten DEF Typed
<1>4. Typed'
  BY <1>1, <1>2, <1>3, ReloadedTyped DEF Typed
<1>5. ASSUME torn' = {} PROVE CursorHolds(idb) /\ MarkersHold(idb)
  <2>1. torn = {} /\ ~\E p \in {"logout", "init"} : purges[p] # 0
    BY <1>5 DEF FinishRestore
  <2>2. \A p \in Purgers : purges[p] = 0
    BY <1>1, <1>2, <2>1 DEF PhasesSound, Purgers
  <2>3. CASE ~Installing
    BY <2>1, <2>2, <2>3, StoresHoldAtRest
  <2>4. CASE Installing
    <3>1. InstallSound /\ BackupSound
      BY <1>1, <2>1 DEF Undisturbed
    <3>2. restore.next \in Nat \ {0}
      BY <1>1, <1>2 DEF Typed, RestoreType, PhasesSound
    <3>3. \A s \in RoomStores : idb[s] = backup[s]
      <4> SUFFICES ASSUME NEW s \in RoomStores PROVE idb[s] = backup[s]
        OBVIOUS
      <4>1. Place[s] \in 1..5 /\ Stores[Place[s]] = s
        BY PlaceNames
      <4>2. restore.next <= Place[s] => backup[s] = Empty[s]
        BY <1>2, <3>2, <4>1, StoreNames DEF Remaining
      <4> QED
        BY <2>4, <3>1, <3>2, <4>1, <4>2 DEF InstallSound
    <3>4. /\ idb["roomCursor"] = backup["roomCursor"] /\ idb["messages"] = backup["messages"]
          /\ idb["processed"] = backup["processed"]
      BY <3>3 DEF RoomStores
    <3> QED
      BY <3>1, <3>4 DEF BackupSound, CursorHolds, MarkersHold
  <2> QED
    BY <2>3, <2>4
<1>6. Undisturbed' /\ PhasesSound' /\ OutSound'
  BY <1>2, <1>3, <1>5, ReloadedKeeps
<1> QED
  BY <1>4, <1>6 DEF BInv

-----------------------------------------------------------------------------
(* The invariant holds. *)

LEMMA InitBInv == BackupInit => BInv
<1> SUFFICES ASSUME BackupInit PROVE BInv
  OBVIOUS
<1>1. /\ published = 0 /\ idb = Empty /\ app = "out" /\ run = NoRun
      /\ purges = [p \in Purgers |-> 0]
      /\ export = NoExport /\ backup = Empty /\ restore = NoRestore
      /\ counts = [exports |-> 0, restores |-> 0, logouts |-> 0, crashes |-> 0, faults |-> 0]
      /\ torn = {} /\ unfinished = FALSE
  BY DEF BackupInit
<1>2. Typed
  <2>1. NoRun \in [phase : {"idle", "user", "room"}, todo : Seq(Nat)]
    BY DEF NoRun
  <2>2. NoExport \in [next : 0..6, read : StoresType] /\ NoRestore \in RestoreType
    BY EmptyTyped DEF NoExport, NoRestore, RestoreType
  <2>3. [exports |-> 0, restores |-> 0, logouts |-> 0, crashes |-> 0, faults |-> 0]
          \in CountsType
    BY DEF CountsType
  <2> QED
    <3>1. purges \in [Purgers -> 0..6] /\ published \in Nat
      BY <1>1
    <3> QED
      BY <1>1, <2>1, <2>2, <2>3, <3>1, EmptyTyped, Zenon DEF Typed
<1>3. CursorHolds(Empty) /\ MarkersHold(Empty)
  BY DEF CursorHolds, MarkersHold, Empty
<1>4. ~Installing /\ \A p \in Purgers : purges[p] = 0
  BY <1>1 DEF Installing, NoRestore
<1>5. Undisturbed
  BY <1>1, <1>3, <1>4, PlaceNames
  DEF Undisturbed, StoresHold, PurgesClear, InstallSound, ExportSound, BackupSound, NoExport
<1>6. PhasesSound
  BY <1>1, <1>4 DEF PhasesSound, NoRestore, Purgers
<1>7. OutSound
  BY <1>1 DEF OutSound, NoRestore
<1> QED
  BY <1>2, <1>5, <1>6, <1>7 DEF BInv

LEMMA StutterBInv == BInv /\ UNCHANGED backupVars => BInv'
  BY DEF BInv, backupVars, Typed, Undisturbed, StoresHold, CursorHolds, MarkersHold, PurgesClear,
         InstallSound, ExportSound, BackupSound, PhasesSound, OutSound, Installing,
         SessionUnchanged, StillToClear

LEMMA NextBInv == BInv /\ [BackupNext]_backupVars => BInv'
<1> SUFFICES ASSUME BInv, [BackupNext]_backupVars PROVE BInv'
  OBVIOUS
<1>1. CASE Publish \/ RecoverUserStream \/ RecoverRoomStreams \/ EndRun
  BY <1>1, RunStep
<1>2. CASE ApplyEvent
  BY <1>2, ApplyEventStep
<1>3. ASSUME NEW p \in Purgers, ClearStore(p) PROVE BInv'
  BY <1>3, ClearStoreStep
<1>4. CASE CallInit \/ CheckSentinel \/ Logout \/ Crash
  BY <1>4, CallInitStep, CheckSentinelStep, LogoutStep, CrashStep
<1>5. CASE StartExport \/ ReadStore
  BY <1>5, StartExportStep, ReadStoreStep
<1>6. CASE StartRestore \/ WriteSentinel \/ PurgeBeforeRestore
  BY <1>6, StartRestoreStep, WriteSentinelStep, PurgeBeforeRestoreStep
<1>7. CASE InstallStore \/ GiveUp \/ FinishRestore
  BY <1>7, InstallStoreStep, GiveUpStep, FinishRestoreStep
<1>8. CASE UNCHANGED backupVars
  BY <1>8, StutterBInv
<1> QED
  BY <1>1, <1>2, <1>3, <1>4, <1>5, <1>6, <1>7, <1>8 DEF BackupNext

(* Purges, exports, restores and the recovery keep the stores consistent.  *)
THEOREM BackupInvariant == BackupSpec => []BInv
<1>1. BackupInit => BInv
  BY InitBInv
<1>2. BInv /\ [BackupNext]_backupVars => BInv'
  BY NextBInv
<1> QED
  BY <1>1, <1>2, PTL DEF BackupSpec

(* Whatever is exported, restored and purged, and however often, the cursor *)
(* and the markers of the room claim no message that is not there.         *)
THEOREM NothingIsSkipped == BackupSpec => []NothingSkipped
<1>1. BInv => NothingSkipped
  <2> SUFFICES ASSUME BInv, torn = {}, ~Rewriting PROVE Backed
    BY DEF NothingSkipped
  <2>1. ~Installing /\ \A p \in Purgers : purges[p] = 0
    BY DEF Rewriting, Installing
  <2>2. CursorHolds(idb) /\ MarkersHold(idb)
    BY <2>1, StoresHoldAtRest
  <2> QED
    BY <2>2 DEF CursorHolds, MarkersHold, Backed
<1> QED
  BY <1>1, BackupInvariant, PTL

(* A sign-out leaves nothing of the room behind, whatever was at work.     *)
THEOREM SignOutsLeaveNothing == BackupSpec => []LogoutLeavesNothing
<1>1. BInv => LogoutLeavesNothing
  BY Pieces DEF OutSound, LogoutLeavesNothing, RoomStores
<1> QED
  BY <1>1, BackupInvariant, PTL
=============================================================================
