----------------------------- MODULE CallsProofs -----------------------------
(* What the server promises about calls and presence, for any users, rooms, *)
(* sockets and number of handlers at an await: the inductive invariant and  *)
(* the theorems.                                                            *)
EXTENDS Calls, TLAPS

------------------------------------------------------------------------------
(* The inductive invariant. *)

CallOf(u) == activeCalls[u].call
PeerOf(u) == activeCalls[u].peer
Logging(h) == handlers[h].pc = "log"

(* An entry names somebody else, who is in the same call with its user, or  *)
(* in a later one, or in none: entries are replaced by later calls only.    *)
EntriesSound ==
  \A u \in Users : Busy(u) =>
    /\ PeerOf(u) # u
    /\ Busy(PeerOf(u)) =>
         /\ CallOf(u) <= CallOf(PeerOf(u))
         /\ CallOf(u) = CallOf(PeerOf(u)) => PeerOf(PeerOf(u)) = u

(* Handlers have ended this call, or an earlier one, at the same time.      *)
Doubled(c, O) == \E d \in O : d <= c

(* What a handler has read is stale only if another one has ended the call  *)
(* at the same time: the entries it will remove are those it read, or       *)
(* later ones.                                                              *)
ReadSound(x, A, O) ==
  /\ x.peer # x.user
  /\ A[x.user] # NoCall =>
       x.call <= A[x.user].call /\ (A[x.user].call = x.call => A[x.user].peer = x.peer)
  /\ A[x.peer] # NoCall =>
       x.call <= A[x.peer].call /\ (A[x.peer].call = x.call => A[x.peer].peer = x.user)
  /\ \/ Doubled(x.call, O)
     \/ /\ A[x.user] # NoCall /\ A[x.user].call = x.call
        /\ A[x.peer] # NoCall /\ A[x.peer].call = x.call

HandlersSound ==
  \A h \in Handlers : Logging(h) =>
    /\ handlers[h].call \in 1..calls /\ handlers[h].peer \in Users
    /\ handlers[h].final \in LogStatuses
    /\ ReadSound(handlers[h], activeCalls, overlapped)

OverlapsNoted ==
  \A g, h \in Handlers :
    Logging(g) /\ Logging(h) /\ g # h /\ handlers[g].call = handlers[h].call =>
      handlers[g].call \in overlapped

(* Connected entries, and the handlers that read one, are of answered calls. *)
Answered(c, S, O) == c \in S \/ \E d \in O : d < c

AnswersNoted ==
  /\ \A u \in Users : Busy(u) /\ activeCalls[u].status = "connected" =>
       Answered(CallOf(u), accepted, overlapped)
  /\ \A h \in Handlers : Logging(h) /\ handlers[h].final = "completed" =>
       Answered(handlers[h].call, accepted, overlapped)

(* Only a disconnect handler goes on to the presence of its user.           *)
LastSound ==
  \A h \in Handlers : handlers[h].kind = "end" => ~handlers[h].last

Core ==
  /\ EntriesSound /\ HandlersSound /\ OverlapsNoted
  /\ CallsArePaired /\ AnswersNoted /\ CallsAreLogged

CInv == TypeOK /\ Core /\ LastSound /\ GoneIsGone
------------------------------------------------------------------------------
(* Facts about the operators. *)

(* find(p => p != userId) finds somebody, and somebody else.                *)
LEMMA PeerInIsAnother ==
  ASSUME NEW r \in Rooms, NEW u \in Users, InRoom(r, u)
  PROVE  PeerIn(r, u) \in Users /\ PeerIn(r, u) # u
<1> DEFINE P == Participants[r]
           Others == {i \in DOMAIN P : P[i] # u}
           Least(i) == i \in Others /\ \A j \in Others : i <= j
<1>1. P \in Seq(Users) /\ Len(P) > 1 /\ IsInjective(P)
  BY ParticipantsAssumption
<1>2. DOMAIN P = 1..Len(P) /\ Len(P) \in Nat /\ \A i \in 1..Len(P) : P[i] \in Users
  BY <1>1
<1>3. 1 \in DOMAIN P /\ 2 \in DOMAIN P /\ P[1] # P[2]
  BY <1>1, <1>2 DEF IsInjective
<1>4. \E i \in Others : \A j \in Others : i <= j
  <2>1. CASE P[1] # u
    BY <2>1, <1>2, <1>3
  <2>2. CASE P[1] = u
    BY <2>2, <1>2, <1>3
  <2> QED
    BY <2>1, <2>2
<1>5. (CHOOSE i \in Others : \A j \in Others : i <= j) \in Others
  BY <1>4
<1>6. PeerIn(r, u) = P[CHOOSE i \in Others : \A j \in Others : i <= j]
  BY DEF PeerIn
<1> QED
  BY <1>2, <1>5, <1>6

EntryType ==
  [call : 1..calls, room : Rooms, peer : Users,
   role : {"caller", "callee"}, status : {"calling", "connected"}]

HandlerType ==
  [pc : {"log", "presence"}, kind : {"end", "disconnect"}, user : Users,
   call : 0..calls, peer : Users \cup {"none"}, final : LogStatuses \cup {"none"},
   last : BOOLEAN]

LEMMA Types ==
  ASSUME TypeOK
  PROVE  /\ calls \in Nat
         /\ \A u \in Users : Busy(u) => activeCalls[u] \in EntryType
         /\ \A u \in Users : activeCalls[u] \in EntryType => Busy(u)
         /\ \A h \in Handlers : Waiting(h) <=> handlers[h] \in HandlerType
         /\ \A h \in Handlers : Logging(h) => handlers[h] \in HandlerType
         /\ \A h \in Handlers : Waiting(h) <=> handlers[h].pc # "idle"
<1>1. calls \in Nat
  BY BoundsAssumption DEF TypeOK
<1>2. \A u \in Users : activeCalls[u] \in {NoCall} \cup EntryType
  BY DEF TypeOK, EntryType
<1>3. NoCall \notin EntryType
  BY <1>1 DEF NoCall, EntryType
<1>4. \A h \in Handlers : handlers[h] \in {Idle} \cup HandlerType
  BY DEF TypeOK, HandlerType
<1>5. Idle.pc = "idle" /\ \A x \in HandlerType : x.pc \in {"log", "presence"}
  BY DEF Idle, HandlerType
<1>6. Idle \notin HandlerType
  BY <1>5
<1> QED
  BY <1>1, <1>2, <1>3, <1>4, <1>5, <1>6 DEF Busy, Waiting, Logging

(* A handler that captures an entry is typed. *)
LEMMA EndingTyped ==
  ASSUME TypeOK, NEW u \in Users, Busy(u), NEW kind \in {"end", "disconnect"},
         NEW rejects \in BOOLEAN, NEW last \in BOOLEAN
  PROVE  LET e == Ending(u, kind, rejects, last) IN
         /\ e \in HandlerType
         /\ e.pc = "log" /\ e.user = u /\ e.call = CallOf(u) /\ e.peer = PeerOf(u)
         /\ e.kind = kind /\ e.last = last /\ e.final \in LogStatuses
         /\ e.final = "completed" => activeCalls[u].status = "connected"
<1>1. activeCalls[u] \in EntryType /\ calls \in Nat
  BY Types
<1> QED
  BY <1>1 DEF Ending, HandlerType, EntryType, FinalStatus, LogStatuses, CallOf, PeerOf

LEMMA EndIsTyped ==
  ASSUME TypeOK, NEW u \in Users, Busy(u), NEW rejects \in BOOLEAN
  PROVE  /\ Ending(u, "end", rejects, FALSE) \in HandlerType
         /\ Ending(u, "end", rejects, FALSE).kind = "end"
         /\ Ending(u, "end", rejects, FALSE).last = FALSE
<1>1. activeCalls[u] \in EntryType /\ calls \in Nat
  BY Types
<1> QED
  BY <1>1 DEF Ending, HandlerType, EntryType, FinalStatus, LogStatuses

LEMMA DisconnectIsTyped ==
  ASSUME TypeOK, NEW u \in Users, Busy(u), NEW last \in BOOLEAN
  PROVE  LET e == Ending(u, "disconnect", FALSE, last) IN
         e \in HandlerType /\ e.kind = "disconnect" /\ e.pc = "log" /\ e.user = u /\ e.last = last
<1>1. activeCalls[u] \in EntryType /\ calls \in Nat
  BY Types
<1> QED
  BY <1>1 DEF Ending, HandlerType, EntryType, FinalStatus, LogStatuses

LEMMA PresenceTyped ==
  ASSUME TypeOK, NEW u \in Users
  PROVE  /\ Presence(u) \in HandlerType
         /\ Presence(u).pc = "presence" /\ Presence(u).user = u
         /\ Presence(u).last = TRUE /\ Presence(u).kind = "disconnect"
<1>1. calls \in Nat
  BY Types
<1> QED
  BY <1>1 DEF Presence, Idle, HandlerType

LEMMA InitCInv == Init => CInv
<1> SUFFICES ASSUME Init PROVE CInv
  OBVIOUS
<1>1. \A u \in Users : ~Busy(u) /\ ~isOnline[u] /\ activeCalls[u] = NoCall
  BY DEF Init, Busy
<1>2. \A h \in Handlers : handlers[h] = Idle /\ ~Logging(h) /\ handlers[h].kind = "none"
  BY DEF Init, Logging, Idle
<1>3. calls = 0 /\ logs = {} /\ 1..calls = {}
  BY DEF Init
<1>4. TypeOK
  <2>1. sock \in [Sockets -> Registered \cup {"new", "closed", "gone"}]
    BY DEF Init
  <2>2. calls \in 0..MaxCalls /\ faults \in 0..MaxFaults
    BY BoundsAssumption DEF Init
  <2> QED
    BY <2>1, <2>2 DEF Init, TypeOK
<1>5. EntriesSound /\ HandlersSound /\ OverlapsNoted /\ AnswersNoted /\ LastSound
  BY <1>1, <1>2 DEF EntriesSound, HandlersSound, OverlapsNoted, AnswersNoted, LastSound
<1>6. CallsArePaired /\ CallsAreLogged /\ GoneIsGone
  BY <1>1, <1>3
  DEF CallsArePaired, CallsAreLogged, CompletedWasAccepted, NoCallIsForgotten, GoneIsGone,
      GoneIsNotBusy, GoneIsOffline
<1> QED
  BY <1>4, <1>5, <1>6 DEF CInv, Core

------------------------------------------------------------------------------
(* Steps that leave the entries alone: handlers only go idle, and what they *)
(* log is what they have read.                                              *)
LEMMA QuietStep ==
  ASSUME Core, UNCHANGED <<activeCalls, calls, accepted, overlapped>>,
         \A h \in Handlers : Logging(h)' => handlers'[h] = handlers[h],
         logs \subseteq logs', lost \subseteq lost',
         \A l \in logs' \ logs : l.status = "completed" => Answered(l.call, accepted, overlapped)
  PROVE  Core'
<1>1. EntriesSound' /\ CallsArePaired'
  BY DEF Core, EntriesSound, CallsArePaired, Busy, CallOf, PeerOf, Partner, Disturbed
<1>2. \A h \in Handlers : Logging(h)' => Logging(h)
  BY DEF Logging
<1>3. HandlersSound'
  BY <1>2 DEF Core, HandlersSound
<1>4. OverlapsNoted'
  BY <1>2 DEF Core, OverlapsNoted
<1>5. AnswersNoted'
  BY <1>2 DEF Core, AnswersNoted, Busy, CallOf
<1>6. CallsAreLogged'
  BY DEF Core, CallsAreLogged, CompletedWasAccepted, NoCallIsForgotten, Disturbed, Answered
<1> QED
  BY <1>1, <1>3, <1>4, <1>5, <1>6 DEF Core

(* A handler reads the entry of a user and is going to log it.              *)
LEMMA CaptureStep ==
  ASSUME TypeOK, Core, NEW u \in Users, Busy(u), NEW h \in Handlers, ~Waiting(h),
         NEW kind \in {"end", "disconnect"}, NEW rejects \in BOOLEAN, NEW last \in BOOLEAN,
         handlers' = [handlers EXCEPT ![h] = Ending(u, kind, rejects, last)],
         NoteOverlap(CallOf(u)),
         UNCHANGED <<activeCalls, logs, calls, accepted, lost>>
  PROVE  Core'
<1> DEFINE e == Ending(u, kind, rejects, last)
<1>1. /\ e.pc = "log" /\ e.user = u /\ e.call = CallOf(u) /\ e.peer = PeerOf(u)
      /\ e.final \in LogStatuses
      /\ e.final = "completed" => activeCalls[u].status = "connected"
  BY EndingTyped
<1>2. handlers'[h] = e /\ \A g \in Handlers : g # h => handlers'[g] = handlers[g]
  BY DEF TypeOK
<1> HIDE DEF e
<1>3. CallOf(u) \in 1..calls /\ PeerOf(u) \in Users /\ calls \in Nat
  BY Types DEF EntryType, CallOf, PeerOf
<1>4. /\ overlapped \subseteq overlapped'
      /\ \A d \in overlapped' : d \in overlapped \/ d = CallOf(u)
      /\ \A g \in Handlers : InEnding(g, CallOf(u)) => CallOf(u) \in overlapped'
  BY DEF NoteOverlap
<1>5. EntriesSound'
  BY DEF Core, EntriesSound, Busy, CallOf, PeerOf
<1>6. \A c : Doubled(c, overlapped) => Doubled(c, overlapped')
  BY <1>4 DEF Doubled
<1>7. ReadSound(e, activeCalls, overlapped')
  <2>1. PeerOf(u) # u /\ (Busy(PeerOf(u)) => CallOf(u) <= CallOf(PeerOf(u))
          /\ (CallOf(u) = CallOf(PeerOf(u)) => PeerOf(PeerOf(u)) = u))
    BY DEF Core, EntriesSound
  <2>2. CASE Doubled(CallOf(u), overlapped')
    BY <2>1, <2>2, <1>1, <1>3 DEF ReadSound, Busy, CallOf, PeerOf
  <2>3. CASE ~Doubled(CallOf(u), overlapped')
    <3>1. ~Disturbed(CallOf(u))
      <4>1. \A d \in overlapped : d \in Nat /\ ~(d <= CallOf(u))
        BY <2>3, <1>4 DEF Doubled, TypeOK
      <4> QED
        BY <4>1, <1>3 DEF Disturbed
    <3>2. CallOf(PeerOf(u)) = CallOf(u)
      BY <3>1 DEF Core, CallsArePaired, Partner, CallOf, PeerOf
    <3>3. Busy(PeerOf(u))
      BY <3>2, <1>3 DEF Busy, CallOf, NoCall
    <3> QED
      BY <2>1, <3>2, <3>3, <1>1, <1>3 DEF ReadSound, Busy, CallOf, PeerOf
  <2> QED
    BY <2>2, <2>3
<1>8. HandlersSound'
  <2> SUFFICES ASSUME NEW g \in Handlers, Logging(g)'
      PROVE  /\ handlers'[g].call \in 1..calls /\ handlers'[g].peer \in Users
             /\ handlers'[g].final \in LogStatuses
             /\ ReadSound(handlers'[g], activeCalls, overlapped')
    BY DEF HandlersSound
  <2>1. CASE g # h
    <3>1. Logging(g) /\ handlers'[g] = handlers[g]
      BY <2>1, <1>2 DEF Logging
    <3>2. ReadSound(handlers[g], activeCalls, overlapped)
      BY <3>1 DEF Core, HandlersSound
    <3>3. ReadSound(handlers[g], activeCalls, overlapped')
      BY <3>2, <1>6 DEF ReadSound
    <3> QED
      BY <3>1, <3>3 DEF Core, HandlersSound
  <2>2. CASE g = h
    BY <2>2, <1>1, <1>2, <1>3, <1>7
  <2> QED
    BY <2>1, <2>2
<1>9. OverlapsNoted'
  <2> SUFFICES ASSUME NEW f \in Handlers, NEW g \in Handlers, Logging(f)', Logging(g)', f # g,
                      handlers'[f].call = handlers'[g].call
      PROVE  handlers'[f].call \in overlapped'
    BY DEF OverlapsNoted
  <2>1. CASE f # h /\ g # h
    BY <2>1, <1>2, <1>4 DEF Core, OverlapsNoted, Logging
  <2>2. CASE f = h
    BY <2>2, <1>1, <1>2, <1>4 DEF InEnding, Logging
  <2>3. CASE g = h
    BY <2>3, <1>1, <1>2, <1>4 DEF InEnding, Logging
  <2> QED
    BY <2>1, <2>2, <2>3
<1>10. CallsArePaired'
  BY <1>4 DEF Core, CallsArePaired, Busy, Partner, Disturbed
<1>11. \A c : Answered(c, accepted, overlapped) => Answered(c, accepted, overlapped')
  BY <1>4 DEF Answered
<1>12. AnswersNoted'
  <2>1. \A v \in Users : Busy(v)' /\ activeCalls'[v].status = "connected" =>
          Answered(CallOf(v)', accepted', overlapped')
    BY <1>11 DEF Core, AnswersNoted, Busy, CallOf
  <2>2. \A g \in Handlers : Logging(g)' /\ handlers'[g].final = "completed" =>
          Answered(handlers'[g].call, accepted', overlapped')
    <3> SUFFICES ASSUME NEW g \in Handlers, Logging(g)', handlers'[g].final = "completed"
        PROVE  Answered(handlers'[g].call, accepted, overlapped')
      OBVIOUS
    <3>1. CASE g = h
      BY <3>1, <1>1, <1>2, <1>11 DEF Core, AnswersNoted
    <3>2. CASE g # h
      BY <3>2, <1>2, <1>11 DEF Core, AnswersNoted, Logging
    <3> QED
      BY <3>1, <3>2
  <2> QED
    BY <2>1, <2>2 DEF AnswersNoted
<1>13. CallsAreLogged'
  BY <1>4 DEF Core, CallsAreLogged, CompletedWasAccepted, NoCallIsForgotten, Disturbed
<1> QED
  BY <1>5, <1>8, <1>9, <1>10, <1>12, <1>13 DEF Core

(* A handler whose write is done removes the entries of the two users it    *)
(* has read; if they are not of its call any more, they are of a call that  *)
(* an earlier double end disturbs.                                          *)
LEMMA ReleaseStep ==
  ASSUME TypeOK, Core, NEW h \in Handlers, Logging(h), Release(h),
         UNCHANGED <<calls, accepted, overlapped>>,
         logs \subseteq logs', logs' \subseteq logs \cup Log(h), lost \subseteq lost',
         handlers[h].call \in lost' \/ \E l \in logs' : l.call = handlers[h].call
  PROVE  Core'
<1> DEFINE u == handlers[h].user
           p == handlers[h].peer
           d == handlers[h].call
<1>1. handlers[h] \in HandlerType /\ u \in Users /\ d \in 1..calls /\ p \in Users /\ calls \in Nat
  BY Types DEF Core, HandlersSound, HandlerType
<1>2. ReadSound(handlers[h], activeCalls, overlapped)
  BY DEF Core, HandlersSound
<1>3. \A w \in Users : activeCalls'[w] = IF w \in {u, p} THEN NoCall ELSE activeCalls[w]
  BY DEF Release, Removed
<1>4. \A g \in Handlers : Logging(g)' => g # h /\ Logging(g) /\ handlers'[g] = handlers[g]
  <2>1. \A g \in Handlers : g # h => handlers'[g] = handlers[g]
    BY DEF Release, TypeOK
  <2>2. handlers'[h].pc # "log"
    BY DEF Release, TypeOK, Presence, Idle
  <2> QED
    BY <2>1, <2>2 DEF Logging
<1> HIDE DEF u, p, d
<1>5. \A x \in overlapped : x \in Nat
  BY DEF TypeOK
<1>6. \A w \in Users : Busy(w) => CallOf(w) \in 1..calls /\ PeerOf(w) \in Users
  BY Types DEF EntryType, CallOf, PeerOf
(* Whom the handler cuts off although he is in another call. *)
<1>7. \A w \in {u, p} : Busy(w) => CallOf(w) = d \/ (Disturbed(CallOf(w)) /\ Doubled(CallOf(w), overlapped))
  <2> SUFFICES ASSUME NEW w \in {u, p}, Busy(w), CallOf(w) # d
      PROVE  Disturbed(CallOf(w)) /\ Doubled(CallOf(w), overlapped)
    OBVIOUS
  <2>1. d <= CallOf(w) /\ Doubled(d, overlapped)
    BY <1>2 DEF ReadSound, Busy, CallOf, u, p, d
  <2>2. CallOf(w) \in 1..calls
    BY <1>1, <1>6
  <2>3. PICK x \in overlapped : x <= d
    BY <2>1 DEF Doubled
  <2>4. x \in Nat /\ x < CallOf(w)
    BY <2>1, <2>2, <2>3, <1>1, <1>5
  <2>5. x <= CallOf(w)
    BY <2>4, <2>2
  <2> QED
    BY <2>4, <2>5 DEF Disturbed, Doubled
<1>8. EntriesSound'
  <2>1. \A w \in Users : Busy(w)' => Busy(w) /\ activeCalls'[w] = activeCalls[w]
    BY <1>3 DEF Busy
  <2>2. \A w \in Users : Busy(w)' =>
          CallOf(w)' = CallOf(w) /\ PeerOf(w)' = PeerOf(w) /\ PeerOf(w) \in Users
    BY <2>1, <1>6 DEF CallOf, PeerOf
  <2> SUFFICES ASSUME NEW w \in Users, Busy(w)'
      PROVE  /\ PeerOf(w)' # w
             /\ activeCalls'[PeerOf(w)'] # NoCall =>
                  /\ CallOf(w)' <= activeCalls'[PeerOf(w)'].call
                  /\ CallOf(w)' = activeCalls'[PeerOf(w)'].call =>
                       activeCalls'[PeerOf(w)'].peer = w
    BY DEF EntriesSound, Busy, CallOf, PeerOf
  <2> DEFINE q == PeerOf(w)
  <2>3. /\ Busy(w) /\ q \in Users /\ PeerOf(w)' = q /\ CallOf(w)' = CallOf(w)
        /\ activeCalls'[q] # NoCall => activeCalls'[q] = activeCalls[q]
    BY <2>1, <2>2 DEF Busy
  <2>4. q # w /\ (activeCalls[q] # NoCall =>
          CallOf(w) <= activeCalls[q].call
          /\ (CallOf(w) = activeCalls[q].call => activeCalls[q].peer = w))
    BY <2>3 DEF Core, EntriesSound, Busy, CallOf, PeerOf
  <2> HIDE DEF q
  <2> QED
    BY <2>3, <2>4
<1>9. HandlersSound'
  <2> SUFFICES ASSUME NEW g \in Handlers, Logging(g)'
      PROVE  /\ handlers'[g].call \in 1..calls /\ handlers'[g].peer \in Users
             /\ handlers'[g].final \in LogStatuses
             /\ ReadSound(handlers'[g], activeCalls', overlapped)
    BY DEF HandlersSound
  <2>1. g # h /\ Logging(g) /\ handlers'[g] = handlers[g]
    BY <1>4
  <2> DEFINE x == handlers[g]
  <2>2. x.user \in Users /\ x.peer \in Users /\ x.call \in 1..calls /\ x.final \in LogStatuses
        /\ ReadSound(x, activeCalls, overlapped)
    BY <2>1, Types DEF Core, HandlersSound, HandlerType
  <2>3. d = x.call => Doubled(x.call, overlapped)
    <3>1. d = x.call => x.call \in overlapped
      BY <2>1 DEF Core, OverlapsNoted, d
    <3> QED
      BY <3>1, <2>2 DEF Doubled
  <2> HIDE DEF x
  <2>4. ReadSound(x, activeCalls', overlapped)
    <3>1. CASE Doubled(x.call, overlapped)
      BY <2>2, <3>1, <1>3 DEF ReadSound
    <3>2. CASE ~Doubled(x.call, overlapped)
      <4>1. \A w \in {x.user, x.peer} : Busy(w) /\ CallOf(w) = x.call
        BY <2>2, <3>2 DEF ReadSound, Busy, CallOf
      <4>2. \A w \in {x.user, x.peer} : w \notin {u, p}
        BY <4>1, <2>3, <3>2, <1>7
      <4>3. activeCalls'[x.user] = activeCalls[x.user] /\ activeCalls'[x.peer] = activeCalls[x.peer]
        BY <4>2, <2>2, <1>3
      <4> QED
        BY <2>2, <4>3 DEF ReadSound
    <3> QED
      BY <3>1, <3>2
  <2> QED
    BY <2>1, <2>2, <2>4 DEF x
<1>10. OverlapsNoted'
  BY <1>4 DEF Core, OverlapsNoted
<1>11. CallsArePaired'
  <2> SUFFICES ASSUME NEW w \in Users, Busy(w)', ~Disturbed(CallOf(w))
      PROVE  /\ Partner(w)'.call = activeCalls'[w].call /\ Partner(w)'.peer = w
             /\ Partner(w)'.role # activeCalls'[w].role
             /\ Partner(w)'.status = activeCalls'[w].status
    <3>1. \A w \in Users : Busy(w)' => activeCalls'[w] = activeCalls[w]
      BY <1>3 DEF Busy
    <3> QED
      BY <3>1 DEF CallsArePaired, Disturbed, CallOf
  <2>1. w \notin {u, p} /\ Busy(w) /\ activeCalls'[w] = activeCalls[w]
    BY <1>3 DEF Busy
  <2> DEFINE q == PeerOf(w)
  <2>2. /\ activeCalls[q].call = CallOf(w) /\ activeCalls[q].peer = w
        /\ activeCalls[q].role # activeCalls[w].role
        /\ activeCalls[q].status = activeCalls[w].status
    BY <2>1 DEF Core, CallsArePaired, Partner, CallOf, PeerOf
  <2>3. q \in Users /\ CallOf(w) \in 1..calls
    BY <2>1, <1>6
  <2>4. Busy(q)
    BY <2>2, <2>3, <1>1 DEF Busy, NoCall
  <2> HIDE DEF q
  <2>5. q \notin {u, p}
    <3> SUFFICES ASSUME q \in {u, p} PROVE FALSE
      OBVIOUS
    <3>1. CallOf(q) = d
      BY <1>7, <2>2, <2>4 DEF CallOf
    <3>2. PeerOf(q) \in {u, p}
      BY <3>1, <2>4, <1>2 DEF ReadSound, Busy, CallOf, PeerOf, u, p, d
    <3> QED
      BY <3>2, <2>1, <2>2 DEF PeerOf
  <2>6. activeCalls'[q] = activeCalls[q] /\ Partner(w)' = activeCalls'[q]
    BY <2>1, <2>3, <2>5, <1>3 DEF Partner, PeerOf, q
  <2> QED
    BY <2>1, <2>2, <2>6 DEF CallOf
<1>12. AnswersNoted'
  <2>1. \A w \in Users : Busy(w)' => Busy(w) /\ activeCalls'[w] = activeCalls[w]
    BY <1>3 DEF Busy
  <2> QED
    BY <2>1, <1>4 DEF Core, AnswersNoted, CallOf
<1>13. CompletedWasAccepted'
  <2> SUFFICES ASSUME NEW l \in logs', l.status = "completed", ~Disturbed(l.call)
      PROVE  l.call \in accepted
    BY DEF CompletedWasAccepted, Disturbed
  <2>1. CASE l \in logs
    BY <2>1 DEF Core, CallsAreLogged, CompletedWasAccepted
  <2>2. CASE l \in Log(h)
    BY <2>2 DEF Log, Core, AnswersNoted, Answered, Disturbed
  <2> QED
    BY <2>1, <2>2
<1>14. NoCallIsForgotten'
  <2> SUFFICES ASSUME NEW c \in 1..calls
      PROVE  \/ \E w \in Users : activeCalls'[w].call = c
             \/ \E l \in logs' : l.call = c
             \/ c \in lost'
             \/ Disturbed(c)
    BY DEF NoCallIsForgotten, Disturbed
  <2>1. CASE \E w \in Users : activeCalls[w].call = c
    <3> PICK w \in Users : activeCalls[w].call = c
      BY <2>1
    <3>1. CASE w \notin {u, p}
      BY <3>1, <1>3
    <3>2. CASE w \in {u, p}
      <4>1. Busy(w)
        BY <1>1 DEF Busy, NoCall
      <4>2. c = d \/ Disturbed(c)
        BY <3>2, <4>1, <1>7 DEF CallOf
      <4> QED
        BY <4>2 DEF d
    <3> QED
      BY <3>1, <3>2
  <2> QED
    BY <2>1 DEF Core, CallsAreLogged, NoCallIsForgotten
<1> QED
  BY <1>8, <1>9, <1>10, <1>11, <1>12, <1>13, <1>14 DEF Core, CallsAreLogged

(* Two users who are free get the entries of a new call. *)
LEMMA RingStep ==
  ASSUME TypeOK, Core, NEW u \in Users, NEW p \in Users, p # u, ~Busy(u), ~Busy(p),
         NEW a, NEW b,
         a.call = calls + 1, a.peer = p, a.status = "calling", a.role = "caller",
         b.call = calls + 1, b.peer = u, b.status = "calling", b.role = "callee",
         activeCalls' = [activeCalls EXCEPT ![u] = a, ![p] = b],
         calls' = calls + 1,
         UNCHANGED <<handlers, logs, accepted, overlapped, lost>>
  PROVE  Core'
<1>1. /\ activeCalls'[u] = a /\ activeCalls'[p] = b
      /\ \A w \in Users : w \notin {u, p} => activeCalls'[w] = activeCalls[w]
  BY DEF TypeOK
<1>2. calls \in Nat /\ \A x \in overlapped : x \in Nat /\ x <= calls
  BY Types DEF TypeOK
<1>3. \A w \in Users : Busy(w) => w \notin {u, p} /\ CallOf(w) \in 1..calls /\ PeerOf(w) \in Users
  BY Types DEF EntryType, CallOf, PeerOf
<1>4. a # NoCall /\ b # NoCall
  BY <1>2 DEF NoCall
<1>5. EntriesSound'
  <2> SUFFICES ASSUME NEW w \in Users, activeCalls'[w] # NoCall
      PROVE  /\ activeCalls'[w].peer # w
             /\ activeCalls'[activeCalls'[w].peer] # NoCall =>
                  /\ activeCalls'[w].call <= activeCalls'[activeCalls'[w].peer].call
                  /\ activeCalls'[w].call = activeCalls'[activeCalls'[w].peer].call =>
                       activeCalls'[activeCalls'[w].peer].peer = w
    BY DEF EntriesSound, Busy, CallOf, PeerOf
  <2>1. CASE w \in {u, p}
    BY <2>1, <1>1, <1>2
  <2>2. CASE w \notin {u, p}
    <3> DEFINE q == PeerOf(w)
    <3>1. activeCalls'[w] = activeCalls[w] /\ Busy(w)
      BY <2>2, <1>1 DEF Busy
    <3>2. q \in Users /\ activeCalls'[w].peer = q /\ activeCalls'[w].call = CallOf(w)
          /\ CallOf(w) \in 1..calls
      BY <3>1, <1>3 DEF PeerOf, CallOf
    <3>3. q # w /\ (activeCalls[q] # NoCall =>
            CallOf(w) <= activeCalls[q].call
            /\ (CallOf(w) = activeCalls[q].call => activeCalls[q].peer = w))
      BY <3>1 DEF Core, EntriesSound, Busy, CallOf, PeerOf
    <3> HIDE DEF q
    <3>4. CASE q \in {u, p}
      BY <3>2, <3>3, <3>4, <1>1, <1>2
    <3>5. CASE q \notin {u, p}
      BY <3>2, <3>3, <3>5, <1>1
    <3> QED
      BY <3>4, <3>5
  <2> QED
    BY <2>1, <2>2
<1>6. HandlersSound'
  <2> SUFFICES ASSUME NEW g \in Handlers, Logging(g)
      PROVE  /\ handlers[g].call \in 1..(calls + 1) /\ handlers[g].peer \in Users
             /\ handlers[g].final \in LogStatuses
             /\ ReadSound(handlers[g], activeCalls', overlapped)
    BY DEF HandlersSound, Logging
  <2> DEFINE x == handlers[g]
  <2>1. /\ x.user \in Users /\ x.peer \in Users /\ x.call \in 1..calls /\ x.final \in LogStatuses
        /\ ReadSound(x, activeCalls, overlapped)
    BY Types DEF Core, HandlersSound, HandlerType
  <2> HIDE DEF x
  <2>2. x.call \in 1..(calls + 1) /\ x.call <= calls + 1 /\ x.call # calls + 1
    BY <2>1, <1>2
  <2>3. ReadSound(x, activeCalls', overlapped)
    <3>1. \A w \in {x.user, x.peer} : activeCalls'[w] = activeCalls[w]
            \/ (~Busy(w) /\ activeCalls'[w].call = calls + 1)
      BY <2>1, <1>1
    <3> QED
      BY <2>1, <2>2, <3>1 DEF ReadSound, Busy
  <2> QED
    BY <2>1, <2>2, <2>3 DEF x
<1>7. OverlapsNoted'
  BY DEF Core, OverlapsNoted, Logging
<1>8. CallsArePaired'
  <2> SUFFICES ASSUME NEW w \in Users, activeCalls'[w] # NoCall,
                      ~\E d \in overlapped : d < activeCalls'[w].call
      PROVE  /\ activeCalls'[activeCalls'[w].peer].call = activeCalls'[w].call
             /\ activeCalls'[activeCalls'[w].peer].peer = w
             /\ activeCalls'[activeCalls'[w].peer].role # activeCalls'[w].role
             /\ activeCalls'[activeCalls'[w].peer].status = activeCalls'[w].status
    BY DEF CallsArePaired, Busy, Partner, Disturbed
  <2>1. CASE w \in {u, p}
    BY <2>1, <1>1
  <2>2. CASE w \notin {u, p}
    <3> DEFINE q == PeerOf(w)
    <3>1. activeCalls'[w] = activeCalls[w] /\ Busy(w)
      BY <2>2, <1>1 DEF Busy
    <3>2. /\ activeCalls[q].call = CallOf(w) /\ activeCalls[q].peer = w
          /\ activeCalls[q].role # activeCalls[w].role
          /\ activeCalls[q].status = activeCalls[w].status
      BY <3>1 DEF Core, CallsArePaired, Partner, CallOf, PeerOf, Disturbed
    <3>3. q \in Users /\ CallOf(w) \in 1..calls
      BY <3>1, <1>3
    <3>4. q \notin {u, p}
      BY <3>2, <3>3, <1>2 DEF Busy, NoCall
    <3>5. activeCalls'[w].peer = q /\ activeCalls'[q] = activeCalls[q]
      BY <3>1, <3>3, <3>4, <1>1 DEF PeerOf
    <3> QED
      BY <3>1, <3>2, <3>5 DEF CallOf
  <2> QED
    BY <2>1, <2>2
<1>9. AnswersNoted'
  <2>1. \A w \in Users : Busy(w)' /\ activeCalls'[w].status = "connected" =>
          Busy(w) /\ activeCalls'[w] = activeCalls[w]
    BY <1>1 DEF Busy
  <2> QED
    BY <2>1 DEF Core, AnswersNoted, CallOf, Logging
<1>10. CallsAreLogged'
  <2>1. CompletedWasAccepted'
    BY DEF Core, CallsAreLogged, CompletedWasAccepted, Disturbed
  <2>2. NoCallIsForgotten'
    <3> SUFFICES ASSUME NEW c \in 1..(calls + 1)
        PROVE  \/ \E w \in Users : activeCalls'[w].call = c
               \/ \E l \in logs : l.call = c
               \/ c \in lost
               \/ Disturbed(c)
      BY DEF NoCallIsForgotten, Disturbed
    <3>1. CASE c = calls + 1
      BY <3>1, <1>1
    <3>2. CASE c # calls + 1
      <4>1. c \in 1..calls
        BY <3>2, <1>2
      <4>2. \A w \in Users : activeCalls[w].call = c => activeCalls'[w] = activeCalls[w]
        <5>1. activeCalls[u].call = 0 /\ activeCalls[p].call = 0 /\ c # 0
          BY <4>1 DEF Busy, NoCall
        <5> QED
          BY <5>1, <1>1
      <4> QED
        BY <4>1, <4>2 DEF Core, CallsAreLogged, NoCallIsForgotten
    <3> QED
      BY <3>1, <3>2
  <2> QED
    BY <2>1, <2>2 DEF CallsAreLogged
<1> QED
  BY <1>5, <1>6, <1>7, <1>8, <1>9, <1>10 DEF Core

(* The callee's entry becomes connected, and so does the one of whom it     *)
(* names.                                                                   *)
LEMMA ConnectedStep ==
  ASSUME TypeOK, Core, NEW u \in Users, Busy(u),
         activeCalls' = [x \in Users |->
           IF x \in {u, PeerOf(u)} /\ Busy(x)
           THEN [activeCalls[x] EXCEPT !.status = "connected"] ELSE activeCalls[x]],
         accepted' = accepted \cup {CallOf(u)},
         UNCHANGED <<handlers, logs, calls, overlapped, lost>>
  PROVE  Core'
<1> DEFINE p == PeerOf(u)
<1>1. p \in Users
  BY Types DEF EntryType, PeerOf
<1>2. \A x \in Users :
        /\ activeCalls'[x].call = activeCalls[x].call /\ activeCalls'[x].peer = activeCalls[x].peer
        /\ activeCalls'[x].role = activeCalls[x].role
        /\ activeCalls'[x].status =
             IF x \in {u, p} /\ Busy(x) THEN "connected" ELSE activeCalls[x].status
        /\ activeCalls'[x] = NoCall <=> activeCalls[x] = NoCall
  <2> TAKE x \in Users
  <2>1. CASE x \in {u, p} /\ Busy(x)
    <3>1. activeCalls'[x] = [activeCalls[x] EXCEPT !.status = "connected"]
      BY <2>1
    <3>2. activeCalls[x] \in EntryType /\ calls \in Nat
      BY <2>1, Types
    <3>3. activeCalls'[x].call \in 1..calls /\ NoCall.call = 0
      BY <3>1, <3>2 DEF EntryType, NoCall
    <3> QED
      BY <2>1, <3>1, <3>2, <3>3 DEF EntryType, Busy
  <2>2. CASE ~(x \in {u, p} /\ Busy(x))
    BY <2>2
  <2> QED
    BY <2>1, <2>2
<1> HIDE DEF p
<1>3. \A w \in Users : Busy(w) => CallOf(w) \in 1..calls /\ PeerOf(w) \in Users
  BY Types DEF EntryType, CallOf, PeerOf
<1>4. calls \in Nat /\ \A x \in overlapped : x \in Nat
  BY Types DEF TypeOK
(* A call in the entry of the peer is the same one, or a later one whose    *)
(* pair an earlier double end has disturbed.                                *)
<1>5. Busy(p) => CallOf(p) = CallOf(u) \/ Disturbed(CallOf(p))
  <2> SUFFICES ASSUME Busy(p), CallOf(p) # CallOf(u) PROVE Disturbed(CallOf(p))
    OBVIOUS
  <2>1. CallOf(u) <= CallOf(p)
    BY DEF Core, EntriesSound, p
  <2>2. Disturbed(CallOf(u))
    BY DEF Core, CallsArePaired, Partner, CallOf, PeerOf, p
  <2>3. PICK d \in overlapped : d < CallOf(u)
    BY <2>2 DEF Disturbed
  <2>4. d < CallOf(p)
    BY <2>1, <2>3, <1>1, <1>3, <1>4
  <2> QED
    BY <2>4 DEF Disturbed
<1>6. EntriesSound'
  BY <1>2, <1>3 DEF Core, EntriesSound, Busy, CallOf, PeerOf
<1>7. HandlersSound'
  <2> SUFFICES ASSUME NEW g \in Handlers, Logging(g)
      PROVE  /\ handlers[g].call \in 1..calls /\ handlers[g].peer \in Users
             /\ handlers[g].final \in LogStatuses
             /\ ReadSound(handlers[g], activeCalls', overlapped)
    BY DEF HandlersSound, Logging
  <2> DEFINE x == handlers[g]
  <2>1. /\ x.user \in Users /\ x.peer \in Users /\ x.call \in 1..calls /\ x.final \in LogStatuses
        /\ ReadSound(x, activeCalls, overlapped)
    BY Types DEF Core, HandlersSound, HandlerType
  <2> HIDE DEF x
  <2>2. ReadSound(x, activeCalls', overlapped)
    BY <2>1, <1>2 DEF ReadSound
  <2> QED
    BY <2>1, <2>2 DEF x
<1>8. OverlapsNoted'
  BY DEF Core, OverlapsNoted, Logging
<1>9. CallsArePaired'
  <2> SUFFICES ASSUME NEW w \in Users, Busy(w), ~Disturbed(CallOf(w))
      PROVE  /\ activeCalls'[PeerOf(w)].call = activeCalls'[w].call
             /\ activeCalls'[PeerOf(w)].peer = w
             /\ activeCalls'[PeerOf(w)].role # activeCalls'[w].role
             /\ activeCalls'[PeerOf(w)].status = activeCalls'[w].status
    BY <1>2 DEF CallsArePaired, Busy, Partner, Disturbed, CallOf, PeerOf
  <2> DEFINE q == PeerOf(w)
  <2>1. q \in Users /\ CallOf(w) \in 1..calls
    BY <1>3
  <2>2. /\ activeCalls[q].call = CallOf(w) /\ activeCalls[q].peer = w
        /\ activeCalls[q].role # activeCalls[w].role
        /\ activeCalls[q].status = activeCalls[w].status
    BY DEF Core, CallsArePaired, Partner, CallOf, PeerOf
  <2>3. Busy(q)
    BY <2>1, <2>2, <1>4 DEF Busy, NoCall
  <2>4. w = u => q = p
    BY DEF p
  <2>5. q = u => w = p
    BY <2>2 DEF p, PeerOf
  <2> HIDE DEF q
  <2>6. w = p => q = u
    <3> SUFFICES ASSUME w = p PROVE q = u
      OBVIOUS
    <3>1. CallOf(p) = CallOf(u)
      BY <1>5
    <3>2. PeerOf(p) = u
      BY <3>1 DEF Core, EntriesSound, p
    <3> QED
      BY <3>2 DEF q
  <2>7. q = p => w = u
    <3> SUFFICES ASSUME q = p PROVE w = u
      OBVIOUS
    <3>1. CallOf(p) = CallOf(u)
      BY <1>5, <2>2, <2>3 DEF CallOf
    <3>2. PeerOf(p) = u
      BY <2>3, <3>1 DEF Core, EntriesSound, p
    <3> QED
      BY <3>2, <2>2 DEF PeerOf
  <2> QED
    BY <2>1, <2>2, <2>3, <2>4, <2>5, <2>6, <2>7, <1>2 DEF CallOf, q
<1>10. AnswersNoted'
  <2>1. \A w \in Users : Busy(w)' /\ activeCalls'[w].status = "connected" =>
          Answered(CallOf(w)', accepted', overlapped)
    <3> SUFFICES ASSUME NEW w \in Users, Busy(w), activeCalls'[w].status = "connected"
        PROVE  Answered(CallOf(w), accepted', overlapped)
      BY <1>2 DEF Busy, CallOf
    <3>1. CASE w \notin {u, p}
      BY <3>1, <1>2 DEF Core, AnswersNoted, Answered
    <3>2. CASE w \in {u, p}
      BY <3>2, <1>5 DEF Answered, Disturbed
    <3> QED
      BY <3>1, <3>2
  <2>2. \A h \in Handlers : Logging(h)' /\ handlers'[h].final = "completed" =>
          Answered(handlers'[h].call, accepted', overlapped)
    BY DEF Core, AnswersNoted, Logging, Answered
  <2> QED
    BY <2>1, <2>2 DEF AnswersNoted
<1>11. CompletedWasAccepted'
  BY DEF Core, CallsAreLogged, CompletedWasAccepted, Disturbed
<1>12. NoCallIsForgotten'
  BY <1>2 DEF Core, CallsAreLogged, NoCallIsForgotten, Disturbed
<1> QED
  BY <1>6, <1>7, <1>8, <1>9, <1>10, <1>11, <1>12 DEF Core, CallsAreLogged

------------------------------------------------------------------------------
(* Types, and the steps of the handlers one by one. *)

SocketStep(s) == Connect(s) \/ MarkOnline(s) \/ FailOnline(s) \/ DropEarly(s)

LEMMA FaultTyped ==
  ASSUME TypeOK, Fault
  PROVE  faults' \in 0..MaxFaults
BY BoundsAssumption DEF TypeOK, Fault

LEMMA SocketStepCInv ==
  ASSUME CInv, NEW s \in Sockets, SocketStep(s)
  PROVE  CInv'
<1>0. TypeOK /\ Core /\ LastSound /\ GoneIsGone
  BY DEF CInv
<1>1. UNCHANGED <<activeCalls, handlers, logs, calls, accepted, overlapped, lost, late>>
  BY DEF SocketStep, Connect, MarkOnline, FailOnline, DropEarly, history
<1>2. OwnerOf[s] \in Users
  BY SocketsAssumption
<1>3. /\ sock' \in [Sockets -> Registered \cup {"new", "closed", "gone"}]
      /\ sock'[s] \in Registered
      /\ \A t \in Sockets : t # s => sock'[t] = sock[t]
  BY <1>0 DEF SocketStep, Connect, MarkOnline, FailOnline, DropEarly, TypeOK, Registered
<1>4. /\ isOnline' \in [Users -> BOOLEAN]
      /\ \A u \in Users : u # OwnerOf[s] => isOnline'[u] = isOnline[u]
  BY <1>0, <1>2 DEF SocketStep, Connect, MarkOnline, FailOnline, DropEarly, TypeOK
<1>5. stranded' \subseteq Users /\ \A u \in Users : u # OwnerOf[s] => (u \in stranded' <=> u \in stranded)
  BY <1>0, <1>2 DEF SocketStep, Connect, MarkOnline, FailOnline, DropEarly, TypeOK, history
<1>6. faults' \in 0..MaxFaults
  BY <1>0, FaultTyped
  DEF SocketStep, Connect, MarkOnline, FailOnline, DropEarly, TypeOK
<1>7. TypeOK'
  BY <1>0, <1>1, <1>3, <1>4, <1>5, <1>6 DEF TypeOK
<1>8. Core'
  BY <1>0, <1>1, QuietStep
<1>9. LastSound'
  BY <1>0, <1>1 DEF LastSound
<1>10. \A u \in Users : SocketsOf(u)' = {} => u # OwnerOf[s] /\ SocketsOf(u) = {}
  BY <1>3 DEF SocketsOf
<1>11. GoneIsGone'
  BY <1>0, <1>1, <1>4, <1>5, <1>10 DEF GoneIsGone, GoneIsNotBusy, GoneIsOffline, Busy
<1> QED
  BY <1>7, <1>8, <1>9, <1>11 DEF CInv

LEMMA InitiateStepCInv ==
  ASSUME CInv, NEW s \in Sockets, NEW r \in Rooms, InitiateCall(s, r)
  PROVE  CInv'
<1>0. TypeOK /\ Core /\ LastSound /\ GoneIsGone
  BY DEF CInv
<1> DEFINE u == OwnerOf[s]
           p == PeerIn(r, u)
           a == [call |-> calls + 1, room |-> r, peer |-> p, role |-> "caller", status |-> "calling"]
           b == [call |-> calls + 1, room |-> r, peer |-> u, role |-> "callee", status |-> "calling"]
<1>1. /\ InRoom(r, u) /\ Free(u, p) /\ SocketsOf(p) # {} /\ calls < MaxCalls
      /\ activeCalls' = [activeCalls EXCEPT ![u] = a, ![p] = b]
      /\ calls' = calls + 1
      /\ late' = IF SocketsOf(u) = {} THEN late \cup {calls + 1} ELSE late
      /\ UNCHANGED <<sock, isOnline, handlers, logs, faults, accepted, overlapped, lost, stranded>>
  BY DEF InitiateCall
<1>2. u \in Users /\ p \in Users /\ p # u /\ ~Busy(u) /\ ~Busy(p)
  BY <1>1, SocketsAssumption, PeerInIsAnother DEF Free
<1>3. calls \in Nat /\ calls + 1 \in 1..(calls + 1) /\ calls + 1 \in 0..MaxCalls
      /\ 1..calls \subseteq 1..(calls + 1) /\ 0..calls \subseteq 0..(calls + 1)
  BY <1>0, <1>1, Types, BoundsAssumption DEF TypeOK
<1>4. /\ a.call = calls + 1 /\ a.peer = p /\ a.status = "calling" /\ a.role = "caller"
      /\ b.call = calls + 1 /\ b.peer = u /\ b.status = "calling" /\ b.role = "callee"
  OBVIOUS
<1> DEFINE Entries == [call : 1..(calls + 1), room : Rooms, peer : Users,
                       role : {"caller", "callee"}, status : {"calling", "connected"}]
<1>5. a \in Entries /\ b \in Entries /\ EntryType \subseteq Entries
  BY <1>2, <1>3 DEF EntryType
<1> HIDE DEF a, b, u, p, Entries
<1>6. Core'
  BY <1>0, <1>1, <1>2, <1>4, RingStep
<1>7. TypeOK'
  <2>1. activeCalls' \in [Users -> {NoCall} \cup Entries]
    <3>1. activeCalls \in [Users -> {NoCall} \cup Entries]
      BY <1>0, <1>5 DEF TypeOK, EntryType
    <3> QED
      BY <3>1, <1>1, <1>2, <1>5
  <2>2. handlers' \in [Handlers -> {Idle} \cup
          [pc : {"log", "presence"}, kind : {"end", "disconnect"}, user : Users,
           call : 0..calls', peer : Users \cup {"none"}, final : LogStatuses \cup {"none"},
           last : BOOLEAN]]
    BY <1>0, <1>1, <1>3 DEF TypeOK
  <2>3. logs' \subseteq [call : 1..calls', status : LogStatuses]
    BY <1>0, <1>1, <1>3 DEF TypeOK
  <2>4. /\ calls' \in 0..MaxCalls /\ accepted' \subseteq 1..calls' /\ overlapped' \subseteq 1..calls'
        /\ lost' \subseteq 1..calls' /\ late' \subseteq 1..calls'
    BY <1>0, <1>1, <1>3 DEF TypeOK
  <2> QED
    BY <2>1, <2>2, <2>3, <2>4, <1>0, <1>1 DEF TypeOK, Entries
<1>8. LastSound'
  BY <1>0, <1>1 DEF LastSound
<1>9. \A w \in Users : SocketsOf(w)' = SocketsOf(w)
  BY <1>1 DEF SocketsOf
<1>10. GoneIsOffline'
  BY <1>0, <1>1, <1>9 DEF GoneIsGone, GoneIsOffline
<1>11. GoneIsNotBusy'
  <2> SUFFICES ASSUME NEW w \in Users, Busy(w)', SocketsOf(w) = {}
      PROVE  \/ \E h \in Handlers : handlers[h].kind = "disconnect" /\ handlers[h].pc = "log"
                           /\ w \in {handlers[h].user, handlers[h].peer}
             \/ activeCalls'[w].call \in late'
    BY <1>1, <1>9 DEF GoneIsNotBusy
  <2>1. w # p
    BY <1>1
  <2>2. CASE w = u
    <3>1. activeCalls'[u] = a
      BY <1>0, <1>1, <1>2 DEF TypeOK
    <3> QED
      BY <2>2, <3>1, <1>1, <1>4
  <2>3. CASE w # u
    <3>1. activeCalls'[w] = activeCalls[w] /\ late \subseteq late'
      BY <2>1, <2>3, <1>0, <1>1 DEF TypeOK
    <3> QED
      BY <3>1, <1>0 DEF GoneIsGone, GoneIsNotBusy, Busy
  <2> QED
    BY <2>2, <2>3
<1> QED
  BY <1>6, <1>7, <1>8, <1>10, <1>11 DEF CInv, GoneIsGone

LEMMA AcceptStepCInv ==
  ASSUME CInv, NEW s \in Sockets, NEW r \in Rooms, Accept(s, r)
  PROVE  CInv'
<1>0. TypeOK /\ Core /\ LastSound /\ GoneIsGone
  BY DEF CInv
<1> DEFINE u == OwnerOf[s]
<1>1. /\ Busy(u)
      /\ activeCalls' = [x \in Users |->
           IF x \in {u, PeerOf(u)} /\ Busy(x)
           THEN [activeCalls[x] EXCEPT !.status = "connected"] ELSE activeCalls[x]]
      /\ accepted' = accepted \cup {CallOf(u)}
      /\ UNCHANGED <<sock, isOnline, handlers, logs, calls, faults, overlapped, lost, late, stranded>>
  BY DEF Accept, CallOf, PeerOf
<1>2. u \in Users /\ CallOf(u) \in 1..calls
  BY <1>0, <1>1, SocketsAssumption, Types DEF CallOf, EntryType
<1> HIDE DEF u
<1>3. Core'
  BY <1>0, <1>1, <1>2, ConnectedStep
<1>4. \A x \in Users :
        /\ activeCalls'[x] \in {NoCall} \cup EntryType
        /\ activeCalls'[x] # NoCall => Busy(x)
        /\ activeCalls'[x].call = activeCalls[x].call
  <2> TAKE x \in Users
  <2>1. CASE Busy(x)
    <3>1. activeCalls[x] \in EntryType
      BY <2>1, <1>0, Types
    <3>2. [activeCalls[x] EXCEPT !.status = "connected"] \in EntryType
      BY <3>1 DEF EntryType
    <3>3. [activeCalls[x] EXCEPT !.status = "connected"].call = activeCalls[x].call
      BY <3>1 DEF EntryType
    <3> QED
      BY <2>1, <3>1, <3>2, <3>3, <1>1
  <2>2. CASE ~Busy(x)
    BY <2>2, <1>1 DEF Busy
  <2> QED
    BY <2>1, <2>2
<1>5. TypeOK'
  <2>1. activeCalls' \in [Users -> {NoCall} \cup EntryType]
    BY <1>1, <1>4
  <2> QED
    BY <2>1, <1>0, <1>1, <1>2 DEF TypeOK, EntryType
<1>6. LastSound' /\ GoneIsGone'
  BY <1>0, <1>1, <1>4
  DEF LastSound, GoneIsGone, GoneIsNotBusy, GoneIsOffline, SocketsOf, Busy
<1> QED
  BY <1>3, <1>5, <1>6 DEF CInv

LEMMA EndCallStepCInv ==
  ASSUME CInv, NEW s \in Sockets, NEW r \in Rooms, NEW rejects \in BOOLEAN,
         NEW h \in Handlers, EndCall(s, r, rejects, h)
  PROVE  CInv'
<1>0. TypeOK /\ Core /\ LastSound /\ GoneIsGone
  BY DEF CInv
<1> DEFINE u == OwnerOf[s]
           e == Ending(u, "end", rejects, FALSE)
<1>1. /\ Busy(u) /\ ~Waiting(h) /\ handlers' = [handlers EXCEPT ![h] = e]
      /\ NoteOverlap(CallOf(u))
      /\ UNCHANGED <<sock, isOnline, activeCalls, logs, calls, faults, accepted, lost, late, stranded>>
  BY DEF EndCall, CallOf
<1>2. u \in Users
  BY SocketsAssumption
<1>3. e \in HandlerType /\ e.kind = "end" /\ e.last = FALSE
  BY <1>0, <1>1, <1>2, EndIsTyped, Zenon
<1>4. Core'
  BY <1>0, <1>1, <1>2, CaptureStep
<1> HIDE DEF e, u
<1>5. /\ handlers'[h] = e /\ \A g \in Handlers : g # h => handlers'[g] = handlers[g]
      /\ handlers' \in [Handlers -> {Idle} \cup HandlerType]
  BY <1>0, <1>1, <1>3 DEF TypeOK, HandlerType
<1>6. CallOf(u) \in 1..calls
  BY <1>0, <1>1, <1>2, Types DEF EntryType, CallOf
<1>7. TypeOK'
  BY <1>0, <1>1, <1>5, <1>6 DEF TypeOK, HandlerType, NoteOverlap
<1>8. LastSound'
  BY <1>0, <1>3, <1>5 DEF LastSound
<1>9. handlers[h].pc = "idle" /\ handlers[h] = Idle /\ handlers[h].last = FALSE
  BY <1>1 DEF Waiting, Idle
<1>10. GoneIsGone'
  BY <1>0, <1>1, <1>5, <1>9
  DEF GoneIsGone, GoneIsNotBusy, GoneIsOffline, SocketsOf, Busy
<1> QED
  BY <1>4, <1>7, <1>8, <1>10 DEF CInv

LEMMA DisconnectStepCInv ==
  ASSUME CInv, NEW s \in Sockets, NEW h \in Handlers, Disconnect(s, h)
  PROVE  CInv'
<1>0. TypeOK /\ Core /\ LastSound /\ GoneIsGone
  BY DEF CInv
<1> DEFINE u == OwnerOf[s]
           lastOne == LastSocket(s)
           e == IF Busy(u) THEN Ending(u, "disconnect", FALSE, lastOne)
                ELSE IF lastOne THEN Presence(u) ELSE Idle
<1>1. /\ sock[s] = "live" /\ ~Waiting(h) /\ sock' = [sock EXCEPT ![s] = "closed"]
      /\ handlers' = [handlers EXCEPT ![h] = e]
      /\ IF Busy(u) THEN NoteOverlap(CallOf(u)) ELSE UNCHANGED overlapped
      /\ UNCHANGED <<isOnline, activeCalls, logs, calls, faults, accepted, lost, late, stranded>>
  BY DEF Disconnect, LeavesCall, CallOf
<1>2. u \in Users
  BY SocketsAssumption
<1>3. lastOne \in BOOLEAN /\ FALSE \in BOOLEAN
  BY DEF LastSocket
<1>4. /\ e \in {Idle} \cup HandlerType /\ e.kind # "end"
      /\ Busy(u) => e.kind = "disconnect" /\ e.pc = "log" /\ e.user = u
      /\ lastOne => e.user = u /\ e.last = TRUE
      /\ ~Busy(u) => e.pc # "log"
  <2>1. CASE Busy(u)
    <3> DEFINE f == Ending(u, "disconnect", FALSE, lastOne)
    <3>1. f \in HandlerType /\ f.kind = "disconnect" /\ f.pc = "log" /\ f.user = u /\ f.last = lastOne
      BY <2>1, <1>0, <1>2, <1>3, DisconnectIsTyped, Zenon
    <3> HIDE DEF f, lastOne
    <3>2. e = f
      BY <2>1 DEF f
    <3> HIDE DEF e
    <3> QED
      BY <2>1, <3>1, <3>2
  <2>2. CASE ~Busy(u) /\ lastOne
    <3>1. e = Presence(u)
      BY <2>2
    <3> HIDE DEF e, lastOne
    <3> QED
      BY <2>2, <3>1, <1>0, <1>2, PresenceTyped
  <2>3. CASE ~Busy(u) /\ ~lastOne
    <3>1. e = Idle /\ Idle.kind = "none" /\ Idle.pc = "idle"
      BY <2>3 DEF Idle
    <3> HIDE DEF e, lastOne
    <3> QED
      BY <2>3, <3>1
  <2> QED
    BY <2>1, <2>2, <2>3
<1>5. Core'
  <2>1. CASE Busy(u)
    <3>1. handlers' = [handlers EXCEPT ![h] = Ending(u, "disconnect", FALSE, lastOne)]
          /\ NoteOverlap(CallOf(u))
      BY <1>1, <2>1
    <3> QED
      BY <2>1, <3>1, <1>0, <1>1, <1>2, <1>3, CaptureStep
  <2>2. CASE ~Busy(u)
    <3>1. handlers'[h] = e /\ \A g \in Handlers : g # h => handlers'[g] = handlers[g]
      BY <1>0, <1>1 DEF TypeOK
    <3>2. \A g \in Handlers : Logging(g)' => handlers'[g] = handlers[g]
      BY <2>2, <3>1, <1>4 DEF Logging
    <3>3. UNCHANGED <<activeCalls, calls, accepted, overlapped, logs, lost>>
      BY <2>2, <1>1
    <3> QED
      BY <3>2, <3>3, <1>0, QuietStep
  <2> QED
    BY <2>1, <2>2
<1>6. lastOne => SocketsOf(u) = {s}
  BY DEF LastSocket
<1>7. \A t \in Sockets : t # s => sock'[t] = sock[t]
  BY <1>0, <1>1 DEF TypeOK
<1>8. \A w \in Users : SocketsOf(w)' = {} => SocketsOf(w) = {} \/ (w = u /\ lastOne)
  <2> SUFFICES ASSUME NEW w \in Users, SocketsOf(w)' = {}, SocketsOf(w) # {}
      PROVE  w = u /\ LastSocket(s)
    OBVIOUS
  <2>1. \A t \in Sockets : OwnerOf[t] = w /\ sock[t] \in Registered => t = s
    BY <1>7 DEF SocketsOf
  <2>2. w = u /\ SocketsOf(w) = {s}
    BY <2>1 DEF SocketsOf
  <2> QED
    BY <2>2 DEF LastSocket
<1> HIDE DEF e, lastOne, u
<1>9. /\ handlers'[h] = e /\ \A g \in Handlers : g # h => handlers'[g] = handlers[g]
      /\ handlers' \in [Handlers -> {Idle} \cup HandlerType]
  BY <1>0, <1>1, <1>4 DEF TypeOK, HandlerType
<1>10. Busy(u) => CallOf(u) \in 1..calls
  BY <1>0, <1>2, Types DEF EntryType, CallOf
<1>11. TypeOK'
  <2>1. overlapped' \subseteq 1..calls
    BY <1>0, <1>1, <1>10 DEF TypeOK, NoteOverlap
  <2> QED
    BY <2>1, <1>0, <1>1, <1>9 DEF TypeOK, HandlerType, Registered
<1>12. LastSound'
  BY <1>0, <1>4, <1>9 DEF LastSound
<1>13. handlers[h].pc = "idle" /\ handlers[h].last = FALSE
  BY <1>1 DEF Waiting, Idle
<1>14. GoneIsGone'
  BY <1>0, <1>1, <1>4, <1>8, <1>9, <1>13
  DEF GoneIsGone, GoneIsNotBusy, GoneIsOffline, Busy
<1> QED
  BY <1>5, <1>11, <1>12, <1>14 DEF CInv

(* Whatever becomes of the log, a handler that releases its users leaves    *)
(* neither of them busy, and goes on to the presence of one who is gone.    *)
LEMMA ReleaseStepCInv ==
  ASSUME CInv, NEW h \in Handlers, Logging(h), Release(h),
         UNCHANGED <<sock, isOnline, calls, accepted, overlapped, late, stranded>>,
         faults' \in 0..MaxFaults,
         logs \subseteq logs', logs' \subseteq logs \cup Log(h),
         lost \subseteq lost', lost' \subseteq lost \cup {handlers[h].call},
         handlers[h].call \in lost' \/ \E l \in logs' : l.call = handlers[h].call
  PROVE  CInv'
<1>0. TypeOK /\ Core /\ LastSound /\ GoneIsGone
  BY DEF CInv
<1>1. Core'
  BY <1>0, ReleaseStep
<1> DEFINE u == handlers[h].user
           p == handlers[h].peer
           e == IF handlers[h].last THEN Presence(u) ELSE Idle
<1>2. /\ handlers[h] \in HandlerType /\ u \in Users /\ p \in Users
      /\ handlers[h].call \in 1..calls /\ handlers[h].final \in LogStatuses
  BY <1>0, Types DEF Core, HandlersSound, HandlerType
<1>3. handlers' = [handlers EXCEPT ![h] = e]
  BY DEF Release
<1>4. /\ e \in {Idle} \cup HandlerType /\ e.kind # "end" /\ e.pc # "log"
      /\ handlers[h].last => e.user = u /\ e.last = TRUE
  <2>1. Idle.kind = "none" /\ Idle.pc = "idle"
    BY DEF Idle
  <2> QED
    BY <1>0, <1>2, <2>1, PresenceTyped
<1> HIDE DEF e
<1>5. /\ handlers'[h] = e /\ \A g \in Handlers : g # h => handlers'[g] = handlers[g]
      /\ handlers' \in [Handlers -> {Idle} \cup HandlerType]
  BY <1>0, <1>3, <1>4 DEF TypeOK, HandlerType
<1>6. activeCalls' = [w \in Users |-> IF w \in {u, p} THEN NoCall ELSE activeCalls[w]]
  BY DEF Release, Removed
<1>7. TypeOK'
  <2>1. Log(h) \subseteq [call : 1..calls, status : LogStatuses]
    BY <1>2 DEF Log
  <2>2. activeCalls' \in [Users -> {NoCall} \cup EntryType]
    BY <1>0, <1>6 DEF TypeOK, EntryType
  <2> QED
    BY <2>1, <2>2, <1>0, <1>2, <1>5 DEF TypeOK, EntryType, HandlerType
<1>8. LastSound'
  BY <1>0, <1>4, <1>5 DEF LastSound
<1>9. GoneIsNotBusy'
  <2> SUFFICES ASSUME NEW w \in Users, Busy(w)', SocketsOf(w) = {}
      PROVE  \/ \E g \in Handlers : handlers'[g].kind = "disconnect" /\ handlers'[g].pc = "log"
                           /\ w \in {handlers'[g].user, handlers'[g].peer}
             \/ activeCalls'[w].call \in late
    BY DEF GoneIsNotBusy, SocketsOf
  <2>1. w \notin {u, p} /\ Busy(w) /\ activeCalls'[w] = activeCalls[w]
    BY <1>6 DEF Busy
  <2> QED
    BY <2>1, <1>0, <1>5 DEF GoneIsGone, GoneIsNotBusy
<1>10. GoneIsOffline'
  BY <1>0, <1>4, <1>5 DEF GoneIsGone, GoneIsOffline, SocketsOf
<1> QED
  BY <1>1, <1>7, <1>8, <1>9, <1>10 DEF CInv, GoneIsGone

LEMMA LogCallStepCInv ==
  ASSUME CInv, NEW h \in Handlers, LogCall(h)
  PROVE  CInv'
<1>1. /\ Logging(h) /\ Release(h) /\ logs' = logs \cup Log(h)
      /\ UNCHANGED <<sock, isOnline, calls, faults, accepted, overlapped, lost, late, stranded>>
  BY DEF LogCall, Logging, history
<1>2. \E l \in logs' : l.call = handlers[h].call
  <2> DEFINE l == [call |-> handlers[h].call, status |-> handlers[h].final]
  <2>1. l \in logs' /\ l.call = handlers[h].call
    BY <1>1 DEF Log
  <2> HIDE DEF l
  <2> QED
    BY <2>1
<1>3. faults' \in 0..MaxFaults
  BY <1>1 DEF CInv, TypeOK
<1> QED
  BY <1>1, <1>2, <1>3, ReleaseStepCInv

(* A handler whose work is done, or given up. *)
LEMMA IdleStepCInv ==
  ASSUME CInv, NEW h \in Handlers, handlers' = [handlers EXCEPT ![h] = Idle],
         UNCHANGED <<sock, activeCalls, calls, accepted, overlapped, lost, late>>,
         faults' \in 0..MaxFaults,
         logs \subseteq logs', logs' \subseteq logs \cup Log(h),
         Logging(h) \/ logs' = logs,
         isOnline' \in [Users -> BOOLEAN], stranded' \subseteq Users,
         handlers[h].kind # "disconnect" \/ ~Logging(h),
         GoneIsOffline'
  PROVE  CInv'
<1>0. TypeOK /\ Core /\ LastSound /\ GoneIsGone
  BY DEF CInv
<1>1. handlers'[h] = Idle /\ \A g \in Handlers : g # h => handlers'[g] = handlers[g]
  BY <1>0 DEF TypeOK
<1>2. Idle.kind = "none" /\ Idle.pc = "idle"
  BY DEF Idle
<1>3. Logging(h) => handlers[h].call \in 1..calls /\ handlers[h].final \in LogStatuses
  BY <1>0 DEF Core, HandlersSound
<1>4. logs' \subseteq [call : 1..calls, status : LogStatuses]
  BY <1>0, <1>3 DEF Log, TypeOK
<1>5. TypeOK'
  BY <1>0, <1>4 DEF TypeOK
<1>6. \A g \in Handlers : Logging(g)' => handlers'[g] = handlers[g]
  BY <1>1, <1>2 DEF Logging
<1>7. \A l \in logs' \ logs : l.status = "completed" => Answered(l.call, accepted, overlapped)
  BY <1>0 DEF Core, AnswersNoted, Log
<1>8. Core'
  BY <1>0, <1>6, <1>7, QuietStep
<1>9. LastSound'
  BY <1>0, <1>1, <1>2 DEF LastSound
<1>10. GoneIsNotBusy'
  BY <1>0, <1>1 DEF GoneIsGone, GoneIsNotBusy, Busy, SocketsOf, Logging
<1> QED
  BY <1>5, <1>8, <1>9, <1>10 DEF CInv, GoneIsGone

LEMMA FailLogStepCInv ==
  ASSUME CInv, NEW h \in Handlers, FailLog(h)
  PROVE  CInv'
<1>0. TypeOK /\ Core /\ LastSound /\ GoneIsGone
  BY DEF CInv
<1>1. /\ Logging(h) /\ faults' \in 0..MaxFaults
      /\ lost' = IF handlers[h].kind = "disconnect" THEN lost \cup {handlers[h].call} ELSE lost
      /\ UNCHANGED <<sock, isOnline, calls, accepted, overlapped, late, stranded>>
  BY <1>0, FaultTyped DEF FailLog, Logging
<1>2. handlers[h].kind \in {"end", "disconnect"}
  BY <1>0, <1>1, Types DEF HandlerType
<1>3. CASE StopsOnError(h)
  <2>1. /\ handlers' = [handlers EXCEPT ![h] = Idle] /\ logs' \in {logs, logs \cup Log(h)}
        /\ UNCHANGED activeCalls /\ lost' = lost /\ handlers[h].kind = "end"
    BY <1>1, <1>3 DEF FailLog, StopsOnError
  <2>2. ~handlers[h].last
    BY <2>1, <1>0 DEF LastSound
  <2>3. \A g \in Handlers : g # h => handlers'[g] = handlers[g]
    BY <2>1, <1>0 DEF TypeOK
  <2>4. GoneIsOffline'
    BY <2>2, <2>3, <1>0, <1>1 DEF GoneIsGone, GoneIsOffline, SocketsOf
  <2>5. isOnline' \in [Users -> BOOLEAN] /\ stranded' \subseteq Users
    BY <1>0, <1>1 DEF TypeOK
  <2> QED
    BY <2>1, <2>4, <2>5, <1>1, IdleStepCInv
<1>4. CASE ~StopsOnError(h)
  <2>1. Release(h) /\ logs' = logs /\ handlers[h].call \in lost'
        /\ lost \subseteq lost' /\ lost' \subseteq lost \cup {handlers[h].call}
    BY <1>1, <1>2, <1>4 DEF FailLog, StopsOnError
  <2> QED
    BY <2>1, <1>1, ReleaseStepCInv
<1> QED
  BY <1>3, <1>4

LEMMA MarkOfflineStepCInv ==
  ASSUME CInv, NEW h \in Handlers, MarkOffline(h)
  PROVE  CInv'
<1>0. TypeOK /\ Core /\ LastSound /\ GoneIsGone
  BY DEF CInv
<1> DEFINE u == handlers[h].user
<1>1. /\ ~Logging(h) /\ handlers' = [handlers EXCEPT ![h] = Idle]
      /\ UNCHANGED <<sock, activeCalls, logs, calls, accepted, overlapped, lost, late>>
  BY DEF MarkOffline, Logging
<1>2. u \in Users
  BY <1>0, Types DEF MarkOffline, HandlerType, Waiting
<1>3. /\ faults' \in 0..MaxFaults
      /\ \/ isOnline' = [isOnline EXCEPT ![u] = FALSE] /\ stranded' = stranded
         \/ isOnline' = isOnline /\ stranded' = stranded \cup {u}
  BY <1>0, FaultTyped DEF MarkOffline, TypeOK
<1>4. isOnline' \in [Users -> BOOLEAN] /\ stranded' \subseteq Users
  BY <1>0, <1>2, <1>3 DEF TypeOK
<1>5. GoneIsOffline'
  <2>1. \A g \in Handlers : g # h => handlers'[g] = handlers[g]
    BY <1>0, <1>1 DEF TypeOK
  <2>2. \A w \in Users : isOnline'[w] => isOnline[w] /\ (w = u => w \in stranded')
    BY <1>0, <1>2, <1>3 DEF TypeOK
  <2>3. stranded \subseteq stranded'
    BY <1>3
  <2> QED
    BY <2>1, <2>2, <2>3, <1>0, <1>1 DEF GoneIsGone, GoneIsOffline, SocketsOf
<1> QED
  BY <1>1, <1>3, <1>4, <1>5, IdleStepCInv

LEMMA RestartStepCInv == CInv /\ Restart => CInv'
<1> SUFFICES ASSUME CInv, Restart PROVE CInv'
  OBVIOUS
<1>0. TypeOK /\ Core /\ LastSound /\ GoneIsGone
  BY DEF CInv
<1>1. /\ sock' = [s \in Sockets |-> IF sock[s] = "new" THEN "new" ELSE "gone"]
      /\ activeCalls' = [u \in Users |-> NoCall]
      /\ handlers' = [h \in Handlers |-> Idle]
      /\ lost' = lost \cup {activeCalls[u].call : u \in {v \in Users : Busy(v)}}
      /\ stranded' = stranded \cup {u \in Users : isOnline[u]}
      /\ UNCHANGED <<isOnline, logs, calls, accepted, overlapped, late>>
      /\ faults' \in 0..MaxFaults
  BY <1>0, FaultTyped DEF Restart
<1>2. \A u \in Users : ~Busy(u)' /\ activeCalls'[u] = NoCall
  BY <1>1 DEF Busy
<1>3. \A h \in Handlers : ~Logging(h)' /\ handlers'[h].kind = "none"
  BY <1>1 DEF Logging, Idle
<1>4. \A u \in Users : Busy(u) => activeCalls[u].call \in 1..calls
  BY <1>0, Types DEF EntryType
<1>5. TypeOK'
  BY <1>0, <1>1, <1>4 DEF TypeOK
<1>6. EntriesSound' /\ HandlersSound' /\ OverlapsNoted' /\ AnswersNoted' /\ LastSound' /\ CallsArePaired'
  BY <1>2, <1>3 DEF EntriesSound, HandlersSound, OverlapsNoted, AnswersNoted, LastSound, CallsArePaired
<1>7. CompletedWasAccepted'
  BY <1>0, <1>1 DEF Core, CallsAreLogged, CompletedWasAccepted, Disturbed
<1>8. NoCallIsForgotten'
  <2> SUFFICES ASSUME NEW c \in 1..calls
      PROVE  \/ \E l \in logs : l.call = c
             \/ c \in lost'
             \/ Disturbed(c)
    BY <1>1 DEF NoCallIsForgotten, Disturbed
  <2>1. \A u \in Users : activeCalls[u].call = c => Busy(u)
    BY <1>0, Types DEF Busy, NoCall
  <2>2. (\E u \in Users : activeCalls[u].call = c) => c \in lost'
    BY <2>1, <1>1
  <2> QED
    BY <2>2, <1>0, <1>1 DEF Core, CallsAreLogged, NoCallIsForgotten
<1>9. GoneIsGone'
  BY <1>1, <1>2 DEF GoneIsGone, GoneIsNotBusy, GoneIsOffline
<1> QED
  BY <1>5, <1>6, <1>7, <1>8, <1>9 DEF CInv, Core, CallsAreLogged

------------------------------------------------------------------------------
(* The theorems. *)

LEMMA NextCInv == CInv /\ [Next]_vars => CInv'
<1> SUFFICES ASSUME CInv, [Next]_vars PROVE CInv'
  OBVIOUS
<1>1. CASE \E s \in Sockets : Connect(s) \/ MarkOnline(s) \/ FailOnline(s) \/ DropEarly(s)
  BY <1>1, SocketStepCInv DEF SocketStep
<1>2. CASE \E s \in Sockets, r \in Rooms : InitiateCall(s, r) \/ Accept(s, r)
  BY <1>2, InitiateStepCInv, AcceptStepCInv
<1>3. CASE \E s \in Sockets, r \in Rooms, rejects \in BOOLEAN, h \in Handlers :
             EndCall(s, r, rejects, h)
  BY <1>3, EndCallStepCInv
<1>4. CASE \E s \in Sockets, h \in Handlers : Disconnect(s, h)
  BY <1>4, DisconnectStepCInv
<1>5. CASE \E h \in Handlers : LogCall(h) \/ FailLog(h) \/ MarkOffline(h)
  BY <1>5, LogCallStepCInv, FailLogStepCInv, MarkOfflineStepCInv
<1>6. CASE Restart
  BY <1>6, RestartStepCInv
<1>7. CASE UNCHANGED vars
  <2>1. UNCHANGED <<sock, isOnline, activeCalls, handlers, logs, calls, faults,
                    accepted, overlapped, lost, late, stranded>>
    BY <1>7 DEF vars, history
  <2>2. Core'
    BY <2>1, QuietStep DEF CInv
  <2>3. TypeOK' /\ LastSound' /\ GoneIsGone'
    BY <2>1 DEF CInv, TypeOK, LastSound, GoneIsGone, GoneIsNotBusy, GoneIsOffline, SocketsOf, Busy
  <2> QED
    BY <2>2, <2>3 DEF CInv
<1> QED
  BY <1>1, <1>2, <1>3, <1>4, <1>5, <1>6, <1>7 DEF Next

(* The inductive invariant of the calls, for any users, rooms and sockets   *)
(* and any number of handlers at an await.                                  *)
THEOREM CallsInvariant == Spec => []CInv
BY InitCInv, NextCInv, PTL DEF Spec

(* Who is in a call is in it with somebody who is in it with him: entries   *)
(* are set, connected and removed in pairs (socketHandlers 526, 558-571,    *)
(* 619, 698, 753), unless two handlers ended an earlier call at once.       *)
THEOREM EntriesComeInPairs == Spec => []CallsArePaired
<1>1. CInv => CallsArePaired
  BY DEF CInv, Core
<1> QED
  BY <1>1, CallsInvariant, PTL

(* Every call that rang ends in the log, and as completed only if it was    *)
(* answered, unless a restart or a failed write took it (socketHandlers     *)
(* 586-620, 657-699, 728-754).                                              *)
THEOREM EveryCallIsLogged == Spec => []CallsAreLogged
<1>1. CInv => CallsAreLogged
  BY DEF CInv, Core
<1> QED
  BY <1>1, CallsInvariant, PTL

(* A user with no socket left is neither busy nor online, or a disconnect   *)
(* handler is about to see to it (socketHandlers 728-759).                  *)
THEOREM NothingStaysOfTheGone == Spec => []GoneIsGone
<1>1. CInv => GoneIsGone
  BY DEF CInv
<1> QED
  BY <1>1, CallsInvariant, PTL
=============================================================================
