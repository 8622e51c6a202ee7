---------------------------- MODULE SocialProofs ----------------------------
(***************************************************************************)
(* Why friends and direct messages behave, for any two users, any number   *)
(* of handlers at the same time, requests, removals, openings and faults:  *)
(* the three properties of Social, from one inductive invariant.           *)
(*                                                                         *)
(* Each exception of a property has a history variable that is set where   *)
(* two handlers meet.  While it is not set, acceptances and removals take  *)
(* turns, so that what a handler has written stays written until it ends;  *)
(* there is one request at a time; and one call opens the conversation.    *)
(***************************************************************************)
EXTENDS Social, SequenceTheorems, TLAPS

RequestType ==
  [sender : Users, status : {"pending", "accepted", "rejected", "deleted"}]

PcsOf(kind) ==
  CASE kind = "none" -> {"idle"}
    [] kind = "request" -> {"create", "reset"}
    [] kind = "accept" -> {"sender", "recipient", "mark"}
    [] kind = "reject" -> {"mark"}
    [] kind = "remove" -> {"own", "friend", "delete"}
    [] kind = "open" -> {"room", "repair"}

Kinds == {"none", "request", "accept", "reject", "remove", "open"}

JobType ==
  [kind : Kinds, user : Users \cup {"none"},
   pc : {"idle", "create", "reset", "sender", "recipient", "mark", "own", "friend", "delete",
         "room", "repair"},
   at : Nat, from : Users \cup {"none"}, key : Nat]

JobSound(k) ==
  /\ k.pc \in PcsOf(k.kind)
  /\ k.kind # "none" => k.user \in Users /\ k.from \in Users

Typed ==
  /\ friends \in [Users -> SUBSET Users] /\ \A u \in Users : u \notin friends[u]
  /\ requests \in Seq(RequestType) /\ rooms \in Seq(Nat)
  /\ jobs \in [Slots -> JobType] /\ \A j \in Slots : JobSound(jobs[j])
  /\ keys \in [Users -> SUBSET [room : Nat, key : Nat]]
  /\ openings \in Nat

-----------------------------------------------------------------------------
(* Friends. *)

(* An acceptance and a removal never meet in an undisturbed history. *)
TakeTurns == ~(InProgress("accept") /\ InProgress("remove"))

(* What a handler has written is still there. *)
Befriended(j) ==
  jobs[j].kind = "accept" =>
    /\ jobs[j].from = Other(jobs[j].user)
    /\ jobs[j].pc \in {"recipient", "mark"} => AreFriends(jobs[j].from)
    /\ jobs[j].pc = "mark" => AreFriends(jobs[j].user)

Unfriended(j) ==
  jobs[j].kind = "remove" =>
    /\ jobs[j].pc \in {"friend", "delete"} => ~AreFriends(jobs[j].user)
    /\ jobs[j].pc = "delete" => ~AreFriends(Other(jobs[j].user))

Symmetric == \A u \in Users : AreFriends(u) => AreFriends(Other(u))

FriendsSound ==
  torn \/ /\ TakeTurns
          /\ \A j \in Slots : Befriended(j) /\ Unfriended(j)
          /\ InProgress("accept") \/ InProgress("remove") \/ Symmetric

-----------------------------------------------------------------------------
(* Requests. *)

OneRequest == crossed \/ \A i, k \in Live : i = k

AcceptedAreFriends ==
  torn \/ crossed \/ InProgress("accept") \/ InProgress("remove")
    \/ \A i \in Live : requests[i].status = "accepted" => \A u \in Users : AreFriends(u)

RequestsSound == OneRequest /\ AcceptedAreFriends

-----------------------------------------------------------------------------
(* The conversation. *)

OpeningSound(j) ==
  jobs[j].kind = "open" =>
    /\ jobs[j].pc = "room" => rooms = <<>>
    /\ jobs[j].pc = "repair" =>
         jobs[j].at \in DOMAIN rooms /\ rooms[jobs[j].at] = 0 /\ jobs[j].key # 0

KeptSound == \A u \in Users : \A k \in keys[u] :
  k.room \in DOMAIN rooms /\ k.key # 0 /\ rooms[k.room] = k.key

RoomsSound ==
  raced \/ /\ Len(rooms) <= 1 /\ KeptSound
           /\ \A j \in Slots : OpeningSound(j)
           /\ \A i, j \in Slots : jobs[i].kind = "open" /\ jobs[j].kind = "open" => i = j

Inv == Typed /\ FriendsSound /\ RequestsSound /\ RoomsSound

-----------------------------------------------------------------------------
(* Users, jobs and what a step leaves alone. *)

LEMMA TwoUsers ==
  \A u \in Users :
    /\ Other(u) \in Users /\ Other(u) # u /\ Other(Other(u)) = u
    /\ \A v \in Users : v = u \/ v = Other(u)
<1>1. \A u \in Users : Other(u) \in Users /\ Other(u) # u
  BY UsersAssumption DEF Other
<1>2. PICK a, b \in Users : a # b /\ Users = {a, b}
  BY UsersAssumption
<1> QED
  BY <1>1, <1>2

(* The job of j becomes k. *)
JobBecomes(j, k) ==
  /\ jobs' \in [Slots -> JobType] /\ \A d \in Slots : JobSound(jobs'[d])
  /\ jobs'[j] = k /\ \A d \in Slots : d # j => jobs'[d] = jobs[d]

LEMMA JobSet ==
  ASSUME Typed, NEW j \in Slots, NEW k \in JobType, JobSound(k), jobs' = [jobs EXCEPT ![j] = k]
  PROVE  JobBecomes(j, k)
<1>1. jobs \in [Slots -> JobType] /\ \A d \in Slots : JobSound(jobs[d])
  BY DEF Typed
<1>2. /\ jobs' \in [Slots -> JobType] /\ jobs'[j] = k
      /\ \A d \in Slots : d # j => jobs'[d] = jobs[d]
  BY <1>1
<1>3. \A d \in Slots : JobSound(jobs'[d])
  <2> TAKE d \in Slots
  <2>1. CASE d = j
    BY <1>2, <2>1
  <2>2. CASE d # j
    <3>1. jobs'[d] = jobs[d]
      BY <1>2, <2>2
    <3> QED
      BY <1>1, <3>1
  <2> QED
    BY <2>1, <2>2
<1> QED
  BY <1>2, <1>3 DEF JobBecomes

LEMMA JobEnds ==
  ASSUME Typed, NEW j \in Slots, End(j)
  PROVE  JobBecomes(j, Idle)
<1>1. Idle \in JobType /\ JobSound(Idle)
  BY DEF Idle, JobType, Kinds, JobSound, PcsOf
<1> QED
  BY <1>1, JobSet DEF End

(* The same job, at another of its steps. *)
JobGoesOn(j, pc) ==
  \E k \in JobType :
    /\ JobBecomes(j, k) /\ k.kind = jobs[j].kind /\ k.user = jobs[j].user /\ k.pc = pc
    /\ k.at = jobs[j].at /\ k.from = jobs[j].from /\ k.key = jobs[j].key

LEMMA JobSteps ==
  ASSUME Typed, NEW j \in Slots, NEW pc, pc \in PcsOf(jobs[j].kind),
         pc \in {"recipient", "mark", "friend", "delete"}, GoOn(j, pc)
  PROVE  JobGoesOn(j, pc)
<1>1. jobs \in [Slots -> JobType] /\ jobs[j] \in JobType /\ JobSound(jobs[j])
  BY DEF Typed
<1> DEFINE k == [jobs[j] EXCEPT !.pc = pc]
<1>2. /\ k \in JobType /\ k.kind = jobs[j].kind /\ k.user = jobs[j].user /\ k.pc = pc
      /\ k.at = jobs[j].at /\ k.from = jobs[j].from /\ k.key = jobs[j].key
  BY <1>1 DEF JobType
<1>3. jobs' = [jobs EXCEPT ![j] = k]
  BY <1>1 DEF GoOn
<1> HIDE DEF k
<1>4. JobSound(k)
  BY <1>1, <1>2 DEF JobSound
<1>5. JobBecomes(j, k)
  BY <1>2, <1>3, <1>4, JobSet
<1> QED
  BY <1>2, <1>5 DEF JobGoesOn

(* A free slot gets a job. *)
JobStarts(j, kind, u, pc, at, from, key) ==
  jobs[j] = Idle /\ \E k \in JobType :
    /\ JobBecomes(j, k) /\ k.kind = kind /\ k.user = u /\ k.pc = pc
    /\ k.at = at /\ k.from = from /\ k.key = key

LEMMA JobBegins ==
  ASSUME Typed, NEW j \in Slots, NEW kind \in Kinds, NEW u \in Users, NEW pc, pc \in PcsOf(kind),
         NEW at \in Nat, NEW from \in Users, NEW key \in Nat, Begin(j, kind, u, pc, at, from, key)
  PROVE  JobStarts(j, kind, u, pc, at, from, key)
<1> DEFINE k == [kind |-> kind, user |-> u, pc |-> pc, at |-> at, from |-> from, key |-> key]
<1>1. /\ k \in JobType /\ k.kind = kind /\ k.user = u /\ k.pc = pc /\ k.at = at /\ k.from = from
      /\ k.key = key
  BY DEF JobType, Kinds, PcsOf
<1>2. JobSound(k)
  BY DEF JobSound
<1>3. jobs[j] = Idle /\ jobs' = [jobs EXCEPT ![j] = k]
  BY DEF Begin
<1> HIDE DEF k
<1>4. JobBecomes(j, k)
  BY <1>1, <1>2, <1>3, JobSet
<1> QED
  BY <1>1, <1>3, <1>4 DEF JobStarts

LEMMA IdleFacts ==
  Idle.kind = "none" /\ Idle.pc = "idle"
  BY DEF Idle

(* Jobs of these kinds neither begin, go on nor end. *)
Kept(kinds) == \A d \in Slots :
  jobs[d].kind \in kinds \/ jobs'[d].kind \in kinds => jobs'[d] = jobs[d]

LEMMA FriendsFramed ==
  ASSUME FriendsSound, friends' = friends, torn' = torn, Kept({"accept", "remove"})
  PROVE  FriendsSound'
<1>1. InProgress("accept")' <=> InProgress("accept")
  BY DEF InProgress, Kept
<1>2. InProgress("remove")' <=> InProgress("remove")
  BY DEF InProgress, Kept
<1>3. \A j \in Slots : Befriended(j) => Befriended(j)'
  BY DEF Befriended, Kept, AreFriends
<1>4. \A j \in Slots : Unfriended(j) => Unfriended(j)'
  BY DEF Unfriended, Kept, AreFriends
<1>5. Symmetric => Symmetric'
  BY DEF Symmetric, AreFriends
<1> QED
  BY <1>1, <1>2, <1>3, <1>4, <1>5 DEF FriendsSound, TakeTurns

LEMMA RequestsFramed ==
  ASSUME RequestsSound, requests' = requests, friends' = friends, torn' = torn,
         crossed' = crossed, Kept({"accept", "remove"})
  PROVE  RequestsSound'
<1>1. InProgress("accept")' <=> InProgress("accept")
  BY DEF InProgress, Kept
<1>2. InProgress("remove")' <=> InProgress("remove")
  BY DEF InProgress, Kept
<1> QED
  BY <1>1, <1>2 DEF RequestsSound, OneRequest, AcceptedAreFriends, Live, AreFriends

LEMMA RoomsFramed ==
  ASSUME RoomsSound, rooms' = rooms, keys' = keys, raced' = raced,
         \A d \in Slots : jobs'[d].kind = "open" => jobs'[d] = jobs[d]
  PROVE  RoomsSound'
<1>1. \A j \in Slots : OpeningSound(j) => OpeningSound(j)'
  BY DEF OpeningSound
<1>2. KeptSound => KeptSound'
  BY DEF KeptSound
<1> QED
  BY <1>1, <1>2 DEF RoomsSound

-----------------------------------------------------------------------------
(* The actions. *)

LEMMA QuietStep ==
  ASSUME Inv, UNCHANGED <<friends, requests, rooms, jobs, keys, openings, torn, crossed, raced>>
  PROVE  Inv'
<1>1. /\ friends' = friends /\ requests' = requests /\ rooms' = rooms /\ jobs' = jobs /\ keys' = keys
      /\ openings' = openings /\ torn' = torn /\ crossed' = crossed /\ raced' = raced
      /\ Kept({"accept", "remove"}) /\ Typed /\ FriendsSound /\ RequestsSound /\ RoomsSound
  BY DEF Inv, Kept
<1>2. Typed'
  BY <1>1 DEF Typed
<1> QED
  BY <1>1, <1>2, FriendsFramed, RequestsFramed, RoomsFramed DEF Inv

LEMMA RequestFacts ==
  ASSUME Typed
  PROVE  /\ Len(requests) \in Nat /\ DOMAIN requests = 1..Len(requests)
         /\ \A i \in DOMAIN requests : requests[i] \in RequestType /\ i \in Nat
         /\ Live \subseteq DOMAIN requests
  BY DEF Typed, Live

(* A live request gets another status. *)
Changed(i, status) ==
  /\ requests' \in Seq(RequestType) /\ DOMAIN requests' = DOMAIN requests
  /\ requests'[i].status = status
  /\ \A k \in DOMAIN requests : k # i => requests'[k] = requests[k]

LEMMA ChangedOne ==
  ASSUME Typed, NEW i \in DOMAIN requests, NEW r \in RequestType, requests' = [requests EXCEPT ![i] = r]
  PROVE  Changed(i, r.status)
  BY RequestFacts, ExceptSeq DEF Typed, Changed

LEMMA StatusSet ==
  ASSUME Typed, NEW i \in Live, NEW status \in {"pending", "accepted", "rejected", "deleted"},
         requests' = [requests EXCEPT ![i].status = status]
  PROVE  Changed(i, status)
<1> DEFINE r == [requests[i] EXCEPT !.status = status]
<1>1. i \in DOMAIN requests /\ requests[i] \in RequestType
  BY RequestFacts
<1>2. r \in RequestType /\ r.status = status
  BY <1>1 DEF RequestType
<1>3. requests' = [requests EXCEPT ![i] = r]
  BY <1>1
<1> HIDE DEF r
<1> QED
  BY <1>1, <1>2, <1>3, ChangedOne

LEMMA ResetTo ==
  ASSUME Typed, NEW i \in Live, NEW u \in Users, NEW turned \in BOOLEAN,
         requests' = [requests EXCEPT ![i] = [sender |-> IF turned THEN u ELSE @.sender,
                                              status |-> "pending"]]
  PROVE  Changed(i, "pending")
<1> DEFINE r == [sender |-> IF turned THEN u ELSE requests[i].sender, status |-> "pending"]
<1>1. i \in DOMAIN requests /\ requests[i] \in RequestType
  BY RequestFacts
<1>2. r \in RequestType /\ r.status = "pending"
  BY <1>1 DEF RequestType
<1>3. requests' = [requests EXCEPT ![i] = r]
  OBVIOUS
<1> HIDE DEF r
<1> QED
  BY <1>1, <1>2, <1>3, ChangedOne

(* No request is accepted by this, nor made. *)
LEMMA ChangedRequests ==
  ASSUME Typed, RequestsSound, NEW i \in Live, NEW status \in {"pending", "rejected", "deleted"},
         Changed(i, status), friends' = friends, torn' = torn, crossed' = crossed,
         Kept({"accept", "remove"})
  PROVE  RequestsSound'
<1>1. InProgress("accept")' <=> InProgress("accept")
  BY DEF InProgress, Kept
<1>2. InProgress("remove")' <=> InProgress("remove")
  BY DEF InProgress, Kept
<1>3. Live' \subseteq Live
  BY DEF Live, Changed
<1>4. OneRequest'
  BY <1>3 DEF RequestsSound, OneRequest
<1>5. \A k \in Live' : requests'[k].status = "accepted" => requests[k].status = "accepted"
  BY <1>3, RequestFacts DEF Changed
<1>6. AcceptedAreFriends'
  BY <1>1, <1>2, <1>3, <1>5 DEF RequestsSound, AcceptedAreFriends, AreFriends
<1> QED
  BY <1>4, <1>6 DEF RequestsSound

LEMMA SendStep ==
  ASSUME Inv, NEW j \in Slots, NEW u \in Users, SendRequest(j, u)
  PROVE  Inv'
<1>1. Typed /\ FriendsSound /\ RequestsSound /\ RoomsSound
  BY DEF Inv
<1>2. /\ friends' = friends /\ requests' = requests /\ rooms' = rooms /\ keys' = keys
      /\ openings' = openings /\ torn' = torn /\ crossed' = crossed /\ raced' = raced
  BY DEF SendRequest, counts, history
<1>3. PICK pc \in {"create", "reset"}, at \in Nat, from \in Users : Begin(j, "request", u, pc, at, from, 0)
  BY <1>1, RequestFacts DEF SendRequest, RequestType
<1>4. "request" \in Kinds /\ pc \in PcsOf("request")
  BY DEF Kinds, PcsOf
<1>5. JobStarts(j, "request", u, pc, at, from, 0)
  BY <1>1, <1>3, <1>4, JobBegins
<1>6. Kept({"accept", "remove"})
  BY <1>5, IdleFacts DEF Kept, JobStarts, JobBecomes
<1>7. Typed'
  BY <1>1, <1>2, <1>5 DEF Typed, JobStarts, JobBecomes
<1>8. RoomsSound'
  BY <1>1, <1>2, <1>5, RoomsFramed DEF JobStarts, JobBecomes
<1> QED
  BY <1>1, <1>2, <1>6, <1>7, <1>8, FriendsFramed, RequestsFramed DEF Inv

LEMMA CreateStep ==
  ASSUME Inv, NEW j \in Slots, CreateRequest(j)
  PROVE  Inv'
<1>1. Typed /\ FriendsSound /\ RequestsSound /\ RoomsSound /\ jobs[j] \in JobType /\ JobSound(jobs[j])
  BY DEF Inv, Typed
<1>2. PICK u \in Users : u = jobs[j].user
  <2>1. jobs[j].kind # "none"
    BY <1>1 DEF CreateRequest, JobSound, PcsOf
  <2> QED
    BY <1>1, <2>1 DEF JobSound
<1>3. /\ friends' = friends /\ rooms' = rooms /\ keys' = keys
      /\ openings' = openings /\ torn' = torn /\ raced' = raced /\ End(j) /\ jobs[j].pc = "create"
      /\ \/ /\ requests' = Append(requests, [sender |-> u, status |-> "pending"])
            /\ crossed' = (crossed \/ Live # {})
         \/ requests' = requests /\ crossed' = crossed
  BY <1>2 DEF CreateRequest, counts
<1>4. JobBecomes(j, Idle)
  BY <1>1, <1>3, JobEnds
<1>5. jobs[j].kind = "request"
  BY <1>1, <1>3 DEF JobSound, PcsOf, JobType, Kinds
<1>6. Kept({"accept", "remove"})
  BY <1>4, <1>5, IdleFacts DEF Kept, JobBecomes
<1>7. RoomsSound'
  BY <1>1, <1>3, <1>4, IdleFacts, RoomsFramed DEF JobBecomes
<1>8. FriendsSound'
  BY <1>1, <1>3, <1>6, FriendsFramed
<1>9. CASE requests' = requests /\ crossed' = crossed
  <2>1. Typed'
    BY <1>1, <1>3, <1>4, <1>9 DEF Typed, JobBecomes
  <2> QED
    BY <1>1, <1>3, <1>6, <1>7, <1>8, <1>9, <2>1, RequestsFramed DEF Inv
<1>10. CASE /\ requests' = Append(requests, [sender |-> u, status |-> "pending"])
            /\ crossed' = (crossed \/ Live # {})
  <2> DEFINE e == [sender |-> u, status |-> "pending"]
             n == Len(requests)
  <2>1. e \in RequestType /\ e.status = "pending" /\ requests \in Seq(RequestType)
    BY <1>1 DEF RequestType, Typed
  <2>2. requests' = Append(requests, e)
    BY <1>10
  <2> HIDE DEF e
  <2>3. /\ requests' \in Seq(RequestType) /\ Len(requests') = n + 1 /\ requests'[n + 1] = e
        /\ \A i \in 1..n : requests'[i] = requests[i]
    BY <2>1, <2>2, AppendProperties
  <2>4. n \in Nat /\ DOMAIN requests = 1..n /\ DOMAIN requests' = 1..(n + 1)
    BY <2>1, <2>3
  <2> HIDE DEF n
  <2>5. Live' \subseteq Live \cup {n + 1}
    BY <2>3, <2>4 DEF Live
  <2>6. OneRequest' /\ AcceptedAreFriends'
    <3>1. CASE crossed \/ Live # {}
      BY <1>10, <3>1 DEF OneRequest, AcceptedAreFriends
    <3>2. CASE ~crossed /\ Live = {}
      <4>1. \A i \in Live' : i = n + 1
        BY <2>5, <3>2
      <4> QED
        BY <2>1, <2>3, <4>1 DEF OneRequest, AcceptedAreFriends
    <3> QED
      BY <3>1, <3>2
  <2>7. Typed'
    BY <1>1, <1>3, <1>4, <2>3 DEF Typed, JobBecomes
  <2> QED
    BY <1>7, <1>8, <2>6, <2>7 DEF Inv, RequestsSound
<1> QED
  BY <1>3, <1>9, <1>10

LEMMA ResetStep ==
  ASSUME Inv, NEW j \in Slots, ResetRequest(j)
  PROVE  Inv'
<1>1. Typed /\ FriendsSound /\ RequestsSound /\ RoomsSound /\ jobs[j] \in JobType /\ JobSound(jobs[j])
  BY DEF Inv, Typed
<1>2. PICK u \in Users : u = jobs[j].user
  <2>1. jobs[j].kind # "none"
    BY <1>1 DEF ResetRequest, JobSound, PcsOf
  <2> QED
    BY <1>1, <2>1 DEF JobSound
<1>3. \E i : i = jobs[j].at
  OBVIOUS
<1>4. \E turned \in BOOLEAN : turned = (jobs[j].from # u)
  OBVIOUS
<1>5. PICK i : i = jobs[j].at
  BY <1>3
<1>6. PICK turned \in BOOLEAN : turned = (jobs[j].from # u)
  BY <1>4, Zenon
<1>7. /\ friends' = friends /\ rooms' = rooms /\ keys' = keys /\ crossed' = crossed
      /\ openings' = openings /\ torn' = torn /\ raced' = raced /\ End(j) /\ jobs[j].pc = "reset"
      /\ \/ /\ i \in Live
            /\ requests' = [requests EXCEPT ![i] = [sender |-> IF turned THEN u ELSE @.sender,
                                                    status |-> "pending"]]
         \/ requests' = requests
  BY <1>2, <1>5, <1>6 DEF ResetRequest, counts, history
<1>8. JobBecomes(j, Idle)
  BY <1>1, <1>7, JobEnds
<1>9. jobs[j].kind = "request"
  BY <1>1, <1>7 DEF JobSound, PcsOf, JobType, Kinds
<1>10. Kept({"accept", "remove"})
  BY <1>8, <1>9, IdleFacts DEF Kept, JobBecomes
<1>11. RoomsSound'
  BY <1>1, <1>7, <1>8, IdleFacts, RoomsFramed DEF JobBecomes
<1>12. FriendsSound'
  BY <1>1, <1>7, <1>10, FriendsFramed
<1>13. (i \in Live /\ Changed(i, "pending")) \/ requests' = requests
  BY <1>1, <1>7, ResetTo
<1>14. RequestsSound'
  BY <1>1, <1>7, <1>10, <1>13, ChangedRequests, RequestsFramed
<1>15. Typed'
  BY <1>1, <1>7, <1>8, <1>13 DEF Typed, JobBecomes, Changed
<1> QED
  BY <1>11, <1>12, <1>14, <1>15 DEF Inv

LEMMA RespondStep ==
  ASSUME Inv, NEW j \in Slots, NEW u \in Users, NEW i \in DOMAIN requests, Respond(j, u, i)
  PROVE  Inv'
<1>1. Typed /\ FriendsSound /\ RequestsSound /\ RoomsSound /\ i \in Nat
      /\ requests[i].sender \in Users
  BY RequestFacts DEF Inv, RequestType
<1>2. /\ friends' = friends /\ requests' = requests /\ rooms' = rooms /\ keys' = keys
      /\ openings' = openings /\ crossed' = crossed /\ raced' = raced
      /\ requests[i].sender # u
  BY DEF Respond, counts
<1>3. requests[i].sender = Other(u)
  BY <1>1, <1>2, TwoUsers
<1>4. CASE Begin(j, "reject", u, "mark", i, requests[i].sender, 0) /\ torn' = torn
  <2>1. "reject" \in Kinds /\ "mark" \in PcsOf("reject")
    BY DEF Kinds, PcsOf
  <2>2. JobStarts(j, "reject", u, "mark", i, requests[i].sender, 0)
    BY <1>1, <1>4, <2>1, JobBegins
  <2>3. Kept({"accept", "remove"})
    BY <2>2, IdleFacts DEF Kept, JobStarts, JobBecomes
  <2>4. Typed'
    BY <1>1, <1>2, <2>2 DEF Typed, JobStarts, JobBecomes
  <2>5. RoomsSound'
    BY <1>1, <1>2, <2>2, RoomsFramed DEF JobStarts, JobBecomes
  <2> QED
    BY <1>1, <1>2, <1>4, <2>3, <2>4, <2>5, FriendsFramed, RequestsFramed DEF Inv
<1>5. CASE Begin(j, "accept", u, "sender", i, requests[i].sender, 0) /\ torn' = (torn \/ InProgress("remove"))
  <2>1. "accept" \in Kinds /\ "sender" \in PcsOf("accept")
    BY DEF Kinds, PcsOf
  <2>2. JobStarts(j, "accept", u, "sender", i, requests[i].sender, 0)
    BY <1>1, <1>5, <2>1, JobBegins
  <2>3. /\ jobs[j].kind = "none" /\ jobs'[j].kind = "accept" /\ jobs'[j].pc = "sender"
        /\ jobs'[j].user = u /\ jobs'[j].from = Other(u)
        /\ \A d \in Slots : d # j => jobs'[d] = jobs[d]
    BY <1>3, <2>2, IdleFacts DEF JobStarts, JobBecomes
  <2>4. InProgress("accept")' /\ (InProgress("remove")' <=> InProgress("remove"))
    BY <2>3 DEF InProgress
  <2>5. \A d \in Slots : Befriended(d) => Befriended(d)'
    BY <1>2, <2>3 DEF Befriended, AreFriends
  <2>6. \A d \in Slots : Unfriended(d) => Unfriended(d)'
    BY <1>2, <2>3 DEF Unfriended, AreFriends
  <2>7. FriendsSound'
    BY <1>1, <1>5, <2>4, <2>5, <2>6 DEF FriendsSound, TakeTurns
  <2>8. RequestsSound'
    BY <1>1, <1>2, <2>4 DEF RequestsSound, OneRequest, AcceptedAreFriends, Live
  <2>9. Typed'
    BY <1>1, <1>2, <2>2 DEF Typed, JobStarts, JobBecomes
  <2>10. RoomsSound'
    BY <1>1, <1>2, <2>2, RoomsFramed DEF JobStarts, JobBecomes
  <2> QED
    BY <2>7, <2>8, <2>9, <2>10 DEF Inv
<1> QED
  BY <1>4, <1>5 DEF Respond

(* A user gets, or loses, the other as a friend. *)
LEMMA Befriends ==
  ASSUME Typed, NEW x \in Users, Befriend(x)
  PROVE  /\ friends' \in [Users -> SUBSET Users] /\ \A u \in Users : u \notin friends'[u]
         /\ AreFriends(x)'
         /\ \A u \in Users : AreFriends(u) => AreFriends(u)'
<1>1. Other(x) \in Users /\ Other(x) # x
  BY TwoUsers
<1>2. friends' = [friends EXCEPT ![x] = friends[x] \cup {Other(x)}] /\ friends \in [Users -> SUBSET Users]
  BY DEF Befriend, Typed
<1>3. \A u \in Users : friends'[u] = IF u = x THEN friends[x] \cup {Other(x)} ELSE friends[u]
  BY <1>2
<1>4. friends' \in [Users -> SUBSET Users] /\ \A u \in Users : u \notin friends'[u]
  BY <1>1, <1>2, <1>3 DEF Typed
<1>5. \A u \in Users : friends[u] \subseteq friends'[u]
  BY <1>3
<1> QED
  BY <1>3, <1>4, <1>5 DEF AreFriends

LEMMA Unfriends ==
  ASSUME Typed, NEW x \in Users, Unfriend(x)
  PROVE  /\ friends' \in [Users -> SUBSET Users] /\ \A u \in Users : u \notin friends'[u]
         /\ ~AreFriends(x)'
         /\ \A u \in Users : AreFriends(u)' => AreFriends(u)
<1>1. Other(x) \in Users
  BY TwoUsers
<1>2. friends' = [friends EXCEPT ![x] = friends[x] \ {Other(x)}] /\ friends \in [Users -> SUBSET Users]
  BY DEF Unfriend, Typed
<1>3. \A u \in Users : friends'[u] = IF u = x THEN friends[x] \ {Other(x)} ELSE friends[u]
  BY <1>2
<1>4. friends' \in [Users -> SUBSET Users] /\ \A u \in Users : u \notin friends'[u]
  BY <1>1, <1>2, <1>3 DEF Typed
<1>5. \A u \in Users : friends'[u] \subseteq friends[u]
  BY <1>3
<1> QED
  BY <1>3, <1>4, <1>5 DEF AreFriends

(* What a step of the two handlers leaves alone. *)
Aside ==
  /\ requests' = requests /\ rooms' = rooms /\ keys' = keys /\ openings' = openings
  /\ torn' = torn /\ crossed' = crossed /\ raced' = raced

LEMMA BefriendStep ==
  ASSUME Inv, NEW j \in Slots, NEW x \in Users, Befriend(x), NEW pc \in {"recipient", "mark"}, GoOn(j, pc),
         jobs[j].kind = "accept", Aside,
         pc = "recipient" => x = jobs[j].from,
         pc = "mark" => x = jobs[j].user /\ jobs[j].pc = "recipient"
  PROVE  Inv'
<1>1. Typed /\ FriendsSound /\ RequestsSound /\ RoomsSound
  BY DEF Inv
<1>2. JobGoesOn(j, pc)
  BY <1>1, JobSteps DEF PcsOf
<1>3. PICK k \in JobType :
        /\ JobBecomes(j, k) /\ k.kind = "accept" /\ k.user = jobs[j].user /\ k.pc = pc
        /\ k.from = jobs[j].from
  BY <1>2 DEF JobGoesOn
<1>4. /\ jobs'[j] = k /\ \A d \in Slots : d # j => jobs'[d] = jobs[d]
  BY <1>3 DEF JobBecomes
<1>5. InProgress("accept")' /\ InProgress("accept") /\ (InProgress("remove")' <=> InProgress("remove"))
  BY <1>3, <1>4 DEF InProgress
<1>6. /\ friends' \in [Users -> SUBSET Users] /\ \A u \in Users : u \notin friends'[u]
      /\ AreFriends(x)'
      /\ \A u \in Users : AreFriends(u) => AreFriends(u)'
  BY <1>1, Befriends
<1>7. Typed'
  BY <1>1, <1>3, <1>6 DEF Typed, JobBecomes, Aside
<1>8. RoomsSound'
  BY <1>1, <1>3, <1>4, RoomsFramed DEF Aside
<1>9. RequestsSound'
  BY <1>1, <1>5 DEF RequestsSound, OneRequest, AcceptedAreFriends, Live, Aside
<1>10. FriendsSound'
  <2>1. CASE torn
    BY <2>1 DEF FriendsSound, Aside
  <2>2. CASE ~torn
    <3>1. TakeTurns /\ (\A d \in Slots : Befriended(d) /\ Unfriended(d)) /\ ~InProgress("remove")
      BY <1>1, <1>5, <2>2 DEF FriendsSound, TakeTurns
    <3>2. ASSUME NEW d \in Slots PROVE Befriended(d)' /\ Unfriended(d)'
      <4>1. CASE d = j
        <5>1. jobs'[d] = k
          BY <1>4, <4>1
        <5>2. k.from = Other(k.user) /\ k.user \in Users /\ k.from \in Users
          BY <1>1, <1>3, <3>1 DEF Befriended, Typed, JobSound
        <5>3. pc = "recipient" => AreFriends(k.from)'
          BY <1>3, <1>6
        <5>4. pc = "mark" => AreFriends(k.from)' /\ AreFriends(k.user)'
          <6>1. pc = "mark" => AreFriends(jobs[j].from)
            BY <3>1 DEF Befriended
          <6> QED
            BY <1>3, <1>6, <5>2, <6>1
        <5>5. Unfriended(d)'
          BY <1>3, <5>1 DEF Unfriended
        <5>6. Befriended(d)'
          BY <1>3, <5>1, <5>2, <5>3, <5>4 DEF Befriended
        <5> QED
          BY <5>5, <5>6
      <4>2. CASE d # j
        <5>1. jobs'[d] = jobs[d]
          BY <1>4, <4>2
        <5>2. Unfriended(d)'
          BY <3>1, <5>1 DEF Unfriended, InProgress
        <5>3. CASE jobs[d].kind = "accept"
          <6>1. jobs[d].from \in Users /\ jobs[d].user \in Users
            BY <1>1, <5>3 DEF Typed, JobSound
          <6>2. Befriended(d)'
            BY <1>6, <3>1, <5>1, <6>1 DEF Befriended
          <6> QED
            BY <5>2, <6>2
        <5>4. CASE jobs[d].kind # "accept"
          BY <5>1, <5>2, <5>4 DEF Befriended
        <5> QED
          BY <5>3, <5>4
      <4> QED
        BY <4>1, <4>2
    <3> QED
      BY <1>5, <3>1, <3>2 DEF FriendsSound, TakeTurns
  <2> QED
    BY <2>1, <2>2
<1> QED
  BY <1>7, <1>8, <1>9, <1>10 DEF Inv

LEMMA UnfriendStep ==
  ASSUME Inv, NEW j \in Slots, NEW x \in Users, Unfriend(x), NEW pc \in {"friend", "delete"}, GoOn(j, pc),
         jobs[j].kind = "remove", Aside,
         pc = "friend" => x = jobs[j].user,
         pc = "delete" => x = Other(jobs[j].user) /\ jobs[j].pc = "friend"
  PROVE  Inv'
<1>1. Typed /\ FriendsSound /\ RequestsSound /\ RoomsSound
  BY DEF Inv
<1>2. JobGoesOn(j, pc)
  BY <1>1, JobSteps DEF PcsOf
<1>3. PICK k \in JobType :
        JobBecomes(j, k) /\ k.kind = "remove" /\ k.user = jobs[j].user /\ k.pc = pc
  BY <1>2 DEF JobGoesOn
<1>4. /\ jobs'[j] = k /\ \A d \in Slots : d # j => jobs'[d] = jobs[d]
  BY <1>3 DEF JobBecomes
<1>5. InProgress("remove")' /\ InProgress("remove") /\ (InProgress("accept")' <=> InProgress("accept"))
  BY <1>3, <1>4 DEF InProgress
<1>6. /\ friends' \in [Users -> SUBSET Users] /\ \A u \in Users : u \notin friends'[u]
      /\ ~AreFriends(x)'
      /\ \A u \in Users : AreFriends(u)' => AreFriends(u)
  BY <1>1, Unfriends
<1>7. Typed'
  BY <1>1, <1>3, <1>6 DEF Typed, JobBecomes, Aside
<1>8. RoomsSound'
  BY <1>1, <1>3, <1>4, RoomsFramed DEF Aside
<1>9. RequestsSound'
  BY <1>1, <1>5 DEF RequestsSound, OneRequest, AcceptedAreFriends, Live, Aside
<1>10. FriendsSound'
  <2>1. CASE torn
    BY <2>1 DEF FriendsSound, Aside
  <2>2. CASE ~torn
    <3>1. TakeTurns /\ (\A d \in Slots : Befriended(d) /\ Unfriended(d)) /\ ~InProgress("accept")
      BY <1>1, <1>5, <2>2 DEF FriendsSound, TakeTurns
    <3>2. ASSUME NEW d \in Slots PROVE Befriended(d)' /\ Unfriended(d)'
      <4>1. CASE d = j
        <5>1. jobs'[d] = k
          BY <1>4, <4>1
        <5>2. k.user \in Users /\ Other(k.user) \in Users
          BY <1>1, <1>3, TwoUsers DEF Typed, JobSound
        <5>3. pc = "friend" => ~AreFriends(k.user)'
          BY <1>3, <1>6
        <5>4. pc = "delete" => ~AreFriends(Other(k.user))' /\ ~AreFriends(k.user)'
          <6>1. pc = "delete" => ~AreFriends(jobs[j].user)
            BY <3>1 DEF Unfriended
          <6> QED
            BY <1>3, <1>6, <5>2, <6>1
        <5>5. Befriended(d)'
          BY <1>3, <5>1 DEF Befriended
        <5>6. Unfriended(d)'
          BY <1>3, <5>1, <5>3, <5>4 DEF Unfriended
        <5> QED
          BY <5>5, <5>6
      <4>2. CASE d # j
        <5>1. jobs'[d] = jobs[d]
          BY <1>4, <4>2
        <5>2. Befriended(d)'
          BY <3>1, <5>1 DEF Befriended, InProgress
        <5>3. CASE jobs[d].kind = "remove"
          <6>1. jobs[d].user \in Users /\ Other(jobs[d].user) \in Users
            BY <1>1, <5>3, TwoUsers DEF Typed, JobSound
          <6>2. Unfriended(d)'
            BY <1>6, <3>1, <5>1, <6>1 DEF Unfriended
          <6> QED
            BY <5>2, <6>2
        <5>4. CASE jobs[d].kind # "remove"
          BY <5>1, <5>2, <5>4 DEF Unfriended
        <5> QED
          BY <5>3, <5>4
      <4> QED
        BY <4>1, <4>2
    <3> QED
      BY <1>5, <3>1, <3>2 DEF FriendsSound, TakeTurns
  <2> QED
    BY <2>1, <2>2
<1> QED
  BY <1>7, <1>8, <1>9, <1>10 DEF Inv

(* The step of a job tells its kind. *)
LEMMA KindOfPc ==
  ASSUME Typed, NEW j \in Slots
  PROVE  /\ jobs[j] \in JobType /\ JobSound(jobs[j])
         /\ jobs[j].kind # "none" => jobs[j].user \in Users /\ jobs[j].from \in Users
         /\ jobs[j].pc \in {"sender", "recipient"} => jobs[j].kind = "accept"
         /\ jobs[j].pc = "mark" => jobs[j].kind \in {"accept", "reject"}
         /\ jobs[j].pc \in {"own", "friend", "delete"} => jobs[j].kind = "remove"
         /\ jobs[j].pc \in {"room", "repair"} => jobs[j].kind = "open"
<1>1. jobs[j] \in JobType /\ JobSound(jobs[j])
  BY DEF Typed
<1> QED
  BY <1>1 DEF JobSound, JobType, Kinds, PcsOf

LEMMA AddSenderStep ==
  ASSUME Inv, NEW j \in Slots, AddSender(j)
  PROVE  Inv'
<1>1. /\ jobs[j].kind = "accept" /\ GoOn(j, "recipient") /\ Aside
      /\ jobs[j].from \in Users /\ Befriend(jobs[j].from)
  BY KindOfPc DEF Inv, AddSender, Aside, counts, history
<1>2. PICK x \in Users : x = jobs[j].from
  BY <1>1
<1>3. Befriend(x)
  BY <1>1, <1>2
<1> QED
  BY <1>1, <1>2, <1>3, BefriendStep

LEMMA AddRecipientStep ==
  ASSUME Inv, NEW j \in Slots, AddRecipient(j)
  PROVE  Inv'
<1>1. /\ jobs[j].kind = "accept" /\ jobs[j].pc = "recipient" /\ GoOn(j, "mark") /\ Aside
      /\ jobs[j].user \in Users /\ Befriend(jobs[j].user)
  BY KindOfPc DEF Inv, AddRecipient, Aside, counts, history
<1>2. PICK x \in Users : x = jobs[j].user
  BY <1>1
<1>3. Befriend(x)
  BY <1>1, <1>2
<1> QED
  BY <1>1, <1>2, <1>3, BefriendStep

LEMMA PullOwnStep ==
  ASSUME Inv, NEW j \in Slots, PullOwn(j)
  PROVE  Inv'
<1>1. /\ jobs[j].kind = "remove" /\ GoOn(j, "friend") /\ Aside
      /\ jobs[j].user \in Users /\ Unfriend(jobs[j].user)
  BY KindOfPc DEF Inv, PullOwn, Aside, counts, history
<1>2. PICK x \in Users : x = jobs[j].user
  BY <1>1
<1>3. Unfriend(x)
  BY <1>1, <1>2
<1> QED
  BY <1>1, <1>2, <1>3, UnfriendStep

LEMMA PullFriendStep ==
  ASSUME Inv, NEW j \in Slots, PullFriend(j)
  PROVE  Inv'
<1>1. /\ jobs[j].kind = "remove" /\ jobs[j].pc = "friend" /\ GoOn(j, "delete") /\ Aside
      /\ Other(jobs[j].user) \in Users /\ Unfriend(Other(jobs[j].user))
  BY KindOfPc, TwoUsers DEF Inv, PullFriend, PulledFrom, Aside, counts, history
<1>2. PICK x \in Users : x = Other(jobs[j].user)
  BY <1>1
<1>3. Unfriend(x)
  BY <1>1, <1>2
<1> QED
  BY <1>1, <1>2, <1>3, UnfriendStep

(* A handler ends: the others go on as before. *)
LEMMA EndFacts ==
  ASSUME Typed, NEW j \in Slots, End(j)
  PROVE  /\ jobs' \in [Slots -> JobType] /\ \A d \in Slots : JobSound(jobs'[d])
         /\ jobs'[j].kind = "none" /\ \A d \in Slots : d # j => jobs'[d] = jobs[d]
         /\ InProgress("accept")' => InProgress("accept")
         /\ InProgress("remove")' => InProgress("remove")
<1>1. JobBecomes(j, Idle)
  BY JobEnds
<1>2. /\ jobs' \in [Slots -> JobType] /\ \A d \in Slots : JobSound(jobs'[d])
      /\ jobs'[j].kind = "none" /\ \A d \in Slots : d # j => jobs'[d] = jobs[d]
  BY <1>1, IdleFacts DEF JobBecomes
<1> QED
  BY <1>2 DEF InProgress

LEMMA HandlersKept ==
  ASSUME friends' = friends, NEW j \in Slots, jobs'[j].kind = "none",
         \A d \in Slots : d # j => jobs'[d] = jobs[d]
  PROVE  \A d \in Slots : /\ Befriended(d) => Befriended(d)'
                          /\ Unfriended(d) => Unfriended(d)'
<1> SUFFICES ASSUME NEW d \in Slots
             PROVE  (Befriended(d) => Befriended(d)') /\ (Unfriended(d) => Unfriended(d)')
  OBVIOUS
<1>1. CASE d = j
  BY <1>1 DEF Befriended, Unfriended
<1>2. CASE d # j
  <2>1. jobs'[d] = jobs[d]
    BY <1>2
  <2>2. \A u : AreFriends(u) <=> AreFriends(u)'
    BY DEF AreFriends
  <2> QED
    BY <2>1, <2>2 DEF Befriended, Unfriended
<1> QED
  BY <1>1, <1>2

LEMMA MarkStep ==
  ASSUME Inv, NEW j \in Slots, Mark(j)
  PROVE  Inv'
<1>1. Typed /\ FriendsSound /\ RequestsSound /\ RoomsSound /\ jobs[j].kind \in {"accept", "reject"}
  BY KindOfPc DEF Inv, Mark
<1>2. \E i : i = jobs[j].at
  OBVIOUS
<1>3. PICK i : i = jobs[j].at
  BY <1>2
<1>4. /\ friends' = friends /\ rooms' = rooms /\ keys' = keys /\ crossed' = crossed
      /\ openings' = openings /\ torn' = torn /\ raced' = raced /\ End(j) /\ jobs[j].pc = "mark"
  BY DEF Mark, counts, history
<1>5. /\ jobs' \in [Slots -> JobType] /\ \A d \in Slots : JobSound(jobs'[d])
      /\ jobs'[j].kind = "none" /\ \A d \in Slots : d # j => jobs'[d] = jobs[d]
      /\ InProgress("accept")' => InProgress("accept")
      /\ InProgress("remove")' => InProgress("remove")
  BY <1>1, <1>4, EndFacts
<1>6. RoomsSound'
  BY <1>1, <1>4, <1>5, RoomsFramed
<1>7. CASE jobs[j].kind = "reject"
  <2>1. (i \in Live /\ Changed(i, "rejected")) \/ requests' = requests
    BY <1>1, <1>3, <1>7, StatusSet DEF Mark
  <2>2. Kept({"accept", "remove"})
    BY <1>5, <1>7 DEF Kept
  <2>3. RequestsSound'
    BY <1>1, <1>4, <2>1, <2>2, ChangedRequests, RequestsFramed
  <2>4. Typed'
    BY <1>1, <1>4, <1>5, <2>1 DEF Typed, Changed
  <2> QED
    BY <1>1, <1>4, <1>6, <2>2, <2>3, <2>4, FriendsFramed DEF Inv
<1>8. CASE jobs[j].kind = "accept"
  <2>1. (i \in Live /\ Changed(i, "accepted")) \/ requests' = requests
    BY <1>1, <1>3, <1>8, StatusSet DEF Mark
  <2>2. Typed'
    BY <1>1, <1>4, <1>5, <2>1 DEF Typed, Changed
  <2>3. Live' \subseteq Live
    BY <2>1 DEF Live, Changed
  <2>4. OneRequest'
    BY <1>1, <1>4, <2>3 DEF RequestsSound, OneRequest
  <2>5. torn \/ \A u \in Users : AreFriends(u)'
    <3>1. torn \/ Befriended(j)
      BY <1>1 DEF FriendsSound
    <3>2. jobs[j].user \in Users
      BY <1>1, <1>8, KindOfPc
    <3>3. torn \/ \A u \in Users : AreFriends(u)
      BY <1>4, <1>8, <3>1, <3>2, TwoUsers DEF Befriended
    <3> QED
      BY <1>4, <3>3 DEF AreFriends
  <2>6. FriendsSound'
    <3>1. torn \/ \A d \in Slots : Befriended(d)' /\ Unfriended(d)'
      BY <1>1, <1>4, <1>5, HandlersKept DEF FriendsSound
    <3>2. torn \/ Symmetric'
      <4>1. SUFFICES ASSUME ~torn, NEW u \in Users PROVE AreFriends(Other(u))'
        BY DEF Symmetric
      <4>2. PICK v \in Users : v = Other(u)
        BY TwoUsers
      <4> QED
        BY <2>5, <4>1, <4>2
    <3>3. torn \/ TakeTurns'
      BY <1>1, <1>5 DEF FriendsSound, TakeTurns
    <3> QED
      BY <1>4, <3>1, <3>2, <3>3 DEF FriendsSound
  <2>7. AcceptedAreFriends'
    BY <1>4, <2>5 DEF AcceptedAreFriends
  <2> QED
    BY <1>6, <2>2, <2>4, <2>6, <2>7 DEF Inv, RequestsSound
<1> QED
  BY <1>1, <1>7, <1>8

LEMMA RemoveStep ==
  ASSUME Inv, NEW j \in Slots, NEW u \in Users, Remove(j, u)
  PROVE  Inv'
<1>1. Typed /\ FriendsSound /\ RequestsSound /\ RoomsSound
  BY DEF Inv
<1>2. /\ friends' = friends /\ requests' = requests /\ rooms' = rooms /\ keys' = keys
      /\ openings' = openings /\ crossed' = crossed /\ raced' = raced
      /\ torn' = (torn \/ InProgress("accept")) /\ Begin(j, "remove", u, "own", 0, u, 0)
  BY DEF Remove
<1>3. "remove" \in Kinds /\ "own" \in PcsOf("remove")
  BY DEF Kinds, PcsOf
<1>4. JobStarts(j, "remove", u, "own", 0, u, 0)
  BY <1>1, <1>2, <1>3, JobBegins
<1>5. /\ jobs[j].kind = "none" /\ jobs'[j].kind = "remove" /\ jobs'[j].pc = "own"
      /\ \A d \in Slots : d # j => jobs'[d] = jobs[d]
  BY <1>4, IdleFacts DEF JobStarts, JobBecomes
<1>6. InProgress("remove")' /\ (InProgress("accept")' <=> InProgress("accept"))
  BY <1>5 DEF InProgress
<1>7. \A d \in Slots : Befriended(d) => Befriended(d)'
  BY <1>2, <1>5 DEF Befriended, AreFriends
<1>8. \A d \in Slots : Unfriended(d) => Unfriended(d)'
  BY <1>2, <1>5 DEF Unfriended, AreFriends
<1>9. FriendsSound'
  BY <1>1, <1>2, <1>6, <1>7, <1>8 DEF FriendsSound, TakeTurns
<1>10. RequestsSound'
  BY <1>1, <1>2, <1>6 DEF RequestsSound, OneRequest, AcceptedAreFriends, Live
<1>11. Typed'
  BY <1>1, <1>2, <1>4 DEF Typed, JobStarts, JobBecomes
<1>12. RoomsSound'
  BY <1>1, <1>2, <1>4, RoomsFramed DEF JobStarts, JobBecomes
<1> QED
  BY <1>9, <1>10, <1>11, <1>12 DEF Inv

LEMMA DeleteStep ==
  ASSUME Inv, NEW j \in Slots, DeleteRequest(j)
  PROVE  Inv'
<1>1. Typed /\ FriendsSound /\ RequestsSound /\ RoomsSound /\ jobs[j].kind = "remove"
  BY KindOfPc DEF Inv, DeleteRequest
<1>2. /\ friends' = friends /\ rooms' = rooms /\ keys' = keys /\ crossed' = crossed
      /\ openings' = openings /\ torn' = torn /\ raced' = raced /\ End(j) /\ jobs[j].pc = "delete"
  BY DEF DeleteRequest, counts, history
<1>3. /\ jobs' \in [Slots -> JobType] /\ \A d \in Slots : JobSound(jobs'[d])
      /\ jobs'[j].kind = "none" /\ \A d \in Slots : d # j => jobs'[d] = jobs[d]
      /\ InProgress("accept")' => InProgress("accept")
      /\ InProgress("remove")' => InProgress("remove")
  BY <1>1, <1>2, EndFacts
<1>4. RoomsSound'
  BY <1>1, <1>2, <1>3, RoomsFramed
<1>5. (Live = {} /\ requests' = requests) \/ \E i \in Live : Changed(i, "deleted")
  BY <1>1, StatusSet DEF DeleteRequest, Deletable
<1>6. Live' \subseteq Live
  BY <1>5 DEF Live, Changed
<1>7. OneRequest'
  BY <1>1, <1>2, <1>6 DEF RequestsSound, OneRequest
<1>8. AcceptedAreFriends'
  <2>1. CASE crossed
    BY <1>2, <2>1 DEF AcceptedAreFriends
  <2>2. CASE ~crossed
    <3>1. \A i, k \in Live : i = k
      BY <1>1, <2>2 DEF RequestsSound, OneRequest
    <3>2. Live' = {}
      <4>1. CASE Live = {}
        BY <1>6, <4>1
      <4>2. CASE \E i \in Live : Changed(i, "deleted")
        <5>1. PICK i \in Live : Changed(i, "deleted")
          BY <4>2
        <5>2. i \notin Live'
          BY <5>1 DEF Live, Changed
        <5> QED
          BY <1>6, <3>1, <5>2
      <4> QED
        BY <1>5, <4>1, <4>2
    <3> QED
      BY <3>2 DEF AcceptedAreFriends
  <2> QED
    BY <2>1, <2>2
<1>9. FriendsSound'
  <2>1. torn \/ \A d \in Slots : Befriended(d)' /\ Unfriended(d)'
    BY <1>1, <1>2, <1>3, HandlersKept DEF FriendsSound
  <2>2. torn \/ \A u \in Users : ~AreFriends(u)'
    <3>1. torn \/ Unfriended(j)
      BY <1>1 DEF FriendsSound
    <3>2. jobs[j].user \in Users
      BY <1>1, KindOfPc
    <3>3. torn \/ \A u \in Users : ~AreFriends(u)
      BY <1>1, <1>2, <3>1, <3>2, TwoUsers DEF Unfriended
    <3> QED
      BY <1>2, <3>3 DEF AreFriends
  <2>3. torn \/ Symmetric'
    BY <2>2 DEF Symmetric
  <2>4. torn \/ TakeTurns'
    BY <1>1, <1>3 DEF FriendsSound, TakeTurns
  <2> QED
    BY <1>2, <2>1, <2>3, <2>4 DEF FriendsSound
<1>10. Typed'
  BY <1>1, <1>2, <1>3, <1>5 DEF Typed, Changed
<1> QED
  BY <1>4, <1>7, <1>8, <1>9, <1>10 DEF Inv, RequestsSound

LEMMA FailStep ==
  ASSUME Inv, NEW j \in Slots, Fail(j)
  PROVE  Inv'
<1>1. Typed /\ FriendsSound /\ RequestsSound /\ RoomsSound
  BY DEF Inv
<1>2. /\ friends' = friends /\ requests' = requests /\ rooms' = rooms /\ keys' = keys
      /\ crossed' = crossed /\ openings' = openings /\ raced' = raced /\ End(j)
      /\ torn' = (torn \/ jobs[j].kind \in {"accept", "remove"})
  BY DEF Fail
<1>3. /\ jobs' \in [Slots -> JobType] /\ \A d \in Slots : JobSound(jobs'[d])
      /\ jobs'[j].kind = "none" /\ \A d \in Slots : d # j => jobs'[d] = jobs[d]
  BY <1>1, <1>2, EndFacts
<1>4. RoomsSound'
  BY <1>1, <1>2, <1>3, RoomsFramed
<1>5. Typed'
  BY <1>1, <1>2, <1>3 DEF Typed
<1>6. FriendsSound' /\ RequestsSound'
  <2>1. CASE jobs[j].kind \in {"accept", "remove"}
    <3>1. torn'
      BY <1>2, <2>1
    <3>2. OneRequest'
      BY <1>1, <1>2 DEF RequestsSound, OneRequest, Live
    <3> QED
      BY <3>1, <3>2 DEF FriendsSound, RequestsSound, AcceptedAreFriends
  <2>2. CASE jobs[j].kind \notin {"accept", "remove"}
    <3>1. torn' <=> torn
      BY <1>2, <2>2
    <3>2. Kept({"accept", "remove"})
      BY <1>3, <2>2 DEF Kept
    <3>3. InProgress("accept")' <=> InProgress("accept")
      BY <3>2 DEF InProgress, Kept
    <3>4. InProgress("remove")' <=> InProgress("remove")
      BY <3>2 DEF InProgress, Kept
    <3>5. \A d \in Slots : (Befriended(d) => Befriended(d)') /\ (Unfriended(d) => Unfriended(d)')
      BY <1>2, <1>3, HandlersKept
    <3>6. Symmetric => Symmetric'
      BY <1>2 DEF Symmetric, AreFriends
    <3>7. FriendsSound'
      BY <1>1, <3>1, <3>3, <3>4, <3>5, <3>6 DEF FriendsSound, TakeTurns
    <3>8. RequestsSound'
      BY <1>1, <1>2, <3>1, <3>3, <3>4 DEF RequestsSound, OneRequest, AcceptedAreFriends, Live, AreFriends
    <3> QED
      BY <3>7, <3>8
  <2> QED
    BY <2>1, <2>2
<1> QED
  BY <1>4, <1>5, <1>6 DEF Inv

(* The client keeps the key of the answer, if there is one. *)
LEMMA Keeps ==
  ASSUME Typed, NEW u \in Users, NEW r \in Nat, NEW key \in Nat, Keep(u, r, key)
  PROVE  /\ keys' \in [Users -> SUBSET [room : Nat, key : Nat]]
         /\ \A v \in Users : \A k \in keys'[v] :
              k \in keys[v] \/ (key # 0 /\ k.room = r /\ k.key = key)
<1>1. keys \in [Users -> SUBSET [room : Nat, key : Nat]]
  BY DEF Typed
<1>2. CASE key = 0
  BY <1>1, <1>2 DEF Keep
<1>3. CASE key # 0
  <2>1. keys' = [keys EXCEPT ![u] = keys[u] \cup {[room |-> r, key |-> key]}]
    BY <1>3 DEF Keep
  <2> QED
    BY <1>1, <1>3, <2>1
<1> QED
  BY <1>2, <1>3

LEMMA RoomFacts ==
  ASSUME Typed
  PROVE  /\ rooms \in Seq(Nat) /\ Len(rooms) \in Nat /\ DOMAIN rooms = 1..Len(rooms)
         /\ \A r \in DOMAIN rooms : r \in Nat /\ rooms[r] \in Nat
  BY DEF Typed

LEMMA OpenStep ==
  ASSUME Inv, NEW j \in Slots, NEW u \in Users, OpenDM(j, u)
  PROVE  Inv'
<1>1. Typed /\ FriendsSound /\ RequestsSound /\ RoomsSound
  BY DEF Inv
<1>2. /\ friends' = friends /\ requests' = requests /\ rooms' = rooms /\ torn' = torn
      /\ crossed' = crossed /\ openings' = openings + 1 /\ openings \in Nat
      /\ raced' = (raced \/ InProgress("open"))
  BY <1>1 DEF OpenDM, Typed
<1>3. PICK key \in Nat :
       \/ /\ rooms = <<>>
          /\ Begin(j, "open", u, "room", 0, u, key) /\ keys' = keys
       \/ \E r \in DOMAIN rooms :
            IF Repaired(rooms[r], key)
            THEN Begin(j, "open", u, "repair", r, u, key) /\ keys' = keys
            ELSE jobs' = jobs /\ Keep(u, r, rooms[r])
  BY <1>1 DEF OpenDM, Typed
<1>4. CASE \E r \in DOMAIN rooms : jobs' = jobs /\ Keep(u, r, rooms[r])
  <2>1. PICK r \in DOMAIN rooms : jobs' = jobs /\ Keep(u, r, rooms[r])
    BY <1>4
  <2>2. PICK stored \in Nat : stored = rooms[r]
    BY <1>1, RoomFacts
  <2>3. Keep(u, r, stored) /\ r \in Nat
    BY <1>1, <2>1, <2>2, RoomFacts
  <2>4. /\ keys' \in [Users -> SUBSET [room : Nat, key : Nat]]
        /\ \A v \in Users : \A k \in keys'[v] :
             k \in keys[v] \/ (stored # 0 /\ k.room = r /\ k.key = stored)
    BY <1>1, <2>3, Keeps
  <2>5. Kept({"accept", "remove"})
    BY <2>1 DEF Kept
  <2>6. Typed'
    BY <1>1, <1>2, <2>1, <2>4 DEF Typed
  <2>7. RoomsSound'
    <3>1. KeptSound => KeptSound'
      BY <1>2, <2>2, <2>4 DEF KeptSound
    <3>2. \A d \in Slots : OpeningSound(d) => OpeningSound(d)'
      BY <1>2, <2>1 DEF OpeningSound
    <3> QED
      BY <1>1, <1>2, <2>1, <3>1, <3>2 DEF RoomsSound
  <2> QED
    BY <1>1, <1>2, <2>5, <2>6, <2>7, FriendsFramed, RequestsFramed DEF Inv
<1>5. CASE \/ /\ rooms = <<>>
              /\ Begin(j, "open", u, "room", 0, u, key) /\ keys' = keys
           \/ \E r \in DOMAIN rooms : /\ Repaired(rooms[r], key)
                                      /\ Begin(j, "open", u, "repair", r, u, key) /\ keys' = keys
  <2>1. PICK pc \in {"room", "repair"}, at \in Nat :
          /\ Begin(j, "open", u, pc, at, u, key) /\ keys' = keys
          /\ pc = "room" => rooms = <<>>
          /\ pc = "repair" => at \in DOMAIN rooms /\ rooms[at] = 0 /\ key # 0
    BY <1>1, <1>5, RoomFacts DEF Repaired
  <2>2. "open" \in Kinds /\ pc \in PcsOf("open")
    BY DEF Kinds, PcsOf
  <2>3. JobStarts(j, "open", u, pc, at, u, key)
    BY <1>1, <2>1, <2>2, JobBegins
  <2>4. /\ jobs[j].kind = "none" /\ jobs'[j].kind = "open" /\ jobs'[j].pc = pc
        /\ jobs'[j].at = at /\ jobs'[j].key = key
        /\ \A d \in Slots : d # j => jobs'[d] = jobs[d]
    BY <2>3, IdleFacts DEF JobStarts, JobBecomes
  <2>5. Kept({"accept", "remove"})
    BY <2>4 DEF Kept
  <2>6. Typed'
    BY <1>1, <1>2, <2>1, <2>3 DEF Typed, JobStarts, JobBecomes
  <2>7. RoomsSound'
    <3>1. CASE raced'
      BY <3>1 DEF RoomsSound
    <3>2. CASE ~raced'
      <4>1. ~raced /\ \A d \in Slots : jobs[d].kind # "open"
        BY <1>2, <3>2 DEF InProgress
      <4>2. \A d \in Slots : jobs'[d].kind = "open" => d = j
        BY <2>4, <4>1
      <4>3. OpeningSound(j)'
        BY <1>2, <2>1, <2>4 DEF OpeningSound
      <4>4. \A d \in Slots : OpeningSound(d)'
        BY <4>2, <4>3 DEF OpeningSound
      <4>5. KeptSound'
        BY <1>1, <1>2, <2>1, <4>1 DEF RoomsSound, KeptSound
      <4> QED
        BY <1>1, <1>2, <4>1, <4>2, <4>4, <4>5 DEF RoomsSound
    <3> QED
      BY <3>1, <3>2
  <2> QED
    BY <1>1, <1>2, <2>5, <2>6, <2>7, FriendsFramed, RequestsFramed DEF Inv
<1> QED
  BY <1>3, <1>4, <1>5

(* One call at a time: once it has answered, none is at work. *)
LEMMA OpenEnds ==
  ASSUME Typed, RoomsSound, NEW j \in Slots, jobs[j].kind = "open", End(j)
  PROVE  /\ jobs' \in [Slots -> JobType] /\ \A d \in Slots : JobSound(jobs'[d])
         /\ Kept({"accept", "remove"})
         /\ raced \/ \A d \in Slots : jobs'[d].kind # "open"
<1>1. /\ jobs' \in [Slots -> JobType] /\ \A d \in Slots : JobSound(jobs'[d])
      /\ jobs'[j].kind = "none" /\ \A d \in Slots : d # j => jobs'[d] = jobs[d]
  BY EndFacts
<1>2. Kept({"accept", "remove"})
  BY <1>1 DEF Kept
<1> QED
  BY <1>1, <1>2 DEF RoomsSound

LEMMA SaveStep ==
  ASSUME Inv, NEW j \in Slots, SaveKeys(j)
  PROVE  Inv'
<1>1. Typed /\ FriendsSound /\ RequestsSound /\ RoomsSound /\ jobs[j].kind = "open"
      /\ jobs[j].pc = "repair" /\ jobs[j] \in JobType /\ jobs[j].user \in Users
  BY KindOfPc DEF Inv, SaveKeys
<1>2. PICK u \in Users, r \in Nat, key \in Nat :
        u = jobs[j].user /\ r = jobs[j].at /\ key = jobs[j].key
  BY <1>1 DEF JobType
<1>3. /\ friends' = friends /\ requests' = requests /\ openings' = openings /\ torn' = torn
      /\ crossed' = crossed /\ raced' = raced /\ End(j)
      /\ rooms' = [rooms EXCEPT ![r] = key] /\ Keep(u, r, key)
  BY <1>2 DEF SaveKeys, counts, history
<1>4. /\ jobs' \in [Slots -> JobType] /\ \A d \in Slots : JobSound(jobs'[d])
      /\ Kept({"accept", "remove"})
      /\ raced \/ \A d \in Slots : jobs'[d].kind # "open"
  BY <1>1, <1>3, OpenEnds
<1>5. /\ keys' \in [Users -> SUBSET [room : Nat, key : Nat]]
      /\ \A v \in Users : \A k \in keys'[v] :
           k \in keys[v] \/ (key # 0 /\ k.room = r /\ k.key = key)
  BY <1>1, <1>3, Keeps
<1>6. /\ rooms' \in Seq(Nat) /\ Len(rooms') = Len(rooms) /\ DOMAIN rooms' = DOMAIN rooms
      /\ \A x \in DOMAIN rooms : rooms'[x] = IF x = r THEN key ELSE rooms[x]
  <2>1. rooms \in Seq(Nat) /\ DOMAIN rooms = 1..Len(rooms)
    BY <1>1, RoomFacts
  <2>2. CASE r \in 1..Len(rooms)
    BY <1>3, <2>1, <2>2, ExceptSeq
  <2>3. CASE r \notin 1..Len(rooms)
    <3>1. rooms' = rooms
      BY <1>3, <2>1, <2>3
    <3> QED
      BY <2>1, <2>3, <3>1
  <2> QED
    BY <2>2, <2>3
<1>7. Typed'
  BY <1>1, <1>3, <1>4, <1>5, <1>6 DEF Typed
<1>8. RoomsSound'
  <2>1. CASE raced
    BY <1>3, <2>1 DEF RoomsSound
  <2>2. CASE ~raced
    <3>1. r \in DOMAIN rooms /\ rooms[r] = 0 /\ key # 0 /\ Len(rooms) <= 1 /\ KeptSound
      BY <1>1, <1>2, <2>2 DEF RoomsSound, OpeningSound
    <3>2. ASSUME NEW v \in Users, NEW k \in keys'[v]
          PROVE  k.room \in DOMAIN rooms' /\ k.key # 0 /\ rooms'[k.room] = k.key
      <4>1. CASE k \in keys[v]
        <5>1. k.room \in DOMAIN rooms /\ k.key # 0 /\ rooms[k.room] = k.key
          BY <3>1, <4>1 DEF KeptSound
        <5>2. k.room # r
          BY <3>1, <5>1
        <5> QED
          BY <1>6, <5>1, <5>2
      <4>2. CASE key # 0 /\ k.room = r /\ k.key = key
        BY <1>6, <3>1, <4>2
      <4> QED
        BY <1>5, <4>1, <4>2
    <3>3. KeptSound'
      BY <3>2 DEF KeptSound
    <3>4. \A d \in Slots : jobs'[d].kind # "open"
      BY <1>4, <2>2
    <3> QED
      BY <1>6, <3>1, <3>3, <3>4 DEF RoomsSound, OpeningSound
  <2> QED
    BY <2>1, <2>2
<1> QED
  BY <1>1, <1>3, <1>4, <1>7, <1>8, FriendsFramed, RequestsFramed DEF Inv

LEMMA CreateDMStep ==
  ASSUME Inv, NEW j \in Slots, CreateDM(j)
  PROVE  Inv'
<1>1. Typed /\ FriendsSound /\ RequestsSound /\ RoomsSound /\ jobs[j].kind = "open"
      /\ jobs[j].pc = "room" /\ jobs[j] \in JobType /\ jobs[j].user \in Users
  BY KindOfPc DEF Inv, CreateDM
<1>2. PICK u \in Users, key \in Nat, n \in Nat : u = jobs[j].user /\ key = jobs[j].key /\ n = Len(rooms)
  BY <1>1, RoomFacts DEF JobType
<1>3. /\ friends' = friends /\ requests' = requests /\ openings' = openings /\ torn' = torn
      /\ crossed' = crossed /\ raced' = raced /\ End(j)
      /\ rooms' = Append(rooms, key) /\ Keep(u, n + 1, key)
  BY <1>2 DEF CreateDM, counts, history
<1>4. /\ jobs' \in [Slots -> JobType] /\ \A d \in Slots : JobSound(jobs'[d])
      /\ Kept({"accept", "remove"})
      /\ raced \/ \A d \in Slots : jobs'[d].kind # "open"
  BY <1>1, <1>3, OpenEnds
<1>5. /\ keys' \in [Users -> SUBSET [room : Nat, key : Nat]]
      /\ \A v \in Users : \A k \in keys'[v] :
           k \in keys[v] \/ (key # 0 /\ k.room = n + 1 /\ k.key = key)
  BY <1>1, <1>3, Keeps
<1>6. rooms \in Seq(Nat)
  BY <1>1 DEF Typed
<1>7. /\ rooms' \in Seq(Nat) /\ Len(rooms') = n + 1 /\ DOMAIN rooms' = 1..(n + 1)
      /\ rooms'[n + 1] = key
  BY <1>2, <1>3, <1>6, AppendProperties
<1>8. Typed'
  BY <1>1, <1>3, <1>4, <1>5, <1>7 DEF Typed
<1>9. RoomsSound'
  <2>1. CASE raced
    BY <1>3, <2>1 DEF RoomsSound
  <2>2. CASE ~raced
    <3>1. rooms = <<>> /\ KeptSound
      BY <1>1, <2>2 DEF RoomsSound, OpeningSound
    <3>2. n = 0 /\ DOMAIN rooms = {}
      BY <1>2, <3>1
    <3>3. \A v \in Users : keys[v] = {}
      BY <3>1, <3>2 DEF KeptSound
    <3>4. KeptSound'
      BY <1>5, <1>7, <3>2, <3>3 DEF KeptSound
    <3>5. \A d \in Slots : jobs'[d].kind # "open"
      BY <1>4, <2>2
    <3> QED
      BY <1>7, <3>2, <3>4, <3>5 DEF RoomsSound, OpeningSound
  <2> QED
    BY <2>1, <2>2
<1> QED
  BY <1>1, <1>3, <1>4, <1>8, <1>9, FriendsFramed, RequestsFramed DEF Inv

-----------------------------------------------------------------------------
(* The invariant, and what follows from it. *)

LEMMA InitInv ==
  ASSUME Init
  PROVE  Inv
<1>1. Idle \in JobType /\ JobSound(Idle) /\ Idle.kind = "none"
  BY DEF Idle, JobType, Kinds, JobSound, PcsOf
<1>2. \A j \in Slots : jobs[j] = Idle
  BY DEF Init
<1>3. Typed
  BY <1>1, <1>2 DEF Init, Typed
<1>4. \A u \in Users : ~AreFriends(u)
  BY DEF Init, AreFriends
<1>5. FriendsSound
  BY <1>1, <1>2, <1>4 DEF FriendsSound, TakeTurns, InProgress, Befriended, Unfriended, Symmetric
<1>6. Live = {}
  BY DEF Init, Live
<1>7. RequestsSound
  BY <1>6 DEF RequestsSound, OneRequest, AcceptedAreFriends
<1>8. RoomsSound
  BY <1>1, <1>2 DEF Init, RoomsSound, KeptSound, OpeningSound
<1> QED
  BY <1>3, <1>5, <1>7, <1>8 DEF Inv

LEMMA NextInv ==
  ASSUME Inv, [Next]_vars
  PROVE  Inv'
<1>1. CASE PublishKey
  BY <1>1, QuietStep DEF PublishKey, counts, history
<1>2. ASSUME NEW u \in Users, Search(u) PROVE Inv'
  BY <1>2, QuietStep DEF Search, counts, history
<1>3. ASSUME NEW u \in Users, FetchFriends(u) PROVE Inv'
  BY <1>3, QuietStep DEF FetchFriends, counts, history
<1>4. ASSUME NEW j \in Slots, NEW u \in Users, SendRequest(j, u) \/ Remove(j, u) \/ OpenDM(j, u) PROVE Inv'
  BY <1>4, SendStep, RemoveStep, OpenStep
<1>5. ASSUME NEW j \in Slots, NEW u \in Users, NEW i \in DOMAIN requests, Respond(j, u, i) PROVE Inv'
  BY <1>5, RespondStep
<1>6. ASSUME NEW j \in Slots, CreateRequest(j) \/ ResetRequest(j) \/ AddSender(j) \/ AddRecipient(j) \/ Mark(j)
      PROVE  Inv'
  BY <1>6, CreateStep, ResetStep, AddSenderStep, AddRecipientStep, MarkStep
<1>7. ASSUME NEW j \in Slots, PullOwn(j) \/ PullFriend(j) \/ DeleteRequest(j) PROVE Inv'
  BY <1>7, PullOwnStep, PullFriendStep, DeleteStep
<1>8. ASSUME NEW j \in Slots, SaveKeys(j) \/ CreateDM(j) \/ Fail(j) PROVE Inv'
  BY <1>8, SaveStep, CreateDMStep, FailStep
<1>9. CASE UNCHANGED vars
  BY <1>9, QuietStep DEF vars, counts, history
<1> QED
  BY <1>1, <1>2, <1>3, <1>4, <1>5, <1>6, <1>7, <1>8, <1>9 DEF Next

(* The inductive invariant holds in every state: what each handler has      *)
(* written is still there, acceptances and removals take turns, there is    *)
(* one request, and one room whose key nobody else replaces, each as long   *)
(* as the exception that a property names has not happened.                 *)
THEOREM SocialInvariant == Spec => []Inv
  BY InitInv, NextInv, PTL DEF Spec

(* Friendship is mutual whenever no acceptance and no removal is at work,   *)
(* for any number of handlers of both users: the two writes of              *)
(* respondToRequest and the two of removeFriend are not undone half way     *)
(* unless an acceptance meets a removal or one of them stops.               *)
THEOREM FriendshipIsMutual == Spec => []Mutual
<1>1. Inv => Mutual
  <2>1. SUFFICES ASSUME Inv, ~torn, ~InProgress("accept"), ~InProgress("remove"),
                        NEW u \in Users, NEW v \in Users, v \in friends[u]
                 PROVE  u \in friends[v]
    BY DEF Mutual
  <2>2. v = Other(u) /\ u = Other(v)
    BY <2>1, TwoUsers DEF Inv, Typed
  <2>3. AreFriends(u) => AreFriends(Other(u))
    BY <2>1 DEF Inv, FriendsSound, Symmetric
  <2> QED
    BY <2>1, <2>2, <2>3 DEF AreFriends
<1> QED
  BY <1>1, SocialInvariant, PTL

(* No accepted request is left between users who are not friends, whatever  *)
(* sequence of requests, answers and removals went before: searchUsers and  *)
(* sendFriendRequest never refuse a pair for good, unless two requests      *)
(* crossed or the history is torn.                                          *)
THEOREM NobodyIsLockedOut == Spec => []NotLockedOut
<1>1. Inv => NotLockedOut
  BY DEF Inv, RequestsSound, AcceptedAreFriends, NotLockedOut
<1> QED
  BY <1>1, SocialInvariant, PTL

(* createOrGetDM makes one room of the two, and a client keeps no key that  *)
(* is not the stored one: envelopes are repaired only where they are        *)
(* missing, unless two calls overlapped.                                    *)
THEOREM ConversationsAreOne == Spec => []OneConversation
<1>1. Inv => OneConversation
  BY DEF Inv, RoomsSound, KeptSound, OneConversation
<1> QED
  BY <1>1, SocialInvariant, PTL
=============================================================================
