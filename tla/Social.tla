------------------------------- MODULE Social -------------------------------
(***************************************************************************)
(* Two users as friends and in their direct message room: the friend       *)
(* lists, the FriendRequest documents (friendsController), the rooms that  *)
(* createOrGetDM finds or creates (roomController), and what the two       *)
(* clients show (Sidebar, friendsSlice).                                   *)
(*                                                                         *)
(* None of these handlers uses a transaction: each reads, decides, and     *)
(* writes its documents one after the other.  The only constraint of the   *)
(* database is one request of a sender to a recipient; the two directions  *)
(* are different keys.  The unique index that ChatRoom declares over the   *)
(* participants of direct messages has the key, and so the name, of the    *)
(* plain index declared before it, and is taken as not built.              *)
(*                                                                         *)
(* A client offers what it last saw.  Answers are not lost, and requests   *)
(* that are refused without a write are left out.                          *)
(***************************************************************************)
EXTENDS Integers, Sequences

CONSTANTS
  Users,         \* the two users
  Slots,         \* bound: handlers running at the same time
  MaxRequests,   \* bound: FriendRequest documents created
  MaxRemovals,   \* bound: calls of removeFriend
  MaxOpenings,   \* bound: calls of createOrGetDM
  MaxFaults      \* bound: handlers that stop half way

ASSUME UsersAssumption == \E u, v \in Users : u # v /\ Users = {u, v}
ASSUME BoundsAssumption ==
  {MaxRequests, MaxRemovals, MaxOpenings, MaxFaults} \subseteq Nat

VARIABLES
  friends,    \* User.friends
  requests,   \* the FriendRequest documents, in the order of their creation
  rooms,      \* the direct message rooms; key: of their envelopes, or 0
  keyed,      \* both users have a public key
  jobs,       \* the handlers at work
  found,      \* searchResults: who sees the other in them
  shown,      \* state.friends: who sees the other in it
  keys,       \* the room keys each client has unwrapped and keeps
  removals, openings, faults,   \* so far
  torn,       \* history: an acceptance met a removal, or one of them stopped half way
  crossed,    \* history: there were two requests at a time
  raced       \* history: two calls of createOrGetDM overlapped

counts == <<removals, openings, faults>>
history == <<torn, crossed, raced>>
vars == <<friends, requests, rooms, keyed, jobs, found, shown, keys, counts, history>>

Idle == [kind |-> "none", user |-> "none", pc |-> "idle", at |-> 0, from |-> "none", key |-> 0]

Init ==
  /\ friends = [u \in Users |-> {}] /\ requests = <<>> /\ rooms = <<>> /\ keyed = FALSE
  /\ jobs = [j \in Slots |-> Idle]
  /\ found = [u \in Users |-> FALSE] /\ shown = [u \in Users |-> FALSE]
  /\ keys = [u \in Users |-> {}]
  /\ removals = 0 /\ openings = 0 /\ faults = 0
  /\ torn = FALSE /\ crossed = FALSE /\ raced = FALSE

Other(u) == CHOOSE v \in Users : v # u
AreFriends(u) == Other(u) \in friends[u]

(* Documents that were not deleted; both directions concern both users. *)
Live == {i \in DOMAIN requests : requests[i].status # "deleted"}
Pending == {i \in Live : requests[i].status = "pending"}
InProgress(kind) == \E j \in Slots : jobs[j].kind = kind

Begin(j, kind, u, pc, at, from, key) ==
  /\ jobs[j] = Idle
  /\ jobs' = [jobs EXCEPT ![j] = [kind |-> kind, user |-> u, pc |-> pc, at |-> at,
                                  from |-> from, key |-> key]]
GoOn(j, pc) == jobs' = [jobs EXCEPT ![j].pc = pc]
End(j) == jobs' = [jobs EXCEPT ![j] = Idle]

------------------------------------------------------------------------------
(* The lists of the client.                                                *)

(* searchUsers leaves out friends and users with a pending request. *)
Findable(u) == ~AreFriends(u) /\ Pending = {}
Search(u) ==
  /\ found' = [found EXCEPT ![u] = Findable(u)]
  /\ UNCHANGED <<friends, requests, rooms, keyed, jobs, shown, keys, counts, history>>

(* getFriendsList; the client asks with every change of its tabs and after *)
(* an answer to a request.                                                 *)
Listed(u) == AreFriends(u)
FetchFriends(u) ==
  /\ shown' = [shown EXCEPT ![u] = Listed(u)]
  /\ UNCHANGED <<friends, requests, rooms, keyed, jobs, found, keys, counts, history>>

------------------------------------------------------------------------------
(* sendFriendRequest.                                                      *)

(* Any of two documents may be the one found.  A pending or an accepted one *)
(* refuses the request.                                                    *)
SendRequest(j, u) ==
  /\ found[u] /\ ~AreFriends(u)
  /\ \/ Live = {} /\ Begin(j, "request", u, "create", 0, u, 0)
     \/ \E i \in Live : /\ requests[i].status = "rejected"
                        /\ Begin(j, "request", u, "reset", i, requests[i].sender, 0)
  /\ UNCHANGED <<friends, requests, rooms, keyed, found, shown, keys, counts, history>>

(* The unique index: one document of a sender to a recipient. *)
Unique(u, except) == \A i \in Live \ except : requests[i].sender # u

Sent(u) == found' = [found EXCEPT ![u] = FALSE]

CreateRequest(j) ==
  LET u == jobs[j].user
  IN  /\ jobs[j].pc = "create" /\ End(j)
      /\ IF Unique(u, {})
         THEN /\ Len(requests) < MaxRequests
              /\ requests' = Append(requests, [sender |-> u, status |-> "pending"])
              /\ crossed' = (crossed \/ Live # {})
              /\ Sent(u)
         ELSE UNCHANGED <<requests, crossed, found>>
      /\ UNCHANGED <<friends, rooms, keyed, shown, keys, counts, torn, raced>>

(* A rejected document is sent again, by either of the two.  A save writes  *)
(* what the handler has changed, and fails on a document that is gone.      *)
ResetRequest(j) ==
  LET u == jobs[j].user  i == jobs[j].at
      turned == jobs[j].from # u
  IN  /\ jobs[j].pc = "reset" /\ End(j)
      /\ IF i \in Live /\ (turned => Unique(u, {i}))
         THEN /\ requests' = [requests EXCEPT ![i] =
                   [sender |-> IF turned THEN u ELSE @.sender, status |-> "pending"]]
              /\ Sent(u)
         ELSE UNCHANGED <<requests, found>>
      /\ UNCHANGED <<friends, rooms, keyed, shown, keys, counts, history>>

------------------------------------------------------------------------------
(* respondToRequest.                                                       *)

Respond(j, u, i) ==
  /\ i \in Pending /\ requests[i].sender # u
  /\ \/ /\ Begin(j, "accept", u, "sender", i, requests[i].sender, 0)
        /\ torn' = (torn \/ InProgress("remove"))
     \/ /\ Begin(j, "reject", u, "mark", i, requests[i].sender, 0)
        /\ torn' = torn
  /\ UNCHANGED <<friends, requests, rooms, keyed, found, shown, keys, counts, crossed, raced>>

Befriend(u) == friends' = [friends EXCEPT ![u] = @ \cup {Other(u)}]
AddSender(j) ==
  /\ jobs[j].pc = "sender"
  /\ Befriend(jobs[j].from) /\ GoOn(j, "recipient")
  /\ UNCHANGED <<requests, rooms, keyed, found, shown, keys, counts, history>>

AddRecipient(j) ==
  /\ jobs[j].pc = "recipient"
  /\ Befriend(jobs[j].user) /\ GoOn(j, "mark")
  /\ UNCHANGED <<requests, rooms, keyed, found, shown, keys, counts, history>>

(* The client reads its lists again after the answer (FetchFriends). *)
Mark(j) ==
  LET i == jobs[j].at
      status == IF jobs[j].kind = "accept" THEN "accepted" ELSE "rejected"
  IN  /\ jobs[j].pc = "mark" /\ End(j)
      /\ requests' = IF i \in Live THEN [requests EXCEPT ![i].status = status] ELSE requests
      /\ UNCHANGED <<friends, rooms, keyed, found, shown, keys, counts, history>>

------------------------------------------------------------------------------
(* removeFriend.                                                           *)

Remove(j, u) ==
  /\ shown[u] /\ removals < MaxRemovals /\ removals' = removals + 1
  /\ Begin(j, "remove", u, "own", 0, u, 0)
  /\ torn' = (torn \/ InProgress("accept"))
  /\ UNCHANGED <<friends, requests, rooms, keyed, found, shown, keys, openings, faults,
                 crossed, raced>>

Unfriend(u) == friends' = [friends EXCEPT ![u] = @ \ {Other(u)}]
PullOwn(j) ==
  /\ jobs[j].pc = "own"
  /\ Unfriend(jobs[j].user) /\ GoOn(j, "friend")
  /\ UNCHANGED <<requests, rooms, keyed, found, shown, keys, counts, history>>

\* Mutant: only the list of the caller is changed.
PullOwnAgain(u) == u

PulledFrom(u) == Other(u)
PullFriend(j) ==
  /\ jobs[j].pc = "friend"
  /\ Unfriend(PulledFrom(jobs[j].user)) /\ GoOn(j, "delete")
  /\ UNCHANGED <<requests, rooms, keyed, found, shown, keys, counts, history>>

\* Mutant: the request stays.
NoneFound(u) == {}

(* deleteOne matches either direction; it deletes one document. *)
Deletable(u) == Live
Removed(u) == shown' = [shown EXCEPT ![u] = FALSE]
DeleteRequest(j) ==
  LET u == jobs[j].user
  IN  /\ jobs[j].pc = "delete" /\ End(j)
      /\ IF Deletable(u) = {} THEN requests' = requests
         ELSE \E i \in Deletable(u) : requests' = [requests EXCEPT ![i].status = "deleted"]
      /\ Removed(u)
      /\ UNCHANGED <<friends, rooms, keyed, found, keys, counts, history>>

------------------------------------------------------------------------------
(* createOrGetDM.                                                          *)

(* The second of the two users signs in and publishes a key. *)
PublishKey ==
  /\ ~keyed /\ keyed' = TRUE
  /\ UNCHANGED <<friends, requests, rooms, jobs, found, shown, keys, counts, history>>

(* The client unwraps the key of the answer and keeps it. *)
Keep(u, r, key) ==
  keys' = IF key = 0 THEN keys ELSE [keys EXCEPT ![u] = @ \cup {[room |-> r, key |-> key]}]

\* Mutant: the submitted envelopes replace the stored ones.
AlwaysRepaired(stored, key) == key # 0

Repaired(stored, key) == key # 0 /\ stored = 0

(* handleStartDM makes a new key when it knows a public key of both; the    *)
(* list of friends it looks at may be older than the key of the other.      *)
OpenDM(j, u) ==
  /\ shown[u] /\ AreFriends(u)
  /\ openings < MaxOpenings /\ openings' = openings + 1
  /\ raced' = (raced \/ InProgress("open"))
  /\ \E key \in {0} \cup {k \in {openings + 1} : keyed} :
       \/ /\ rooms = <<>>
          /\ Begin(j, "open", u, "room", 0, u, key) /\ keys' = keys
       \/ \E r \in DOMAIN rooms :
            IF Repaired(rooms[r], key)
            THEN Begin(j, "open", u, "repair", r, u, key) /\ keys' = keys
            ELSE jobs' = jobs /\ Keep(u, r, rooms[r])
  /\ UNCHANGED <<friends, requests, rooms, keyed, found, shown, removals, faults, torn, crossed>>

(* Both envelopes are missing, and saved together. *)
SaveKeys(j) ==
  /\ jobs[j].pc = "repair" /\ End(j)
  /\ rooms' = [rooms EXCEPT ![jobs[j].at] = jobs[j].key]
  /\ Keep(jobs[j].user, jobs[j].at, jobs[j].key)
  /\ UNCHANGED <<friends, requests, keyed, found, shown, counts, history>>

CreateDM(j) ==
  /\ jobs[j].pc = "room" /\ End(j)
  /\ rooms' = Append(rooms, jobs[j].key)
  /\ Keep(jobs[j].user, Len(rooms) + 1, jobs[j].key)
  /\ UNCHANGED <<friends, requests, keyed, found, shown, counts, history>>

(* A write fails, or the server stops: the rest of the handler is not done. *)
Fail(j) ==
  /\ jobs[j] # Idle /\ faults < MaxFaults /\ faults' = faults + 1
  /\ End(j)
  /\ torn' = (torn \/ jobs[j].kind \in {"accept", "remove"})
  /\ UNCHANGED <<friends, requests, rooms, keyed, found, shown, keys, removals, openings,
                 crossed, raced>>

Next ==
  \/ PublishKey
  \/ \E u \in Users : Search(u) \/ FetchFriends(u)
  \/ \E j \in Slots, u \in Users : SendRequest(j, u) \/ Remove(j, u) \/ OpenDM(j, u)
  \/ \E j \in Slots, u \in Users, i \in DOMAIN requests : Respond(j, u, i)
  \/ \E j \in Slots :
       \/ CreateRequest(j) \/ ResetRequest(j)
       \/ AddSender(j) \/ AddRecipient(j) \/ Mark(j)
       \/ PullOwn(j) \/ PullFriend(j) \/ DeleteRequest(j)
       \/ SaveKeys(j) \/ CreateDM(j) \/ Fail(j)

Spec == Init /\ [][Next]_vars

------------------------------------------------------------------------------
(* Friendship is mutual whenever no acceptance and no removal is at work,   *)
(* although the two lists are written one after the other by handlers that  *)
(* overlap.  Excepted are histories in which an acceptance met a removal or *)
(* one of them stopped half way: nothing repairs the lists then.            *)
Mutual ==
  torn \/ InProgress("accept") \/ InProgress("remove") \/
  \A u, v \in Users : v \in friends[u] => u \in friends[v]

(* Two users who are not friends can become friends: no accepted request is *)
(* left to refuse every further one, whatever sequence of requests,         *)
(* answers and removals went before.  Excepted are, beside torn histories,  *)
(* requests that crossed: removeFriend deletes one document of the two.     *)
NotLockedOut ==
  torn \/ crossed \/ InProgress("accept") \/ InProgress("remove") \/
  \A u \in Users : ~AreFriends(u) => \A i \in Live : requests[i].status # "accepted"

(* The two users meet in one room, and every key a client keeps for it is   *)
(* the key of the stored envelopes.  Excepted are calls of createOrGetDM    *)
(* that overlapped: both find no room, or both repair the missing keys and  *)
(* answer with the document in their memory.                                *)
OneConversation ==
  raced \/ /\ Len(rooms) <= 1
           /\ \A u \in Users : \A k \in keys[u] : rooms[k.room] = k.key

==============================================================================
