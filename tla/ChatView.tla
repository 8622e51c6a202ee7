------------------------------ MODULE ChatView ------------------------------
(***************************************************************************)
(* What one client shows of the open room.  The Redux list of messages     *)
(* (chatSlice) has two sources that know nothing of one another: pages     *)
(* that ChatWindow reads over REST, which replace the list, and room       *)
(* events that the recovery applies to IndexedDB and announces             *)
(* (CanonicalReconciler, EventProjectionHandlers,                          *)
(* ProjectionSubscriptionService), which change it in place.  Over it lie  *)
(* the mutations of the user that the server has not confirmed.            *)
(*                                                                         *)
(* A page is put in the list when it arrives, whatever has become of the   *)
(* room and of the list since it was asked for.  Messages are numbered in  *)
(* the order of their timestamps; the server lists those not deleted.      *)
(* Projections follow from the events applied, and live events wait in a   *)
(* buffer until the next recovery (Recovery), so that any number of events *)
(* may be waiting.  hydrateFromCanonical and the history installer have no *)
(* caller in the app.  Left out: overlaid edits, reactions (whose payload  *)
(* the contract refuses, so that their events do not occur), decryption,   *)
(* receipts, typing, and what localStorage hides in this browser alone.    *)
(***************************************************************************)
EXTENDS Integers, Sequences, Functions

CONSTANTS
  Rooms, NoRoom,
  Keys,         \* clientMsgIds of the messages this client sends
  RoomOf,       \* the room of each
  Nobody,       \* the key of a message of somebody else
  PageSize,     \* messages of one answer of getMessagesByRoom
  Slots,        \* bound: pages under way at the same time
  MaxPages,     \* bound: pages asked for
  MaxMessages,  \* bound: messages stored
  MaxEvents,    \* bound: events of all rooms
  MaxInits,     \* bound: inits of the engine, at a restart or for a new token
  OthersPending \* whether edits and reactions, left out, may be pending too

ASSUME KeysAssumption == RoomOf \in [Keys -> Rooms] /\ Nobody \notin Keys /\ NoRoom \notin Rooms
ASSUME BoundsAssumption ==
  /\ PageSize \in Nat \ {0} /\ Slots \subseteq Nat
  /\ {MaxPages, MaxMessages, MaxEvents, MaxInits} \subseteq Nat /\ OthersPending \in BOOLEAN

VARIABLES
  stored,     \* the Message documents
  log,        \* the events of each room
  cursor,     \* events of each room this client has applied
  list,       \* chat.messages
  current,    \* rooms.currentRoom
  loading,    \* isLoading of ChatWindow
  hasMore,
  pages,      \* the calls of GET /messages under way
  rows,       \* the outbox row of each message sent: none, open, acked, rejected
  overlay,    \* optimistic messages
  deletions,  \* optimistic deletions: of a message, or of an unconfirmed key
  asked,      \* pages asked for so far
  inits,      \* inits of the engine so far, the first one aside
  overtaken,  \* history: the list is not a page of the room with all events since
  unordered,  \* history: a page was asked for below a first that is not the oldest
  hasty,      \* history: keys deleted while their optimistic copy was there
  replayed,   \* history: keys back in the overlay although the server had them
  removed,    \* history: keys the user has deleted here
  forgotten   \* history: those of them whose deletion left the overlay

server == <<stored, log>>
window == <<current, loading, hasMore>>
outbox == <<rows, overlay, deletions>>
past == <<hasty, replayed, removed, forgotten>>
history == <<overtaken, unordered, past>>
vars == <<server, cursor, list, window, pages, outbox, asked, inits, history>>

NoPage == [kind |-> "none", room |-> NoRoom, live |-> FALSE, phase |-> "idle",
           base |-> <<>>, items |-> <<>>, full |-> FALSE, at |-> 0]

Init ==
  /\ stored = <<>> /\ log = [r \in Rooms |-> <<>>]
  /\ cursor = [r \in Rooms |-> 0]
  /\ list = <<>> /\ current = NoRoom /\ loading = FALSE /\ hasMore = TRUE
  /\ pages = [s \in Slots |-> NoPage]
  /\ rows = [k \in Keys |-> "none"] /\ overlay = {} /\ deletions = {}
  /\ asked = 0 /\ inits = 0
  /\ overtaken = TRUE /\ unordered = FALSE /\ hasty = {} /\ replayed = {}
  /\ removed = {} /\ forgotten = {}

Messages == DOMAIN stored
Has(k) == \E m \in Messages : stored[m].key = k

------------------------------------------------------------------------------
(* The server.                                                             *)

Log(r, type, m) ==
  /\ SumFunctionOnSet([q \in Rooms |-> Len(log[q])], Rooms) < MaxEvents
  /\ log' = [log EXCEPT ![r] = Append(@, [type |-> type, m |-> m])]

Store(r, k) ==
  /\ Len(stored) < MaxMessages
  /\ stored' = Append(stored, [room |-> r, key |-> k, edited |-> FALSE, deleted |-> FALSE])
  /\ Log(r, "created", Len(stored) + 1)

(* Another member writes a message. *)
Post(r) ==
  /\ Store(r, Nobody)
  /\ UNCHANGED <<cursor, list, window, pages, outbox, asked, inits, history>>

(* The server asks nothing about an earlier deletion. *)
Rewrite(m) ==
  /\ stored' = [stored EXCEPT ![m].edited = TRUE]
  /\ Log(stored[m].room, "edited", m)

(* The sender edits, or deletes, a message on another device. *)
Edit(m) ==
  /\ Rewrite(m)
  /\ UNCHANGED <<cursor, list, window, pages, outbox, asked, inits, history>>

Delete(m) ==
  /\ stored' = [stored EXCEPT ![m].deleted = TRUE]
  /\ Log(stored[m].room, "deleted", m)

DeleteElsewhere(m) ==
  /\ ~stored[m].deleted
  /\ Delete(m)
  /\ UNCHANGED <<cursor, list, window, pages, outbox, asked, inits, history>>

Listed(r, before) ==
  {m \in Messages : stored[m].room = r /\ ~stored[m].deleted /\ m < before}

Entry(m, text) == [m |-> m, text |-> text, deleted |-> FALSE]

(* getMessagesByRoom: the newest ones, oldest first. *)
PagesOf(S) ==
  {seq \in UNION {[1..n -> S] : n \in 0..PageSize} :
     /\ \A i, j \in DOMAIN seq : i < j => seq[i] < seq[j]
     /\ \A m \in S, i \in DOMAIN seq : m > seq[i] => \E j \in DOMAIN seq : seq[j] = m
     /\ Len(seq) = PageSize \/ \A m \in S : \E i \in DOMAIN seq : seq[i] = m}

Entries(seq) ==
  [i \in DOMAIN seq |-> Entry(seq[i], IF stored[seq[i]].edited THEN "edited" ELSE "first")]

------------------------------------------------------------------------------
(* The outbox of this client (Outbox) and its overlay.                     *)

(* enqueueMutation: the row, then the optimistic copy. *)
SendMessage(k) ==
  /\ rows[k] = "none" /\ current = RoomOf[k]
  /\ rows' = [rows EXCEPT ![k] = "open"]
  /\ overlay' = overlay \cup {k}
  /\ UNCHANGED <<server, cursor, list, window, pages, deletions, asked, inits, history>>

(* A message is stored once, however often it is sent. *)
Accept(k) ==
  /\ rows[k] = "open" /\ ~Has(k)
  /\ Store(RoomOf[k], k)
  /\ UNCHANGED <<cursor, list, window, pages, outbox, asked, inits, history>>

(* The overlay stays until the event comes. *)
Acknowledge(k) ==
  /\ rows[k] = "open" /\ Has(k)
  /\ rows' = [rows EXCEPT ![k] = "acked"]
  /\ UNCHANGED <<server, cursor, list, window, pages, overlay, deletions, asked, inits, history>>

(* A refusal for good, of a message that an earlier attempt may have stored. *)
Reject(k) ==
  /\ rows[k] = "open"
  /\ rows' = [rows EXCEPT ![k] = "rejected"]
  /\ overlay' = overlay \ {k}
  /\ UNCHANGED <<server, cursor, list, window, pages, deletions, asked, inits, history>>

(* handleDelete on what is shown: the messageId of an optimistic copy is    *)
(* its key, which the server does not know.                                *)
Deletion(k, m) == [key |-> k, m |-> m, sent |-> FALSE]
DeleteMessage(k, m) ==
  /\ current = RoomOf[k] /\ \A d \in deletions : d.key # k
  /\ IF m = 0 THEN k \in overlay
     ELSE stored[m].key = k /\ \E i \in DOMAIN list : list[i].m = m /\ ~list[i].deleted
  /\ deletions' = deletions \cup {Deletion(k, m)}
  /\ hasty' = IF k \in overlay THEN hasty \cup {k} ELSE hasty
  /\ removed' = removed \cup {k} /\ forgotten' = forgotten \ {k}
  /\ UNCHANGED <<server, cursor, list, window, pages, rows, overlay, asked, inits,
                 overtaken, unordered, replayed>>

(* Sent without a callback, taken as done.  The server may refuse it. *)
SendDeletion(d) ==
  /\ d \in deletions /\ ~d.sent
  /\ deletions' = (deletions \ {d}) \cup {[d EXCEPT !.sent = TRUE]}
  /\ \/ d.m # 0 /\ Delete(d.m)
     \/ UNCHANGED server
  /\ UNCHANGED <<cursor, list, window, pages, rows, overlay, asked, inits, history>>

------------------------------------------------------------------------------
(* The pages.                                                              *)

Free(s) == pages[s] = NoPage /\ \A t \in Slots : t < s => pages[t] # NoPage
Ask(s, kind, r, base) ==
  /\ Free(s) /\ asked < MaxPages /\ asked' = asked + 1
  /\ pages' = [pages EXCEPT ![s] =
       [NoPage EXCEPT !.kind = kind, !.room = r, !.live = TRUE, !.phase = "asked", !.base = base]]

(* handleRoomSelect clears the list, and the effect of ChatWindow asks for  *)
(* the newest page.                                                        *)
Select(s, r) ==
  /\ current # r
  /\ current' = r /\ loading' = TRUE
  /\ list' = <<>>
  /\ Ask(s, "fetch", r, <<>>)
  /\ overtaken' = TRUE
  /\ UNCHANGED <<server, cursor, hasMore, outbox, inits, unordered, past>>

(* setCurrentRoom(null): the window goes, what it asked for still comes. *)
Close ==
  /\ current # NoRoom
  /\ current' = NoRoom /\ loading' = FALSE /\ hasMore' = TRUE
  /\ pages' = [s \in Slots |-> IF pages[s] = NoPage THEN NoPage ELSE [pages[s] EXCEPT !.live = FALSE]]
  /\ overtaken' = TRUE
  /\ UNCHANGED <<server, cursor, list, outbox, asked, inits,
                 unordered, past>>

(* loadMoreMessages takes the timestamp of the first message of the list,   *)
(* of whatever room, and keeps the list of the moment.  isLoadingMore does  *)
(* not hold it back: the layout effect of the next render clears it.        *)
InRoom(i) == stored[list[i].m].room = current
LoadMore(s) ==
  /\ current # NoRoom /\ ~loading /\ hasMore /\ list # <<>>
  /\ Ask(s, "more", current, list)
  /\ unordered' = (unordered \/ \E i \in DOMAIN list : InRoom(i) /\ list[i].m < list[1].m)
  /\ UNCHANGED <<server, cursor, list, window, outbox, inits, overtaken, past>>

Serve(s) ==
  LET p == pages[s]
      before == IF p.kind = "more" THEN p.base[1].m ELSE MaxMessages + 1
  IN  /\ p.phase = "asked"
      /\ \E seq \in PagesOf(Listed(p.room, before)) :
           pages' = [pages EXCEPT ![s] = [p EXCEPT !.phase = "served", !.items = Entries(seq),
                                                   !.full = Len(seq) = PageSize,
                                                   !.at = Len(log[p.room])]]
      /\ UNCHANGED <<server, cursor, list, window, outbox, asked, inits, history>>

(* Events that a page does not know have been applied before it arrives. *)
Passed(p) == cursor[p.room] > p.at

(* setIsLoading and setHasMore of a window that is gone do nothing. *)
Done(s) ==
  /\ pages' = [pages EXCEPT ![s] = NoPage]
  /\ loading' = IF pages[s].live /\ pages[s].kind = "fetch" THEN FALSE ELSE loading

ArriveFetch(s) ==
  LET p == pages[s]
  IN  /\ p.kind = "fetch" /\ p.phase = "served"
      /\ list' = p.items
      /\ hasMore' = IF p.live THEN p.full ELSE hasMore
      /\ Done(s)
      /\ overtaken' = (p.room # current \/ Passed(p))
      /\ UNCHANGED <<server, cursor, current, outbox, asked, inits, unordered, past>>

ArriveMore(s) ==
  LET p == pages[s]
  IN  /\ p.kind = "more" /\ p.phase = "served"
      /\ list' = IF p.items = <<>> THEN list ELSE p.items \o p.base
      /\ hasMore' = IF p.live THEN p.full ELSE hasMore
      /\ Done(s)
      /\ overtaken' = (overtaken \/ p.room # current \/ p.base # list \/ Passed(p))
      /\ UNCHANGED <<server, cursor, current, outbox, asked, inits, unordered, past>>

PageFails(s) ==
  /\ pages[s].phase = "asked"
  /\ Done(s)
  /\ UNCHANGED <<server, cursor, list, current, hasMore, outbox, asked, inits, history>>

------------------------------------------------------------------------------
(* The recovery: the next event of a room, in IndexedDB and in the list.   *)

Applied(type, m) ==
  \E i \in 1..cursor[stored[m].room] : log[stored[m].room][i] = [type |-> type, m |-> m]
Projected(m) == Applied("created", m) /\ ~Applied("deleted", m)

\* Mutant: nobody looks whether the message is there already.
AddAgain(m) == Append(list, Entry(m, "first"))

\* Mutant: a message is known by its clientMsgId, which those of others lack.
AddByKey(m) ==
  IF \E i \in DOMAIN list : stored[list[i].m].key = stored[m].key THEN list
  ELSE Append(list, Entry(m, "first"))

(* addMessage; the payload of the event is the message as it was created. *)
AddMessage(m) ==
  IF \E i \in DOMAIN list : list[i].m = m THEN list ELSE Append(list, Entry(m, "first"))

(* updateMessage and deleteMessage find the first entry of the message. *)
Change(m, E(_)) ==
  LET S == {i \in DOMAIN list : list[i].m = m}
  IN  IF S = {} THEN list
      ELSE LET i == CHOOSE i \in S : \A j \in S : i <= j IN [list EXCEPT ![i] = E(list[i])]
SetText(m, text) == LET E(e) == [e EXCEPT !.text = text] IN Change(m, E)
SetDeleted(m) == LET E(e) == [e EXCEPT !.deleted = TRUE, !.text = "blank"] IN Change(m, E)

\* Mutant: an event never takes the optimistic copy away.
Unresolved(m) == overlay

Resolved(m) == overlay \ {stored[m].key}

(* handleMessageEdited reads newContent, which the payload does not have.   *)
ListAfter(e) ==
  CASE e.type = "created" -> AddMessage(e.m)
    [] e.type = "edited" -> IF Projected(e.m) THEN SetText(e.m, "blank") ELSE list
    [] e.type = "deleted" -> IF Projected(e.m) THEN SetDeleted(e.m) ELSE list

ApplyEvent(r) ==
  /\ cursor[r] < Len(log[r])
  /\ LET e == log[r][cursor[r] + 1]
     IN  /\ list' = ListAfter(e)
         /\ overlay' = IF e.type = "created" THEN Resolved(e.m) ELSE overlay
  /\ cursor' = [cursor EXCEPT ![r] = @ + 1]
  /\ UNCHANGED <<server, window, pages, rows, deletions, asked, inits, history>>

(* _rehydrateOutboxOverlay: the overlay becomes what the outbox holds      *)
(* unanswered, but for rows that are being validated; of deletions, those   *)
(* not sent.                                                                *)
Refill ==
  \E R \in SUBSET {k \in Keys : rows[k] = "open"} :
    /\ overlay' = R
    /\ replayed' = replayed \cup {k \in R \ overlay : Has(k)}
    /\ deletions' = {d \in deletions : ~d.sent}
    /\ forgotten' = forgotten \cup {d.key : d \in {d \in deletions : d.sent}}

(* _resetWronglyRejectedMutations, after the overlay is filled.             *)
Retried == rows' = [k \in Keys |-> IF rows[k] = "rejected" THEN "open" ELSE rows[k]]

(* SyncEngine.init for a new token, in the middle of it all.  The overlay   *)
(* is left alone when nothing at all is pending.                            *)
Rehydrate ==
  /\ inits < MaxInits /\ inits' = inits + 1
  /\ Retried
  /\ \/ Refill /\ (OthersPending \/ overlay' # {} \/ deletions' # {})
     \/ /\ \A d \in deletions : d.sent
        /\ UNCHANGED <<overlay, deletions, replayed, forgotten>>
  /\ UNCHANGED <<server, cursor, list, window, pages, asked, overtaken, unordered, hasty, removed>>

(* The app starts again. *)
Reload ==
  /\ inits < MaxInits /\ inits' = inits + 1
  /\ list' = <<>> /\ current' = NoRoom /\ loading' = FALSE /\ hasMore' = TRUE
  /\ pages' = [s \in Slots |-> NoPage]
  /\ Refill /\ Retried
  /\ overtaken' = TRUE
  /\ UNCHANGED <<server, cursor, asked, unordered, hasty, removed>>

Next ==
  \/ \E r \in Rooms : Post(r) \/ ApplyEvent(r)
  \/ \E m \in Messages : Edit(m) \/ DeleteElsewhere(m)
  \/ \E k \in Keys : SendMessage(k) \/ Accept(k) \/ Acknowledge(k) \/ Reject(k)
  \/ \E k \in Keys, m \in {0} \cup Messages : DeleteMessage(k, m)
  \/ \E d \in deletions : SendDeletion(d)
  \/ \E s \in Slots, r \in Rooms : Select(s, r)
  \/ \E s \in Slots : LoadMore(s) \/ Serve(s) \/ ArriveFetch(s) \/ ArriveMore(s) \/ PageFails(s)
  \/ Close \/ Rehydrate \/ Reload

Spec == Init /\ [][Next]_vars

------------------------------------------------------------------------------
(* selectVisibleMessages.                                                  *)

Hidden(k, m) == \E d \in deletions : d.m = m /\ d.key = k

(* Entries of the open room that are shown with their content. *)
Legible(i) ==
  /\ InRoom(i) /\ ~list[i].deleted
  /\ ~Hidden(stored[list[i].m].key, list[i].m)

Optimistic(k) ==
  /\ k \in overlay /\ RoomOf[k] = current
  /\ \A i \in DOMAIN list : ~(InRoom(i) /\ stored[list[i].m].key = k)

(* A message of the open room is shown once: the list does not hold it twice *)
(* and no optimistic copy stands next to it, although pages, events and the *)
(* overlay each bring it.  Excepted are lists paged back from a first       *)
(* message that was not the oldest, as when the recovery appended old ones. *)
ShownOnce ==
  \/ unordered
  \/ /\ \A i, j \in DOMAIN list : InRoom(i) /\ list[i].m = list[j].m => i = j
     /\ \A i \in DOMAIN list : InRoom(i) => ~Optimistic(stored[list[i].m].key)

(* The list keeps up with what the client has applied: from its first       *)
(* message on, it holds every message whose creation was applied and that   *)
(* is not deleted, no text that an applied edit has replaced, and no        *)
(* content that an applied deletion has taken.  (What an edit puts in its   *)
(* place is no text at all, see ListAfter.)  Excepted is a list that was    *)
(* overtaken: a page came for another room, or later than events or a       *)
(* change of the list it did not know; or paged back from a first message   *)
(* that was not the oldest (unordered).                                     *)
KeepsUp ==
  overtaken \/ unordered \/ \A m \in Messages :
    LET at == {i \in DOMAIN list : list[i].m = m}
    IN  stored[m].room # current \/
        /\ list # <<>> /\ m >= list[1].m /\ Projected(m) /\ ~stored[m].deleted => at # {}
        /\ \A i \in at : /\ Applied("edited", m) => list[i].deleted \/ list[i].text # "first"
                         /\ Applied("deleted", m) => list[i].deleted

(* A message of this user stays gone, in the list and as an optimistic copy, *)
(* once the user has deleted it here or its deletion was applied.  Excepted  *)
(* are keys deleted while the copy was there, copies that a later init       *)
(* brought back for a message the server had, deletions made here that such  *)
(* an init dropped because they were sent (forgotten), and for the list one  *)
(* that was overtaken or unordered.                                          *)
StaysGone == \A k \in Keys \ (hasty \cup replayed) :
  LET gone == \/ k \in removed \ forgotten
              \/ \E m \in Messages : stored[m].key = k /\ Applied("deleted", m)
  IN  gone => /\ ~Optimistic(k)
              /\ overtaken \/ unordered \/ \A i \in DOMAIN list : stored[list[i].m].key = k => ~Legible(i)

==============================================================================
