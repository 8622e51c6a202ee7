# Secure chatroom: a TLA+ model of its server and its client engine

This directory specifies the parts of the chatroom whose correctness depends on
what overlaps with what: the server's transactions over a room, the client's
recovery by cursor, the client's outbox, calls and presence, refresh sessions
shared by several tabs, attachments, the list of messages on the screen, the screen
of a call, friends and direct messages, and the backup, restore and purge of the
local stores. TLC checks small instances; TLAPS proves, for every size, the safety
of the server's rooms and of their log, which implements its abstract specification,
and that of the recovery, the outbox, calls, sessions, attachments, friends, direct messages and
the local stores.

## The system

A Node server (`server/src`) keeps group rooms, messages, identities and event
streams in MongoDB and serves REST and Socket.IO. A React client (`client/src`,
also packaged by Capacitor) keeps an encrypted projection of them in IndexedDB.

| Component | State | Operations | Model |
| --- | --- | --- | --- |
| Room mutations and event log (`MessageService`, `RoomEventService`, `SequenceService`, `groupController`, `cryptoController`, part of `roomController`) | `ChatRoom`, `RoomSequence`, `RoomEvent`, `Message` | create, edit, delete, annotate; add, kick, leave, remove, promote, demote; update; rotate the key | `RoomServer`, `RoomLog` |
| Identity reset (`authController.resetIdentity`) | `User.identityVersion`, `IdentityTransition`, `UserSequence`, `UserEvent` | reset | `RoomServer` |
| Retention (`RetentionService`) | `minimumRetainedSequence`, `RoomEvent` | prune | `RoomServer`, `Recovery` |
| Sync endpoints (`syncController`) | none of its own | syncUserEvents, syncRoomEvents, fullResync | `Recovery` (the first two) |
| Recovery client (`RecoveryCoordinator`, `CanonicalReconciler`, `EventProjectionHandlers`, `PlatformLifecycleService`, `SyncEngine`) | cursors, processed events, projections; state, generation, promise | trigger, cancel, the loop, apply | `Recovery` |
| Account cleanup (`LocalAccountCleanupService`) | all stores of an account | purge | `Backup` store by store; `Recovery` (what a logout leaves) |
| Backup and restore (`DatabaseBackupService`, `SyncEngine.init`) | the stores, the sentinel in `sync_meta`, the exported file | export, restore, check of the sentinel | `Backup` |
| Outbox (`OutboxService`, `SyncEngine`, `socket.ts`, the `send_message` handler) | `offline_queue_v3` | enqueue, flush, process an item, restart | `Outbox` |
| Refresh sessions (`authController`, `api.ts`, `authSlice`, `App`) | `RefreshSession`, the cookie, the state of each tab, its queue of requests | login, signup, refresh, bootstrap, revocations, logout | `Sessions` |
| Calls and presence (`socketHandlers`) | `userSockets`, `activeCalls`, `CallLog`, `isOnline` | connect, initiate, accept, reject, end, disconnect | `Calls` |
| Call screen (`CallContext`, `webrtc`) | `callState`, `callStateRef`, the camera, the peer connection | ring, answer, hang up, the messages of the server | `CallScreen` |
| Media (`GridFSService`, `uploadController`, `uploadService`, `MessageService`) | GridFS files, uploads, the messages that carry them | upload by chunks, bind, forward, delete, prune | `Media` |
| Open room (`ChatWindow`, `chatSlice`, `ProjectionSubscriptionService`, `messageController`) | the list, its pages under way, the optimistic overlay | fetch, load more, apply, send, edit, delete, select, restart | `ChatView` |
| Friends and direct messages (`friendsController`, `createOrGetDM`, `friendsSlice`, `Sidebar`) | `User.friends`, `FriendRequest`, DM rooms, unwrapped keys | search, request, respond, remove, open | `Social` |
| Cleanup intents (`CleanupService`) | `cleanup_intents` | process | planned |
| Snapshot installer, history installer, live buffer, transition recovery | | | not modelled: not reached by the code as it is (below) |
| Search, previews, push, cryptography, migrations, UI, native shells, middleware | | | not modelled: stateless, one-off or presentation |

How they interact. A client writes a mutation to its outbox and sends it over a
socket; the server runs it as a transaction that allocates numbers in the
room's log and appends events; the controllers then broadcast. The client
buffers what is broadcast and never drains the buffer (`RecoveryCoordinator`
184-192), so that events reach the projections through recovery alone: the
client asks `/sync/user` and `/sync/room/:id` for what follows its cursors and
applies each event in one IndexedDB transaction. The log is therefore the
contract between the server and its clients, and `RoomLog` states it by itself.

What is hard in this code: transactions over one room or one user that overlap
(allocation of numbers, checks made on a snapshot, a read outside the session);
retries over a second socket; loops of `await`s that are cancelled and
restarted while one of their requests is out; retention between two reads;
restarts between two writes of a status. `PROJECT.json` lists each of these
hazards at its line with the properties aimed at it.

What makes each component correct:

- **log**: no gaps, no duplicates, append-only, dropped only from below;
- **messages**: stored once, never under a key or an identity that a committed
  change has made stale;
- **membership and keys**: a change of members stops messages until a rotation
  made for exactly the new members; admins are members; every reset of an
  identity is answered;
- **recovery**: each event applied once and in order, cursors that mean what
  they say, one loop at a time, READY only when caught up, and every run ends that
  does not meet the same full page again and again;
- **outbox**: acknowledged means stored, rejected means refused, begun in
  order, nothing forgotten;
- **calls**: two entries per call that agree, no call unlogged, completed means
  answered, and nobody busy or online who has left;
- **call screen**: it agrees with the server, and nothing stays open behind it;
- **sessions**: one usable session in a family, no sign-out without a cause, no
  request left waiting;
- **media**: what is shown can be read, what is kept is needed, what is abandoned
  goes;
- **open room**: each message once, nothing applied is missing on the screen or
  shown as it was before, what is deleted stays gone;
- **friends**: both or neither, nobody locked out, one conversation with one key;
- **local stores**: no cursor or marker without its messages, nothing left after a
  sign-out.

## Modules

| Module | Role |
| --- | --- |
| `RoomLog` | what a room's log promises: append or drop a prefix |
| `RoomServer` | the server's handlers as transactions; implements `RoomLog` |
| `RoomServerProofs` | the theorems about `RoomServer`, and that it implements `RoomLog` |
| `Recovery` | one client replaying its streams from the sync endpoints |
| `RecoveryProofs` | the theorems about `Recovery` |
| `Outbox` | one client's outbox against the `send_message` handler |
| `Calls` | sockets, calls and presence on the server |
| `CallsProofs` | the theorems about `Calls` |
| `CallScreen` | the two clients of a call over the server's handlers |
| `ScreenProofs` | the theorems about `ChatView` and `CallScreen`, what the user sees |
| `Sessions` | refresh sessions of one account, its tabs and their requests |
| `SessionsProofs` | the theorems about `Sessions` |
| `Media` | attachments between GridFS and the messages |
| `MediaProofs` | the theorems about `Media` |
| `ChatView` | one client's list of messages under pages, events and its own mutations |
| `Social` | two users as friends and in their direct message room |
| `SocialProofs` | the theorems about `Social` |
| `Backup` | one account's IndexedDB under export, restore, purge and recovery |
| `StoresProofs` | the theorems about `Outbox` and `Backup`, the two components of a client's IndexedDB |
| `MC...` | the instances for TLC |

`RoomServer` implements `RoomLog` (checked as a refinement, and proved). `Recovery` builds
on the same promise: its server half is the state of a `RoomLog` whose entries
are reduced to their numbers, with `Append` as `PostEvent` and `ChangeAccess`
and `Drop` as `Prune`. `Outbox`'s server half is `CreateMessage` with the
outcomes that `RoomServer` gives it: refused, stored once, failed. In the same
way a transaction of `RoomServer` is one step of `Media` and `ChatView`, and a
page of `Recovery` is one of `Backup`; `ChatView` takes from `Recovery` that
events are applied once and in the order of their room.

### RoomServer

`room[r]` is the `ChatRoom` document: members, admins, owner, `keys[u]` (the
identity version of `u`'s envelope, 0 for none), `roomKeyVersion`,
`membershipRevision`, `cryptoState`, `latestSequence` and
`minimumRetainedSequence`. `events`, `messages`, `transitions` and `userEvents`
are the collections, `identityVersion` and `userLatest` the counters.

`tx[q]` is a request with the writes its transaction has buffered. MongoDB
reads from a snapshot taken when the transaction starts and lets only the first
of two overlapping writers of a document commit, so that a handler is a single
action that reads the committed state, goes through the handler's checks in
their order and leaves its writes in `tx[q]`; `Commit` installs them and aborts
every open transaction with a document in common (`withTransaction` runs such a
handler again: a new action of the same request). `Abort` is an error, a lost
connection or a crash at any point before the commit. Two things do not go
through the transaction in the code and do not in the model: `createRoom`
inserts its document at once, and `rotateKey` validates its envelopes against
users read outside the session, a step of its own (`ValidateRoomEnvelopes`).
Payload contracts are checked at the commit, as by the hook of the event models.

Abstractions: a message's content is original, edited or empty; reactions,
receipts and pins are the one event they append; names and colours are left
out; mutation ids are fresh by construction, so `assertUniqueMutation` never
objects; the 15-minute window of edits may be open or closed at any time, as no
clock is kept. A request quotes the room key version and the identity version,
and one that quotes others than the snapshot's is refused, which changes nothing.

### Recovery

One action per `await` of the loop: what JavaScript runs between two of them is
a single step. `run` is the loop in progress with its locals (stream, page,
`hasMore`, the rooms left, the pass), `sync` the coordinator's fields
(`currentState`, `currentGenerationId`, `activeRecoveryPromise`) with the app's
state, `idb` the stores: cursors, the applied events in their order, the room
projections. `idb.purged` and `run.goal` are history variables. The server gets
events, membership changes and prunes at any moment, also between the two reads
of `syncRoomEvents` (`AuthorizeSync`, `FindRoomEvents`). The app may be paused,
resumed, logged out, logged in and reloaded at any moment; a request may fail.

Two kinds of events a client cannot read are fixed by constants: of a type it
lacks (skipped, the cursor stays) and of a newer version (the run stops in
`CLIENT_UPGRADE_REQUIRED`).

### Outbox

`queue` holds the rows: status, order, and whether `nextAttemptAt` has come.
`flushes` are the calls of `flush()` in progress, each with the list of rows it
read at its start and its own blocked rooms; they interleave at every await.
`wire` holds the requests emitted and not yet handled, in any order, as they go
over reconnecting sockets; a request may be handled after the client has given
up waiting, and its answer may be lost. The server refuses for good what is `Invalid`
(`INVALID_PAYLOAD`: a text over 10000 characters, which the input of `ChatWindow` does not
prevent, or an empty one that is forwarded; `FORBIDDEN`: another sender than the session's) in
any room, and what its room refuses. Any read or write of the store may fail
(`StoreFails`): `flush` logs what is not `ROOM_BLOCKED` and goes on, and the row keeps its
status. `InitAgain` is `SyncEngine.init` in mid-session, which every new token brings,
`Restart` a stop of the app at any point. `begun` and `stranded` are history
variables; `stranded` has the messages left `VALIDATING`, which no flush reads.

### Calls

`sock[s]` is the phase of a connection: it joins, is live once the listeners of
the connection handler are set, and closes; one that drops, or whose handler
fails, before the listeners are set stays in `userSockets` and is `deaf`.
`activeCalls[u]` is a user's entry, with a number that tells calls apart.
`handlers` are the handlers at an await with what they have read: those of
`call:end`, `call:reject` and `disconnect` at the log, and of `disconnect` at
the write of `isOnline`. `call:initiate` reads nothing but the room before its
await and does the rest at once, so that its wait is the freedom to run after
the socket has closed. The message that follows the log is written in the same
step, as nothing here reads it. The statuses missed, cancelled and rejected are
one. `accepted`, `overlapped`, `lost`, `late` and `stranded` are history
variables. A revocation of sessions is the drop of each socket; membership does
not change.

A call that both sides end at the same time is ended by two handlers, and the
slower one deletes the entries of whatever call its two users are in by then.
`CallsArePaired` and `CallsAreLogged` say that this
is the only way for calls to be damaged: they speak of every call but those that
rang after an earlier one was ended twice at once (`Disturbed`).

### CallScreen

`screen[u]` is `callState` and `ref[u]` the copy the listeners read, which an effect
brings up to date later (`CopyToRef`), or at once after a click, as React flushes the
effects of a click. `media[u]` has the streams that run and the one the manager
knows, `pc[u]` the peer connection, `tasks[u]` the functions at an await. `up` and `down`
are the messages of each socket in their order; what a client emits while its
socket is down waits, and what the server emits to it is lost. The server half is
`Calls` with one socket for each user: `jobs` are its handlers at an await, one that
looks for the room or one that writes the log. Calls carry numbers that the code
does not have. `hears` are the users whose listeners are attached: the effect of
`CallContext` runs when the user object changes and attaches them only if there is a socket
(`if (this.socket)` in `socket.ts`). On a page just loaded, or after a login,
`SyncEngine.init` makes the socket later, so that the client can call, but hears nothing
until its token is refreshed and the effect runs again (`Attach`); until then the messages
to it are gone (`Unheard`), and their calls are `astray`. The model begins when both sockets
are there: what is emitted before, as by a click during the first recovery, goes nowhere,
and no call begins. `TaskThrows` are the catches: a camera is refused, or the connection cannot be
made; `handleAccepted` then closes the screen and tells nobody. The code acts on whatever call is on the screen, and on whatever
entry the server has for the room; a call that meets another one in this way, or one
of the other unguarded cases named at `ScreensAgree`, is `astray`, and the properties
are about every other call: `NothingLeftOpen` at all times, `ScreensAgree` and
`Negotiated` once nothing is under way (`AtRest`). An accept that finds the peer's entry
in another call marks that call, a signal that meets the connection of another
call marks the call of the connection, and a screen that `handleAccepted` opens again
after it was closed takes the number of the call it was told of.

### Sessions

`sessions` are the `RefreshSession` documents, with their family; `cookie` and
`hasSession` are shared by the tabs of a browser. `tabs[t]` is out, in, or loading
(signed in by `hasSession`, without a token yet). A tab that is out sends requests too
(`Send`): `App` posts its push subscription on mount and after every sign-out (118-125), and
the 401 leads a refresh, which is refused when there is no cookie and signs the tab in
again when there is one. Each refresh notes whether its tab was out when it asked (`out`). `calls[c]` is a login or a
refresh under way on either side: sent, found, created, then `ok`, `refused` or
`cleared`, one action per write of the handler, so that others come in between.
A refresh that the interceptor of `api.ts` leads has the waiting requests of its
tab behind it (`Queue`, `Settled`); the bootstrap of `App` has none. Signing out
everywhere and a new password revoke all sessions, the list of sessions and the
logout endpoint one, a replay its family; a tab that is told signs out. `orphans` and `disturbed` are history
variables.

### Media

`files[f]` is the GridFS file: absent, pending, committed, gone. `uploads[f]` is
the client's upload with its chunks, `sends[s]` a message with an attachment, its
outbox row and what has become of it on the server, `attempts` the requests under
way for these rows. The transaction of `createMessage` is a step; what it does
outside the transaction, the deletion of the file in its `catch`, is another, and
so are the removal of a file by `deleteMessage`, which precedes the commit, and
the two halves of the pruning of an orphan (count, then delete). `contested`
holds the files that were in one of the cases the code does not guard.

### ChatView

`list`, `current`, `loading` and `hasMore` are the Redux and component state of
the open room. `pages` are the calls of `GET /messages` under way, with what their
closures have captured; a page is put in the list when it arrives. `ApplyEvent` is
`reconcileRoomEvent` with the handlers of messages and the announcement to the
list. `rows`, `overlay` and `deletions` are the user's mutations in the outbox and
over the list. `SyncEngine.init` fills the overlay again from the outbox, at a restart
(`Reload`) and, in mid-session, for every new token (`Rehydrate`). The definitions before
the properties are `selectVisibleMessages`. `removed` has the messages the user has deleted
here, and stays whatever the overlay forgets; `forgotten`, `overtaken`, `unordered`,
`hasty` and `replayed` are history variables: the five ways in which the code itself
lets the list go wrong (below).

### Social

`friends`, `requests` and `rooms` are the documents; `jobs` the handlers at work
with what they have read, one action per write, as none of them uses a
transaction. `found` and `shown` are the lists of the two clients, read at some
earlier time, on which a client's offers depend; `keys` what each client has
unwrapped and keeps in its secret store. `torn`, `crossed` and `raced` are history
variables.

### Backup

`idb` holds the stores that have a part in it, `Stores` their order in
`ALL_ACCOUNT_STORES`. `purges[p]` is the next store of the purge of a logout, a
restore or a start, `export` and `restore` likewise: each has one transaction per
store, with everything else in between. `run` is the recovery, a page at a time.
`app` is out, starting (in `SyncEngine.init`) or up; `CallInit` is the effect of
`App` that calls `init` at a sign-in and for every new token. `Crash` also stands
for a reload of the page. A sign-out is taken to wait for `init`, whose
continuation would go on after it. `torn` and `unfinished` are history variables.

## Runs

| Run | Shows | Bounds |
| --- | --- | --- |
| `main` | every handler against every other on one room, and the refinement of `RoomLog` | 2 users, 2 overlapping requests, 4 sequence numbers, identity versions to 2; about 317,000 states |
| `two_rooms` | user streams and clientMsgIds shared by two rooms, one created on the way | 2 sequence numbers per room; about 1.6 million states |
| `recovery` | the recovery loop, with liveness | pages of 2, a room with 3 events, one with 1, 2 user events, 3 generations; about 1.5 million states |
| `outbox` | overlapping flushes, refusals, lost answers, failing writes, new tokens, restarts | 2 concurrent flushes, 3 flushes in all, two of a message, a message no room takes and a reaction; about 4.4 million states |
| `calls` | overlapping ends, drops and reconnections, failed writes, a restart | 3 users in a room, 4 connections, 2 waiting handlers, 2 calls, 1 fault; about 3.3 million states |
| `callscreen` | two screens and the server under hang-ups, waits and late messages | 2 users, 2 calls, 1 fault (a camera or a connection refused, a lost socket, a failed log) and the listeners of each user, if they come, before the second call; about 8.6 million states |
| `sessions` | refreshes of tabs that share a cookie, revocations, faults | 2 tabs, 3 requests, 2 calls under way, 3 sessions, 1 fault; about 4.9 million states |
| `media` | uploads, sends, retries, forwards, deletions and pruning, with liveness | 2 users, a room of both and a room of one, 1 file of 2 chunks, 2 messages, 2 attempts, 1 refusal, 1 fault; about 1.7 million states |
| `chatview` | late pages, events and the overlay in one list | 2 rooms, pages of 1, 2 pages, 2 messages, one of them the user's, 3 events, 1 restart or new token; about 5.5 million states |
| `social` | friends and direct messages, write by write | 2 users, 2 handlers, 2 requests, 1 removal, 2 openings, 1 failure; about 3.7 million states |
| `backup` | export, restore, purge and recovery, store by store | 1 event beside the grant, 1 export, 1 restore, 1 sign-out, 1 crash, 1 failed write; about 9.8 million states |
| `relaunch` | a message being validated when the app stops is not restored | 2 flushes, a message and a reaction |

Why the bounds are enough to be of interest. Two requests make every pair of
handlers overlap, in either order of commit, and a third would only be another
writer of the same documents. Four sequence numbers hold a membership change
(two), the rotation that answers it and a message, the shortest log in which
`MessagesUseCurrentKey` can fail; or a reset with the events around it. Identity
version 2 is one reset of each user. In `recovery` pages of two cut the longer room,
whose unknown event is its second: a full page begins before it and one at it, which the client
then asks for again and again; three generations are a run, its cancellation
and a successor. In `outbox` three flushes are enough for two rows to be
enqueued and for one to time out and be tried again beside a flush of the other;
the message that no room takes waits with one that is stored, so that answers may be
confused. In `calls` two handlers may end one call, and a
second call may ring before the slower is done; one user connects twice, so that
a disconnect is of the last socket or not. In `callscreen` one, both or none of the clients
have listeners when the first call is made, and may get them while it lasts; the second call may follow
the first while its functions and messages are still under way, or cross it; with one
room, each message that meets another call passes the server's test of the room,
and what a third user can add is the answer that the peer is busy, and an entry of the
peer in another call when an accept comes; the theorems are for any users. In `sessions` two
refreshes of one cookie overlap, from two tabs or from one, while a third request waits; a family
of three sessions has one before, one in the middle and one after; a tab is out at the start, after
a login that found no key, and after each sign-out. In `media` the
second message forwards the first one's file or sends it again, and two attempts
are a request and its retry; a file of two chunks is complete or not. In
`chatview` two pages may overtake one another and the events, pages of one make
the second page a `loadMore`, and three events are a message, its edit and its
deletion; edits and reactions, which are left out, may be pending or not (`OthersPending`), as
`init` leaves an overlay alone when nothing is. In `social` two requests may cross and two handlers overlap at every
write; a third handler of two users would repeat one of the two. In `backup` a
restore finds what an export took before or after the event, and a crash or a
sign-out falls between any two stores. Every bound is a constant with the comment
"bound" in its module.

`main` and `two_rooms` use the symmetry of users and requests, `outbox` that of
flushes, `calls` that of handlers, `callscreen` that of users, `sessions` that of the two
requests of one tab, `social` that of users and of handlers: they
check safety only.
Deadlock is not checked anywhere, because the bounds make every instance stop.

Fairness. `Recovery` and `Media` have a liveness property each. `FairSpec` of
`Recovery` states weak fairness of `LoopStep`: the event loop resumes a function after its await, a
request is answered or fails, an IndexedDB request completes. Nothing is assumed
of users, the network or the server. `RunsEnd` says that a run ends, or comes to the
one state in which it never will (`Spinning`): an event of a type the client does not know
leaves the cursor where it is (`CanonicalReconciler` 46-50), and when the page that starts at it is full,
`hasMore` is true and the next request gets the same page, for ever, until something
cancels the run. The run reaches this state, and without the exception TLC refutes the
property. It holds for streams that receive finitely many events (they are bounded); one
into which events were posted faster than the client reads pages would run on.
`Spec` of `Media` states weak fairness of the pruning of a file
(`startPruningScheduler` repeats it every six hours) and of nothing else: a user
need not finish an upload nor an outbox its retries. `OrphansArePruned` says that
a file nobody will use is removed all the same.

### Findings

It has a run whose counterexample shows it, and an entry in `PROJECT.json`
with the lines.

- `relaunch`: a message is VALIDATING when the app stops. No flush reads that status,
  and no start resets it: it is neither sent nor shown again, where the hostile test
  matrix (E4, "Device power loss") says "Restored".

### Observations without a run

What follows was met while modelling. The models do what the code does; a
property that would forbid it excepts the case by a history variable, which its
comment names.

- `addMembers` writes a `ROOM_ACCESS_GRANTED` payload its contract refuses, so that
  it always aborts; `reactToMessage` and `pinMessage` likewise.
- `removeMember` lacks the check on the owner that `kickMember` and `leaveRoom`
  make (`roomController` 363).
- A recovery cancelled by a pause keeps its promise; later triggers join it and
  recover nothing until the page is loaded again (`RecoveryCoordinator` 49).
- The range by which a purge clears `user_cursor` is one of arrays
  (`LocalAccountCleanupService` 174) and its keys are strings (`CanonicalDatabase` 39): the
  user cursor survives a logout, although `SyncEngine` 74 says "starts from scratch". The model
  has it (`Purge`); no room is lost by it as long as nothing commits a grant (above).
- An event of an unknown type with a full page behind it makes the run ask for the same page
  for ever (`Spinning`).
- Overlapping flushes may send the messages of a room out of order, and a row whose send
  failed may be overtaken (`OutboxService` 80, 219); a reaction sent twice is taken back. An error of
  the store after `VALIDATING` leaves the row there (98). A message that is invalid is sent again
  after every start and every new token (`SyncEngine` 211).
- A tab that has signed out asks for a refresh by its push subscription: while the cookie is
  there the sign-out is undone at once, and a refusal that comes after a new login signs
  the user out of it (`App` 120, `api.ts` 63-100).
- On a page just loaded the listeners of calls are not attached, as the socket is made
  later (`socket.ts` 212, `CallContext` 59): the client misses every call, and the answers to its own, until its token is
  refreshed. A caller whose connection cannot be made closes its screen and tells nobody
  (`CallContext` 105).
- `initializePeerConnection` begins with `cleanup` (`webrtc` 65), which stops and forgets
  the local stream before its tracks are added: no call carries sound or picture, and
  `startScreenShare` throws, but for a camera that comes late.
- A call hung up while the camera is awaited is started all the same, with the camera
  left on (`CallContext` 180); an answer that was under way may answer the caller's next
  call; `call:end` may overtake the `call:initiate` that still looks for its room, and the
  peer rings; two users who call one another at once may both fail, and the one that
  the server refuses stays on "Calling...", as nothing handles `socket_error`; a client
  whose socket was lost keeps the call on its screen (`astray`).
- A refused forward of one's own attachment deletes the file that the first message
  still shows (`MessageService` 191), although `GridFSService` 120 says that a shared
  file cannot be deleted in this way (`contested`).
- A disconnect handler decides that its user is offline before it awaits and
  writes it after (`socketHandlers` 759); the user may be back by then.
- `bootstrapPromise` (`App` 82), "to deduplicate concurrent bootstrap requests", is a
  local of the component and unknown to the interceptor: one tab may refresh one
  cookie twice, which the server takes for a replay (`disturbed`).
- A forwarded file keeps its room, so that members of the other room cannot
  download it (`upload.ts` 58). Two deletions in different rooms that overlap leave
  a committed file for ever; a retry encrypts again, so that no upload is resumed;
  the directories of interrupted uploads stay; `deleteMessage` removes the file
  before its transaction ends; pruning counts first and deletes later (`contested`).
- A page replaces the list of whatever room is open when it arrives
  (`ChatWindow` 311), and `loadMoreMessages` restores the list of its closure (428),
  with what was applied meanwhile lost (`overtaken`). The deletion of an unconfirmed copy
  quotes a clientMsgId where the server expects an id (`hasty`).
- The handler of `MESSAGE_EDITED` reads `newContent` (`EventProjectionHandlers` 24), the contract
  (`EventContracts` 62-66) and the payload have `content`: every edit that the recovery applies leaves
  the message without text. `KeepsUp` asks only that the replaced text is gone.
- A deletion is emitted without a callback and its row acknowledged at once (`OutboxService`
  177): when it was lost or refused, the next restart or new token shows the message again
  (`forgotten`).
- Two requests that cross leave an accepted document after a removal, which refuses
  every further request (`crossed`); an acceptance and a removal that overlap, or
  one that stops half way, leave a friendship of one side (`torn`); two openings at
  once create two rooms, or answer with a key that is not the stored one (`raced`):
  the unique index of `ChatRoom` 160-164 has the key and the name of a plain one.
  The client says that a removal "will also delete your DM history"; nothing does.
- The purge of a restore deletes the restore's own sentinel (`sync_meta` is one of
  the stores), so that a write that fails, or a crash, after it may leave cursors
  without their messages, and the next start does not purge, against
  `DatabaseBackupService` 159-162. An export that overlaps the recovery or a purge may
  hold such a state itself. The purge of a logout that is cut short is not taken up
  again (`torn`, `unfinished`). `init` runs again for every new token and may find the
  sentinel of a restore that is still at work.

The models follow the code in all of these. `Recovery` lets access be granted
although `addMembers` aborts today, because the client's handling of a grant is
there and must be right when the payload is.

## Proofs

Each module `XProofs` extends its component and has an inductive invariant (that of
`RoomServer` has two parts), the theorem that it always holds, and one theorem for each
property that follows. `StoresProofs` and `ScreenProofs` extend two components each, which share no variable;
hence the names `BackupInit`, `BackupNext` and `BackupSpec` in `Backup`, and `ScreenInit`,
`ScreenNext` and `ScreenSpec` in `CallScreen`.
The theorems hold for every value of the constants that meets the assumptions, named
in the component's module, which TLC evaluates in every run. Most say
that bounds are numbers, that functions have their domains and that markers of
absence are not values. Those that say something of the code are:

- `RoomsAssumption` of `RoomServer`: the rooms at the start are rooms;
- `UnknownAssumption` of `Recovery`: the client has a contract for every type of
  user event (`EventContracts` 268-303), so that what it cannot read is in rooms;
- `ParticipantsAssumption` of `Calls`: a room where calls ring has two members;
- `DirectRoomsAssumption` of `CallScreen`: a call rings in a room of two different users;
- `UsersAssumption` of `Social`: two users, as a friendship and a direct message
  room have; every request, removal and opening is of one pair.

| Module | Theorem | Property |
| --- | --- | --- |
| `RoomServerProofs` | `InvariantHolds` | `IInv` |
| | `TypeCorrect` | `TypeOK` |
| | `LogIsGapFree` | `EventLogGapFree` |
| | `StreamIsGapFree` | `UserStreamGapFree` |
| | `MessagesAreStoredOnce` | `ExactlyOnceMessage` |
| | `AdminsStayInside` | `AdminsAreParticipants` |
| | `KeyInvariantHolds` | `KeyInv` |
| | `MessagesFollowRotations` | `MessagesUseCurrentKey` |
| | `MessagesFollowResets` | `NoStaleIdentityMessage` |
| | `EnvelopesStayCurrent` | `EnvelopesCurrent` |
| | `ResetsAreAnswered` | `TransitionsTracked` |
| | `MembershipIsRotated` | `MembershipForcesRotation` |
| | `ServerImplementsLog` | `ImplementsRoomLog` |
| `RecoveryProofs` | `RecoveryInvariant` | `RInv` |
| | `EventsAreAppliedInOrder` | `AppliedOnceInOrder` |
| | `GapsHaveReasons` | `NothingPassedOver` |
| | `RoomsAreReplayed` | `RoomsFollowUserStream` |
| | `OneLoopAtATime` | `SingleFlight` |
| | `ReadyIsCaughtUp` | `ReadyMeansCaughtUp` |
| `StoresProofs` | `OutboxInvariant` | `OInv` |
| | `RowsTellTheTruth` | `VerdictsAreTrue` |
| | `RoomsGoInOrder` | `BegunInOrder` |
| | `MessagesStayInReach` | `NothingIsDropped` |
| | `BackupInvariant` | `BInv` |
| | `NothingIsSkipped` | `NothingSkipped` |
| | `SignOutsLeaveNothing` | `LogoutLeavesNothing` |
| `CallsProofs` | `CallsInvariant` | `CInv` |
| | `EntriesComeInPairs` | `CallsArePaired` |
| | `EveryCallIsLogged` | `CallsAreLogged` |
| | `NothingStaysOfTheGone` | `GoneIsGone` |
| `SessionsProofs` | `SessionsInvariant` | `SInv` |
| | `OneTokenAtATime` | `OneUsable` |
| | `RefusalsHaveReasons` | `RefusedForAReason` |
| | `QueuesHaveALeader` | `NobodyWaitsInVain` |
| `SocialProofs` | `SocialInvariant` | `Inv` |
| | `FriendshipIsMutual` | `Mutual` |
| | `NobodyIsLockedOut` | `NotLockedOut` |
| | `ConversationsAreOne` | `OneConversation` |
| `MediaProofs` | `MediaInvariant` | `MInv` |
| | `ShownIsReadable` | `AttachmentsCanBeRead` |
| | `CommittedHasAMessage` | `CommittedIsNeeded` |
| `ScreenProofs` | `ViewInvariant` | `VInv` |
| | `EachShownOnce` | `ShownOnce` |
| | `ListKeepsUp` | `KeepsUp` |
| | `DeletedStaysGone` | `StaysGone` |
| | `CallScreenInvariant` | `ScreenInv` |
| | `ScreensComeToAgree` | `ScreensAgree` |
| | `NothingStaysOpen` | `NothingLeftOpen` |
| | `CallsAreNegotiated` | `Negotiated` |

In every component the properties alone are not inductive, for one reason: a
handler, or a function at an await, carries what it has read or prepared to a
later step. The invariants say why that is still right when it is used, or which
history variable has noted that it may not be. All were checked by TLC on the
runs' instances before they were proved.

**`IInv`, the log.** `Commit` installs writes that an earlier action prepared, so `IInv`
says of every open transaction that its writes are still right to
commit: `TxLog` that its events continue the log of each of its rooms exactly
from the committed `latestSequence` to the one it will write, or that it drops
the prefix below the boundary it will write; `TxAdmins` that its documents keep
admins among participants; `TxStreams` that its user events carry the next
number of their stream; `TxMessages` that a message it creates is new and is
announced by its one event. These facts about `tx[q]` speak of committed state
that another request may change. They survive its commit for one reason: a
transaction with a document, a user or a stream in common is aborted by it
(`Conflicts`), and of the others the state they speak of is untouched. The case
of `Commit` is where the argument lies; a handler has only to show that what it
buffers is right in the state it read, which is the lemma `BeginStep` with one
lemma per kind of write. `LogBase`, `StreamBase` and `MessageBase` are the
bounds that keep numbers in use below the counters.

**`KeyInv`, keys and identities.** Beside `IInv`. `RotationsAnswered` is what makes a message
right: an ACTIVE room has answered each call for a rotation with one of the key
version it has now. Of an open transaction, `TxDocs` says that a change of members
leaves its room locked and that only a rotation unlocks one, `TxEvents` that a
message quotes the key and the identities of the committed room, `TxEnvelopes`
that a rotated room holds envelopes for its members and, once they are validated, for
current identities, `TxResolves` and `TxTransitions` that every pending
transition it answers is among its writes, and `TxResets` that a reset writes each
room of its user. The last rests on a conflict that is easy to miss: who joins a room
while a reset is open does not write a document of the reset, but the user stream.

**The refinement.** `LogOf` is a function on the retained range because numbers are
unique and without gaps (`IInv`); the lemma about the range gives `LogOf` its
domain and each entry its event. A commit then appends in the rooms whose `latestSequence` it
moves, drops in those whose boundary it moves, never both (`TxDocs`), and keeps the
others; every other action keeps all. Hence `Init` maps to `LogInit` and a step to
`LogNext` or a stutter.

**`RInv`, the recovery.** `StoreSound` is about IndexedDB alone: cursors are exact and what is missing
below one is explained (retained no more, unknown, or purged). `LoopSound` says what the loop
in progress may rely on: while its generation is the current one, the cursor it has read
still stands and the page in hand continues the store. A superseded loop may hold
anything, but applies nothing. `GoalsSound` adds that the rooms left behind
have reached what the loop set out for, or are stuck at a pruned cursor, which `ReadyMeansCaughtUp`
needs; `RoomsSound` that the user stream is applied without gaps, so that the
rooms of the client are those its stream has granted.

**`OInv`, the outbox.** The list that a flush read at its start grows old, so
`ListsComplete` says that it still holds every earlier row of each room it goes on
with, save those begun since, and `UnbegunIsDue` that a row never begun is in
every such list. `AnswersAreTrue` says that a stored message stays stored and that a
refusal was one, until the flush that waits reads it; `ValidatingIsHeld` that only the flush
which wrote `VALIDATING` takes a row out of it, or a restart or an error has noted it as stranded.

**`CInv`, calls.** `ReadSound` says that what a handler read of a call is stale only if another
handler has ended the call at the same time, which `overlapped` then holds
(`OverlapsNoted`): otherwise the entries of both sides are still those it read.
`EntriesSound` orders the two entries of a user and its peer by the number of their
call; `AnswersNoted` carries `accepted` from the entry to the handler that logs it.

**`SInv`, sessions.** `Delivered` says who can have heard of a session: only one that was
delivered is ever sent again, and of those and of the sessions not revoked a
family has one that was not replaced (`OneLive`). `QuietCall`, `QuietCookie` and
`NewLogin` say that in a family that nothing has disturbed one refresh is under way, from the
session of the cookie, which can be used: so a refusal has a cause. With no cookie at all,
either the tab was out when it asked or some family is disturbed. `Waiting` says
that a queued request has a silent refresh of its own tab before it.

**`Inv` of `SocialProofs`.** While `torn` is not set, acceptances and removals take turns, and
what a handler has written stands until it ends (`Befriended`, `Unfriended`);
while `crossed` is not, there is one request; while `raced` is not, one call opens the
conversation, and what it has read of the rooms still holds.

**`MInv`, media.** Of the files that are in none of the unguarded cases: the
file is there from the end of its upload to the deletion of the last message that carries
it (`MessageSound`, `KeptFor`), and what the pruning has counted, or may count, is
an abandoned upload (`FileSound`), which no message will carry.

**`BInv`, the local stores.** While nothing has met, a cursor or a marker claims an
event without its message only while a purge still has to come to its store, or an install
is at work (`StoresHold`). `PurgesClear` says that what a purge has behind it is empty,
`InstallSound` that an install has made the stores before `next` those of the backup and
finds the others empty, `ExportSound` that what an export has read is still what there is;
so a finished restore leaves the backup's stores, which hold (`BackupSound`).
`OutSound` says why nothing is written after a sign-out: the recovery was
cancelled, and a restore in progress is stale.

**`VInv`, the open room.** A page knows the events of its room up to the number it was
served at (`PagesSound`): from its first message on it has every message created by then
and not deleted, and what it says of one is no older than those events. A list that
was not overtaken is a page of the open room with every event applied since, so it is
complete and fresh (`UpToDate`). That a page put under newer events does not take
them back rests on the server's order alone: a message is created once and before it
is edited or deleted, and what an event says has happened to the document (`LogSound`).
`OnceEach` keeps the messages of a list, and of the list that a page was asked to go below,
apart and in order; `DeletionsSound` and `OverlaySound` tie the user's mutations to the
messages they are about, or to the history variables that note why they lost them. A message
deleted here has its deletion in the overlay unless it is `forgotten`, which only an init adds
to (`RemovedSound`).
The attempt showed a flaw of the model: the cases of `ListAfter` overlapped, and the
value of a CASE whose guards overlap is not determined, although TLC takes the first
guard that holds. The proof could not choose, and the cases are now disjoint.

**`ScreenInv`, the call screen.** What the properties say of a state at rest follows from
what is on its way before, so each call is followed from the click of its caller. A call
that is not astray goes a single way of 18 stages, and at each stage one thing carries it
on, its token: a function of a client at an await (`StageTask`), a message (`StageUp`,
`StageDown`) or a handler of the server (`StageJob`); at stage 5 it rings and waits for a
click, at 18 it is negotiated. `Placed` says that the token is where the stage says and
that all else of the call only ends it: "end" and "reject" up, the four messages that it
is over down, handlers that wait for the log. `Queues` keeps the token and what ends the
call apart in each queue. `OnScreen` and `Entered` say who shows the call and who has an
entry. `Parting` relates the two while the call is left, whoever began: a client that has
sent its end no longer shows the call; one that shows it has an entry, or a message that
it is over is on its way; an entry stays only while someone shows the call or is leaving
it, and a handler will remove it. `Stages` says, while no one leaves, what the screens and
the connections have come to at each stage. At rest there is no token and nothing that ends
a call, so a call is at 5 or at 18 and the three properties are read off. Every action moves the
token of one call or begins or completes its end (`Onward`, `Closed`); the other
calls keep their parts (`Frame`) or become astray.
The attempt showed what two users and TLC had not. `call:accept` answers with the entry
of the accepting user and changes that of the peer, which may be of a call with
a third user; a screen that `handleAccepted` opens again has no call to be astray; and a
signal of one call may make the connection of another "stable". In each case a call met an
unguarded case that the model did not note as `astray`, and now does. On the other hand nothing had to be at rest
for `NothingLeftOpen`, which is therefore stated, checked and proved for all times.

What stays with TLC. Liveness (`RunsEnd`, `OrphansArePruned`) and `ENABLED` are out of
the prover's reach, as would be facts by induction over data: what a page holds is
therefore a set of sequences (`PagesOf`), defined by their order and not by a sort. A
finding, being a counterexample, has no proof. Every invariant and every action property
that a run checks is a theorem. No module has a RECURSIVE operator.

## Not modelled, and why

- **fullResync and the snapshot installer.** The client asks for a snapshot only
  on a 409, for a cursor ahead of the log; `NothingPassedOver` excludes it. A cursor
  below the retention boundary is answered with status 200 and an empty page,
  which the client takes for the end of the stream (`Stuck` in
  `ReadyMeansCaughtUp`).
- **Live events.** Buffered by `SocketBuffer`, read by nobody.
- **Re-encryption and quarantine in the outbox.** `SyncEngine` sets none of the
  versions that `CryptoRevalidationService` compares.
- **recoverPendingTransitions.** Called by tests only.
- **The history installer.** `fetchHistoricalMessages`, which leads to it, is
  called by tests only; the chat window fetches the pages by itself.
- **Refresh sessions.** Their expiry, the list of sessions, `forgotPassword`, and the
  keys that `LoginPage` unlocks after a login.
- **The purge of an identity reset** has no caller; failures of the clearing of a
  single store are left out of `Backup`.
- **Of the call screen**: ICE candidates, the kind of call, muting, sharing the screen
  (which fails, see above), and a page that is closed during a call.
- **Presentation**: rendering, decryption, typing, receipts, search, previews, push.

## Plan

What is left: cleanup intents beside `Recovery`, and a run of `CallScreen` with three
users, which its theorems cover and its run does not.
