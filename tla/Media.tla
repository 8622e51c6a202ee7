-------------------------------- MODULE Media --------------------------------
(***************************************************************************)
(* Attachments: the chunked upload of a file into GridFS, the messages     *)
(* that carry its address, and the four places that remove files or keep   *)
(* them: createMessage and its catch, deleteMessage, and the pruning of    *)
(* orphans.                                                                *)
(*                                                                         *)
(* A file is PENDING until a message with its address is stored, which     *)
(* marks it COMMITTED in the same transaction.  A forwarded message carries*)
(* the address of the first one's file; the file keeps its uploader and    *)
(* its room.  GridFS deletes outside every transaction.                    *)
(*                                                                         *)
(* A transaction on messages is one step here (RoomServer has them step by *)
(* step), a room is open or refuses (rotation required, stale key), and the*)
(* outbox is a row that is tried again until it is answered.  Contents,    *)
(* keys and ranges are left out.                                           *)
(***************************************************************************)
EXTENDS Integers, FiniteSets

CONSTANTS
  Users,
  Rooms,
  Members,      \* the participants of each room
  Files,        \* bound: uploads, each with an id of its own
  Sends,        \* bound: numbers of messages with an attachment
  Attempts,     \* bound: numbers of the requests for them under way
  Chunks,       \* how many chunks a file has
  MaxFaults,    \* bound: failed requests, writes and reads
  MaxRefusals   \* bound: times a room stops accepting messages

ASSUME MembersAssumption == Members \in [Rooms -> SUBSET Users]
ASSUME NumbersAssumption == Sends \subseteq Nat \ {0} /\ Attempts \subseteq Nat
ASSUME BoundsAssumption == Chunks \in Nat \ {0} /\ MaxFaults \in Nat /\ MaxRefusals \in Nat

VARIABLES
  uploads,   \* the upload of each file: its user, room, phase and chunks stored
  files,     \* encrypted_media.files: absent, PENDING, COMMITTED or gone
  aged,      \* files older than a day
  sends,     \* each message: who sends which file to which room, its outbox row,
             \* and whether the server has it, shows it or has deleted it
  attempts,  \* requests under way for these rows
  deleting,  \* deleteMessage between the removal of the file and the commit
  counted,   \* files that the pruning has found no message for
  open,      \* rooms that accept messages
  refusals, faults,
  contested  \* history: files that were in a case the code does not guard

vars == <<uploads, files, aged, sends, attempts, deleting, counted, open, refusals, faults, contested>>

NoUpload == [by |-> "none", room |-> "none", pc |-> "none", chunks |-> 0]
NoSend == [by |-> "none", room |-> "none", file |-> "none", row |-> "none", msg |-> "none"]
NoAttempt == [send |-> 0, pc |-> "none"]

Init ==
  /\ uploads = [f \in Files |-> NoUpload]
  /\ files = [f \in Files |-> "absent"]
  /\ aged = {} /\ counted = {} /\ contested = {}
  /\ sends = [s \in Sends |-> NoSend]
  /\ attempts = [a \in Attempts |-> NoAttempt]
  /\ deleting = {}
  /\ open = Rooms
  /\ refusals = 0 /\ faults = 0

(* Rows and requests have no meaning of their own: the first free one. *)
Unused(s) == sends[s] = NoSend /\ \A m \in Sends : m < s => sends[m] # NoSend
Idle(a) == attempts[a] = NoAttempt /\ \A b \in Attempts : b < a => attempts[b] # NoAttempt

Fault == faults < MaxFaults /\ faults' = faults + 1
Shown(s) == sends[s].msg = "shown"

------------------------------------------------------------------------------
(* Uploads.  uploadFileResumable asks for the status, opens a session and  *)
(* sends the chunks in turn; a message that is sent again encrypts the file*)
(* again and so starts an upload of its own.                               *)

(* verifyRoomMembership *)
IsMember(r, u) == u \in Members[r]

Phase(f, pc) == uploads' = [uploads EXCEPT ![f].pc = pc]
KeepSending == UNCHANGED <<sends, attempts, deleting, open, refusals>>

Initiate(f) ==
  /\ uploads[f] = NoUpload
  /\ \E u \in Users, r \in Rooms :
       /\ IsMember(r, u)
       /\ uploads' = [uploads EXCEPT ![f] = [by |-> u, room |-> r, pc |-> "open", chunks |-> 0]]
  /\ KeepSending /\ UNCHANGED <<files, aged, counted, faults, contested>>

(* A chunk is stored; with the last one the file is put together, and the  *)
(* chunks are gone.                                                        *)
Chunk(f) ==
  /\ uploads[f].pc = "open"
  /\ uploads' = [uploads EXCEPT ![f].chunks = @ + 1,
                                ![f].pc = IF uploads[f].chunks + 1 = Chunks THEN "assembled" ELSE "open"]
  /\ KeepSending /\ UNCHANGED <<files, aged, counted, faults, contested>>

(* The single-shot endpoint, which holds the whole file in memory. *)
Single(f) ==
  /\ uploads[f] = NoUpload
  /\ \E u \in Users, r \in Rooms :
       /\ IsMember(r, u)
       /\ uploads' = [uploads EXCEPT ![f] = [by |-> u, room |-> r, pc |-> "assembled", chunks |-> 0]]
  /\ KeepSending /\ UNCHANGED <<files, aged, counted, faults, contested>>

(* uploadFromStream: the file appears, PENDING. *)
Store(f) ==
  /\ uploads[f].pc = "assembled"
  /\ Phase(f, "stored")
  /\ files' = [files EXCEPT ![f] = "pending"]
  /\ KeepSending /\ UNCHANGED <<aged, counted, faults, contested>>

(* The answer arrives, the room's key is at hand and the message goes to   *)
(* the outbox.                                                             *)
Enqueue(f, s) ==
  /\ uploads[f].pc = "stored" /\ Unused(s)
  /\ Phase(f, "sent")
  /\ sends' = [sends EXCEPT ![s] =
       [by |-> uploads[f].by, room |-> uploads[f].room, file |-> f, row |-> "pending", msg |-> "none"]]
  /\ UNCHANGED <<files, aged, attempts, deleting, counted, open, refusals, faults, contested>>

SendFile(f, s) == Enqueue(f, s)
SendVoice(f, s) == Enqueue(f, s)

(* A request of the upload fails, its answer is lost, or the room has no   *)
(* key: the client gives up, and what the server holds is nobody's.        *)
AbandonUpload(f) ==
  /\ Fault /\ uploads[f].pc \in {"open", "assembled", "stored"}
  /\ Phase(f, "abandoned")
  /\ KeepSending /\ UNCHANGED <<files, aged, counted, contested>>

(* A forward reuses the address of the file, possibly on a screen that     *)
(* still shows a message deleted since.                                    *)
Forward(s, m) ==
  /\ sends[m].msg # "none" /\ Unused(s)
  /\ \E u \in Members[sends[m].room], r \in Rooms :
       /\ IsMember(r, u)
       /\ sends' = [sends EXCEPT ![s] =
            [by |-> u, room |-> r, file |-> sends[m].file, row |-> "pending", msg |-> "none"]]
  /\ contested' = IF Shown(m) /\ m \notin deleting THEN contested ELSE contested \cup {sends[m].file}
  /\ UNCHANGED <<uploads, files, aged, attempts, deleting, counted, open, refusals, faults>>

(* GET /download/:fileId looks at the room of the file's metadata. *)
MayDownload(u, f) == files[f] \in {"pending", "committed"} /\ IsMember(uploads[f].room, u)

------------------------------------------------------------------------------
(* Messages.                                                               *)

KeepUploads == UNCHANGED <<uploads, aged>>

(* The outbox sends a row, again when no answer came in time. *)
Attempt(a, s) ==
  /\ Idle(a) /\ sends[s].row = "pending"
  /\ attempts' = [attempts EXCEPT ![a] = [send |-> s, pc |-> "asked"]]
  /\ KeepUploads /\ UNCHANGED <<files, sends, deleting, counted, open, refusals, faults, contested>>

(* createMessage refuses before it looks for an earlier attempt. *)
Refuse(a) ==
  /\ attempts[a].pc = "asked" /\ sends[attempts[a].send].room \notin open
  /\ attempts' = [attempts EXCEPT ![a].pc = "refused"]
  /\ KeepUploads /\ UNCHANGED <<files, sends, deleting, counted, open, refusals, faults, contested>>

FailAttempt(a) ==
  /\ Fault /\ attempts[a].pc = "asked"
  /\ attempts' = [attempts EXCEPT ![a].pc = "refused"]
  /\ KeepUploads /\ UNCHANGED <<files, sends, deleting, counted, open, refusals, contested>>

(* The update of the file's status, in the transaction of the message. *)
Marked(f) == [files EXCEPT ![f] = IF @ = "pending" THEN "committed" ELSE @]

Create(a) ==
  LET s == attempts[a].send IN
  /\ attempts[a].pc = "asked" /\ sends[s].room \in open
  /\ attempts' = [attempts EXCEPT ![a].pc = "stored"]
  /\ IF sends[s].msg = "none"
     THEN /\ sends' = [sends EXCEPT ![s].msg = "shown"]
          /\ files' = Marked(sends[s].file)
     ELSE UNCHANGED <<sends, files>>
  /\ KeepUploads /\ UNCHANGED <<deleting, counted, open, refusals, faults, contested>>

\* Mutant: whoever asks.
AnyonesFile(f, u) == files[f] \in {"pending", "committed"}
(* deleteFileIfOwner *)
OwnFile(f, u) == files[f] \in {"pending", "committed"} /\ uploads[f].by = u
Removed(f, u) == [files EXCEPT ![f] = IF OwnFile(f, u) THEN "gone" ELSE @]

(* The catch of createMessage removes the file, unless it is another's. *)
Catch(a) ==
  LET s == attempts[a].send IN
  /\ attempts[a].pc = "refused"
  /\ attempts' = [attempts EXCEPT ![a].pc = "error"]
  /\ files' = Removed(sends[s].file, sends[s].by)
  /\ contested' = IF sends[s].by = uploads[sends[s].file].by
                  THEN contested \cup {sends[s].file} ELSE contested
  /\ KeepUploads /\ UNCHANGED <<sends, deleting, counted, open, refusals, faults>>

(* The answer arrives, or comes too late.  A refused row waits to be sent  *)
(* again, or is given up.                                                  *)
Answer(a) ==
  LET s == attempts[a].send IN
  /\ attempts[a].pc \in {"stored", "error"}
  /\ attempts' = [attempts EXCEPT ![a] = NoAttempt]
  /\ \/ attempts[a].pc = "stored" /\ sends' = [sends EXCEPT ![s].row = "done"]
     \/ attempts[a].pc = "error" /\ sends[s].row = "pending"
          /\ sends' = [sends EXCEPT ![s].row = "rejected"]
     \/ UNCHANGED sends
  /\ KeepUploads /\ UNCHANGED <<files, deleting, counted, open, refusals, faults, contested>>

(* Another message with the same address. *)
Beside(s, m) == m # s /\ sends[m].file = sends[s].file

\* Mutant: the message itself is counted too.
UnsharedByAll(s) == \A m \in Sends : sends[m].file = sends[s].file => ~Shown(m)
Unshared(s) == \A m \in Sends : Beside(s, m) => ~Shown(m)

(* deleteMessage removes the file before its transaction ends ...  In one  *)
(* room two of them write the same counter, and the second starts again.   *)
DeleteFile(s) ==
  /\ Shown(s) /\ \A m \in deleting : sends[m].room # sends[s].room
  /\ deleting' = deleting \cup {s}
  /\ files' = IF Unshared(s) THEN Removed(sends[s].file, sends[s].by) ELSE files
  /\ contested' = IF \E m \in Sends : Beside(s, m) /\ (sends[m].msg = "none" \/ m \in deleting)
                  THEN contested \cup {sends[s].file} ELSE contested
  /\ KeepUploads /\ UNCHANGED <<sends, attempts, counted, open, refusals, faults>>

(* ... and may abort after it. *)
DeleteMessage(s) ==
  /\ s \in deleting
  /\ deleting' = deleting \ {s}
  /\ sends' = [sends EXCEPT ![s].msg = "deleted"]
  /\ KeepUploads /\ UNCHANGED <<files, attempts, counted, open, refusals, faults, contested>>

FailDelete(s) ==
  /\ Fault /\ s \in deleting
  /\ deleting' = deleting \ {s}
  /\ contested' = contested \cup {sends[s].file}
  /\ KeepUploads /\ UNCHANGED <<files, sends, attempts, counted, open, refusals>>

------------------------------------------------------------------------------
(* The pruning scheduler, and time.                                        *)

(* A day passes: History: a file whose message is still in the outbox. *)
Age(f) ==
  /\ files[f] \in {"pending", "committed"} /\ f \notin aged
  /\ aged' = aged \cup {f}
  /\ contested' = IF files[f] = "pending" /\ uploads[f].pc \in {"stored", "sent"}
                  THEN contested \cup {f} ELSE contested
  /\ UNCHANGED <<uploads, files, sends, attempts, deleting, counted, open, refusals, faults>>

\* Mutant: only the files of the last day.
Recent(f) == files[f] = "pending" /\ f \notin aged
Prunable(f) == files[f] = "pending" /\ f \in aged

(* The messages with the address are counted ... *)
PruneCount(f) ==
  /\ Prunable(f) /\ f \notin counted
  /\ IF \E s \in Sends : sends[s].file = f /\ Shown(s)
     THEN files' = Marked(f) /\ UNCHANGED counted
     ELSE counted' = counted \cup {f} /\ UNCHANGED files
  /\ UNCHANGED <<uploads, aged, sends, attempts, deleting, open, refusals, faults, contested>>

(* ... and the file is deleted, whatever it is by then. *)
PruneDelete(f) ==
  /\ f \in counted
  /\ counted' = counted \ {f}
  /\ files' = [files EXCEPT ![f] = "gone"]
  /\ UNCHANGED <<uploads, aged, sends, attempts, deleting, open, refusals, faults, contested>>

Close(r) ==
  /\ r \in open /\ refusals < MaxRefusals
  /\ open' = open \ {r} /\ refusals' = refusals + 1
  /\ UNCHANGED <<uploads, files, aged, sends, attempts, deleting, counted, faults, contested>>

Reopen(r) ==
  /\ r \notin open
  /\ open' = open \cup {r}
  /\ UNCHANGED <<uploads, files, aged, sends, attempts, deleting, counted, refusals, faults, contested>>

------------------------------------------------------------------------------
Pruning(f) == Age(f) \/ PruneCount(f) \/ PruneDelete(f)
Next ==
  \/ \E f \in Files :
       \/ Initiate(f) \/ Chunk(f) \/ Single(f) \/ Store(f) \/ AbandonUpload(f)
       \/ Pruning(f)
       \/ \E s \in Sends : SendFile(f, s) \/ SendVoice(f, s)
  \/ \E s \in Sends :
       \/ \E m \in Sends : Forward(s, m)
       \/ DeleteFile(s) \/ DeleteMessage(s) \/ FailDelete(s)
  \/ \E a \in Attempts :
       \/ Refuse(a) \/ FailAttempt(a) \/ Create(a) \/ Catch(a) \/ Answer(a)
       \/ \E s \in Sends : Attempt(a, s)
  \/ \E r \in Rooms : Close(r) \/ Reopen(r)

(* Time passes and the scheduler runs every six hours. *)
Spec == Init /\ [][Next]_vars /\ \A f \in Files : WF_vars(Pruning(f))

------------------------------------------------------------------------------
(* Every participant can read the attachment of a message that is shown,   *)
(* whoever else was refused, deletes or forwards, the cases in "contested" *)
(* aside: a refusal to the uploader, a day in the outbox, a forward or     *)
(* another deletion that overlaps a deletion, a deletion that aborts.  In  *)
(* another room than its own, the file's room decides.                     *)
AttachmentsCanBeRead == \A s \in Sends :
  Shown(s) /\ sends[s].file \notin contested /\ s \notin deleting
    /\ sends[s].room = uploads[sends[s].file].room =>
      \A u \in Members[sends[s].room] : MayDownload(u, sends[s].file)

(* A COMMITTED file belongs to some message that is shown, or to one that  *)
(* somebody else forwarded: only then, and when two deletions in different *)
(* rooms overlap or a case above occurs, nothing ever removes it.          *)
CommittedIsNeeded == \A f \in Files :
  files[f] = "committed" /\ f \notin contested =>
    \E s \in Sends : sends[s].file = f
      /\ (Shown(s) \/ (sends[s].msg = "deleted" /\ sends[s].by # uploads[f].by))

(* A file no message is going to use is not kept for ever (pruneOrphaned-  *)
(* Media): an upload that was abandoned leaves nothing in GridFS.          *)
OrphansArePruned == \A f \in Files :
  uploads[f].pc = "abandoned" ~> files[f] \in {"absent", "gone"}
==============================================================================
