----------------------------- MODULE MediaProofs -----------------------------
(***************************************************************************)
(* Why the attachment of a message can be read, and why no file is kept    *)
(* that nothing needs, for any number of users, rooms, files, messages,    *)
(* requests and faults: two properties of Media, from one inductive        *)
(* invariant.                                                              *)
(*                                                                         *)
(* It is about the files that are in none of the unguarded cases: such a   *)
(* file is there from the end of its upload until the last message that    *)
(* carries it is deleted, and the pruning has only abandoned ones in hand. *)
(***************************************************************************)
EXTENDS Media, TLAPS

UploadType ==
  [by : Users \cup {"none"}, room : Rooms \cup {"none"},
   pc : {"none", "open", "assembled", "stored", "sent", "abandoned"}, chunks : Nat]

SendType ==
  [by : Users \cup {"none"}, room : Rooms \cup {"none"}, file : Files \cup {"none"},
   row : {"none", "pending", "done", "rejected"}, msg : {"none", "shown", "deleted"}]

AttemptType ==
  [send : Sends \cup {0}, pc : {"none", "asked", "refused", "stored", "error"}]

Typed ==
  /\ uploads \in [Files -> UploadType]
  /\ files \in [Files -> {"absent", "pending", "committed", "gone"}]
  /\ sends \in [Sends -> SendType] /\ attempts \in [Attempts -> AttemptType]
  /\ deleting \subseteq Sends /\ counted \subseteq Files

Sent(s) == sends[s].row # "none"
FileOf(s) == sends[s].file

(* Who carries a file, asks for a message, or deletes one, has it. *)
RowSound(s) ==
  /\ ~Sent(s) => sends[s].msg = "none"
  /\ Sent(s) => FileOf(s) \in Files /\ uploads[FileOf(s)].pc = "sent"
  /\ s \in deleting => Shown(s)

RequestSound(a) ==
  attempts[a].pc # "none" => attempts[a].send \in Sends /\ Sent(attempts[a].send)

(* Only what was abandoned is old and still PENDING, or in the hands of the *)
(* pruning.                                                                 *)
FileSound(f) ==
  f \notin contested =>
    /\ uploads[f].pc \in {"none", "open", "assembled"} => files[f] = "absent"
    /\ uploads[f].pc = "stored" => files[f] = "pending"
    /\ files[f] = "absent" => f \notin aged
    /\ f \in counted \/ (f \in aged /\ files[f] = "pending") => uploads[f].pc = "abandoned"

(* A message that is to come finds its file, one that is shown has it, and  *)
(* one that is being deleted has left it only to others.                    *)
KeptFor(s) ==
  \/ sends[s].by # uploads[FileOf(s)].by
  \/ \E m \in Sends : Beside(s, m) /\ Shown(m) /\ m \notin deleting

MessageSound(s) ==
  Sent(s) /\ FileOf(s) \notin contested =>
    /\ sends[s].msg = "none" => files[FileOf(s)] \in {"pending", "committed"}
    /\ Shown(s) /\ s \notin deleting => files[FileOf(s)] = "committed"
    /\ s \in deleting =>
         /\ files[FileOf(s)] # "pending"
         /\ files[FileOf(s)] = "committed" => KeptFor(s)

MInv ==
  /\ Typed
  /\ \A s \in Sends : RowSound(s) /\ MessageSound(s)
  /\ \A a \in Attempts : RequestSound(a)
  /\ \A f \in Files : FileSound(f)
  /\ CommittedIsNeeded

-----------------------------------------------------------------------------
(* What the steps change. *)

LEMMA Pieces ==
  ASSUME MInv
  PROVE  /\ Typed /\ CommittedIsNeeded
         /\ \A s \in Sends : RowSound(s) /\ MessageSound(s)
         /\ \A a \in Attempts : RequestSound(a)
         /\ \A f \in Files : FileSound(f)
  BY DEF MInv

(* Nobody has sent a file whose upload is not over. *)
LEMMA NotSentYet ==
  ASSUME MInv, NEW f \in Files, uploads[f].pc # "sent"
  PROVE  \A s \in Sends : Sent(s) => FileOf(s) # f
  BY DEF MInv, RowSound

(* An upload goes on, before its message. *)
LEMMA UploadStep ==
  ASSUME MInv, NEW f \in Files, NEW u \in UploadType, uploads[f].pc # "sent",
         uploads' = [uploads EXCEPT ![f] = u],
         files' \in [Files -> {"absent", "pending", "committed", "gone"}],
         \A g \in Files : g # f => files'[g] = files[g],
         sends' = sends, attempts' = attempts, deleting' = deleting,
         counted' \subseteq counted, aged' = aged, contested' = contested,
         FileSound(f)', f \notin contested => files'[f] # "committed"
  PROVE  MInv'
<1>1. /\ Typed /\ CommittedIsNeeded
      /\ \A s \in Sends : RowSound(s) /\ MessageSound(s)
      /\ \A a \in Attempts : RequestSound(a)
      /\ \A g \in Files : FileSound(g)
  BY Pieces
<1>2. /\ uploads' \in [Files -> UploadType]
      /\ \A g \in Files : g # f => uploads'[g] = uploads[g]
  BY <1>1 DEF Typed
<1>3. \A s \in Sends : Sent(s) => FileOf(s) # f
  BY NotSentYet
<1>4. Typed'
  BY <1>1, <1>2 DEF Typed
<1>5. ASSUME NEW s \in Sends PROVE RowSound(s)'
  BY <1>1, <1>2, <1>3 DEF RowSound, Sent, FileOf, Shown
<1>6. ASSUME NEW s \in Sends PROVE MessageSound(s)'
  <2>1. CASE Sent(s)
    <3>1. FileOf(s) \in Files /\ FileOf(s) # f /\ MessageSound(s)
      BY <1>1, <1>3, <2>1 DEF RowSound
    <3>2. KeptFor(s) => KeptFor(s)'
      BY <1>2, <3>1 DEF KeptFor, FileOf, Beside, Shown
    <3> QED
      BY <2>1, <3>1, <3>2 DEF MessageSound, Sent, FileOf, Shown
  <2>2. CASE ~Sent(s)
    BY <2>2 DEF MessageSound, Sent
  <2> QED
    BY <2>1, <2>2
<1>7. ASSUME NEW a \in Attempts PROVE RequestSound(a)'
  BY <1>1 DEF RequestSound, Sent
<1>8. ASSUME NEW g \in Files PROVE FileSound(g)'
  <2>1. CASE g # f
    BY <1>1, <1>2, <2>1 DEF FileSound
  <2> QED
    BY <2>1
<1>9. CommittedIsNeeded'
  <2>1. SUFFICES ASSUME NEW g \in Files, files'[g] = "committed", g \notin contested
                 PROVE  \E s \in Sends : sends[s].file = g
                          /\ (Shown(s) \/ (sends[s].msg = "deleted" /\ sends[s].by # uploads'[g].by))
    BY DEF CommittedIsNeeded, Shown
  <2>2. g # f
    BY <2>1
  <2> QED
    BY <1>1, <1>2, <2>1, <2>2 DEF CommittedIsNeeded
<1> QED
  BY <1>4, <1>5, <1>6, <1>7, <1>8, <1>9 DEF MInv

LEMMA BeginStep ==
  ASSUME MInv, NEW f \in Files, Initiate(f) \/ Single(f)
  PROVE  MInv'
<1>1. PICK u \in UploadType :
        u.pc \in {"open", "assembled"} /\ uploads' = [uploads EXCEPT ![f] = u]
  BY DEF Initiate, Single, UploadType
<1>2. /\ files' = files /\ sends' = sends /\ attempts' = attempts /\ deleting' = deleting
      /\ counted' = counted /\ aged' = aged /\ contested' = contested
      /\ uploads[f] = NoUpload
  BY DEF Initiate, Single, KeepSending
<1>3. Typed /\ FileSound(f) /\ uploads[f].pc = "none"
  BY <1>2, Pieces DEF NoUpload
<1>4. uploads'[f] = u
  BY <1>1, <1>3 DEF Typed
<1>5. FileSound(f)' /\ (f \notin contested => files'[f] # "committed")
  BY <1>1, <1>2, <1>3, <1>4 DEF FileSound
<1>6. files' \in [Files -> {"absent", "pending", "committed", "gone"}]
  BY <1>2, <1>3 DEF Typed
<1> QED
  BY <1>1, <1>2, <1>3, <1>5, <1>6, UploadStep

LEMMA ChunkStep ==
  ASSUME MInv, NEW f \in Files, Chunk(f)
  PROVE  MInv'
<1>1. Typed /\ FileSound(f) /\ uploads[f].pc = "open" /\ uploads[f] \in UploadType
  BY Pieces DEF Chunk, Typed
<1>2. PICK n \in Nat : n = uploads[f].chunks + 1
  BY <1>1 DEF UploadType
<1>3. \E pc \in {"open", "assembled"} : pc = IF n = Chunks THEN "assembled" ELSE "open"
  OBVIOUS
<1>4. PICK pc \in {"open", "assembled"} : pc = IF n = Chunks THEN "assembled" ELSE "open"
  BY <1>3
<1> DEFINE k == [uploads[f] EXCEPT !.chunks = n]
           u == [k EXCEPT !.pc = pc]
<1>5. uploads' = [uploads EXCEPT ![f] = u]
  BY <1>1, <1>2, <1>4 DEF Chunk, Typed
<1>6. k \in UploadType
  BY <1>1 DEF UploadType
<1> HIDE DEF k
<1>7. u \in UploadType /\ u.pc \in {"open", "assembled"}
  BY <1>6 DEF UploadType
<1> HIDE DEF u
<1>8. /\ files' = files /\ sends' = sends /\ attempts' = attempts /\ deleting' = deleting
      /\ counted' = counted /\ aged' = aged /\ contested' = contested
  BY DEF Chunk, KeepSending
<1>9. uploads'[f] = u
  BY <1>1, <1>5 DEF Typed
<1>10. FileSound(f)' /\ (f \notin contested => files'[f] # "committed")
  BY <1>1, <1>7, <1>8, <1>9 DEF FileSound
<1>11. files' \in [Files -> {"absent", "pending", "committed", "gone"}]
  BY <1>1, <1>8 DEF Typed
<1> QED
  BY <1>1, <1>5, <1>7, <1>8, <1>10, <1>11, UploadStep

(* The phase of an upload changes, and nothing else of it. *)
LEMMA PhaseFacts ==
  ASSUME Typed, NEW f \in Files,
         NEW pc \in {"open", "assembled", "stored", "sent", "abandoned"}, Phase(f, pc)
  PROVE  \E u \in UploadType : /\ u.pc = pc /\ u.by = uploads[f].by /\ u.room = uploads[f].room
                               /\ uploads' = [uploads EXCEPT ![f] = u] /\ uploads'[f] = u
<1> DEFINE u == [uploads[f] EXCEPT !.pc = pc]
<1>1. uploads \in [Files -> UploadType] /\ uploads[f] \in UploadType
  BY DEF Typed
<1>2. u \in UploadType /\ u.pc = pc /\ u.by = uploads[f].by /\ u.room = uploads[f].room
  BY <1>1 DEF UploadType
<1>3. uploads' = [uploads EXCEPT ![f] = u]
  BY DEF Phase
<1> HIDE DEF u
<1>4. uploads'[f] = u
  BY <1>1, <1>3
<1> QED
  BY <1>2, <1>3, <1>4

LEMMA StoreStep ==
  ASSUME MInv, NEW f \in Files, Store(f)
  PROVE  MInv'
<1>1. Typed /\ FileSound(f) /\ uploads[f].pc = "assembled"
  BY Pieces DEF Store
<1>2. PICK u \in UploadType : u.pc = "stored" /\ uploads' = [uploads EXCEPT ![f] = u] /\ uploads'[f] = u
  BY <1>1, PhaseFacts DEF Store
<1>3. /\ files' = [files EXCEPT ![f] = "pending"]
      /\ sends' = sends /\ attempts' = attempts /\ deleting' = deleting
      /\ counted' = counted /\ aged' = aged /\ contested' = contested
  BY DEF Store, KeepSending
<1>4. /\ files' \in [Files -> {"absent", "pending", "committed", "gone"}] /\ files'[f] = "pending"
      /\ \A g \in Files : g # f => files'[g] = files[g]
  BY <1>1, <1>3 DEF Typed
<1>5. FileSound(f)'
  BY <1>1, <1>2, <1>3, <1>4 DEF FileSound
<1> QED
  BY <1>1, <1>2, <1>3, <1>4, <1>5, UploadStep

LEMMA AbandonStep ==
  ASSUME MInv, NEW f \in Files, AbandonUpload(f)
  PROVE  MInv'
<1>1. Typed /\ FileSound(f) /\ uploads[f].pc \in {"open", "assembled", "stored"}
  BY Pieces DEF AbandonUpload
<1>2. PICK u \in UploadType : u.pc = "abandoned" /\ uploads' = [uploads EXCEPT ![f] = u] /\ uploads'[f] = u
  BY <1>1, PhaseFacts DEF AbandonUpload
<1>3. /\ files' = files /\ sends' = sends /\ attempts' = attempts /\ deleting' = deleting
      /\ counted' = counted /\ aged' = aged /\ contested' = contested
  BY DEF AbandonUpload, KeepSending
<1>4. FileSound(f)' /\ (f \notin contested => files'[f] # "committed")
  BY <1>1, <1>2, <1>3 DEF FileSound
<1>5. files' \in [Files -> {"absent", "pending", "committed", "gone"}]
  BY <1>1, <1>3 DEF Typed
<1> QED
  BY <1>1, <1>2, <1>3, <1>4, <1>5, UploadStep

(* A row is written for a file that is there. *)
LEMMA RowStep ==
  ASSUME MInv, NEW s \in Sends, NEW r \in SendType, NEW f \in Files,
         sends[s] = NoSend, sends' = [sends EXCEPT ![s] = r],
         r.row = "pending", r.msg = "none", r.file = f,
         uploads' \in [Files -> UploadType],
         \A g \in Files : uploads'[g].by = uploads[g].by,
         \A g \in Files : g # f => uploads'[g] = uploads[g],
         uploads'[f].pc = "sent", FileSound(f)',
         f \notin contested' => files[f] \in {"pending", "committed"},
         contested \subseteq contested',
         files' = files, attempts' = attempts, deleting' = deleting, counted' = counted, aged' = aged
  PROVE  MInv'
<1>1. /\ Typed /\ CommittedIsNeeded
      /\ \A m \in Sends : RowSound(m) /\ MessageSound(m)
      /\ \A a \in Attempts : RequestSound(a)
      /\ \A g \in Files : FileSound(g)
  BY Pieces
<1>2. /\ sends' \in [Sends -> SendType] /\ sends'[s] = r
      /\ \A m \in Sends : m # s => sends'[m] = sends[m]
  BY <1>1 DEF Typed
<1>3. sends[s].row = "none" /\ sends[s].msg = "none" /\ s \notin deleting
  BY <1>1 DEF NoSend, RowSound, Shown
<1>4. Typed'
  BY <1>1, <1>2 DEF Typed
<1>5. ASSUME NEW m \in Sends PROVE RowSound(m)' /\ MessageSound(m)'
  <2>1. CASE m = s
    BY <1>2, <1>3, <2>1 DEF RowSound, MessageSound, Sent, FileOf, Shown
  <2>2. CASE m # s
    <3>1. sends'[m] = sends[m] /\ RowSound(m) /\ MessageSound(m)
      BY <1>1, <1>2, <2>2
    <3>2. RowSound(m)'
      BY <3>1 DEF RowSound, Sent, FileOf, Shown
    <3>3. MessageSound(m)'
      <4>1. SUFFICES ASSUME Sent(m), FileOf(m) \notin contested PROVE MessageSound(m)'
        BY <3>1 DEF MessageSound, Sent, FileOf
      <4>2. FileOf(m) \in Files
        BY <3>1, <4>1 DEF RowSound
      <4>3. KeptFor(m) => KeptFor(m)'
        BY <1>2, <1>3, <2>2, <4>2 DEF KeptFor, FileOf, Beside, Shown
      <4> QED
        BY <3>1, <4>1, <4>3 DEF MessageSound, Sent, FileOf, Shown
    <3> QED
      BY <3>2, <3>3
  <2> QED
    BY <2>1, <2>2
<1>6. ASSUME NEW a \in Attempts PROVE RequestSound(a)'
  BY <1>1, <1>2 DEF RequestSound, Sent
<1>7. ASSUME NEW g \in Files PROVE FileSound(g)'
  <2>1. CASE g # f
    BY <1>1, <2>1 DEF FileSound
  <2> QED
    BY <2>1
<1>8. CommittedIsNeeded'
  <2>1. SUFFICES ASSUME NEW g \in Files, files[g] = "committed", g \notin contested
                 PROVE  \E m \in Sends : sends'[m].file = g
                          /\ (sends'[m].msg = "shown"
                              \/ (sends'[m].msg = "deleted" /\ sends'[m].by # uploads'[g].by))
    BY DEF CommittedIsNeeded, Shown
  <2>2. PICK m \in Sends : sends[m].file = g
                 /\ (Shown(m) \/ (sends[m].msg = "deleted" /\ sends[m].by # uploads[g].by))
    BY <1>1, <2>1 DEF CommittedIsNeeded
  <2>3. m # s
    BY <1>3, <2>2 DEF Shown
  <2> QED
    BY <1>2, <2>2, <2>3 DEF Shown
<1> QED
  BY <1>4, <1>5, <1>6, <1>7, <1>8 DEF MInv

LEMMA EnqueueStep ==
  ASSUME MInv, NEW f \in Files, NEW s \in Sends, Enqueue(f, s)
  PROVE  MInv'
<1>1. Typed /\ FileSound(f) /\ uploads[f].pc = "stored" /\ uploads[f] \in UploadType
  BY Pieces DEF Enqueue, Typed
<1>2. PICK u \in UploadType : /\ u.pc = "sent" /\ u.by = uploads[f].by
                              /\ uploads' = [uploads EXCEPT ![f] = u] /\ uploads'[f] = u
  BY <1>1, PhaseFacts DEF Enqueue
<1> DEFINE r == [by |-> uploads[f].by, room |-> uploads[f].room, file |-> f,
                 row |-> "pending", msg |-> "none"]
<1>3. r \in SendType /\ r.row = "pending" /\ r.msg = "none" /\ r.file = f
  BY <1>1 DEF UploadType, SendType
<1>4. /\ sends[s] = NoSend /\ sends' = [sends EXCEPT ![s] = r]
      /\ files' = files /\ attempts' = attempts /\ deleting' = deleting
      /\ counted' = counted /\ aged' = aged /\ contested' = contested
  BY DEF Enqueue, Unused
<1> HIDE DEF r
<1>5. /\ uploads' \in [Files -> UploadType]
      /\ \A g \in Files : uploads'[g].by = uploads[g].by
      /\ \A g \in Files : g # f => uploads'[g] = uploads[g]
  BY <1>1, <1>2 DEF Typed
<1>6. FileSound(f)' /\ (f \notin contested' => files[f] \in {"pending", "committed"})
  BY <1>1, <1>2, <1>4 DEF FileSound
<1> QED
  BY <1>2, <1>3, <1>4, <1>5, <1>6, RowStep

LEMMA ForwardStep ==
  ASSUME MInv, NEW s \in Sends, NEW m \in Sends, Forward(s, m)
  PROVE  MInv'
<1>1. Typed /\ RowSound(m) /\ MessageSound(m) /\ sends[m].msg # "none" /\ sends[m] \in SendType
  BY Pieces DEF Forward, Typed
<1>2. Sent(m) /\ FileOf(m) \in Files /\ uploads[FileOf(m)].pc = "sent"
  BY <1>1 DEF RowSound
<1>3. PICK f \in Files : f = FileOf(m)
  BY <1>2
<1>4. /\ sends[s] = NoSend /\ files' = files /\ attempts' = attempts /\ deleting' = deleting
      /\ counted' = counted /\ aged' = aged /\ uploads' = uploads
      /\ contested' = IF Shown(m) /\ m \notin deleting THEN contested ELSE contested \cup {f}
  BY <1>3 DEF Forward, Unused, FileOf
<1>5. PICK u \in Users, room \in Rooms :
        sends' = [sends EXCEPT ![s] =
          [by |-> u, room |-> room, file |-> f, row |-> "pending", msg |-> "none"]]
  <2>1. \A r \in Rooms : Members[r] \subseteq Users
    BY MembersAssumption
  <2> QED
    BY <1>3, <2>1 DEF Forward, FileOf, IsMember
<1> DEFINE r == [by |-> u, room |-> room, file |-> f, row |-> "pending", msg |-> "none"]
<1>6. r \in SendType /\ r.row = "pending" /\ r.msg = "none" /\ r.file = f
  BY DEF SendType
<1>7. sends' = [sends EXCEPT ![s] = r]
  BY <1>5
<1> HIDE DEF r
<1>8. uploads' \in [Files -> UploadType] /\ uploads'[f].pc = "sent"
  BY <1>1, <1>2, <1>3, <1>4 DEF Typed
<1>9. contested \subseteq contested'
  BY <1>4
<1>10. f \notin contested' => files[f] \in {"pending", "committed"}
  BY <1>1, <1>2, <1>3, <1>4 DEF MessageSound
<1>11. FileSound(f)'
  BY <1>4, <1>9, Pieces DEF FileSound
<1> QED
  BY <1>4, <1>6, <1>7, <1>8, <1>9, <1>10, <1>11, RowStep

(* Messages keep who sent them, their file, and whether they are shown. *)
SameMessages ==
  \A s \in Sends :
    /\ sends'[s].by = sends[s].by /\ sends'[s].file = sends[s].file /\ sends'[s].msg = sends[s].msg
    /\ sends'[s].row # "none" <=> sends[s].row # "none"

(* A step that changes files of the unguarded cases only. *)
LEMMA ElsewhereStep ==
  ASSUME MInv, Typed', uploads' = uploads, SameMessages, contested \subseteq contested',
         \A f \in Files : f \notin contested' => files'[f] = files[f],
         deleting' \subseteq deleting,
         \A s \in deleting \ deleting' : sends[s].file \in contested',
         \A a \in Attempts : RequestSound(a)', \A f \in Files : FileSound(f)'
  PROVE  MInv'
<1>1. /\ CommittedIsNeeded
      /\ \A m \in Sends : RowSound(m) /\ MessageSound(m)
  BY Pieces
<1>2. ASSUME NEW m \in Sends PROVE RowSound(m)' /\ MessageSound(m)'
  <2>1. RowSound(m) /\ MessageSound(m)
    BY <1>1
  <2>2. RowSound(m)'
    BY <2>1 DEF RowSound, Sent, FileOf, Shown, SameMessages
  <2>3. KeptFor(m) => KeptFor(m)'
    BY DEF KeptFor, FileOf, Beside, Shown, SameMessages
  <2>4. MessageSound(m)'
    <3>1. SUFFICES ASSUME Sent(m), FileOf(m) \notin contested' PROVE MessageSound(m)'
      BY DEF MessageSound, Sent, FileOf, SameMessages
    <3>2. FileOf(m) \in Files
      BY <2>1, <3>1 DEF RowSound
    <3>3. files'[FileOf(m)] = files[FileOf(m)]
      BY <3>1, <3>2
    <3>4. m \in deleting <=> m \in deleting'
      BY <3>1 DEF FileOf
    <3> QED
      BY <2>1, <2>3, <3>1, <3>3, <3>4 DEF MessageSound, Sent, FileOf, Shown, SameMessages
  <2> QED
    BY <2>2, <2>4
<1>3. CommittedIsNeeded'
  <2>1. SUFFICES ASSUME NEW g \in Files, files'[g] = "committed", g \notin contested'
                 PROVE  \E m \in Sends : sends'[m].file = g
                          /\ (sends'[m].msg = "shown"
                              \/ (sends'[m].msg = "deleted" /\ sends'[m].by # uploads[g].by))
    BY DEF CommittedIsNeeded, Shown
  <2>2. files[g] = "committed" /\ g \notin contested
    BY <2>1
  <2> QED
    BY <1>1, <2>2 DEF CommittedIsNeeded, SameMessages, Shown
<1> QED
  BY <1>2, <1>3 DEF MInv

LEMMA QuietStep ==
  ASSUME MInv, UNCHANGED <<uploads, files, aged, sends, attempts, deleting, counted, contested>>
  PROVE  MInv'
<1>1. /\ uploads' = uploads /\ files' = files /\ aged' = aged /\ sends' = sends
      /\ attempts' = attempts /\ deleting' = deleting /\ counted' = counted /\ contested' = contested
  OBVIOUS
<1>2. Typed' /\ SameMessages
  BY <1>1, Pieces DEF Typed, SameMessages
<1>3. (\A a \in Attempts : RequestSound(a)') /\ (\A f \in Files : FileSound(f)')
  BY <1>1, Pieces DEF RequestSound, FileSound, Sent
<1> QED
  BY <1>1, <1>2, <1>3, ElsewhereStep

(* A request is made or goes on. *)
LEMMA RequestStep ==
  ASSUME MInv, NEW a \in Attempts, NEW r \in AttemptType, attempts' = [attempts EXCEPT ![a] = r],
         r.pc # "none" => r.send \in Sends /\ Sent(r.send),
         uploads' = uploads, files' = files, aged' = aged, sends' = sends, deleting' = deleting,
         counted' = counted, contested' = contested
  PROVE  MInv'
<1>1. Typed /\ (\A b \in Attempts : RequestSound(b)) /\ (\A f \in Files : FileSound(f))
  BY Pieces
<1>2. /\ attempts' \in [Attempts -> AttemptType] /\ attempts'[a] = r
      /\ \A b \in Attempts : b # a => attempts'[b] = attempts[b]
  BY <1>1 DEF Typed
<1>3. Typed' /\ SameMessages
  BY <1>1, <1>2 DEF Typed, SameMessages
<1>4. \A b \in Attempts : RequestSound(b)'
  BY <1>1, <1>2 DEF RequestSound, Sent
<1>5. \A f \in Files : FileSound(f)'
  BY <1>1 DEF FileSound
<1> QED
  BY <1>3, <1>4, <1>5, ElsewhereStep

LEMMA AttemptStep ==
  ASSUME MInv, NEW a \in Attempts, NEW s \in Sends, Attempt(a, s)
  PROVE  MInv'
<1> DEFINE r == [send |-> s, pc |-> "asked"]
<1>1. r \in AttemptType /\ r.send = s
  BY DEF AttemptType
<1>2. /\ attempts' = [attempts EXCEPT ![a] = r] /\ sends[s].row = "pending"
      /\ uploads' = uploads /\ files' = files /\ aged' = aged /\ sends' = sends
      /\ deleting' = deleting /\ counted' = counted /\ contested' = contested
  BY DEF Attempt, KeepUploads
<1> HIDE DEF r
<1>3. Sent(s)
  BY <1>2 DEF Sent
<1> QED
  BY <1>1, <1>2, <1>3, RequestStep

(* A request gets an answer of the server, which the client will see. *)
LEMMA GoesOn ==
  ASSUME MInv, NEW a \in Attempts, NEW pc \in {"refused", "stored", "error"}, attempts[a].pc # "none",
         attempts' = [attempts EXCEPT ![a].pc = pc]
  PROVE  /\ attempts[a].send \in Sends /\ Sent(attempts[a].send)
         /\ \E r \in AttemptType : /\ attempts' = [attempts EXCEPT ![a] = r]
                                   /\ r.send = attempts[a].send /\ r.pc = pc
<1>1. Typed /\ RequestSound(a) /\ attempts[a] \in AttemptType
  BY Pieces DEF Typed
<1> DEFINE r == [attempts[a] EXCEPT !.pc = pc]
<1>2. r \in AttemptType /\ r.send = attempts[a].send /\ r.pc = pc
  BY <1>1 DEF AttemptType
<1>3. attempts' = [attempts EXCEPT ![a] = r]
  OBVIOUS
<1> HIDE DEF r
<1> QED
  BY <1>1, <1>2, <1>3 DEF RequestSound

LEMMA RefuseStep ==
  ASSUME MInv, NEW a \in Attempts, Refuse(a) \/ FailAttempt(a)
  PROVE  MInv'
<1>1. /\ attempts' = [attempts EXCEPT ![a].pc = "refused"] /\ attempts[a].pc # "none"
      /\ uploads' = uploads /\ files' = files /\ aged' = aged /\ sends' = sends
      /\ deleting' = deleting /\ counted' = counted /\ contested' = contested
  BY DEF Refuse, FailAttempt, KeepUploads
<1>2. PICK r \in AttemptType : /\ attempts' = [attempts EXCEPT ![a] = r]
                               /\ r.send = attempts[a].send /\ r.pc = "refused"
  BY <1>1, GoesOn
<1>3. r.send \in Sends /\ Sent(r.send)
  BY <1>1, <1>2, GoesOn
<1> QED
  BY <1>1, <1>2, <1>3, RequestStep

LEMMA CatchStep ==
  ASSUME MInv, NEW a \in Attempts, Catch(a)
  PROVE  MInv'
<1>1. attempts' = [attempts EXCEPT ![a].pc = "error"] /\ attempts[a].pc # "none"
  BY DEF Catch
<1>2. PICK s \in Sends : s = attempts[a].send /\ Sent(s)
  BY <1>1, GoesOn
<1>3. PICK r \in AttemptType : /\ attempts' = [attempts EXCEPT ![a] = r]
                               /\ r.send = s /\ r.pc = "error"
  BY <1>1, <1>2, GoesOn
<1>4. /\ Typed /\ RowSound(s)
      /\ (\A b \in Attempts : RequestSound(b)) /\ (\A f \in Files : FileSound(f))
  BY Pieces
<1>5. PICK g \in Files : g = sends[s].file
  BY <1>2, <1>4 DEF RowSound, FileOf
<1>6. /\ uploads' = uploads /\ aged' = aged /\ sends' = sends
      /\ deleting' = deleting /\ counted' = counted
      /\ files' = [files EXCEPT ![g] = IF OwnFile(g, sends[s].by) THEN "gone" ELSE @]
      /\ contested' = IF sends[s].by = uploads[g].by THEN contested \cup {g} ELSE contested
  BY <1>2, <1>5 DEF Catch, KeepUploads, Removed
<1>7. contested \subseteq contested'
  BY <1>6
<1>8. /\ files' \in [Files -> {"absent", "pending", "committed", "gone"}]
      /\ \A f \in Files : f \notin contested' => files'[f] = files[f]
  BY <1>4, <1>6 DEF Typed, OwnFile
<1>9. /\ attempts' \in [Attempts -> AttemptType] /\ attempts'[a] = r
      /\ \A b \in Attempts : b # a => attempts'[b] = attempts[b]
  BY <1>3, <1>4 DEF Typed
<1>10. Typed' /\ SameMessages
  BY <1>4, <1>6, <1>8, <1>9 DEF Typed, SameMessages
<1>11. \A b \in Attempts : RequestSound(b)'
  BY <1>2, <1>3, <1>4, <1>6, <1>9 DEF RequestSound, Sent
<1>12. \A f \in Files : FileSound(f)'
  BY <1>4, <1>6, <1>7, <1>8 DEF FileSound
<1> QED
  BY <1>6, <1>7, <1>8, <1>10, <1>11, <1>12, ElsewhereStep

LEMMA AnswerStep ==
  ASSUME MInv, NEW a \in Attempts, Answer(a)
  PROVE  MInv'
<1>1. /\ Typed /\ RequestSound(a) /\ attempts[a].pc # "none"
      /\ (\A b \in Attempts : RequestSound(b)) /\ (\A f \in Files : FileSound(f))
  BY Pieces DEF Answer
<1>2. PICK s \in Sends : s = attempts[a].send /\ Sent(s)
  BY <1>1 DEF RequestSound
<1>3. /\ uploads' = uploads /\ files' = files /\ aged' = aged /\ deleting' = deleting
      /\ counted' = counted /\ contested' = contested /\ attempts' = [attempts EXCEPT ![a] = NoAttempt]
  BY DEF Answer, KeepUploads
<1>4. \/ \E row \in {"done", "rejected"} : sends' = [sends EXCEPT ![s].row = row]
      \/ sends' = sends
  BY <1>2 DEF Answer
<1>5. sends' \in [Sends -> SendType] /\ SameMessages
  <2>1. CASE \E row \in {"done", "rejected"} : sends' = [sends EXCEPT ![s].row = row]
    <3>1. PICK row \in {"done", "rejected"} : sends' = [sends EXCEPT ![s].row = row]
      BY <2>1
    <3> DEFINE r == [sends[s] EXCEPT !.row = row]
    <3>2. sends[s] \in SendType /\ sends \in [Sends -> SendType]
      BY <1>1 DEF Typed
    <3>3. /\ r \in SendType /\ r.by = sends[s].by /\ r.file = sends[s].file /\ r.msg = sends[s].msg
          /\ r.row = row
      BY <3>2 DEF SendType
    <3>4. sends' = [sends EXCEPT ![s] = r]
      BY <3>1
    <3> HIDE DEF r
    <3>5. /\ sends' \in [Sends -> SendType] /\ sends'[s] = r
          /\ \A m \in Sends : m # s => sends'[m] = sends[m]
      BY <3>2, <3>3, <3>4
    <3> QED
      BY <1>2, <3>3, <3>5 DEF SameMessages, Sent
  <2>2. CASE sends' = sends
    BY <1>1, <2>2 DEF Typed, SameMessages
  <2> QED
    BY <1>4, <2>1, <2>2
<1>6. NoAttempt \in AttemptType /\ NoAttempt.pc = "none"
  BY DEF NoAttempt, AttemptType
<1>7. /\ attempts' \in [Attempts -> AttemptType] /\ attempts'[a].pc = "none"
      /\ \A b \in Attempts : b # a => attempts'[b] = attempts[b]
  BY <1>1, <1>3, <1>6 DEF Typed
<1>8. Typed'
  BY <1>1, <1>3, <1>5, <1>7 DEF Typed
<1>9. \A b \in Attempts : RequestSound(b)'
  BY <1>1, <1>5, <1>7 DEF RequestSound, Sent, SameMessages
<1>10. \A f \in Files : FileSound(f)'
  BY <1>1, <1>3 DEF FileSound
<1> QED
  BY <1>3, <1>5, <1>8, <1>9, <1>10, ElsewhereStep

(* The message of a request is stored, and its file with it. *)
LEMMA CreateStep ==
  ASSUME MInv, NEW a \in Attempts, Create(a)
  PROVE  MInv'
<1>1. attempts' = [attempts EXCEPT ![a].pc = "stored"] /\ attempts[a].pc # "none"
  BY DEF Create
<1>2. PICK s \in Sends : s = attempts[a].send /\ Sent(s)
  BY <1>1, GoesOn
<1>3. PICK r \in AttemptType : /\ attempts' = [attempts EXCEPT ![a] = r]
                               /\ r.send = s /\ r.pc = "stored"
  BY <1>1, <1>2, GoesOn
<1>4. /\ Typed /\ CommittedIsNeeded
      /\ \A m \in Sends : RowSound(m) /\ MessageSound(m)
      /\ \A b \in Attempts : RequestSound(b)
      /\ \A g \in Files : FileSound(g)
  BY Pieces
<1>5. /\ uploads' = uploads /\ aged' = aged /\ deleting' = deleting /\ counted' = counted
      /\ contested' = contested
  BY DEF Create, KeepUploads
<1>6. CASE sends[s].msg # "none"
  <2>1. sends' = sends /\ files' = files
    BY <1>2, <1>6 DEF Create
  <2> QED
    BY <1>2, <1>3, <1>5, <2>1, RequestStep
<1>7. CASE sends[s].msg = "none"
  <2>1. PICK f \in Files : f = sends[s].file
    BY <1>2, <1>4 DEF RowSound, FileOf
  <2>2. /\ sends' = [sends EXCEPT ![s].msg = "shown"]
        /\ files' = [files EXCEPT ![f] = IF @ = "pending" THEN "committed" ELSE @]
    BY <1>2, <1>7, <2>1 DEF Create, Marked
  <2> DEFINE m0 == [sends[s] EXCEPT !.msg = "shown"]
  <2>3. sends[s] \in SendType /\ sends \in [Sends -> SendType]
    BY <1>4 DEF Typed
  <2>4. /\ m0 \in SendType /\ m0.by = sends[s].by /\ m0.file = f /\ m0.row = sends[s].row
        /\ m0.msg = "shown"
    BY <2>1, <2>3 DEF SendType
  <2>5. sends' = [sends EXCEPT ![s] = m0]
    BY <2>2
  <2> HIDE DEF m0
  <2>6. /\ sends' \in [Sends -> SendType] /\ sends'[s] = m0
        /\ \A m \in Sends : m # s => sends'[m] = sends[m]
    BY <2>3, <2>4, <2>5
  <2>7. \A m \in Sends : sends'[m].by = sends[m].by /\ sends'[m].file = sends[m].file
                         /\ sends'[m].row = sends[m].row
    BY <2>1, <2>4, <2>6
  <2>8. /\ files' \in [Files -> {"absent", "pending", "committed", "gone"}]
        /\ \A g \in Files : g # f => files'[g] = files[g]
        /\ files'[f] = IF files[f] = "pending" THEN "committed" ELSE files[f]
    BY <1>4, <2>2 DEF Typed
  <2>9. s \notin deleting /\ uploads[f].pc = "sent"
    BY <1>2, <1>4, <1>7, <2>1 DEF RowSound, Shown, FileOf
  <2>10. f \notin contested => files'[f] = "committed"
    BY <1>2, <1>4, <1>7, <2>1, <2>8 DEF MessageSound, FileOf
  <2>11. Typed'
    <3>1. attempts' \in [Attempts -> AttemptType]
      BY <1>3, <1>4 DEF Typed
    <3> QED
      BY <1>4, <1>5, <2>6, <2>8, <3>1 DEF Typed
  <2>12. \A g \in Files : FileSound(g)'
    <3> SUFFICES ASSUME NEW g \in Files PROVE FileSound(g)'
      OBVIOUS
    <3>1. CASE g = f
      BY <1>4, <1>5, <2>9, <2>10, <3>1 DEF FileSound
    <3>2. CASE g # f
      BY <1>4, <1>5, <2>8, <3>2 DEF FileSound
    <3> QED
      BY <3>1, <3>2
  <2>13. ASSUME NEW m \in Sends PROVE RowSound(m)'
    <3>1. CASE m = s
      BY <1>2, <1>4, <1>5, <2>7, <2>9, <3>1 DEF RowSound, Sent, FileOf
    <3>2. CASE m # s
      BY <1>4, <1>5, <2>6, <3>2 DEF RowSound, Sent, FileOf, Shown
    <3> QED
      BY <3>1, <3>2
  <2>14. ASSUME NEW m \in Sends PROVE MessageSound(m)'
    <3>1. SUFFICES ASSUME Sent(m), FileOf(m) \notin contested PROVE MessageSound(m)'
      BY <1>5, <2>7 DEF MessageSound, Sent, FileOf
    <3>2. MessageSound(m) /\ FileOf(m) \in Files
      BY <1>4, <3>1 DEF RowSound
    <3>3. CASE m = s
      BY <1>5, <2>1, <2>4, <2>6, <2>9, <2>10, <3>1, <3>3 DEF MessageSound, FileOf, Shown
    <3>4. CASE m # s /\ FileOf(m) = f
      <4>1. files'[f] = "committed" /\ sends'[m] = sends[m]
        BY <2>6, <2>10, <3>1, <3>4
      <4>2. KeptFor(m)'
        BY <1>5, <2>1, <2>4, <2>6, <2>9, <3>4 DEF KeptFor, Beside, FileOf, Shown
      <4> QED
        BY <3>4, <4>1, <4>2 DEF MessageSound, FileOf
    <3>5. CASE m # s /\ FileOf(m) # f
      <4>1. files'[FileOf(m)] = files[FileOf(m)] /\ sends'[m] = sends[m]
        BY <2>6, <2>8, <3>2, <3>5
      <4>2. KeptFor(m) => KeptFor(m)'
        BY <1>5, <2>1, <2>6, <2>7, <3>5 DEF KeptFor, Beside, FileOf, Shown
      <4> QED
        BY <1>5, <3>1, <3>2, <4>1, <4>2 DEF MessageSound, FileOf, Sent, Shown
    <3> QED
      BY <3>3, <3>4, <3>5
  <2>15. ASSUME NEW b \in Attempts PROVE RequestSound(b)'
    <3>1. attempts'[b] = IF b = a THEN r ELSE attempts[b]
      BY <1>3, <1>4 DEF Typed
    <3> QED
      BY <1>2, <1>3, <1>4, <2>7, <3>1 DEF RequestSound, Sent
  <2>16. CommittedIsNeeded'
    <3>1. SUFFICES ASSUME NEW g \in Files, files'[g] = "committed", g \notin contested
                   PROVE  \E m \in Sends : sends'[m].file = g
                            /\ (sends'[m].msg = "shown"
                                \/ (sends'[m].msg = "deleted" /\ sends'[m].by # uploads[g].by))
      BY <1>5 DEF CommittedIsNeeded, Shown
    <3>2. CASE g = f
      BY <2>4, <2>6, <3>2
    <3>3. CASE g # f
      <4>1. PICK m \in Sends : sends[m].file = g
                 /\ (Shown(m) \/ (sends[m].msg = "deleted" /\ sends[m].by # uploads[g].by))
        BY <1>4, <2>8, <3>1, <3>3 DEF CommittedIsNeeded
      <4>2. m # s
        BY <2>1, <3>3, <4>1
      <4> QED
        BY <2>6, <4>1, <4>2 DEF Shown
    <3> QED
      BY <3>2, <3>3
  <2> QED
    BY <2>11, <2>12, <2>13, <2>14, <2>15, <2>16 DEF MInv
<1> QED
  BY <1>6, <1>7

(* deleteMessage takes the file along when no other message shows it. *)
LEMMA DeleteFileStep ==
  ASSUME MInv, NEW s \in Sends, DeleteFile(s)
  PROVE  MInv'
<1>1. /\ Typed /\ CommittedIsNeeded
      /\ \A m \in Sends : RowSound(m) /\ MessageSound(m)
      /\ \A b \in Attempts : RequestSound(b)
      /\ \A g \in Files : FileSound(g)
  BY Pieces
<1>2. Shown(s) /\ s \notin deleting
  BY DEF DeleteFile
<1>3. Sent(s) /\ FileOf(s) \in Files
  BY <1>1, <1>2 DEF RowSound, Shown
<1>4. PICK f \in Files : f = FileOf(s)
  BY <1>3
<1>5. /\ uploads' = uploads /\ aged' = aged /\ sends' = sends /\ attempts' = attempts
      /\ counted' = counted /\ deleting' = deleting \cup {s}
      /\ files' = IF Unshared(s) /\ OwnFile(f, sends[s].by) THEN [files EXCEPT ![f] = "gone"] ELSE files
      /\ contested' = IF \E m \in Sends : Beside(s, m) /\ (sends[m].msg = "none" \/ m \in deleting)
                      THEN contested \cup {f} ELSE contested
  <2>1. [files EXCEPT ![f] = files[f]] = files
    BY <1>1 DEF Typed
  <2> QED
    BY <1>4, <2>1 DEF DeleteFile, Removed, FileOf, KeepUploads
<1>6. /\ files' \in [Files -> {"absent", "pending", "committed", "gone"}]
      /\ \A g \in Files : g # f => files'[g] = files[g]
      /\ files'[f] = IF Unshared(s) /\ OwnFile(f, sends[s].by) THEN "gone" ELSE files[f]
      /\ contested \subseteq contested'
  BY <1>1, <1>5 DEF Typed
<1>7. f \notin contested' =>
        /\ files[f] = "committed"
        /\ \A m \in Sends : Beside(s, m) => sends[m].msg # "none" /\ m \notin deleting
  BY <1>1, <1>2, <1>3, <1>4, <1>5 DEF MessageSound
<1>8. Typed'
  BY <1>1, <1>5, <1>6 DEF Typed
<1>9. ASSUME NEW g \in Files PROVE FileSound(g)'
  <2>1. uploads[f].pc = "sent"
    BY <1>1, <1>3, <1>4 DEF RowSound
  <2>2. CASE g = f
    BY <1>1, <1>5, <1>6, <1>7, <2>1, <2>2 DEF FileSound
  <2>3. CASE g # f
    BY <1>1, <1>5, <1>6, <2>3 DEF FileSound
  <2> QED
    BY <2>2, <2>3
<1>10. ASSUME NEW m \in Sends PROVE RowSound(m)'
  BY <1>1, <1>2, <1>5 DEF RowSound, Sent, FileOf, Shown
<1>11. ASSUME NEW m \in Sends PROVE MessageSound(m)'
  <2>1. SUFFICES ASSUME Sent(m), FileOf(m) \notin contested' PROVE MessageSound(m)'
    BY <1>5 DEF MessageSound, Sent, FileOf
  <2>2. MessageSound(m) /\ FileOf(m) \in Files /\ FileOf(m) \notin contested
    BY <1>1, <1>6, <2>1 DEF RowSound
  <2>3. CASE FileOf(m) # f
    <3>1. KeptFor(m) => KeptFor(m)'
      BY <1>4, <1>5, <2>3 DEF KeptFor, Beside, FileOf, Shown
    <3>2. files'[FileOf(m)] = files[FileOf(m)] /\ m # s
      BY <1>4, <1>6, <2>2, <2>3
    <3> QED
      BY <1>5, <2>1, <2>2, <3>1, <3>2 DEF MessageSound, Sent, FileOf, Shown
  <2>4. CASE FileOf(m) = f /\ m # s
    <3>1. sends[m].msg # "none" /\ m \notin deleting'
      BY <1>4, <1>5, <1>7, <2>1, <2>4 DEF Beside, FileOf
    <3>2. Shown(m) => files'[f] = files[f]
      BY <1>4, <1>6, <2>4 DEF Unshared, Beside, FileOf
    <3> QED
      BY <1>5, <1>7, <2>1, <2>4, <3>1, <3>2 DEF MessageSound, FileOf, Shown
  <2>5. CASE m = s
    <3>1. files'[f] \in {"committed", "gone"} /\ files[f] = "committed"
      BY <1>4, <1>6, <1>7, <2>1, <2>5
    <3>2. CASE Unshared(s)
      <4>1. files'[f] = "committed" => sends[s].by # uploads[f].by
        BY <1>6, <3>1, <3>2 DEF OwnFile
      <4> QED
        BY <1>2, <1>4, <1>5, <2>5, <3>1, <4>1 DEF MessageSound, KeptFor, FileOf, Shown
    <3>3. CASE ~Unshared(s)
      <4>1. PICK k \in Sends : Beside(s, k) /\ Shown(k)
        BY <3>3 DEF Unshared
      <4>2. k \notin deleting'
        BY <1>4, <1>5, <1>7, <2>1, <2>5, <4>1 DEF Beside, FileOf
      <4>3. KeptFor(s)'
        BY <1>5, <4>1, <4>2 DEF KeptFor, Beside, Shown
      <4> QED
        BY <1>2, <1>4, <1>5, <2>5, <3>1, <4>3 DEF MessageSound, FileOf, Shown
    <3> QED
      BY <3>2, <3>3
  <2> QED
    BY <2>3, <2>4, <2>5
<1>12. \A b \in Attempts : RequestSound(b)'
  BY <1>1, <1>5 DEF RequestSound, Sent
<1>13. CommittedIsNeeded'
  <2>1. SUFFICES ASSUME NEW g \in Files, files'[g] = "committed", g \notin contested'
                 PROVE  \E m \in Sends : sends[m].file = g
                          /\ (sends[m].msg = "shown"
                              \/ (sends[m].msg = "deleted" /\ sends[m].by # uploads[g].by))
    BY <1>5 DEF CommittedIsNeeded, Shown
  <2>2. files[g] = "committed" /\ g \notin contested
    BY <1>6, <2>1
  <2> QED
    BY <1>1, <2>2 DEF CommittedIsNeeded, Shown
<1> QED
  BY <1>8, <1>9, <1>10, <1>11, <1>12, <1>13 DEF MInv

LEMMA DeleteMessageStep ==
  ASSUME MInv, NEW s \in Sends, DeleteMessage(s)
  PROVE  MInv'
<1>1. /\ Typed /\ CommittedIsNeeded
      /\ \A m \in Sends : RowSound(m) /\ MessageSound(m)
      /\ \A b \in Attempts : RequestSound(b)
      /\ \A g \in Files : FileSound(g)
  BY Pieces
<1>2. /\ s \in deleting /\ uploads' = uploads /\ aged' = aged /\ files' = files /\ attempts' = attempts
      /\ counted' = counted /\ contested' = contested /\ deleting' = deleting \ {s}
      /\ sends' = [sends EXCEPT ![s].msg = "deleted"]
  BY DEF DeleteMessage, KeepUploads
<1> DEFINE r == [sends[s] EXCEPT !.msg = "deleted"]
<1>3. sends[s] \in SendType /\ sends \in [Sends -> SendType]
  BY <1>1 DEF Typed
<1>4. /\ r \in SendType /\ r.by = sends[s].by /\ r.file = sends[s].file /\ r.row = sends[s].row
      /\ r.msg = "deleted"
  BY <1>3 DEF SendType
<1>5. sends' = [sends EXCEPT ![s] = r]
  BY <1>2
<1> HIDE DEF r
<1>6. /\ sends' \in [Sends -> SendType] /\ sends'[s] = r
      /\ \A m \in Sends : m # s => sends'[m] = sends[m]
  BY <1>3, <1>4, <1>5
<1>7. \A m \in Sends : sends'[m].by = sends[m].by /\ sends'[m].file = sends[m].file
                       /\ sends'[m].row = sends[m].row
  BY <1>4, <1>6
<1>8. Shown(s) /\ Sent(s) /\ FileOf(s) \in Files
  BY <1>1, <1>2 DEF RowSound, Shown
<1>9. Typed'
  BY <1>1, <1>2, <1>6 DEF Typed
<1>10. \A g \in Files : FileSound(g)'
  BY <1>1, <1>2 DEF FileSound
<1>11. ASSUME NEW m \in Sends PROVE RowSound(m)'
  <2>1. CASE m = s
    BY <1>1, <1>2, <1>7, <1>8, <2>1 DEF RowSound, Sent, FileOf
  <2>2. CASE m # s
    BY <1>1, <1>2, <1>6, <2>2 DEF RowSound, Sent, FileOf, Shown
  <2> QED
    BY <2>1, <2>2
<1>12. ASSUME NEW m \in Sends PROVE MessageSound(m)'
  <2>1. CASE m = s
    BY <1>2, <1>4, <1>6, <2>1 DEF MessageSound, Shown
  <2>2. CASE m # s
    <3>1. KeptFor(m) => KeptFor(m)'
      BY <1>2, <1>6, <1>7 DEF KeptFor, Beside, FileOf, Shown
    <3> QED
      BY <1>1, <1>2, <1>6, <2>2, <3>1 DEF MessageSound, Sent, FileOf, Shown
  <2> QED
    BY <2>1, <2>2
<1>13. \A b \in Attempts : RequestSound(b)'
  BY <1>1, <1>2, <1>7 DEF RequestSound, Sent
<1>14. CommittedIsNeeded'
  <2>1. SUFFICES ASSUME NEW g \in Files, files[g] = "committed", g \notin contested
                 PROVE  \E m \in Sends : sends'[m].file = g
                          /\ (sends'[m].msg = "shown"
                              \/ (sends'[m].msg = "deleted" /\ sends'[m].by # uploads[g].by))
    BY <1>2 DEF CommittedIsNeeded, Shown
  <2>2. PICK m \in Sends : sends[m].file = g
               /\ (Shown(m) \/ (sends[m].msg = "deleted" /\ sends[m].by # uploads[g].by))
    BY <1>1, <2>1 DEF CommittedIsNeeded
  <2>3. CASE m # s
    BY <1>6, <2>2, <2>3 DEF Shown
  <2>4. CASE m = s
    <3>1. KeptFor(s) /\ FileOf(s) = g
      BY <1>1, <1>2, <1>8, <2>1, <2>2, <2>4 DEF MessageSound, FileOf
    <3>2. CASE sends[s].by # uploads[g].by
      BY <1>4, <1>6, <2>2, <2>4, <3>2
    <3>3. CASE \E k \in Sends : Beside(s, k) /\ Shown(k) /\ k \notin deleting
      BY <1>6, <2>2, <2>4, <3>3 DEF Beside, Shown
    <3> QED
      BY <3>1, <3>2, <3>3 DEF KeptFor
  <2> QED
    BY <2>3, <2>4
<1> QED
  BY <1>9, <1>10, <1>11, <1>12, <1>13, <1>14 DEF MInv

LEMMA FailDeleteStep ==
  ASSUME MInv, NEW s \in Sends, FailDelete(s)
  PROVE  MInv'
<1>1. /\ Typed /\ (\A b \in Attempts : RequestSound(b)) /\ (\A f \in Files : FileSound(f))
      /\ CommittedIsNeeded
  BY Pieces
<1>2. /\ uploads' = uploads /\ aged' = aged /\ files' = files /\ attempts' = attempts /\ sends' = sends
      /\ counted' = counted /\ deleting' = deleting \ {s} /\ contested' = contested \cup {sends[s].file}
  BY DEF FailDelete, KeepUploads
<1>3. Typed' /\ SameMessages
  BY <1>1, <1>2 DEF Typed, SameMessages
<1>4. (\A b \in Attempts : RequestSound(b)') /\ (\A f \in Files : FileSound(f)')
  BY <1>1, <1>2 DEF RequestSound, FileSound, Sent
<1> QED
  BY <1>2, <1>3, <1>4, ElsewhereStep

LEMMA AgeStep ==
  ASSUME MInv, NEW f \in Files, Age(f)
  PROVE  MInv'
<1>1. /\ Typed /\ (\A b \in Attempts : RequestSound(b)) /\ (\A g \in Files : FileSound(g))
      /\ uploads[f].pc \in {"none", "open", "assembled", "stored", "sent", "abandoned"}
  BY Pieces DEF Typed, UploadType
<1>2. /\ uploads' = uploads /\ aged' = aged \cup {f} /\ files' = files /\ attempts' = attempts
      /\ sends' = sends /\ counted' = counted /\ deleting' = deleting
      /\ files[f] \in {"pending", "committed"}
      /\ contested' = IF files[f] = "pending" /\ uploads[f].pc \in {"stored", "sent"}
                      THEN contested \cup {f} ELSE contested
  BY DEF Age
<1>3. Typed' /\ SameMessages /\ contested \subseteq contested'
  BY <1>1, <1>2 DEF Typed, SameMessages
<1>4. \A b \in Attempts : RequestSound(b)'
  BY <1>1, <1>2 DEF RequestSound, Sent
<1>5. ASSUME NEW g \in Files PROVE FileSound(g)'
  <2>1. CASE g = f
    BY <1>1, <1>2, <1>3, <2>1 DEF FileSound
  <2>2. CASE g # f
    BY <1>1, <1>2, <1>3, <2>2 DEF FileSound
  <2> QED
    BY <2>1, <2>2
<1> QED
  BY <1>2, <1>3, <1>4, <1>5, ElsewhereStep

(* A file that is counted for the first time and has a message is contested *)
(* already.                                                                 *)
LEMMA PruneCountStep ==
  ASSUME MInv, NEW f \in Files, PruneCount(f)
  PROVE  MInv'
<1>1. /\ Typed /\ (\A b \in Attempts : RequestSound(b)) /\ (\A g \in Files : FileSound(g))
      /\ \A s \in Sends : RowSound(s)
  BY Pieces
<1>2. /\ uploads' = uploads /\ aged' = aged /\ attempts' = attempts /\ sends' = sends
      /\ deleting' = deleting /\ contested' = contested
      /\ f \in aged /\ files[f] = "pending"
  BY DEF PruneCount, Prunable
<1>3. f \notin contested => uploads[f].pc = "abandoned"
  BY <1>1, <1>2 DEF FileSound
<1>4. SameMessages /\ \A b \in Attempts : RequestSound(b)'
  BY <1>1, <1>2 DEF RequestSound, Sent, SameMessages
<1>5. CASE \E s \in Sends : sends[s].file = f /\ Shown(s)
  <2>1. f \in contested
    BY <1>1, <1>3, <1>5 DEF RowSound, Shown, FileOf
  <2>2. files' = [files EXCEPT ![f] = "committed"] /\ counted' = counted
    BY <1>2, <1>5 DEF PruneCount, Marked
  <2>3. /\ files' \in [Files -> {"absent", "pending", "committed", "gone"}]
        /\ \A g \in Files : g # f => files'[g] = files[g]
    BY <1>1, <2>2 DEF Typed
  <2>4. Typed'
    BY <1>1, <1>2, <2>2, <2>3 DEF Typed
  <2>5. \A g \in Files : FileSound(g)'
    BY <1>1, <1>2, <2>1, <2>2, <2>3 DEF FileSound
  <2> QED
    BY <1>2, <1>4, <2>1, <2>3, <2>4, <2>5, ElsewhereStep
<1>6. CASE ~\E s \in Sends : sends[s].file = f /\ Shown(s)
  <2>1. files' = files /\ counted' = counted \cup {f}
    BY <1>6 DEF PruneCount
  <2>2. Typed'
    BY <1>1, <1>2, <2>1 DEF Typed
  <2>3. \A g \in Files : FileSound(g)'
    BY <1>1, <1>2, <1>3, <2>1 DEF FileSound
  <2> QED
    BY <1>2, <1>4, <2>1, <2>2, <2>3, ElsewhereStep
<1> QED
  BY <1>5, <1>6

LEMMA PruneDeleteStep ==
  ASSUME MInv, NEW f \in Files, PruneDelete(f)
  PROVE  MInv'
<1>1. /\ Typed /\ (\A b \in Attempts : RequestSound(b)) /\ (\A g \in Files : FileSound(g))
  BY Pieces
<1>2. /\ uploads' = uploads /\ aged' = aged /\ attempts' = attempts /\ sends' = sends
      /\ deleting' = deleting /\ contested' = contested /\ f \in counted
      /\ counted' = counted \ {f} /\ files' = [files EXCEPT ![f] = "gone"]
  BY DEF PruneDelete
<1>3. /\ files' \in [Files -> {"absent", "pending", "committed", "gone"}] /\ files'[f] = "gone"
      /\ \A g \in Files : g # f => files'[g] = files[g]
  BY <1>1, <1>2 DEF Typed
<1>4. CASE f \in contested
  <2>1. Typed' /\ SameMessages
    BY <1>1, <1>2, <1>3 DEF Typed, SameMessages
  <2>2. \A b \in Attempts : RequestSound(b)'
    BY <1>1, <1>2 DEF RequestSound, Sent
  <2>3. \A g \in Files : FileSound(g)'
    BY <1>1, <1>2, <1>3, <1>4 DEF FileSound
  <2> QED
    BY <1>2, <1>3, <1>4, <2>1, <2>2, <2>3, ElsewhereStep
<1>5. CASE f \notin contested
  <2>1. uploads[f].pc = "abandoned"
    BY <1>1, <1>2, <1>5 DEF FileSound
  <2>2. PICK u \in UploadType : u = uploads[f]
    BY <1>1 DEF Typed
  <2>3. uploads' = [uploads EXCEPT ![f] = u]
    BY <1>1, <1>2, <2>2 DEF Typed
  <2>4. FileSound(f)'
    BY <1>2, <1>3, <2>1 DEF FileSound
  <2> QED
    BY <1>2, <1>3, <2>1, <2>3, <2>4, UploadStep
<1> QED
  BY <1>4, <1>5

-----------------------------------------------------------------------------
(* The invariant, and what follows from it. *)

LEMMA InitInv ==
  ASSUME Init
  PROVE  MInv
<1>1. NoUpload \in UploadType /\ NoSend \in SendType /\ NoAttempt \in AttemptType
  BY DEF NoUpload, UploadType, NoSend, SendType, NoAttempt, AttemptType
<1>2. Typed
  BY <1>1 DEF Init, Typed
<1>3. \A s \in Sends : RowSound(s) /\ MessageSound(s)
  BY DEF Init, NoSend, RowSound, MessageSound, Sent
<1>4. \A a \in Attempts : RequestSound(a)
  BY DEF Init, NoAttempt, RequestSound
<1>5. \A f \in Files : FileSound(f)
  BY DEF Init, NoUpload, FileSound
<1>6. CommittedIsNeeded
  BY DEF Init, CommittedIsNeeded
<1> QED
  BY <1>2, <1>3, <1>4, <1>5, <1>6 DEF MInv

LEMMA NextInv ==
  ASSUME MInv, [Next]_vars
  PROVE  MInv'
<1>1. ASSUME NEW f \in Files,
             Initiate(f) \/ Chunk(f) \/ Single(f) \/ Store(f) \/ AbandonUpload(f)
      PROVE  MInv'
  BY <1>1, BeginStep, ChunkStep, StoreStep, AbandonStep
<1>2. ASSUME NEW f \in Files, Pruning(f) PROVE MInv'
  BY <1>2, AgeStep, PruneCountStep, PruneDeleteStep DEF Pruning
<1>3. ASSUME NEW f \in Files, NEW s \in Sends, SendFile(f, s) \/ SendVoice(f, s) PROVE MInv'
  BY <1>3, EnqueueStep DEF SendFile, SendVoice
<1>4. ASSUME NEW s \in Sends,
             (\E m \in Sends : Forward(s, m)) \/ DeleteFile(s) \/ DeleteMessage(s) \/ FailDelete(s)
      PROVE  MInv'
  BY <1>4, ForwardStep, DeleteFileStep, DeleteMessageStep, FailDeleteStep
<1>5. ASSUME NEW a \in Attempts,
             \/ Refuse(a) \/ FailAttempt(a) \/ Create(a) \/ Catch(a) \/ Answer(a)
             \/ \E s \in Sends : Attempt(a, s)
      PROVE  MInv'
  BY <1>5, RefuseStep, CreateStep, CatchStep, AnswerStep, AttemptStep
<1>6. ASSUME NEW r \in Rooms, Close(r) \/ Reopen(r) PROVE MInv'
  BY <1>6, QuietStep DEF Close, Reopen
<1>7. CASE UNCHANGED vars
  BY <1>7, QuietStep DEF vars
<1> QED
  BY <1>1, <1>2, <1>3, <1>4, <1>5, <1>6, <1>7 DEF Next

(* The inductive invariant holds in every state: a file in none of the      *)
(* unguarded cases is there from the end of its upload on, for as long as a *)
(* message is to come or is shown with it, and nobody prunes it.            *)
THEOREM MediaInvariant == Spec => []MInv
  BY InitInv, NextInv, PTL DEF Spec

(* Every participant can read the attachment of a message that is shown,    *)
(* whoever uploads, forwards, retries, deletes and prunes meanwhile: no     *)
(* step of createMessage, deleteMessage or of the pruning removes a file in *)
(* use, the named cases aside.                                              *)
THEOREM ShownIsReadable == Spec => []AttachmentsCanBeRead
<1>1. MInv => AttachmentsCanBeRead
  <2>1. SUFFICES ASSUME MInv, NEW s \in Sends, Shown(s), sends[s].file \notin contested,
                        s \notin deleting, sends[s].room = uploads[sends[s].file].room,
                        NEW u \in Members[sends[s].room]
                 PROVE  MayDownload(u, sends[s].file)
    BY DEF AttachmentsCanBeRead
  <2>2. RowSound(s) /\ MessageSound(s)
    BY <2>1 DEF MInv
  <2>3. files[sends[s].file] = "committed"
    BY <2>1, <2>2 DEF RowSound, MessageSound, FileOf, Shown
  <2> QED
    BY <2>1, <2>3 DEF MayDownload, IsMember
<1> QED
  BY <1>1, MediaInvariant, PTL

(* A COMMITTED file belongs to a message that is shown, or was sent on by   *)
(* somebody else than its uploader: deleteMessage removes the file of the   *)
(* last message, however deletions, forwards and retries are ordered, the   *)
(* named cases aside.                                                       *)
THEOREM CommittedHasAMessage == Spec => []CommittedIsNeeded
<1>1. MInv => CommittedIsNeeded
  BY DEF MInv
<1> QED
  BY <1>1, MediaInvariant, PTL
=============================================================================
