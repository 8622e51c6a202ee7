-------------------------------- MODULE Backup --------------------------------
(***************************************************************************)
(* The stores of one account in IndexedDB and what rewrites them as a      *)
(* whole: the export of a backup, its restore (DatabaseBackupService), the *)
(* purge (LocalAccountCleanupService) of a logout, of a restore and of the *)
(* start of the app (SyncEngine.init), while the recovery goes on.         *)
(*                                                                         *)
(* Each of them goes through the stores in one order, with a transaction   *)
(* for each store, and the app may stop between any two.  Only a restore   *)
(* leaves a sentinel, in sync_meta, which is one of the stores its purge   *)
(* clears.  The range of keys that a purge deletes does not contain the key*)
(* of user_cursor.                                                         *)
(*                                                                         *)
(* One room: a user event grants it, its own events each bring a message.  *)
(* Recovery has the recovery in full; here it is a page at a time.  The    *)
(* stores without a part in it are left out, and so are the outbox, whose  *)
(* rows may be sent again (Outbox), and backups that fail the validation,  *)
(* which touch nothing.  A sign-out waits for init.                        *)
(***************************************************************************)
EXTENDS Integers, Sequences

CONSTANTS
  MaxEvents,    \* bound: events of the room
  MaxExports,   \* bound: exports begun
  MaxRestores,  \* bound: restores begun
  MaxLogouts,   \* bound: sign-outs
  MaxCrashes,   \* bound: times the app stops or is loaded again
  MaxFaults     \* bound: writes that fail in a restore

ASSUME BackupBounds ==
  {MaxEvents, MaxExports, MaxRestores, MaxLogouts, MaxCrashes, MaxFaults} \subseteq Nat

VARIABLES
  published,  \* events of the room on the server
  idb,        \* the stores
  app,        \* out, starting (in init) or up
  run,        \* the recovery: idle, or the events of a page still to apply
  purges,     \* the next store of each purge at work, or 0
  export,     \* the next store to read, or 0, and what was read
  backup,     \* the exported file
  restore,    \* phase, next store, whether a sign-out came since, whether a write failed
  counts,     \* exports, restores, logouts, crashes and faults so far
  torn,       \* history: what was cut short, and whether the recovery met any of it
  unfinished  \* history: the purge of the last sign-out was cut short

backupVars ==
  <<published, idb, app, run, purges, export, backup, restore, counts, torn, unfinished>>

(* ALL_ACCOUNT_STORES, in its order; known stands for room_projections. *)
Stores == <<"roomCursor", "userCursor", "known", "messages", "processed", "sentinel">>
Empty == [roomCursor |-> 0, userCursor |-> 0, known |-> FALSE, messages |-> {},
          processed |-> {}, sentinel |-> FALSE]
Purgers == {"logout", "restore", "init"}
NoRun == [phase |-> "idle", todo |-> <<>>]
NoExport == [next |-> 0, read |-> Empty]
NoRestore == [pc |-> "none", next |-> 0, stale |-> FALSE, failed |-> FALSE]

BackupInit ==
  /\ published = 0 /\ idb = Empty /\ app = "out" /\ run = NoRun
  /\ purges = [p \in Purgers |-> 0]
  /\ export = NoExport /\ backup = Empty /\ restore = NoRestore
  /\ counts = [exports |-> 0, restores |-> 0, logouts |-> 0, crashes |-> 0, faults |-> 0]
  /\ torn = {} /\ unfinished = FALSE

Count(what, max) == counts[what] < max /\ counts' = [counts EXCEPT ![what] = @ + 1]
\* Mutant: nobody compares the generations.
Always == TRUE

SessionUnchanged == ~restore.stale
Installing == restore.pc = "install" /\ SessionUnchanged
Rewriting == restore.pc # "none" \/ \E p \in Purgers : purges[p] # 0

Publish ==
  /\ published < MaxEvents /\ published' = published + 1
  /\ UNCHANGED <<idb, app, run, purges, export, backup, restore, counts, torn, unfinished>>

------------------------------------------------------------------------------
(* The recovery.                                                           *)

(* The grant is number 0 of what was processed. *)
RecoverUserStream ==
  /\ app = "up" /\ run = NoRun
  /\ run' = [phase |-> "user", todo |-> IF idb.userCursor = 0 THEN <<0>> ELSE <<>>]
  /\ UNCHANGED <<published, idb, app, purges, export, backup, restore, counts, torn, unfinished>>

RecoverRoomStreams ==
  /\ run.phase = "user" /\ run.todo = <<>>
  /\ run' = IF idb.known
            THEN [phase |-> "room",
                  todo |-> [i \in 1 .. published - idb.roomCursor |-> idb.roomCursor + i]]
            ELSE NoRun
  /\ UNCHANGED <<published, idb, app, purges, export, backup, restore, counts, torn, unfinished>>

EndRun ==
  /\ run.phase = "room" /\ run.todo = <<>>
  /\ run' = NoRun
  /\ UNCHANGED <<published, idb, app, purges, export, backup, restore, counts, torn, unfinished>>

(* One transaction; an event with a marker is left alone. *)
Applied(e) ==
  IF e \in idb.processed THEN idb
  ELSE IF e = 0 THEN [idb EXCEPT !.known = TRUE, !.processed = @ \cup {0}, !.userCursor = 1]
  ELSE [idb EXCEPT !.messages = @ \cup {e}, !.processed = @ \cup {e},
                   !.roomCursor = IF e = @ + 1 THEN e ELSE @]

ApplyEvent ==
  /\ run.todo # <<>>
  /\ idb' = Applied(Head(run.todo))
  /\ run' = [run EXCEPT !.todo = Tail(@)]
  /\ torn' = IF Rewriting \/ export.next # 0 THEN torn \cup {"overlap"} ELSE torn
  /\ UNCHANGED <<published, app, purges, export, backup, restore, counts, unfinished>>

------------------------------------------------------------------------------
(* purgeAccount: key material first, then store after store. *)

StartPurge(p) == purges' = [purges EXCEPT ![p] = 1]

\* Mutant: the markers are not in the list of stores.
AllButMarkers(s) == IF s \in {"userCursor", "processed"} THEN idb[s] ELSE Empty[s]

Cleared(s) == IF s = "userCursor" THEN idb[s] ELSE Empty[s]
ClearStore(p) ==
  LET k == purges[p]  last == k = Len(Stores)
  IN  /\ k # 0
      /\ idb' = [idb EXCEPT ![Stores[k]] = Cleared(Stores[k])]
      /\ purges' = [purges EXCEPT ![p] = IF last THEN 0 ELSE k + 1]
      /\ app' = IF last /\ p = "init" THEN "up" ELSE app
      /\ restore' = IF last /\ p = "restore" THEN [restore EXCEPT !.pc = "install", !.next = 1]
                    ELSE restore
      /\ torn' = IF export # NoExport \/ Installing THEN torn \cup {"overlap"} ELSE torn
      /\ UNCHANGED <<published, run, export, backup, counts, unfinished>>

------------------------------------------------------------------------------
(* Sign-in and sign-out, and the page.                                     *)

(* init is called at a sign-in and again for every new token. *)
CallInit ==
  /\ app \in {"out", "up"} /\ app' = "starting"
  /\ UNCHANGED <<published, idb, run, purges, export, backup, restore, counts, torn, unfinished>>

(* A sentinel that is found is deleted, and everything else purged. *)
CheckSentinel ==
  /\ app = "starting" /\ purges["init"] = 0
  /\ IF idb.sentinel THEN /\ idb' = [idb EXCEPT !.sentinel = FALSE]
                          /\ StartPurge("init") /\ app' = app
     ELSE app' = "up" /\ UNCHANGED <<idb, purges>>
  /\ UNCHANGED <<published, run, export, backup, restore, counts, torn, unfinished>>

(* The generation goes up and the recovery is cancelled before the purge. *)
Logout ==
  /\ app = "up" /\ purges["logout"] = 0 /\ Count("logouts", MaxLogouts)
  /\ app' = "out" /\ run' = NoRun
  /\ restore' = IF restore.pc = "none" THEN restore ELSE [restore EXCEPT !.stale = TRUE]
  /\ StartPurge("logout") /\ unfinished' = FALSE
  /\ UNCHANGED <<published, idb, export, backup, torn>>

Reloaded ==
  /\ app' = IF app = "out" THEN "out" ELSE "starting"
  /\ run' = NoRun /\ purges' = [p \in Purgers |-> 0]
  /\ export' = NoExport /\ restore' = NoRestore

Crash ==
  /\ Count("crashes", MaxCrashes)
  /\ Reloaded
  /\ torn' = torn \cup (IF restore.pc \in {"purge", "install"} THEN {"restore"} ELSE {})
                  \cup (IF \E p \in {"logout", "init"} : purges[p] # 0 THEN {"purge"} ELSE {})
  /\ unfinished' = (unfinished \/ purges["logout"] # 0)
  /\ UNCHANGED <<published, idb, backup>>

------------------------------------------------------------------------------
(* exportBackup.                                                           *)

StartExport ==
  /\ app = "up" /\ export = NoExport /\ Count("exports", MaxExports)
  /\ export' = [NoExport EXCEPT !.next = 1]
  /\ UNCHANGED <<published, idb, app, run, purges, backup, restore, torn, unfinished>>

(* A file that is made of stores in the middle of a rewriting is no better. *)
ReadStore ==
  LET k == export.next
      read == [export.read EXCEPT ![Stores[k]] = idb[Stores[k]]]
  IN  /\ k # 0
      /\ IF k = Len(Stores) THEN export' = NoExport /\ backup' = read
         ELSE export' = [next |-> k + 1, read |-> read] /\ backup' = backup
      /\ torn' = IF Rewriting THEN torn \cup {"overlap"} ELSE torn
      /\ UNCHANGED <<published, idb, app, run, purges, restore, counts, unfinished>>

------------------------------------------------------------------------------
(* restoreBackup.                                                          *)

StartRestore ==
  /\ app = "up" /\ restore = NoRestore /\ Count("restores", MaxRestores)
  /\ restore' = [NoRestore EXCEPT !.pc = "sentinel"]
  /\ UNCHANGED <<published, idb, app, run, purges, export, backup, torn, unfinished>>

(* A failure of this write is not fatal. *)
WriteSentinel ==
  /\ restore.pc = "sentinel"
  /\ restore' = [restore EXCEPT !.pc = "check"]
  /\ \/ idb' = [idb EXCEPT !.sentinel = TRUE] /\ counts' = counts
     \/ Count("faults", MaxFaults) /\ idb' = idb
  /\ UNCHANGED <<published, app, run, purges, export, backup, torn, unfinished>>

PurgeBeforeRestore ==
  /\ restore.pc = "check"
  /\ IF SessionUnchanged THEN restore' = [restore EXCEPT !.pc = "purge"] /\ StartPurge("restore")
     ELSE restore' = NoRestore /\ purges' = purges
  /\ UNCHANGED <<published, idb, app, run, export, backup, counts, torn, unfinished>>

(* Records are put over what is there. *)
Installed(s) ==
  CASE s \in {"roomCursor", "userCursor"} -> backup[s]
    [] s \in {"known", "sentinel"} -> idb[s] \/ backup[s]
    [] OTHER -> idb[s] \cup backup[s]

(* The stores to come that have records in the backup, and the next one. *)
Remaining == {k \in restore.next .. Len(Stores) : backup[Stores[k]] # Empty[Stores[k]]}
IsNext(k) == k \in Remaining /\ \A i \in Remaining : k <= i

InstallStore ==
  /\ Installing
  /\ \E k \in Remaining : IsNext(k) /\
       \/ /\ idb' = [idb EXCEPT ![Stores[k]] = Installed(Stores[k])]
          /\ restore' = [restore EXCEPT !.next = k + 1]
          /\ torn' = IF export = NoExport THEN torn ELSE torn \cup {"overlap"}
          /\ counts' = counts
       \/ /\ Count("faults", MaxFaults)
          /\ restore' = [restore EXCEPT !.next = k + 1, !.failed = TRUE]
          /\ torn' = torn \cup {"restore"} /\ idb' = idb
  /\ UNCHANGED <<published, app, run, purges, export, backup, unfinished>>

(* A sign-out, or an error, leaves the sentinel as it is. *)
GiveUp ==
  /\ restore.pc = "install"
  /\ IF Remaining = {} THEN restore.failed ELSE ~SessionUnchanged
  /\ restore' = NoRestore
  /\ UNCHANGED <<published, idb, app, run, purges, export, backup, counts, torn, unfinished>>

(* Done: the sentinel goes and the page is loaded again. *)
FinishRestore ==
  /\ restore.pc = "install" /\ Remaining = {} /\ ~restore.failed
  /\ idb' = [idb EXCEPT !.sentinel = FALSE]
  /\ Reloaded
  /\ torn' = torn \cup (IF \E p \in {"logout", "init"} : purges[p] # 0 THEN {"purge"} ELSE {})
  /\ unfinished' = (unfinished \/ purges["logout"] # 0)
  /\ UNCHANGED <<published, backup, counts>>

BackupNext ==
  \/ Publish
  \/ RecoverUserStream \/ RecoverRoomStreams \/ EndRun \/ ApplyEvent
  \/ \E p \in Purgers : ClearStore(p)
  \/ CallInit \/ CheckSentinel \/ Logout \/ Crash
  \/ StartExport \/ ReadStore
  \/ StartRestore \/ WriteSentinel \/ PurgeBeforeRestore \/ InstallStore \/ GiveUp \/ FinishRestore

BackupSpec == BackupInit /\ [][BackupNext]_backupVars

------------------------------------------------------------------------------
(* What the client takes as applied, by its cursor or by a marker, it has:  *)
(* otherwise recovery never asks for it again.                              *)
Backed == \A e \in 1..MaxEvents :
  e <= idb.roomCursor \/ e \in idb.processed => e \in idb.messages

(* No message is lost to the rewriting of the stores: whatever is exported, *)
(* restored, purged and recovered in whatever order, at rest the cursor and *)
(* the markers of the room claim no event whose message is not there.       *)
(* Excepted are histories in which a purge or a restore was cut short, or   *)
(* met the recovery or an export, or an export met the recovery.            *)
NothingSkipped == torn = {} /\ ~Rewriting => Backed

(* After a sign-out whose purge is over, nothing of the room is left in the *)
(* stores, although a restore or a recovery may have been at work when it   *)
(* came.  Excepted are the sentinel, which a restore may write later and    *)
(* which only makes the next start purge again, the user cursor, and a purge*)
(* that was cut short: nothing takes it up again.                           *)
LogoutLeavesNothing ==
  app = "out" /\ purges["logout"] = 0 /\ ~unfinished =>
    \A s \in {"roomCursor", "known", "messages", "processed"} : idb[s] = Empty[s]

==============================================================================
