---------------------------- MODULE ConfigBackup ----------------------------
(***************************************************************************)
(* The settings, the tables, and their restoration from a backup.          *)
(*                                                                         *)
(* ConfigManager keeps the settings in memory behind a lock and writes all *)
(* of them to one file after each change.  A restore first writes a        *)
(* snapshot of the default components into the pre-restore directory,      *)
(* reads the settings, imports the tables in one transaction, and then     *)
(* replaces the settings.  Clearing data does the same without a snapshot. *)
(* These requests, the setters of the settings and the writers of the      *)
(* tables run on threads of their own.                                     *)
(***************************************************************************)
EXTENDS Naturals, Sequences, SequencesExt

CONSTANTS
  Sections,    \* sections of the settings
  Tables,      \* tables of the database
  Restorable,  \* what a backup package can hold
  Default,     \* the default components: a snapshot holds them
  Requests,    \* the threads
  MaxFiles,    \* files that are kept in the pre-restore directory
  MaxRequests  \* bound on requests, changes, faults

Components == Sections \cup Tables

ASSUME BackupAssumption ==
  /\ Sections \cap Tables = {}
  /\ Default \subseteq Restorable
  /\ Restorable \subseteq Components
  /\ MaxFiles \in Nat \ {0}
  /\ MaxRequests \in Nat

VARIABLES
  memory,     \* the settings ConfigManager holds
  file,       \* the settings in config.json
  torn,       \* config.json is cut off
  db,         \* the tables
  snapshots,  \* the pre-restore directory, the oldest file first
  request,    \* what each thread does
  unsaved,    \* history: the last save failed or was lost
  uncovered,  \* history: components a restore replaced and no snapshot holds
  counted

backup == <<memory, file, torn, db, snapshots, request, unsaved, uncovered, counted>>

-----------------------------------------------------------------------------
(* A value stands for the contents of a section or table: the initial and  *)
(* cleared ones, those of the package, or those written by a change.       *)
Initial  == 0
Package  == MaxRequests + 1
Values   == 0..Package

Idle == [at |-> "idle", kind |-> "none", parts |-> {}, next |-> <<>>, text |-> <<>>,
         stale |-> {}]

Settings == [Sections -> Values]

BackupTypeOK ==
  /\ {memory, file} \subseteq Settings
  /\ torn \in BOOLEAN
  /\ db \in [Tables -> Values]
  /\ snapshots \in Seq([Default -> Values])
  /\ Len(snapshots) <= MaxFiles
  /\ request \in [Requests ->
       [at : {"idle", "snapshot", "read", "commit", "replace", "save", "write"},
        kind : {"none", "set", "restore", "clear"}, parts : SUBSET Components,
        next : Settings \cup {<<>>}, text : Settings \cup {<<>>}, stale : SUBSET Components]]
  /\ unsaved \in BOOLEAN
  /\ uncovered \subseteq Restorable
  /\ counted \in 0..MaxRequests

BackupInit ==
  /\ memory = [s \in Sections |-> Initial]
  /\ file = memory
  /\ torn = FALSE
  /\ db = [t \in Tables |-> Initial]
  /\ snapshots = <<>>
  /\ request = [r \in Requests |-> Idle]
  /\ unsaved = FALSE
  /\ uncovered = {}
  /\ counted = 0

Count == counted < MaxRequests /\ counted' = counted + 1

Value(c) == IF c \in Sections THEN memory[c] ELSE db[c]

Writing == {r \in Requests : request[r].at = "write"}

\* The step of a thread; a change of components makes a restore under way in
\* another thread stale for them.
Goes(r, rec, changed) ==
  request' = [q \in Requests |->
    IF q = r THEN rec
    ELSE IF request[q].kind = "restore" THEN [request[q] EXCEPT !.stale = @ \cup changed]
    ELSE request[q]]

-----------------------------------------------------------------------------
(* ConfigManager *)

\* Mutant: save gives the lock back before it writes.
Anytime == TRUE

\* The write lock waits for the read locks of the saves that run.
Unlocked == Writing = {}

\* A setter; \E v: the new value.
Set(r, s) ==
  /\ Count
  /\ request[r] = Idle
  /\ Unlocked
  /\ memory' = [memory EXCEPT ![s] = counted + 1]
  /\ Goes(r, [Idle EXCEPT !.at = "save", !.kind = "set", !.parts = {s}], {s})
  /\ UNCHANGED <<file, torn, db, snapshots, unsaved, uncovered>>

\* save: the settings are serialised and the file is truncated under the read
\* lock, which lasts until the file is written.
SaveBegins(r) ==
  /\ request[r].at = "save"
  /\ torn' = TRUE
  /\ Goes(r, [request[r] EXCEPT !.at = "write", !.text = memory], {})
  /\ UNCHANGED <<memory, file, db, snapshots, unsaved, uncovered, counted>>

SaveEnds(r) ==
  /\ request[r].at = "write"
  /\ file' = request[r].text
  /\ torn' = (Writing # {r})
  /\ unsaved' = FALSE
  /\ Goes(r, Idle, {})
  /\ UNCHANGED <<memory, db, snapshots, uncovered, counted>>

\* The directory or the file cannot be written; the request is answered with
\* an error and the memory keeps the new settings.
SaveFails(r) ==
  /\ Count
  /\ request[r].at \in {"save", "write"}
  /\ unsaved' = TRUE
  /\ Goes(r, Idle, {})
  /\ UNCHANGED <<memory, file, torn, db, snapshots, uncovered>>

\* Another thread writes to a table.
Edit(t) ==
  /\ Count
  /\ db' = [db EXCEPT ![t] = counted + 1]
  /\ request' = [q \in Requests |->
       IF request[q].kind = "restore" THEN [request[q] EXCEPT !.stale = @ \cup {t}]
       ELSE request[q]]
  /\ UNCHANGED <<memory, file, torn, snapshots, unsaved, uncovered>>

-----------------------------------------------------------------------------
(* apply_backup_import_bytes *)

\* The package is parsed and the chosen components are in it.
Restore(r, parts) ==
  /\ Count
  /\ request[r] = Idle
  /\ parts # {}
  /\ Goes(r, [Idle EXCEPT !.at = "snapshot", !.kind = "restore", !.parts = parts], {})
  /\ UNCHANGED <<memory, file, torn, db, snapshots, unsaved, uncovered>>

Snapshot == [c \in Default |-> Value(c)]

\* Mutant: the cleanup counts before the new file is there.
NewestBefore(files) == IF Len(files) <= MaxFiles + 1 THEN files
                       ELSE SubSeq(files, Len(files) - MaxFiles, Len(files))

Newest(files) == IF Len(files) <= MaxFiles THEN files
                 ELSE SubSeq(files, Len(files) - MaxFiles + 1, Len(files))

\* Mutant: a snapshot that could not be written does not stop the restore.
WriteSnapshotOrNot(r) ==
  /\ request[r].at = "snapshot"
  /\ Count
  /\ Goes(r, [request[r] EXCEPT !.at = "read", !.stale = {}], {})
  /\ UNCHANGED <<memory, file, torn, db, snapshots, unsaved, uncovered>>

\* write_local_backup: named by the second, so that it may replace the latest;
\* the newest MaxFiles are kept; when the clock was set back the new file is
\* not among them, and the restore ends as if it could not be written.
WriteSnapshot(r) ==
  /\ request[r].at = "snapshot"
  /\ LET on == [request[r] EXCEPT !.at = "read", !.stale = {}] IN
       \/ /\ snapshots' = Newest(Append(snapshots, Snapshot))
          /\ Goes(r, on, Components)
          /\ UNCHANGED counted
       \/ /\ Count
          /\ snapshots # <<>>
          /\ snapshots' = Append(Front(snapshots), Snapshot)
          /\ Goes(r, on, Components)
       \/ /\ Count
          /\ snapshots' = Newest(<<Snapshot>> \o snapshots)
          /\ Goes(r, IF Len(snapshots) < MaxFiles THEN on ELSE Idle, Components)
       \/ Count /\ Goes(r, Idle, {}) /\ UNCHANGED snapshots
  /\ UNCHANGED <<memory, file, torn, db, unsaved, uncovered>>

\* get_config, with the sections of the package put in
ReadSettings(r) ==
  /\ request[r].at = "read"
  /\ LET q == request[r]
         new == [s \in Sections |-> IF s \notin q.parts THEN memory[s]
                                    ELSE IF q.kind = "restore" THEN Package ELSE Initial]
     IN Goes(r, [q EXCEPT !.at = IF q.kind = "restore" THEN "commit" ELSE "replace",
                          !.next = new], {})
  /\ UNCHANGED <<memory, file, torn, db, snapshots, unsaved, uncovered, counted>>

\* What a restore overwrites without a snapshot that holds it.
Uncovers(r, parts) ==
  uncovered' =
    IF request[r].kind # "restore" THEN uncovered
    ELSE uncovered \cup
         {c \in parts \ request[r].stale :
            /\ Value(c) # Package
            /\ \A i \in DOMAIN snapshots : c \notin Default \/ snapshots[i][c] # Value(c)}

\* The transaction of the tables; it fails as a whole.
Commit(r) ==
  /\ request[r].at = "commit"
  /\ LET q == request[r]
         parts == q.parts \cap Tables
         new == IF q.kind = "restore" THEN Package ELSE Initial
         after == [q EXCEPT !.at = IF q.kind = "clear" THEN "read" ELSE "replace"]
     IN \/ /\ db' = [t \in Tables |-> IF t \in parts THEN new ELSE db[t]]
           /\ Uncovers(r, parts)
           /\ Goes(r, IF q.parts \subseteq Tables THEN Idle ELSE after, parts)
           /\ UNCHANGED counted
        \/ Count /\ Goes(r, Idle, {}) /\ UNCHANGED <<db, uncovered>>
  /\ UNCHANGED <<memory, file, torn, snapshots, unsaved>>

\* replace_config: all sections, also those that changed since they were read
Replace(r) ==
  /\ request[r].at = "replace"
  /\ Unlocked
  /\ LET q == request[r] IN
       /\ Uncovers(r, q.parts \cap Sections)
       /\ memory' = q.next
       /\ Goes(r, [q EXCEPT !.at = "save", !.next = <<>>],
               {s \in Sections : q.next[s] # memory[s]})
  /\ UNCHANGED <<file, torn, db, snapshots, unsaved, counted>>

\* clear_components_data: the transaction first, then the settings
Clear(r, parts) ==
  /\ Count
  /\ request[r] = Idle
  /\ parts # {}
  /\ Goes(r, [Idle EXCEPT !.at = "commit", !.kind = "clear", !.parts = parts], {})
  /\ UNCHANGED <<memory, file, torn, db, snapshots, unsaved, uncovered>>

\* The user deletes a snapshot.
DeleteFile ==
  /\ Count
  /\ \E i \in DOMAIN snapshots : snapshots' = RemoveAt(snapshots, i)
  /\ request' = [q \in Requests |->
       IF request[q].kind = "restore" THEN [request[q] EXCEPT !.stale = Components]
       ELSE request[q]]
  /\ UNCHANGED <<memory, file, torn, db, unsaved, uncovered>>

\* The service stops and starts: a file that is cut off cannot be read, and
\* the defaults take its place in memory.
BackupStops ==
  /\ memory' = IF torn THEN [s \in Sections |-> Initial] ELSE file
  /\ unsaved' = torn
  /\ request' = [r \in Requests |-> Idle]
  /\ UNCHANGED <<file, torn, db, snapshots, uncovered>>

BackupNext ==
  \/ \E r \in Requests :
       \/ \E s \in Sections : Set(r, s)
       \/ \E parts \in SUBSET Restorable : Restore(r, parts) \/ Clear(r, parts)
       \/ SaveBegins(r) \/ SaveEnds(r) \/ SaveFails(r)
       \/ WriteSnapshot(r) \/ ReadSettings(r) \/ Commit(r) \/ Replace(r)
  \/ \E t \in Tables : Edit(t)
  \/ DeleteFile

-----------------------------------------------------------------------------
\* When no save is under way and the last one did not fail, the file holds
\* what the memory holds, in whatever order setters, restores and clearings
\* ran: a restart changes no setting.  (ConfigManager::save)
FileIsCurrent ==
  ~unsaved /\ (\A r \in Requests : request[r].at \notin {"save", "write"})
    => ~torn /\ file = memory

\* What a restore replaces of the default components is in a snapshot, also
\* when the restore fails half way; unless it was changed after the snapshot
\* was written, or another request removed the snapshot.
\* (apply_backup_import_bytes, cleanup_backup_dir)
SnapshotCovers == uncovered \cap Default = {}
=============================================================================
