-------------------------------- MODULE Backups --------------------------------
(* Local backups (backupService.js): dump files, the table that lists them,   *)
(* and the restore that overwrites that very table, because the dump holds    *)
(* the whole database.  The cron job and administrators work at once.         *)
EXTENDS Naturals, FiniteSets

CONSTANTS
  Tasks,       \* backups, restores and deletions under way
  Keep,        \* getLocalBackupRetentionLimit
  MaxBackups   \* bound: dump files ever started

ASSUME KeepAssumption == Keep \in Nat \ {0} /\ MaxBackups \in Nat

VARIABLES
  files,    \* dump files on disk, by name, and what each holds
  count,    \* names given so far; a name is the time its dump began
  table,    \* the rows of backups, by id, and the AUTO_INCREMENT of the table
  listed,   \* <<id, name>> of every row some page may still show
  task      \* what each task is doing

bkVars == <<files, count, table, listed, task>>

Names == 1..MaxBackups
NoName == 0
TableType == [row : [Names -> Names \cup {NoName}], next : 1..(MaxBackups + 1)]
Empty == [row |-> [i \in Names |-> NoName], next |-> 1]
\* A file is absent, holds nothing of use, or a dump of the table as it was.
ContentType == [kind : {"absent", "useless", "dump"}, was : TableType]
Absent == [kind |-> "absent", was |-> Empty]
Useless == [kind |-> "useless", was |-> Empty]
DumpOf(t) == [kind |-> "dump", was |-> t]
Work == {"idle", "dumping", "inserting", "choosing", "pruning", "restoring", "removing"}
TaskType == [at : Work, restore : BOOLEAN, name : Names \cup {NoName},
             target : Names \cup {NoName}, doomed : SUBSET Names, overtaken : BOOLEAN]
Rest == [at |-> "idle", restore |-> FALSE, name |-> NoName, target |-> NoName,
         doomed |-> {}, overtaken |-> FALSE]

BkTypeOK ==
  /\ files \in [Names -> ContentType]
  /\ count \in 0..MaxBackups
  /\ table \in TableType
  /\ listed \subseteq Names \X Names
  /\ task \in [Tasks -> TaskType]

Present(n) == files[n].kind # "absent"
RowsOf(t) == {i \in Names : t.row[i] # NoName}
\* ORDER BY created_at DESC, id DESC: ids and times of one table grow together.
Newest(k, t) == {i \in RowsOf(t) : Cardinality({j \in RowsOf(t) : j > i}) < k}
NamesIn(ids, t) == {t.row[i] : i \in ids}
WithoutName(n, t) == [t EXCEPT !.row = [i \in Names |-> IF @[i] = n THEN NoName ELSE @[i]]]

\* Rows that a prune counts on went away after it had chosen.
Overtaken(tasks) ==
  [t \in Tasks |-> IF tasks[t].at = "pruning" THEN [tasks[t] EXCEPT !.overtaken = TRUE] ELSE tasks[t]]

----------------------------------------------------------------------------
(* createBackup *)

\* The shell creates the file before mysqldump writes a byte.
Dump(t, began) ==
  /\ count < MaxBackups
  /\ count' = count + 1
  /\ files' = [files EXCEPT ![count + 1] = Useless]
  /\ task' = [task EXCEPT ![t] = [began EXCEPT !.at = "dumping", !.name = count + 1]]
  /\ UNCHANGED <<table, listed>>

\* The cron job or POST /backups.
CreateBackup(t) == task[t].at = "idle" /\ Dump(t, Rest)

\* The pipeline ends as gzip does: a dump that failed is recorded all the same.
DumpDone(t) ==
  /\ task[t].at = "dumping"
  /\ \E content \in {Useless, DumpOf(table)} :
       files' = [files EXCEPT ![task[t].name] = IF Present(task[t].name) THEN content ELSE @]
  /\ task' = [task EXCEPT ![t].at = "inserting"]
  /\ UNCHANGED <<count, table, listed>>

\* The 120 s of exec are over, or stat, a query or unlink fails: what is left stays.
BackupFails(t) ==
  /\ task[t].at \in {"dumping", "inserting", "choosing", "pruning"}
  /\ task' = [task EXCEPT ![t] = Rest]
  /\ UNCHANGED <<files, count, table, listed>>

InsertRow(t) ==
  /\ task[t].at = "inserting"
  /\ table.next <= MaxBackups
  /\ table' = [row |-> [table.row EXCEPT ![table.next] = task[t].name], next |-> table.next + 1]
  /\ listed' = listed \cup {<<table.next, task[t].name>>}
  /\ task' = [task EXCEPT ![t] =
       IF @.restore THEN [@ EXCEPT !.at = "restoring"]
       ELSE [Rest EXCEPT !.at = "choosing"]]
  /\ UNCHANGED <<files, count>>

----------------------------------------------------------------------------
(* pruneOldBackups, after a backup or a restore *)

\* Faulty variant: the slice begins one row too early.
DoomedOneMore(t) == NamesIn(RowsOf(t) \ Newest(Keep - 1, t), t)
\* pruneOldBackups: what lies beyond the retention limit when it is read.
Doomed(t) == NamesIn(RowsOf(t) \ Newest(Keep, t), t)

\* SELECT: what other tasks entered or deleted since counts as well.
ChooseDoomed(t) ==
  /\ task[t].at = "choosing"
  /\ task' = [task EXCEPT ![t] = [Rest EXCEPT !.at = "pruning", !.doomed = Doomed(table)]]
  /\ UNCHANGED <<files, count, table, listed>>

----------------------------------------------------------------------------
(* deleteBackupFile, of a prune or of DELETE /backups/:id *)

Unlink(n) == files' = [files EXCEPT ![n] = Absent]

PruneOne(t, n) ==
  /\ task[t].at = "pruning" /\ n \in task[t].doomed
  /\ Unlink(n)
  /\ table' = WithoutName(n, table)
  /\ task' = [(IF task[t].overtaken THEN Overtaken(task) ELSE task) EXCEPT ![t].doomed = @ \ {n}]
  /\ UNCHANGED <<count, listed>>

PruneDone(t) ==
  /\ task[t].at = "pruning" /\ task[t].doomed = {}
  /\ task' = [task EXCEPT ![t] = Rest]
  /\ UNCHANGED <<files, count, table, listed>>

\* The route looks the id of a listed row up and deletes the name it finds.
DeleteBackup(t) ==
  /\ task[t].at = "idle"
  /\ \E entry \in listed :
       /\ table.row[entry[1]] # NoName
       /\ Unlink(table.row[entry[1]])
       /\ task' = [task EXCEPT ![t] = [Rest EXCEPT !.at = "removing",
                                                   !.target = table.row[entry[1]]]]
  /\ UNCHANGED <<count, table, listed>>

DeleteRow(t) ==
  /\ task[t].at = "removing"
  /\ table' = WithoutName(task[t].target, table)
  /\ task' = Overtaken([task EXCEPT ![t] = Rest])
  /\ UNCHANGED <<files, count, listed>>

----------------------------------------------------------------------------
(* restoreBackup *)

\* confirmFilename is the name the page showed beside the id: ids are given again
\* after a restore, so an old page may show an id beside another name.
Confirms(entry) == table.row[entry[1]] = entry[2]

\* The safety backup skips its own prune.
BeginRestore(t) ==
  /\ task[t].at = "idle"
  /\ \E entry \in listed :
       /\ Confirms(entry)
       /\ table.row[entry[1]] # NoName /\ Present(table.row[entry[1]])
       /\ Dump(t, [Rest EXCEPT !.restore = TRUE, !.target = table.row[entry[1]]])

\* mysql reads whatever the file holds by now: nothing at all is no error.
Restored(n) == IF files[n].kind = "dump" THEN files[n].was ELSE table

RunRestore(t) ==
  /\ task[t].at = "restoring"
  /\ table' = Restored(task[t].target)
  /\ listed' = listed \cup {<<i, table'.row[i]>> : i \in RowsOf(table')}
  /\ task' = [Overtaken(task) EXCEPT ![t] = [Rest EXCEPT !.at = "choosing"]]
  /\ UNCHANGED <<files, count>>

\* mysql fails or is killed on its way, before or after it wrote this table.
RestoreFails(t) ==
  /\ task[t].at = "restoring"
  /\ table' \in {table, Restored(task[t].target)}
  /\ listed' = listed \cup {<<i, table'.row[i]>> : i \in RowsOf(table')}
  /\ task' = [Overtaken(task) EXCEPT ![t] = Rest]
  /\ UNCHANGED <<files, count>>

----------------------------------------------------------------------------
BkInit ==
  /\ files = [n \in Names |-> Absent]
  /\ count = 0
  /\ table = Empty
  /\ listed = {}
  /\ task = [t \in Tasks |-> Rest]

BkNext ==
  \E t \in Tasks :
    \/ CreateBackup(t) \/ DumpDone(t) \/ BackupFails(t) \/ InsertRow(t)
    \/ ChooseDoomed(t) \/ PruneDone(t) \/ \E n \in Names : PruneOne(t, n)
    \/ DeleteBackup(t) \/ DeleteRow(t)
    \/ BeginRestore(t) \/ RunRestore(t) \/ RestoreFails(t)

BkSpec == BkInit /\ [][BkNext]_bkVars

----------------------------------------------------------------------------
\* Prunes that overlap with one another and with new backups spare the newest
\* backups (pruneOldBackups), unless rows are deleted or restored meanwhile.
PruneSparesNewest ==
  \A t \in Tasks : task[t].at = "pruning" /\ ~task[t].overtaken =>
    task[t].doomed \cap NamesIn(Newest(Keep, table), table) = {}
=============================================================================
