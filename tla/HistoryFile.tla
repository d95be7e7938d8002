---------------------------- MODULE HistoryFile ----------------------------
(***************************************************************************)
(* Opening history.db: openHistoryDB and what it runs on the way           *)
(* (internal/commands/history_store.go).  Every command, and every ingest  *)
(* request of the server, opens the file anew: a legacy JSON history is    *)
(* rebuilt as SQLite beside it and renamed into place, an older schema is  *)
(* brought up to date.  The steps of several processes interleave, and a   *)
(* process may die between any two of them and be run again.               *)
(*                                                                         *)
(* Names are directory entries: path, path.migrate.tmp and the backups     *)
(* path.json.bak, path.json-1.bak, ... each point to a file (an inode) or  *)
(* to nothing.  An open connection keeps its file when the name moves.     *)
(***************************************************************************)
EXTENDS Integers, Sequences

CONSTANTS Proc,         \* processes (or ingest requests) that open the file
          LegacyRow,    \* the rows of the history that is there at first
          MaxRestarts,  \* bound: crashes and failed commands run again
          MaxBackup     \* bound: backup names (10000 in the code)

ASSUME LegacyAssumption == LegacyRow # {} /\ LegacyRow \cap Proc = {}
ASSUME BoundAssumption == MaxRestarts \in Nat /\ MaxBackup \in Nat \ {0}

VARIABLES file,      \* the contents of the files, by number
          path,      \* the file at --db-path, or NoFile
          tmp,       \* the file at path.migrate.tmp, or NoFile
          backup,    \* backup[i]: the file at the i-th backup name, or NoFile
          pc, fd,    \* where each process is, and the file it has open
          bak,       \* the backup name it has chosen
          restarts

names == <<path, tmp, backup>>
vars == <<file, path, tmp, backup, pc, fd, bak, restarts>>

NoFile == 0
BackupName == 1 .. MaxBackup

\* What is true of a file: idx_runs_run_id exists, iterations has every column,
\* two runs rows share a run_id.
Fact == {"index", "column", "dups"}

\* A process adds one row, named after it.
Content == [kind : {"json", "sqlite"}, rows : SUBSET (LegacyRow \cup Proc),
            facts : SUBSET Fact]

State == {"stat", "header", "load", "removeTmp", "createTmp", "fill", "choose",
          "aside", "in", "open", "schema", "column", "alter", "dedup", "ready",
          "done", "failed"}

TypeOK ==
  /\ file \in Seq(Content)
  /\ {path, tmp} \subseteq 0 .. Len(file)
  /\ backup \in [BackupName -> 0 .. Len(file)]
  /\ pc \in [Proc -> State]
  /\ fd \in [Proc -> 0 .. Len(file)]
  /\ bak \in [Proc -> BackupName]
  /\ restarts \in 0 .. MaxRestarts

Fresh == [kind |-> "sqlite", rows |-> {}, facts |-> {"index", "column"}]

\* A legacy JSON history, or a database older than the UNIQUE index and the
\* backend column; either may hold a run_id twice.
Old == {c \in Content : c.rows = LegacyRow /\ c.facts \subseteq {"dups"}}

\* A backup of an earlier migration may be there already.
EarlierBackup == [kind |-> "json", rows |-> {}, facts |-> {}]

Init ==
  /\ \E c \in Old :
       \/ /\ file = <<c>>
          /\ backup = [i \in BackupName |-> NoFile]
       \/ /\ file = <<c, EarlierBackup>>
          /\ backup = [i \in BackupName |-> IF i = 1 THEN 2 ELSE NoFile]
  /\ path = 1 /\ tmp = NoFile
  /\ pc = [p \in Proc |-> "stat"]
  /\ fd = [p \in Proc |-> NoFile]
  /\ bak = [p \in Proc |-> 1]
  /\ restarts = 0

-----------------------------------------------------------------------------
Goto(p, s) == pc' = [pc EXCEPT ![p] = s]
Fail(p) == Goto(p, "failed") /\ fd' = [fd EXCEPT ![p] = NoFile]
Steady == UNCHANGED <<bak, restarts>>

\* The connection of p: what it has open, and a change to it.
Opened(p) == file[fd[p]]
Has(p, fact) == fact \in Opened(p).facts
Change(p, c) == file' = [file EXCEPT ![fd[p]] = c]

\* prepareHistoryDBFile stats the file, reads its header and reads it whole,
\* opening the name anew each time.
Stat(p) ==
  /\ pc[p] = "stat"
  /\ Goto(p, IF path = NoFile THEN "open" ELSE "header")
  /\ UNCHANGED <<file, names, fd>> /\ Steady

ReadHeader(p) ==
  /\ pc[p] = "header"
  /\ \/ path = NoFile /\ Fail(p)
     \/ path # NoFile /\ file[path].kind = "sqlite" /\ Goto(p, "open") /\ UNCHANGED fd
     \/ path # NoFile /\ file[path].kind = "json" /\ Goto(p, "load") /\ UNCHANGED fd
  /\ UNCHANGED <<file, names>> /\ Steady

\* A file that has become SQLite since its header was read is no JSON.
LoadLegacy(p) ==
  /\ pc[p] = "load"
  /\ IF path # NoFile /\ file[path].kind = "json"
     THEN Goto(p, "removeTmp") /\ UNCHANGED fd
     ELSE Fail(p)
  /\ UNCHANGED <<file, names>> /\ Steady

-----------------------------------------------------------------------------
(***************************************************************************)
(* migrateLegacyJSONToSQLite.                                              *)
(***************************************************************************)
RemoveTmp(p) ==
  /\ pc[p] = "removeTmp"
  /\ tmp' = NoFile
  /\ Goto(p, "createTmp")
  /\ UNCHANGED <<file, path, backup, fd>> /\ Steady

\* SQLite creates the file, or opens the one another process builds.
CreateTmp(p) ==
  /\ pc[p] = "createTmp"
  /\ IF tmp = NoFile
     THEN /\ file' = Append(file, Fresh)
          /\ tmp' = Len(file) + 1
     ELSE UNCHANGED <<file, tmp>>
  /\ fd' = [fd EXCEPT ![p] = tmp']
  /\ Goto(p, "fill")
  /\ UNCHANGED <<path, backup>> /\ Steady

\* SQLite may refuse to write a file that has lost its name, or that another
\* connection writes.
Contended(p) ==
  \/ tmp # fd[p]
  \/ \E q \in Proc \ {p} : pc[q] = "fill" /\ fd[q] = fd[p]

\* The transaction that inserts the legacy rows: insertRunTx refuses a run_id
\* that is there already; every error path removes the temporary file.
FillTmp(p) ==
  /\ pc[p] = "fill"
  /\ \/ /\ Opened(p).rows \cap LegacyRow = {} /\ "dups" \notin file[1].facts
        /\ Change(p, [Opened(p) EXCEPT !.rows = @ \cup LegacyRow])
        /\ Goto(p, "choose")
        /\ UNCHANGED tmp
     \/ /\ Opened(p).rows \cap LegacyRow # {} \/ "dups" \in file[1].facts \/ Contended(p)
        /\ tmp' = NoFile
        /\ Goto(p, "failed")
        /\ UNCHANGED file
  /\ fd' = [fd EXCEPT ![p] = NoFile]
  /\ UNCHANGED <<path, backup>> /\ Steady

FreeBackup == {i \in BackupName : backup[i] = NoFile}

\* Mutant: one name too many is tried.
ChooseBackupOverflow(p) ==
  /\ pc[p] = "choose"
  /\ bak' = [bak EXCEPT ![p] = CHOOSE i \in FreeBackup \cup {MaxBackup + 1} :
                                  \A j \in FreeBackup : i <= j]
  /\ Goto(p, "aside")
  /\ UNCHANGED <<file, names, fd, restarts>>

\* chooseBackupPath: the first name that is free when it looks, if any is.
ChooseBackup(p) ==
  /\ pc[p] = "choose"
  /\ \/ /\ \E i \in FreeBackup :
             (\A j \in FreeBackup : i <= j) /\ bak' = [bak EXCEPT ![p] = i]
        /\ Goto(p, "aside")
        /\ UNCHANGED tmp
     \/ /\ FreeBackup = {}
        /\ tmp' = NoFile
        /\ Goto(p, "failed")
        /\ UNCHANGED bak
  /\ UNCHANGED <<file, path, backup, fd, restarts>>

\* Mutant: the legacy file is removed instead of being renamed to the backup.
RenameAsideRemoves(p) ==
  /\ pc[p] = "aside"
  /\ path' = NoFile
  /\ Goto(p, "in")
  /\ UNCHANGED <<file, tmp, backup, fd>> /\ Steady

\* Rename(path, backup) replaces a backup made since the name was chosen.
RenameAside(p) ==
  /\ pc[p] = "aside"
  /\ IF path = NoFile
     THEN tmp' = NoFile /\ Goto(p, "failed") /\ UNCHANGED <<path, backup>>
     ELSE /\ backup' = [backup EXCEPT ![bak[p]] = path]
          /\ path' = NoFile
          /\ Goto(p, "in")
          /\ UNCHANGED tmp
  /\ UNCHANGED <<file, fd>> /\ Steady

RenameIn(p) ==
  /\ pc[p] = "in"
  /\ IF tmp = NoFile
     THEN Goto(p, "failed") /\ UNCHANGED <<path, tmp>>
     ELSE path' = tmp /\ tmp' = NoFile /\ Goto(p, "open")
  /\ UNCHANGED <<file, backup, fd>> /\ Steady

-----------------------------------------------------------------------------
(***************************************************************************)
(* The connection: openHistoryDB after prepareHistoryDBFile.               *)
(***************************************************************************)
\* Opening creates a file where there is none; its CREATE TABLEs will have
\* every column.
OpenDb(p) ==
  /\ pc[p] = "open"
  /\ IF path = NoFile
     THEN /\ file' = Append(file, [Fresh EXCEPT !.facts = {"column"}])
          /\ path' = Len(file) + 1
     ELSE UNCHANGED <<file, path>>
  /\ fd' = [fd EXCEPT ![p] = path']
  /\ Goto(p, "schema")
  /\ UNCHANGED <<tmp, backup>> /\ Steady

\* initHistorySchema: CREATE UNIQUE INDEX fails on duplicate run_ids.
InitSchema(p) ==
  /\ pc[p] = "schema"
  /\ IF Has(p, "dups")
     THEN Fail(p) /\ UNCHANGED file
     ELSE /\ Change(p, [Opened(p) EXCEPT !.facts = @ \cup {"index"}])
          /\ Goto(p, "column") /\ UNCHANGED fd
  /\ UNCHANGED names /\ Steady

\* ensureHistorySchemaCompat looks for a column and adds it, as two statements
\* outside a transaction; ALTER TABLE fails when it has been added meanwhile.
CheckColumn(p) ==
  /\ pc[p] = "column"
  /\ Goto(p, IF Has(p, "column") THEN "dedup" ELSE "alter")
  /\ UNCHANGED <<file, names, fd>> /\ Steady

\* Mutant: an error of ALTER TABLE and the column itself are both ignored.
AlterTableSkipped(p) ==
  /\ pc[p] = "alter"
  /\ Goto(p, "dedup")
  /\ UNCHANGED <<file, names, fd>> /\ Steady

AlterTable(p) ==
  /\ pc[p] = "alter"
  /\ IF Has(p, "column")
     THEN Fail(p) /\ UNCHANGED file
     ELSE /\ Change(p, [Opened(p) EXCEPT !.facts = @ \cup {"column"}])
          /\ Goto(p, "dedup") /\ UNCHANGED fd
  /\ UNCHANGED names /\ Steady

\* deduplicateRunsMigration does nothing once the index exists.
Deduplicate(p) ==
  /\ pc[p] = "dedup"
  /\ IF Has(p, "index") THEN UNCHANGED file
     ELSE Change(p, [Opened(p) EXCEPT !.facts = (@ \ {"dups"}) \cup {"index"}])
  /\ Goto(p, "ready")
  /\ UNCHANGED <<names, fd>> /\ Steady

\* The command's own transaction, on the connection it has.
WriteRow(p) ==
  /\ pc[p] = "ready"
  /\ Change(p, [Opened(p) EXCEPT !.rows = @ \cup {p}])
  /\ Goto(p, "done")
  /\ fd' = [fd EXCEPT ![p] = NoFile]
  /\ UNCHANGED <<names, bak, restarts>>

\* The process dies and is run again, or its command failed and is run again.
Restart(p) ==
  /\ pc[p] # "done"
  /\ restarts < MaxRestarts
  /\ restarts' = restarts + 1
  /\ Goto(p, "stat")
  /\ fd' = [fd EXCEPT ![p] = NoFile]
  /\ UNCHANGED <<file, names, bak>>

Finished == (\A p \in Proc : pc[p] \in {"done", "failed"}) /\ UNCHANGED vars

Prepare(p) == Stat(p) \/ ReadHeader(p) \/ LoadLegacy(p)

Migrate(p) ==
  \/ RemoveTmp(p) \/ CreateTmp(p) \/ FillTmp(p)
  \/ ChooseBackup(p) \/ RenameAside(p) \/ RenameIn(p)

Connect(p) ==
  \/ OpenDb(p) \/ InitSchema(p) \/ CheckColumn(p) \/ AlterTable(p) \/ Deduplicate(p)

Next ==
  \/ \E p \in Proc : Prepare(p) \/ Migrate(p) \/ Connect(p) \/ WriteRow(p) \/ Restart(p)
  \/ Finished

Spec == Init /\ [][Next]_vars

-----------------------------------------------------------------------------
Linked == ({path, tmp} \cup {backup[i] : i \in BackupName}) \ {NoFile}

\* When two processes open the file at once and die anywhere, no row of the old
\* history is lost from the disk: the path, a backup or the temporary file
\* holds all of them.  (Three can lose them: a backup and the path are replaced
\* while the temporary file is being built by the third.)
HistorySurvives == \E f \in Linked : LegacyRow \subseteq file[f].rows

\* A database is handed to a command only with the unique index and every
\* column, whoever else migrates it at the same time.
ReadyHasSchema ==
  \A p \in Proc : pc[p] = "ready" =>
    Opened(p).facts = {"index", "column"}

\* README.md:60: "If an old JSON history file is found at `--db-path`,
\* KernelHub auto-migrates it to SQLite": a command that opens the path of an
\* old history sees its rows.  A crash between the two renames breaks it.
OpenShowsHistory ==
  \A p \in Proc : pc[p] = "ready" => LegacyRow \subseteq Opened(p).rows

\* history_store.go:248-251: deduplicateRunsMigration "collapses duplicate
\* run_id rows that existed before the UNIQUE index was introduced": a
\* database with duplicates is no reason for opening to fail.
DuplicatesCollapsed ==
  \A p \in Proc : pc[p] = "failed" => ~(file[1].kind = "sqlite" /\ "dups" \in file[1].facts)

\* README.md:60-61: the migration "keeps a backup at `<db-path>.json.bak`".
LegacyFileKept == file[1].kind = "json" => 1 \in Linked
=============================================================================
