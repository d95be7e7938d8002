---------------------------- MODULE Recalibrate ----------------------------
(***************************************************************************)
(* kernelhub recalibrate (internal/commands/recalibrate.go) beside the     *)
(* writers of runs: sync-git and the handlers of the ingest API.  A        *)
(* process loads the history, benches the runs it found, which takes       *)
(* minutes, and then updates the database run by run: four statements per  *)
(* run, each committed on its own.  Between any two of them a sync may     *)
(* merge or replace the run, a POST may add an iteration to it, or another *)
(* recalibration may pick the same rows.                                   *)
(*                                                                         *)
(* The bench itself (files, python, its output) is its result: a baseline  *)
(* speedup, or none.  A write is one step: its transaction is atomic       *)
(* (AtomicIngest and NoLostRows of IngestServer).                          *)
(***************************************************************************)
EXTENDS RunTables, FiniteSets

CONSTANTS Recalibrator,   \* the recalibrate processes
          Speedup,        \* baseline speedups a bench can report
          AllRuns,        \* no --run-id
          MaxWrites,       \* bound on the writes of syncs and handlers
          MaxStarts       \* bound on the recalibrations

ASSUME SpeedupAssumption == Speedup \subseteq Nat \ {0}
ASSUME AllRunsAssumption == AllRuns \notin RunId

VARIABLES db,        \* the committed tables
          pc,        \* where each process is
          todo,      \* rows of runs still to bench
          results,   \* benched runs still to update
          rowId,     \* runRowID of updateBestIterationSpeedup
          iterId,    \* iterID of updateBestIterationSpeedup
          hits,      \* run rows of which an UPDATE has changed an iteration
          writes, starts   \* counters for the bounds

recalVars == <<db, pc, todo, results, rowId, iterId, hits, writes, starts>>
procVars == <<pc, todo, results, rowId, iterId>>

Result == [id : Nat, run_id : RunId, speedup : Speedup]

TypeOK ==
  /\ db \in Tables
  /\ pc \in [Recalibrator -> {"idle", "bench", "lookup", "pick", "pickLast", "update", "mark"}]
  /\ todo \in [Recalibrator -> SUBSET RunRow]
  /\ results \in [Recalibrator -> SUBSET Result]
  /\ rowId \in [Recalibrator -> Nat]
  /\ iterId \in [Recalibrator -> Nat]
  /\ hits \in SUBSET Nat
  /\ writes \in Nat
  /\ starts \in Nat

RecalInit ==
  /\ db = EmptyTables
  /\ pc = [p \in Recalibrator |-> "idle"]
  /\ todo = [p \in Recalibrator |-> {}]
  /\ results = [p \in Recalibrator |-> {}]
  /\ rowId = [p \in Recalibrator |-> 0]
  /\ iterId = [p \in Recalibrator |-> 0]
  /\ hits = {}
  /\ writes = 0
  /\ starts = 0

(***************************************************************************)
(* The writers: appendRunWithMode of another process, and the two ingest   *)
(* handlers that reach these tables.                                       *)
(***************************************************************************)
SyncInsert(p) ==
  /\ p.run_id \notin RunIds(db)
  /\ db' = InsertRunFresh(db, p)

SyncReplace(p) ==
  /\ p.run_id \in RunIds(db)
  /\ db' = ReplaceRun(db, p)

SyncUpsert(p) ==
  \E x \in db.runs :
    /\ x.run_id = p.run_id
    /\ db' = UpsertRun(db, x, p)

\* sync-git refuses a range without commits.
SyncRun(p) ==
  /\ p.iterations # <<>>
  /\ SyncInsert(p) \/ SyncReplace(p) \/ SyncUpsert(p)

\* POST /api/v1/runs: a run that is not stored, with the iterations of the body.
PostRun(p) ==
  /\ p.run_id \notin RunIds(db)
  /\ db' = InsertRunFresh(db, p)

\* POST /api/v1/iterations: one iteration for a stored run.  It is refused when
\* the run has its number; the commit is not compared with the stored ones.
PostIteration(p) ==
  \E x \in db.runs, i \in DOMAIN p.iterations :
    /\ x.run_id = p.run_id
    /\ db' = InsertIterations(db, x.id, p, {i})

Write ==
  /\ writes < MaxWrites
  /\ writes' = writes + 1
  /\ \E p \in Payload : SyncRun(p) \/ PostRun(p) \/ PostIteration(p)
  /\ UNCHANGED <<procVars, hits, starts>>

(***************************************************************************)
(* Recalibrate.                                                            *)
(***************************************************************************)
\* loadHistory and the filter on --run-id.  Without targets the command ends
\* at once, with an error or a message.
Load(p) ==
  /\ pc[p] = "idle"
  /\ starts < MaxStarts
  /\ \E only \in RunId \cup {AllRuns} :
       LET targets == {x \in db.runs : only \in {x.run_id, AllRuns}} IN
       /\ targets # {}
       /\ todo' = [todo EXCEPT ![p] = targets]
  /\ pc' = [pc EXCEPT ![p] = "bench"]
  /\ starts' = starts + 1
  /\ UNCHANGED <<db, results, rowId, iterId, hits, writes>>

First(rows) == {x \in rows : \A y \in rows : x.id <= y.id}

\* Mutant: a result without a baseline speedup is kept.
BenchUnchecked(p) ==
  /\ pc[p] = "bench"
  /\ \E x \in First(todo[p]), s \in Speedup \cup {NoSpeedup} :
       /\ todo' = [todo EXCEPT ![p] = @ \ {x}]
       /\ results' = [results EXCEPT ![p] = @ \cup
            {[id |-> x.id, run_id |-> x.run_id, speedup |-> s]}]
  /\ UNCHANGED <<db, pc, rowId, iterId, hits, writes, starts>>

\* recalibrateRun: a baseline speedup, or (missing files, a bench that fails,
\* no baseline) none, and the run is left out of the updates.
Bench(p) ==
  /\ pc[p] = "bench"
  /\ \E x \in First(todo[p]) :
       /\ todo' = [todo EXCEPT ![p] = @ \ {x}]
       /\ \/ UNCHANGED results
          \/ \E s \in Speedup :
               results' = [results EXCEPT ![p] = @ \cup
                 {[id |-> x.id, run_id |-> x.run_id, speedup |-> s]}]
  /\ UNCHANGED <<db, pc, rowId, iterId, hits, writes, starts>>

\* All benched; --dry-run ends here.
BenchesDone(p) ==
  /\ pc[p] = "bench"
  /\ todo[p] = {}
  /\ \/ pc' = [pc EXCEPT ![p] = "lookup"] /\ UNCHANGED results
     \/ pc' = [pc EXCEPT ![p] = "idle"] /\ results' = [results EXCEPT ![p] = {}]
  /\ UNCHANGED <<db, todo, rowId, iterId, hits, writes, starts>>

\* The next result of the loop: the warning is printed, the loop goes on.
NextResult(p, r) ==
  /\ pc' = [pc EXCEPT ![p] = "lookup"]
  /\ results' = [results EXCEPT ![p] = @ \ {r}]
  /\ rowId' = [rowId EXCEPT ![p] = 0]
  /\ iterId' = [iterId EXCEPT ![p] = 0]

\* SELECT id FROM runs WHERE run_id = ?
LookupRun(p) ==
  /\ pc[p] = "lookup"
  /\ \E r \in First(results[p]) :
       \/ \E x \in db.runs :
            /\ x.run_id = r.run_id
            /\ rowId' = [rowId EXCEPT ![p] = x.id]
            /\ pc' = [pc EXCEPT ![p] = "pick"]
            /\ UNCHANGED <<results, iterId>>
       \/ r.run_id \notin RunIds(db) /\ NextResult(p, r)
  /\ UNCHANGED <<db, todo, hits, writes, starts>>

\* The SELECT of the best PASS iteration; when there is none, another SELECT
\* follows, and a write may come between the two.
PickBest(p) ==
  /\ pc[p] = "pick"
  /\ \/ \E x \in BestIterations(db, rowId[p]) :
          /\ iterId' = [iterId EXCEPT ![p] = x.id]
          /\ pc' = [pc EXCEPT ![p] = "update"]
     \/ /\ Measured(db, rowId[p]) = {}
        /\ pc' = [pc EXCEPT ![p] = "pickLast"]
        /\ UNCHANGED iterId
  /\ UNCHANGED <<db, todo, results, rowId, hits, writes, starts>>

PickLast(p) ==
  /\ pc[p] = "pickLast"
  /\ \/ \E x \in LastIterations(db, rowId[p]) :
          /\ iterId' = [iterId EXCEPT ![p] = x.id]
          /\ pc' = [pc EXCEPT ![p] = "update"]
          /\ UNCHANGED <<results, rowId>>
     \/ /\ RowsOf(db, rowId[p]) = {}
        /\ \E r \in First(results[p]) : NextResult(p, r)
  /\ UNCHANGED <<db, todo, hits, writes, starts>>

\* UPDATE iterations SET speedup_vs_baseline = ? WHERE id = ?  It succeeds as
\* well when no row has the id.
UpdateIteration(p) ==
  /\ pc[p] = "update"
  /\ \E r \in First(results[p]) : db' = SetSpeedup(db, iterId[p], r.speedup)
  /\ hits' = hits \cup {x.run_row_id : x \in {y \in db.iterations : y.id = iterId[p]}}
  /\ pc' = [pc EXCEPT ![p] = "mark"]
  /\ UNCHANGED <<todo, results, rowId, iterId, writes, starts>>

\* Mutant: the last UPDATE finds the run by its run_id.
MarkRunByName(p) ==
  /\ pc[p] = "mark"
  /\ \E r \in First(results[p]) :
       /\ db' = [db EXCEPT !.runs = {IF x.run_id = r.run_id
                   THEN [x EXCEPT !.synced_at = "recalibration"] ELSE x : x \in @}]
       /\ NextResult(p, r)
  /\ UNCHANGED <<todo, hits, writes, starts>>

\* UPDATE runs SET synced_at = ? WHERE id = ?
MarkRun(p) ==
  /\ pc[p] = "mark"
  /\ db' = SetRecalibrated(db, rowId[p])
  /\ \E r \in First(results[p]) : NextResult(p, r)
  /\ UNCHANGED <<todo, hits, writes, starts>>

\* Any statement may fail (locked for longer than busy_timeout, I/O).
StatementFails(p) ==
  /\ pc[p] \in {"lookup", "pick", "pickLast", "update", "mark"}
  /\ \E r \in First(results[p]) : NextResult(p, r)
  /\ UNCHANGED <<db, todo, hits, writes, starts>>

\* The process ends: all results are through, or it is killed.
Exit(p) ==
  /\ pc[p] # "idle"
  /\ pc' = [pc EXCEPT ![p] = "idle"]
  /\ todo' = [todo EXCEPT ![p] = {}]
  /\ results' = [results EXCEPT ![p] = {}]
  /\ rowId' = [rowId EXCEPT ![p] = 0]
  /\ iterId' = [iterId EXCEPT ![p] = 0]
  /\ UNCHANGED <<db, hits, writes, starts>>

RecalStep(p) ==
  \/ Load(p) \/ Bench(p) \/ BenchesDone(p) \/ LookupRun(p) \/ PickBest(p) \/ PickLast(p)
  \/ UpdateIteration(p) \/ MarkRun(p) \/ StatementFails(p) \/ Exit(p)

RecalNext == Write \/ \E p \in Recalibrator : RecalStep(p)

RecalSpec == RecalInit /\ [][RecalNext]_recalVars
(***************************************************************************)
(* Properties.                                                             *)
(***************************************************************************)
\* updateBestIterationSpeedup keeps row ids across its autocommitted
\* statements.  An id never comes to denote another iteration, and a stored
\* speedup only ever changes to what a bench of that very run has measured.
RecalibrationStaysInRun ==
  [][\A x \in db.iterations : \A y \in db'.iterations :
       y.id = x.id =>
         /\ y = [x EXCEPT !.speedup = y.speedup]
         /\ y # x => \E p \in Recalibrator : \E r \in results[p] :
              /\ pc[p] = "update"
              /\ y.speedup = r.speedup
              /\ \E run \in db.runs : run.id = x.run_row_id /\ run.run_id = r.run_id]_db

\* synced_at marks a recalibration (recalibrate.go:314) only on a row of which
\* an iteration was updated: when a --replace comes between the statements,
\* neither UPDATE touches the run that took its place.
MarkedRunWasUpdated ==
  \A x \in db.runs : x.synced_at = "recalibration" => x.id \in hits

\* The UPDATE of the iteration does not check that it has hit a row.  If it
\* misses, the run row it belongs to is gone as well: no merge and no other
\* recalibration takes the iteration away.
MissMeansReplaced ==
  \A p \in Recalibrator :
    /\ pc[p] = "update"
    /\ \E x \in db.runs : x.id = rowId[p]
    => \E i \in RowsOf(db, rowId[p]) : i.id = iterId[p]
=============================================================================
