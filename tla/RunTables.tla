----------------------------- MODULE RunTables -----------------------------
(***************************************************************************)
(* The tables runs and iterations with their row ids, as the statements of *)
(* recalibrate and of loadHistory see them: those commands keep row ids in *)
(* variables between statements, so here an iteration has its own id and   *)
(* the columns recalibrate reads and writes.  HistoryDB has the other      *)
(* columns of the same tables, and the transactions of the writers.        *)
(*                                                                         *)
(* A speedup is a natural number, 0 standing for NULL.  synced_at is who   *)
(* wrote the column last: a writer of runs ("sync") or a recalibration.    *)
(***************************************************************************)
EXTENDS Integers, Sequences

CONSTANTS RunId,    \* values of runs.run_id
          Hash,     \* commit hashes
          Payload   \* the runs that sync-git and the ingest API write

NoSpeedup == 0
Correctness == {"PASS", "FAIL"}

IterationRecord == [commit_hash : Hash, correctness : Correctness, speedup : Nat]

\* Those of sync-git are in the order of git log --reverse and never none
\* (sync_git.go:90-93); a body of POST /api/v1/runs may have no iterations.
ASSUME PayloadAssumption ==
  \A p \in Payload : /\ p.run_id \in RunId
                     /\ p.iterations \in Seq(IterationRecord)

RunRow == [id : Nat, run_id : RunId, synced_at : {"sync", "recalibration"}]
IterationRow == [id : Nat, run_row_id : Nat, commit_hash : Hash,
                 correctness : Correctness, speedup : Nat]

\* runseq and iterseq are the AUTOINCREMENT counters of the two tables.
Tables == [runs : SUBSET RunRow, iterations : SUBSET IterationRow,
           runseq : Nat, iterseq : Nat]

EmptyTables == [runs |-> {}, iterations |-> {}, runseq |-> 0, iterseq |-> 0]

RunIds(d) == {x.run_id : x \in d.runs}
RowsOf(d, row) == {x \in d.iterations : x.run_row_id = row}

(***************************************************************************)
(* insertRunTx, one committed transaction.                                 *)
(***************************************************************************)
NewIteration(row, seq, p, i) ==
  [id |-> seq + i, run_row_id |-> row,
   commit_hash |-> p.iterations[i].commit_hash,
   correctness |-> p.iterations[i].correctness,
   speedup |-> p.iterations[i].speedup]

\* Mutant: PRIMARY KEY without AUTOINCREMENT numbers from the highest id in use.
InsertIterationsReused(d, row, p, new) ==
  LET top == CHOOSE n \in {0} \cup {x.id : x \in d.iterations} :
               \A x \in d.iterations : x.id <= n IN
  [d EXCEPT !.iterations = @ \cup {NewIteration(row, top, p, i) : i \in new},
            !.iterseq = @ + Len(p.iterations)]

\* The iterations of p numbered in new are inserted under a run row.  Ids keep
\* the order of the payload; an upsert that leaves some out leaves gaps in the
\* ids, where only the order of ids is told apart.
InsertIterations(d, row, p, new) ==
  [d EXCEPT !.iterations = @ \cup {NewIteration(row, d.iterseq, p, i) : i \in new},
            !.iterseq = @ + Len(p.iterations)]

NewRunRow(d) == d.runseq + 1

InsertRunFresh(d, p) ==
  InsertIterations(
    [d EXCEPT !.runs = @ \cup {[id |-> NewRunRow(d), run_id |-> p.run_id,
                                synced_at |-> "sync"]},
              !.runseq = @ + 1],
    NewRunRow(d), p, 1..Len(p.iterations))

\* DELETE FROM runs, with the cascade to iterations.
DeleteRun(d, r) ==
  [d EXCEPT !.runs = {x \in @ : x.run_id # r},
            !.iterations = {x \in @ : \A y \in d.runs :
                              y.run_id = r => x.run_row_id # y.id}]

ReplaceRun(d, p) == InsertRunFresh(DeleteRun(d, p.run_id), p)

NewCommits(d, row, p) ==
  {i \in 1..Len(p.iterations) : \A x \in RowsOf(d, row) :
                        x.commit_hash # p.iterations[i].commit_hash}

\* Mutant: the merge writes the run's iterations again under new ids.
UpsertRunAgain(d, x, p) ==
  InsertIterations([d EXCEPT !.iterations = @ \ RowsOf(d, x.id)], x.id, p, 1..Len(p.iterations))

UpsertRun(d, x, p) ==
  InsertIterations([d EXCEPT !.runs = (@ \ {x}) \cup {[x EXCEPT !.synced_at = "sync"]}],
                   x.id, p, NewCommits(d, x.id, p))

(***************************************************************************)
(* updateBestIterationSpeedup's statements.                                *)
(***************************************************************************)
\* ORDER BY speedup_vs_baseline DESC LIMIT 1 among PASS rows with a speedup;
\* ties may be broken either way.
Measured(d, row) ==
  {x \in RowsOf(d, row) : x.correctness = "PASS" /\ x.speedup # NoSpeedup}
BestIterations(d, row) ==
  {x \in Measured(d, row) : \A y \in Measured(d, row) : y.speedup <= x.speedup}

\* ORDER BY id DESC LIMIT 1.
LastIterations(d, row) ==
  {x \in RowsOf(d, row) : \A y \in RowsOf(d, row) : y.id <= x.id}

SetSpeedup(d, i, s) ==
  [d EXCEPT !.iterations = {IF x.id = i THEN [x EXCEPT !.speedup = s] ELSE x : x \in @}]

SetRecalibrated(d, row) ==
  [d EXCEPT !.runs = {IF x.id = row THEN [x EXCEPT !.synced_at = "recalibration"]
                      ELSE x : x \in @}]

(***************************************************************************)
(* What every transaction preserves.                                       *)
(***************************************************************************)
UniqueRows(d) ==
  /\ \A x, y \in d.runs : x.id = y.id \/ x.run_id = y.run_id => x = y
  /\ \A x, y \in d.iterations : x.id = y.id => x = y
CountersAhead(d) ==
  /\ \A x \in d.runs : x.id <= d.runseq
  /\ \A x \in d.iterations : x.id <= d.iterseq
ForeignKey(d) == \A x \in d.iterations : \E y \in d.runs : y.id = x.run_row_id

Consistent(d) == d \in Tables /\ UniqueRows(d) /\ CountersAhead(d) /\ ForeignKey(d)
=============================================================================
