-------------------------- MODULE HistoryDBProofs --------------------------
(***************************************************************************)
(* Every statement of HistoryDB takes a consistent database to a           *)
(* consistent one, only the idempotency statements touch the key table,    *)
(* and the rows that were there stay, but for those of a replaced run.     *)
(***************************************************************************)
EXTENDS HistoryDB, FiniteSetTheorems, TLAPS

\* lookupRunRowIDByRunIDTx finds the id of the run's row.
LEMMA RunRowIdIsARow ==
  ASSUME NEW d, Consistent(d), NEW r, RunExists(d, r)
  PROVE  \E x \in d.runs : x.run_id = r /\ x.id = RunRowId(d, r)
<1>1. PICK x \in d.runs : x.run_id = r  BY DEF RunExists
<1>2. \A y \in d.runs : y.run_id = r => y = x
  BY <1>1 DEF Consistent, UniqueRuns
<1>3. x.id \in Nat  BY <1>1 DEF Consistent, DB, RunRow
<1>4. {z.id : z \in {y \in d.runs : y.run_id = r}} = {x.id}
  BY <1>1, <1>2
<1>5. \A y \in d.runs : y.run_id = r => y.id <= x.id
  BY <1>2, <1>3
<1>6. RunRowId(d, r) = x.id
  BY <1>4, <1>5 DEF RunRowId
<1> QED  BY <1>1, <1>6

LEMMA IterationRowsType ==
  ASSUME NEW row \in Nat, NEW its \in SUBSET IterationRecord
  PROVE  /\ IterationRows(row, its) \in SUBSET IterationRow
         /\ \A x \in IterationRows(row, its) : x.run_row_id = row
  BY DEF IterationRows, IterationRow, IterationRecord

\* insertRunFreshTx on a run_id that has no row.
LEMMA InsertRunFreshConsistent ==
  ASSUME NEW d, Consistent(d), NEW p \in PayloadType, ~RunExists(d, p.run_id)
  PROVE  /\ Consistent(InsertRunFresh(d, p))
         /\ InsertRunFresh(d, p).keys = d.keys
<1> DEFINE new == [id |-> d.seq + 1, run_id |-> p.run_id, commit_count |-> p.commit_count]
           rows == IterationRows(d.seq + 1, p.iterations)
           e == InsertRunFresh(d, p)
<1>1. d \in DB  BY DEF Consistent
<1>2. d.seq \in Nat /\ d.runs \in SUBSET RunRow  BY <1>1 DEF DB
<1>3. new \in RunRow  BY <1>2 DEF RunRow, PayloadType
<1>4. p.iterations \in SUBSET IterationRecord  BY DEF PayloadType
<1>5. rows \in SUBSET IterationRow /\ \A x \in rows : x.run_row_id = d.seq + 1
  BY <1>2, <1>4, IterationRowsType
<1>6. e = [d EXCEPT !.seq = @ + 1, !.runs = @ \cup {new}, !.iterations = @ \cup rows]
  BY DEF InsertRunFresh
<1>7. new.id = d.seq + 1 /\ new.run_id = p.run_id
  OBVIOUS
<1> HIDE DEF new, rows, e
<1>8. /\ e.runs = d.runs \cup {new}
      /\ e.iterations = d.iterations \cup rows
      /\ e.seq = d.seq + 1
      /\ e.keys = d.keys
  BY <1>1, <1>6 DEF DB
<1>9. e \in DB
  <2>1. /\ d.runs \cup {new} \in SUBSET RunRow
        /\ d.iterations \cup rows \in SUBSET IterationRow
        /\ d.seq + 1 \in Nat
    BY <1>1, <1>2, <1>3, <1>5 DEF DB
  <2> QED  BY <1>1, <1>6, <2>1 DEF DB
<1>10. \A x \in d.runs : x.id \in Nat /\ x.id <= d.seq /\ x.run_id # p.run_id
  BY <1>2 DEF Consistent, SeqBounds, RunRow, RunExists
<1>11. UniqueRuns(e)
  BY <1>2, <1>7, <1>8, <1>10 DEF Consistent, UniqueRuns
<1>12. SeqBounds(e)
  BY <1>2, <1>7, <1>8, <1>10 DEF SeqBounds
<1>13. ForeignKey(e)
  <2>1. (\A y \in d.runs : y \in e.runs) /\ new \in e.runs
    BY <1>8
  <2>2. \A x \in d.iterations : \E y \in e.runs : y.id = x.run_row_id
    BY <2>1 DEF Consistent, ForeignKey
  <2>3. \A x \in rows : new.id = x.run_row_id
    BY <1>5, <1>7
  <2> QED  BY <1>8, <2>1, <2>2, <2>3 DEF ForeignKey
<1> QED  BY <1>8, <1>9, <1>11, <1>12, <1>13 DEF Consistent, e

\* DELETE FROM runs with its cascade removes the run and its iterations.
LEMMA DeleteRunConsistent ==
  ASSUME NEW d, Consistent(d), NEW r, RunExists(d, r)
  PROVE  /\ Consistent(DeleteRun(d, RunRowId(d, r)))
         /\ ~RunExists(DeleteRun(d, RunRowId(d, r)), r)
         /\ DeleteRun(d, RunRowId(d, r)).keys = d.keys
<1> DEFINE row == RunRowId(d, r)
           e == DeleteRun(d, row)
<1>1. d \in DB  BY DEF Consistent
<1>2. PICK x \in d.runs : x.run_id = r /\ x.id = row  BY RunRowIdIsARow
<1> HIDE DEF row
<1>3. /\ e.runs = {y \in d.runs : y.id # row}
      /\ e.iterations = {y \in d.iterations : y.run_row_id # row}
      /\ e.seq = d.seq
      /\ e.keys = d.keys
  BY <1>1 DEF DeleteRun, DB
<1>4. e \in DB
  BY <1>1 DEF DeleteRun, DB
<1>5. UniqueRuns(e) /\ SeqBounds(e) /\ ForeignKey(e)
  BY <1>3 DEF Consistent, UniqueRuns, SeqBounds, ForeignKey
<1>6. ~RunExists(e, r)
  BY <1>2, <1>3 DEF RunExists, Consistent, UniqueRuns
<1> QED  BY <1>3, <1>4, <1>5, <1>6 DEF Consistent, row

\* WriteModeUpsert's UPDATE and its insertion of the unknown commits.
LEMMA UpsertRunConsistent ==
  ASSUME NEW d, Consistent(d), NEW p \in PayloadType, RunExists(d, p.run_id)
  PROVE  /\ Consistent(UpsertRun(d, p, RunRowId(d, p.run_id)))
         /\ UpsertRun(d, p, RunRowId(d, p.run_id)).keys = d.keys
<1> DEFINE row == RunRowId(d, p.run_id)
           e == UpsertRun(d, p, row)
           new == [id |-> row, run_id |-> p.run_id, commit_count |-> p.commit_count]
           its == {it \in p.iterations :
                     it.commit_hash \notin ExistingCommitHashes(d, row)}
<1>1. d \in DB  BY DEF Consistent
<1>2. PICK x \in d.runs : x.run_id = p.run_id /\ x.id = row  BY RunRowIdIsARow
<1> HIDE DEF row
<1>3. x.id \in Nat /\ d.runs \in SUBSET RunRow  BY <1>1 DEF DB, RunRow
<1>4. new \in RunRow  BY <1>2, <1>3 DEF RunRow, PayloadType
<1>5. its \in SUBSET IterationRecord  BY DEF PayloadType
<1>6. /\ IterationRows(row, its) \in SUBSET IterationRow
      /\ \A y \in IterationRows(row, its) : y.run_row_id = row
  <2> HIDE DEF its
  <2> QED  BY <1>2, <1>3, <1>5, IterationRowsType
<1>7. /\ e.runs = {y \in d.runs : y.id # row} \cup {new}
      /\ e.iterations = d.iterations \cup IterationRows(row, its)
      /\ e.seq = d.seq
      /\ e.keys = d.keys
  BY <1>1 DEF UpsertRun, DB
<1>8. e \in DB
  <2> HIDE DEF its
  <2>1. e = [d EXCEPT !.runs = {y \in @ : y.id # row} \cup {new},
                      !.iterations = @ \cup IterationRows(row, its)]
    BY DEF UpsertRun, its
  <2> DEFINE rs == {y \in d.runs : y.id # row} \cup {new}
  <2> DEFINE is == d.iterations \cup IterationRows(row, its)
  <2>2. rs \in SUBSET RunRow  BY <1>3, <1>4
  <2>3. is \in SUBSET IterationRow  BY <1>1, <1>6 DEF DB
  <2>4. e = [d EXCEPT !.runs = rs, !.iterations = is]  BY <1>1, <2>1
  <2> HIDE DEF rs, is
  <2> QED  BY <1>1, <2>2, <2>3, <2>4 DEF DB
<1> HIDE DEF its
<1>9. UniqueRuns(e)
  BY <1>2, <1>7 DEF Consistent, UniqueRuns
<1>10. SeqBounds(e)
  BY <1>2, <1>7 DEF Consistent, SeqBounds
<1>11. ForeignKey(e)
  <2>1. new \in e.runs /\ new.id = row
    BY <1>7
  <2> HIDE DEF new
  <2>2. \A y \in d.runs : \E z \in e.runs : z.id = y.id
    BY <1>7, <2>1
  <2> HIDE DEF e
  <2> QED  BY <1>6, <1>7, <2>1, <2>2 DEF Consistent, ForeignKey
<1> QED  BY <1>7, <1>8, <1>9, <1>10, <1>11 DEF Consistent, row

\* insertRunTx, in each of its modes, keeps the database consistent.
LEMMA InsertRunConsistent ==
  ASSUME NEW d, Consistent(d), NEW p \in PayloadType, NEW mode \in WriteMode
  PROVE  Consistent(InsertRun(d, p, mode)) /\ InsertRun(d, p, mode).keys = d.keys
<1>1. CASE ~RunExists(d, p.run_id)
  BY <1>1, InsertRunFreshConsistent DEF InsertRun
<1>2. CASE RunExists(d, p.run_id) /\ mode = "replace"
  <2> DEFINE e == DeleteRun(d, RunRowId(d, p.run_id))
  <2>1. Consistent(e) /\ ~RunExists(e, p.run_id) /\ e.keys = d.keys
    BY <1>2, DeleteRunConsistent
  <2>2. InsertRun(d, p, mode) = InsertRunFresh(e, p)
    BY <1>2 DEF InsertRun
  <2> HIDE DEF e
  <2> QED  BY <2>1, <2>2, InsertRunFreshConsistent
<1>3. CASE RunExists(d, p.run_id) /\ mode # "replace"
  BY <1>3, UpsertRunConsistent DEF InsertRun
<1> QED  BY <1>1, <1>2, <1>3

\* insertArchiveTx and insertArchiveRecordTx.
LEMMA InsertArchiveConsistent ==
  ASSUME NEW d, Consistent(d), NEW p \in PayloadType
  PROVE  Consistent(InsertArchive(d, p)) /\ InsertArchive(d, p).keys = d.keys
<1> DEFINE e == InsertArchive(d, p)
<1>1. d \in DB  BY DEF Consistent
<1>2. /\ e.runs = d.runs /\ e.iterations = d.iterations
      /\ e.seq = d.seq /\ e.keys = d.keys
  BY <1>1 DEF InsertArchive, DB
<1>3. e \in DB
  BY <1>1 DEF InsertArchive, DB, ArchiveRow, PayloadType
<1> QED  BY <1>2, <1>3 DEF Consistent, UniqueRuns, SeqBounds, ForeignKey

LEMMA WithoutBackendType ==
  ASSUME NEW its \in SUBSET IterationRecord
  PROVE  WithoutBackend(its) \in SUBSET IterationRecord
  BY BackendAssumption DEF WithoutBackend, IterationRecord

\* The write function of each route, when it answers no API error.
LEMMA IngestWriteConsistent ==
  ASSUME NEW d, Consistent(d), NEW route \in Route, NEW p \in Payload,
         IngestError(d, route, p) = "none"
  PROVE  /\ Consistent(IngestWrite(d, route, p))
         /\ IngestWrite(d, route, p).keys = d.keys
<1>1. p \in PayloadType /\ IsFiniteSet(p.iterations)  BY PayloadAssumption
<1>2. CASE route = "runs"
  <2> DEFINE n == NormalizeRun(p)
             q == [n EXCEPT !.iterations = WithoutBackend(@)]
  <2>1. Cardinality(p.iterations) \in Nat  BY <1>1, FS_CardinalityType
  <2>2. n \in PayloadType /\ n.run_id = p.run_id
    BY <1>1, <2>1 DEF NormalizeRun, PayloadType
  <2> HIDE DEF n
  <2>3. WithoutBackend(n.iterations) \in SUBSET IterationRecord
    BY <2>2, WithoutBackendType DEF PayloadType
  <2>4. q \in PayloadType /\ q.run_id = p.run_id
    BY <2>2, <2>3 DEF PayloadType
  <2>5. ~RunExists(d, p.run_id)
    BY <1>2 DEF IngestError
  <2>6. IngestWrite(d, route, p) = InsertRunFresh(d, q)
    BY <1>2 DEF IngestWrite, InsertRunRecord, n
  <2> HIDE DEF q
  <2> QED  BY <2>4, <2>5, <2>6, InsertRunFreshConsistent
<1>3. CASE route = "iterations"
  <2> DEFINE row == RunRowId(d, p.run_id)
             its == WithoutBackend(p.iterations)
             e == InsertIterationForRun(d, p)
  <2>1. d \in DB  BY DEF Consistent
  <2>2. RunExists(d, p.run_id)
    BY <1>3 DEF IngestError
  <2>3. PICK x \in d.runs : x.id = row
    BY <2>2, RunRowIdIsARow
  <2>4. row \in Nat  BY <2>1, <2>3 DEF DB, RunRow
  <2>5. its \in SUBSET IterationRecord
    BY <1>1, WithoutBackendType DEF PayloadType
  <2> HIDE DEF row, its
  <2>6. /\ IterationRows(row, its) \in SUBSET IterationRow
        /\ \A y \in IterationRows(row, its) : y.run_row_id = row
    BY <2>4, <2>5, IterationRowsType
  <2>7. e = [d EXCEPT !.iterations = @ \cup IterationRows(row, its)]
    BY DEF InsertIterationForRun, row, its
  <2> HIDE DEF e
  <2>8. /\ e.runs = d.runs /\ e.seq = d.seq /\ e.keys = d.keys
        /\ e.iterations = d.iterations \cup IterationRows(row, its)
    BY <2>1, <2>7 DEF DB
  <2>9. e \in DB
    BY <2>1, <2>6, <2>7 DEF DB
  <2>10. UniqueRuns(e) /\ SeqBounds(e)
    BY <2>8 DEF Consistent, UniqueRuns, SeqBounds
  <2>11. ForeignKey(e)
    BY <2>3, <2>6, <2>8 DEF Consistent, ForeignKey
  <2>12. IngestWrite(d, route, p) = e
    BY <1>3 DEF IngestWrite, e
  <2> QED  BY <2>8, <2>9, <2>10, <2>11, <2>12 DEF Consistent
<1>4. CASE route = "archives"
  BY <1>1, <1>4, InsertArchiveConsistent DEF IngestWrite
<1> QED  BY <1>2, <1>3, <1>4 DEF Route

LEMMA WithoutBackendCovers ==
  ASSUME NEW its \in SUBSET IterationRecord
  PROVE  \A it \in its : \E i \in WithoutBackend(its) : i.iteration = it.iteration
<1> SUFFICES ASSUME NEW it \in its
             PROVE  \E i \in WithoutBackend(its) : i.iteration = it.iteration
  OBVIOUS
<1>1. [it EXCEPT !.backend = NoBackend] \in WithoutBackend(its)  BY DEF WithoutBackend
<1>2. [it EXCEPT !.backend = NoBackend].iteration = it.iteration  BY DEF IterationRecord
<1> QED  BY <1>1, <1>2

\* A statement on the key table alone leaves the history consistent.
LEMMA KeysOnlyConsistent ==
  ASSUME NEW d, Consistent(d), NEW ks \in SUBSET KeyRow
  PROVE  Consistent([d EXCEPT !.keys = ks]) /\ [d EXCEPT !.keys = ks].keys = ks
<1> DEFINE e == [d EXCEPT !.keys = ks]
<1>1. d \in DB  BY DEF Consistent
<1>2. /\ e.runs = d.runs /\ e.iterations = d.iterations
      /\ e.seq = d.seq /\ e.keys = ks
  BY <1>1 DEF DB
<1>3. e \in DB  BY <1>1 DEF DB
<1> QED  BY <1>2, <1>3 DEF Consistent, UniqueRuns, SeqBounds, ForeignKey

-----------------------------------------------------------------------------
(***************************************************************************)
(* What a transaction leaves of the rows that were there.                  *)
(***************************************************************************)
KeepsRows(d, e) ==
  /\ d.archives \subseteq e.archives
  /\ \A x \in d.runs : \E y \in e.runs : y.id = x.id /\ y.run_id = x.run_id
  /\ d.iterations \subseteq e.iterations

\* A replaced run has new rows, everything else stays.
KeepsOtherRows(d, e, r) ==
  /\ d.archives \subseteq e.archives
  /\ \A x \in d.runs : x.run_id # r => \E y \in e.runs : y.id = x.id /\ y.run_id = x.run_id
  /\ \A x \in d.iterations : x.run_row_id # RunRowId(d, r) => x \in e.iterations
  /\ RunExists(e, r)

LEMMA IterationRowsCover ==
  ASSUME NEW row, NEW its
  PROVE  \A it \in its : \E y \in IterationRows(row, its) :
           y.run_row_id = row /\ y.iteration = it.iteration
<1> DEFINE Row(it) == [run_row_id |-> row, iteration |-> it.iteration,
                       commit_hash |-> it.commit_hash, backend |-> it.backend]
<1>1. SUFFICES ASSUME NEW it \in its
               PROVE  \E y \in IterationRows(row, its) :
                        y.run_row_id = row /\ y.iteration = it.iteration
  OBVIOUS
<1>2. Row(it) \in IterationRows(row, its)  BY DEF IterationRows
<1>3. Row(it).run_row_id = row /\ Row(it).iteration = it.iteration  OBVIOUS
<1> HIDE DEF Row
<1> QED  BY <1>2, <1>3

\* insertRunFreshTx adds a run with the iterations of its payload.
LEMMA InsertRunFreshKeeps ==
  ASSUME NEW d, Consistent(d), NEW p \in PayloadType, ~RunExists(d, p.run_id),
         NEW e, e = InsertRunFresh(d, p)
  PROVE  /\ KeepsRows(d, e) /\ e.keytable = d.keytable /\ RunExists(e, p.run_id)
         /\ \A it \in p.iterations : IterationExists(e, RunRowId(e, p.run_id), it.iteration)
<1> DEFINE new == [id |-> d.seq + 1, run_id |-> p.run_id, commit_count |-> p.commit_count]
           rows == IterationRows(d.seq + 1, p.iterations)
<1>1. d \in DB  BY DEF Consistent
<1>2. e = [d EXCEPT !.seq = @ + 1, !.runs = @ \cup {new}, !.iterations = @ \cup rows]
  BY DEF InsertRunFresh
<1>3. new.id = d.seq + 1 /\ new.run_id = p.run_id  OBVIOUS
<1>4. \A it \in p.iterations : \E y \in rows : y.run_row_id = d.seq + 1 /\ y.iteration = it.iteration
  BY IterationRowsCover
<1> HIDE DEF new, rows
<1>5. /\ e.runs = d.runs \cup {new} /\ e.iterations = d.iterations \cup rows
      /\ e.archives = d.archives /\ e.keytable = d.keytable
  BY <1>1, <1>2 DEF DB
<1>6. Consistent(e)  BY InsertRunFreshConsistent
<1>7. RunExists(e, p.run_id)  BY <1>3, <1>5 DEF RunExists
<1>8. RunRowId(e, p.run_id) = d.seq + 1
  <2>1. PICK x \in e.runs : x.run_id = p.run_id /\ x.id = RunRowId(e, p.run_id)
    BY <1>6, <1>7, RunRowIdIsARow
  <2>2. x = new  BY <1>3, <1>5, <1>6, <2>1 DEF Consistent, UniqueRuns
  <2> QED  BY <1>3, <2>1, <2>2
<1>9. \A it \in p.iterations : IterationExists(e, d.seq + 1, it.iteration)
  BY <1>4, <1>5 DEF IterationExists
<1> QED  BY <1>5, <1>7, <1>8, <1>9 DEF KeepsRows

\* WriteModeUpsert merges: no iteration is lost.
LEMMA UpsertRunKeeps ==
  ASSUME NEW d, Consistent(d), NEW p \in PayloadType, RunExists(d, p.run_id),
         NEW e, e = UpsertRun(d, p, RunRowId(d, p.run_id))
  PROVE  KeepsRows(d, e) /\ e.keytable = d.keytable
<1> DEFINE row == RunRowId(d, p.run_id)
           new == [id |-> row, run_id |-> p.run_id, commit_count |-> p.commit_count]
           rows == IterationRows(row, {it \in p.iterations :
                     it.commit_hash \notin ExistingCommitHashes(d, row)})
<1>1. d \in DB  BY DEF Consistent
<1>2. PICK x \in d.runs : x.run_id = p.run_id /\ x.id = row  BY RunRowIdIsARow
<1>3. new.id = row /\ new.run_id = p.run_id  OBVIOUS
<1>4. e = [d EXCEPT !.runs = {y \in @ : y.id # row} \cup {new}, !.iterations = @ \cup rows]
  BY DEF UpsertRun
<1> HIDE DEF row, new, rows
<1>5. /\ e.runs = {y \in d.runs : y.id # row} \cup {new}
      /\ e.iterations = d.iterations \cup rows
      /\ e.archives = d.archives /\ e.keytable = d.keytable
  BY <1>1, <1>4 DEF DB
<1>6. \A y \in d.runs : y.id = row => y.run_id = p.run_id
  BY <1>2 DEF Consistent, UniqueRuns
<1> QED  BY <1>3, <1>5, <1>6 DEF KeepsRows

\* DELETE FROM runs touches one run and its iterations.
LEMMA DeleteRunKeeps ==
  ASSUME NEW d, Consistent(d), NEW r, RunExists(d, r),
         NEW e, e = DeleteRun(d, RunRowId(d, r))
  PROVE  /\ e.archives = d.archives /\ e.keytable = d.keytable
         /\ \A x \in d.runs : x.run_id # r => x \in e.runs
         /\ \A x \in d.iterations : x.run_row_id # RunRowId(d, r) => x \in e.iterations
<1> DEFINE row == RunRowId(d, r)
<1>1. d \in DB  BY DEF Consistent
<1>2. PICK x \in d.runs : x.run_id = r /\ x.id = row  BY RunRowIdIsARow
<1>3. e = [d EXCEPT !.runs = {y \in @ : y.id # row}, !.iterations = {y \in @ : y.run_row_id # row}]
  BY DEF DeleteRun
<1> HIDE DEF row
<1>4. /\ e.runs = {y \in d.runs : y.id # row}
      /\ e.iterations = {y \in d.iterations : y.run_row_id # row}
      /\ e.archives = d.archives /\ e.keytable = d.keytable
  BY <1>1, <1>3 DEF DB
<1>5. \A y \in d.runs : y.run_id # r => y.id # row
  BY <1>2 DEF Consistent, UniqueRuns
<1> QED  BY <1>4, <1>5 DEF row

\* insertRunTx keeps all rows, or all but those of the run it replaces.
LEMMA InsertRunKeeps ==
  ASSUME NEW d, Consistent(d), NEW p \in PayloadType, NEW mode \in WriteMode,
         NEW e, e = InsertRun(d, p, mode)
  PROVE  /\ e.keytable = d.keytable
         /\ \/ KeepsRows(d, e)
            \/ /\ mode = "replace" /\ RunExists(d, p.run_id)
               /\ KeepsOtherRows(d, e, p.run_id)
<1>1. CASE ~RunExists(d, p.run_id)
  BY <1>1, InsertRunFreshKeeps DEF InsertRun
<1>2. CASE RunExists(d, p.run_id) /\ mode = "replace"
  <2> DEFINE f == DeleteRun(d, RunRowId(d, p.run_id))
  <2>1. Consistent(f) /\ ~RunExists(f, p.run_id)
    BY <1>2, DeleteRunConsistent
  <2>2. /\ f.archives = d.archives /\ f.keytable = d.keytable
        /\ \A x \in d.runs : x.run_id # p.run_id => x \in f.runs
        /\ \A x \in d.iterations : x.run_row_id # RunRowId(d, p.run_id) => x \in f.iterations
    BY <1>2, DeleteRunKeeps
  <2>3. e = InsertRunFresh(f, p)  BY <1>2 DEF InsertRun
  <2> HIDE DEF f
  <2>4. KeepsRows(f, e) /\ e.keytable = f.keytable /\ RunExists(e, p.run_id)
    BY <2>1, <2>3, InsertRunFreshKeeps
  <2>5. KeepsOtherRows(d, e, p.run_id)
    BY <2>2, <2>4 DEF KeepsRows, KeepsOtherRows
  <2> QED  BY <1>2, <2>2, <2>4, <2>5
<1>3. CASE RunExists(d, p.run_id) /\ mode # "replace"
  BY <1>3, UpsertRunKeeps DEF InsertRun
<1> QED  BY <1>1, <1>2, <1>3

\* Every commit of the payload has its row under the run: the payload's own
\* number and backend, or after an upsert what was stored for it before.
HasPayload(d, e, p, mode) ==
  /\ RunExists(e, p.run_id)
  /\ \A it \in p.iterations :
       \E y \in e.iterations :
         /\ y.run_row_id = RunRowId(e, p.run_id)
         /\ y.commit_hash = it.commit_hash
         /\ \/ y.iteration = it.iteration /\ y.backend = it.backend
            \/ mode = "upsert" /\ y \in d.iterations

RowOf(row, it) == [run_row_id |-> row, iteration |-> it.iteration,
                   commit_hash |-> it.commit_hash, backend |-> it.backend]

LEMMA RowOfFields ==
  ASSUME NEW row, NEW it
  PROVE  /\ RowOf(row, it).run_row_id = row
         /\ RowOf(row, it).iteration = it.iteration
         /\ RowOf(row, it).commit_hash = it.commit_hash
         /\ RowOf(row, it).backend = it.backend
BY DEF RowOf

LEMMA InsertRunFreshStores ==
  ASSUME NEW d, Consistent(d), NEW p \in PayloadType, ~RunExists(d, p.run_id),
         NEW e, e = InsertRunFresh(d, p), NEW c, NEW mode
  PROVE  HasPayload(c, e, p, mode)
<1> DEFINE new == [id |-> d.seq + 1, run_id |-> p.run_id, commit_count |-> p.commit_count]
           rows == IterationRows(d.seq + 1, p.iterations)
<1>1. d \in DB  BY DEF Consistent
<1>2. e = [d EXCEPT !.seq = @ + 1, !.runs = @ \cup {new}, !.iterations = @ \cup rows]
  BY DEF InsertRunFresh
<1>3. new.id = d.seq + 1 /\ new.run_id = p.run_id  OBVIOUS
<1>4. \A it \in p.iterations : RowOf(d.seq + 1, it) \in rows
  BY DEF IterationRows, RowOf
<1> HIDE DEF new, rows
<1>5. e.runs = d.runs \cup {new} /\ e.iterations = d.iterations \cup rows
  BY <1>1, <1>2 DEF DB
<1>6. Consistent(e)  BY InsertRunFreshConsistent
<1>7. RunExists(e, p.run_id)  BY <1>3, <1>5 DEF RunExists
<1>8. RunRowId(e, p.run_id) = d.seq + 1
  <2>1. PICK x \in e.runs : x.run_id = p.run_id /\ x.id = RunRowId(e, p.run_id)
    BY <1>6, <1>7, RunRowIdIsARow
  <2>2. x = new  BY <1>3, <1>5, <1>6, <2>1 DEF Consistent, UniqueRuns
  <2> QED  BY <1>3, <2>1, <2>2
<1>9. \A it \in p.iterations : RowOf(RunRowId(e, p.run_id), it) \in e.iterations
  BY <1>4, <1>5, <1>8
<1> QED  BY <1>7, <1>9, RowOfFields DEF HasPayload

LEMMA UpsertRunStores ==
  ASSUME NEW d, Consistent(d), NEW p \in PayloadType, RunExists(d, p.run_id),
         NEW e, e = UpsertRun(d, p, RunRowId(d, p.run_id))
  PROVE  HasPayload(d, e, p, "upsert")
<1> DEFINE row == RunRowId(d, p.run_id)
           known == ExistingCommitHashes(d, row)
           new == [id |-> row, run_id |-> p.run_id, commit_count |-> p.commit_count]
           rows == IterationRows(row, {it \in p.iterations : it.commit_hash \notin known})
<1>1. d \in DB  BY DEF Consistent
<1>2. e = [d EXCEPT !.runs = {y \in @ : y.id # row} \cup {new}, !.iterations = @ \cup rows]
  BY DEF UpsertRun
<1>3. new.id = row /\ new.run_id = p.run_id  OBVIOUS
<1>4. \A it \in p.iterations : it.commit_hash \notin known => RowOf(row, it) \in rows
  BY DEF IterationRows, RowOf
<1>5. \A hash \in known : \E y \in d.iterations : y.run_row_id = row /\ y.commit_hash = hash
  BY DEF ExistingCommitHashes
<1>6. e = UpsertRun(d, p, RunRowId(d, p.run_id))  OBVIOUS
<1>7. Consistent(e)  BY <1>6, UpsertRunConsistent
<1> HIDE DEF row, known, new, rows
<1>8. /\ e.runs = {y \in d.runs : y.id # row} \cup {new}
      /\ e.iterations = d.iterations \cup rows
  BY <1>1, <1>2 DEF DB
<1>9. RunExists(e, p.run_id)  BY <1>3, <1>8 DEF RunExists
<1>10. RunRowId(e, p.run_id) = row
  <2>1. PICK x \in e.runs : x.run_id = p.run_id /\ x.id = RunRowId(e, p.run_id)
    BY <1>7, <1>9, RunRowIdIsARow
  <2>2. x = new  BY <1>3, <1>7, <1>8, <2>1 DEF Consistent, UniqueRuns
  <2> QED  BY <1>3, <2>1, <2>2
<1>11. ASSUME NEW it \in p.iterations
       PROVE  \E y \in e.iterations :
                /\ y.run_row_id = row /\ y.commit_hash = it.commit_hash
                /\ \/ y.iteration = it.iteration /\ y.backend = it.backend
                   \/ y \in d.iterations
  <2>1. CASE it.commit_hash \in known  BY <1>5, <1>8, <2>1
  <2>2. CASE it.commit_hash \notin known
    <3>1. RowOf(row, it) \in e.iterations  BY <1>4, <1>8, <2>2
    <3> QED  BY <3>1, RowOfFields
  <2> QED  BY <2>1, <2>2
<1> QED  BY <1>9, <1>10, <1>11 DEF HasPayload

\* insertRunTx in each of its modes, when it does not refuse.
LEMMA InsertRunStores ==
  ASSUME NEW d, Consistent(d), NEW p \in PayloadType, NEW mode \in WriteMode,
         ~InsertRunRefused(d, p, mode), NEW e, e = InsertRun(d, p, mode)
  PROVE  HasPayload(d, e, p, mode)
<1>1. CASE ~RunExists(d, p.run_id)
  BY <1>1, InsertRunFreshStores DEF InsertRun
<1>2. CASE RunExists(d, p.run_id) /\ mode = "replace"
  <2> DEFINE f == DeleteRun(d, RunRowId(d, p.run_id))
  <2>1. Consistent(f) /\ ~RunExists(f, p.run_id)  BY <1>2, DeleteRunConsistent
  <2>2. e = InsertRunFresh(f, p)  BY <1>2 DEF InsertRun
  <2> HIDE DEF f
  <2> QED  BY <2>1, <2>2, InsertRunFreshStores
<1>3. CASE RunExists(d, p.run_id) /\ mode # "replace"
  <2>1. mode = "upsert"  BY <1>3 DEF InsertRunRefused, WriteMode
  <2>2. e = UpsertRun(d, p, RunRowId(d, p.run_id))  BY <1>3 DEF InsertRun
  <2> QED  BY <1>3, <2>1, <2>2, UpsertRunStores
<1> QED  BY <1>1, <1>2, <1>3

\* insertArchiveTx and insertArchiveRecordTx.
LEMMA InsertArchiveKeeps ==
  ASSUME NEW d, Consistent(d), NEW p, NEW e, e = InsertArchive(d, p)
  PROVE  KeepsRows(d, e) /\ e.keytable = d.keytable /\ p.archive \in e.archives
<1>1. d \in DB  BY DEF Consistent
<1>2. /\ e.runs = d.runs /\ e.iterations = d.iterations /\ e.keytable = d.keytable
      /\ e.archives = d.archives \cup {p.archive}
  BY <1>1 DEF InsertArchive, DB
<1> QED  BY <1>2 DEF KeepsRows

\* The rows a write function of the ingest API adds, and that it adds them.
LEMMA IngestWriteKeeps ==
  ASSUME NEW d, Consistent(d), NEW route \in Route, NEW p \in Payload,
         IngestError(d, route, p) = "none",
         NEW e, e = IngestWrite(d, route, p)
  PROVE  /\ KeepsRows(d, e) /\ e.keytable = d.keytable
         /\ route = "archives" => p.archive \in e.archives /\ p.archive \notin d.archives
         /\ route # "archives" =>
              /\ RunExists(e, p.run_id)
              /\ \A it \in p.iterations : IterationExists(e, RunRowId(e, p.run_id), it.iteration)
         /\ route = "runs" => ~RunExists(d, p.run_id)
         /\ route = "iterations" /\ p.iterations # {} => e.iterations \ d.iterations # {}
<1>1. p \in PayloadType /\ IsFiniteSet(p.iterations)  BY PayloadAssumption
<1>2. CASE route = "runs"
  <2> DEFINE n == NormalizeRun(p)
             q == [n EXCEPT !.iterations = WithoutBackend(@)]
  <2>1. Cardinality(p.iterations) \in Nat  BY <1>1, FS_CardinalityType
  <2>2. n \in PayloadType /\ n.run_id = p.run_id /\ n.iterations = p.iterations
    BY <1>1, <2>1 DEF NormalizeRun, PayloadType
  <2> HIDE DEF n
  <2>3. WithoutBackend(n.iterations) \in SUBSET IterationRecord
    BY <2>2, WithoutBackendType DEF PayloadType
  <2>4. q \in PayloadType /\ q.run_id = p.run_id /\ q.iterations = WithoutBackend(p.iterations)
    BY <2>2, <2>3 DEF PayloadType
  <2>5. ~RunExists(d, p.run_id)  BY <1>2 DEF IngestError
  <2>6. e = InsertRunFresh(d, q)  BY <1>2 DEF IngestWrite, InsertRunRecord, n
  <2> HIDE DEF q
  <2>7. /\ KeepsRows(d, e) /\ e.keytable = d.keytable /\ RunExists(e, p.run_id)
        /\ \A it \in q.iterations : IterationExists(e, RunRowId(e, p.run_id), it.iteration)
    BY <2>4, <2>5, <2>6, InsertRunFreshKeeps
  <2>8. \A it \in p.iterations : \E i \in q.iterations : i.iteration = it.iteration
    <3>1. p.iterations \subseteq IterationRecord  BY <1>1 DEF PayloadType
    <3> QED  BY <2>4, <3>1, WithoutBackendCovers
  <2> QED  BY <1>2, <2>5, <2>7, <2>8
<1>3. CASE route = "iterations"
  <2> DEFINE row == RunRowId(d, p.run_id)
             its == WithoutBackend(p.iterations)
             rows == IterationRows(row, its)
  <2>1. d \in DB  BY DEF Consistent
  <2>2. /\ RunExists(d, p.run_id)
        /\ \A it \in p.iterations : ~IterationExists(d, row, it.iteration)
    BY <1>3 DEF IngestError
  <2>3. e = [d EXCEPT !.iterations = @ \cup rows]
    BY <1>3 DEF IngestWrite, InsertIterationForRun
  <2>4. \A it \in p.iterations : \E y \in rows : y.run_row_id = row /\ y.iteration = it.iteration
    <3>1. p.iterations \subseteq IterationRecord  BY <1>1 DEF PayloadType
    <3>2. \A it \in p.iterations : \E i \in its : i.iteration = it.iteration
      BY <3>1, WithoutBackendCovers
    <3>3. \A i \in its : \E y \in rows : y.run_row_id = row /\ y.iteration = i.iteration
      BY IterationRowsCover
    <3> HIDE DEF its, rows, row
    <3> QED  BY <3>2, <3>3
  <2>5. RunRowId(e, p.run_id) = row /\ e.runs = d.runs
    BY <2>1, <2>3 DEF RunRowId, DB
  <2> HIDE DEF rows, row
  <2>6. /\ e.iterations = d.iterations \cup rows /\ e.archives = d.archives
        /\ e.keytable = d.keytable
    BY <2>1, <2>3 DEF DB
  <2>7. KeepsRows(d, e)  BY <2>5, <2>6 DEF KeepsRows
  <2>8. RunExists(e, p.run_id)  BY <2>2, <2>5 DEF RunExists
  <2>9. \A it \in p.iterations : IterationExists(e, RunRowId(e, p.run_id), it.iteration)
    BY <2>4, <2>5, <2>6 DEF IterationExists
  <2>10. p.iterations # {} => e.iterations \ d.iterations # {}
    BY <2>2, <2>4, <2>6 DEF IterationExists
  <2> QED  BY <1>3, <2>6, <2>7, <2>8, <2>9, <2>10
<1>4. CASE route = "archives"
  <2>1. e = InsertArchive(d, p) /\ p.archive \notin d.archives
    BY <1>4 DEF IngestWrite, IngestError
  <2> QED  BY <1>4, <2>1, InsertArchiveKeeps
<1> QED  BY <1>2, <1>3, <1>4 DEF Route

\* The write functions do not look at the key table.
LEMMA SameHistoryWrites ==
  ASSUME NEW d \in DB, NEW e \in DB, SameHistory(d, e), NEW route \in Route, NEW p
  PROVE  /\ IngestError(d, route, p) = IngestError(e, route, p)
         /\ SameHistory(IngestWrite(d, route, p), IngestWrite(e, route, p))
<1>1. \A r : RunRowId(d, r) = RunRowId(e, r) /\ (RunExists(d, r) <=> RunExists(e, r))
  BY DEF SameHistory, RunRowId, RunExists
<1>2. \A row, n : IterationExists(d, row, n) <=> IterationExists(e, row, n)
  BY DEF SameHistory, IterationExists
<1>3. IngestError(d, route, p) = IngestError(e, route, p)
  BY <1>1, <1>2 DEF IngestError, SameHistory
<1>4. CASE route = "runs"
  <2> DEFINE q == [NormalizeRun(p) EXCEPT !.iterations = WithoutBackend(@)]
             new == [id |-> d.seq + 1, run_id |-> q.run_id, commit_count |-> q.commit_count]
             rows == IterationRows(d.seq + 1, q.iterations)
  <2>1. /\ IngestWrite(d, route, p) = InsertRunFresh(d, q)
        /\ IngestWrite(e, route, p) = InsertRunFresh(e, q)
    BY <1>4 DEF IngestWrite, InsertRunRecord
  <2>2. d.seq = e.seq  BY DEF SameHistory
  <2> HIDE DEF q
  <2>3. InsertRunFresh(d, q) = [d EXCEPT !.seq = @ + 1, !.runs = @ \cup {new}, !.iterations = @ \cup rows]
    BY DEF InsertRunFresh
  <2>4. InsertRunFresh(e, q) = [e EXCEPT !.seq = @ + 1, !.runs = @ \cup {new}, !.iterations = @ \cup rows]
    BY <2>2 DEF InsertRunFresh
  <2> HIDE DEF new, rows
  <2> QED  BY <1>3, <2>1, <2>3, <2>4 DEF SameHistory, DB
<1>5. CASE route = "iterations"
  <2> DEFINE row == RunRowId(d, p.run_id)
             rows == IterationRows(row, WithoutBackend(p.iterations))
  <2>1. /\ IngestWrite(d, route, p) = [d EXCEPT !.iterations = @ \cup rows]
        /\ IngestWrite(e, route, p) = [e EXCEPT !.iterations = @ \cup rows]
    BY <1>1, <1>5 DEF IngestWrite, InsertIterationForRun
  <2> HIDE DEF rows
  <2> QED  BY <1>3, <2>1 DEF SameHistory, DB
<1>6. CASE route = "archives"
  <2>1. /\ IngestWrite(d, route, p) = [d EXCEPT !.archives = @ \cup {p.archive}]
        /\ IngestWrite(e, route, p) = [e EXCEPT !.archives = @ \cup {p.archive}]
    BY <1>6 DEF IngestWrite, InsertArchive
  <2> QED  BY <1>3, <2>1 DEF SameHistory, DB
<1> QED  BY <1>3, <1>4, <1>5, <1>6 DEF Route

\* A run whose rows are kept keeps its row id and its iterations.
LEMMA KeptRun ==
  ASSUME NEW d, Consistent(d), NEW e, Consistent(e), NEW r, RunExists(d, r),
         \A x \in d.runs : x.run_id = r => \E y \in e.runs : y.id = x.id /\ y.run_id = x.run_id,
         \A x \in d.iterations : x.run_row_id = RunRowId(d, r) => x \in e.iterations
  PROVE  /\ RunExists(e, r)
         /\ \A n : IterationExists(d, RunRowId(d, r), n) => IterationExists(e, RunRowId(e, r), n)
<1>1. PICK x \in d.runs : x.run_id = r /\ x.id = RunRowId(d, r)  BY RunRowIdIsARow
<1>2. PICK y \in e.runs : y.id = RunRowId(d, r) /\ y.run_id = r  BY <1>1
<1>3. RunExists(e, r)  BY <1>2 DEF RunExists
<1>4. PICK z \in e.runs : z.run_id = r /\ z.id = RunRowId(e, r)  BY <1>3, RunRowIdIsARow
<1>5. z = y  BY <1>2, <1>4 DEF Consistent, UniqueRuns
<1>6. RunRowId(e, r) = RunRowId(d, r)  BY <1>2, <1>4, <1>5
<1> QED  BY <1>3, <1>6 DEF IterationExists

\* The rows of one run are not those of another.
LEMMA OtherRunKept ==
  ASSUME NEW d, Consistent(d), NEW e, Consistent(e), NEW r, RunExists(d, r),
         NEW s, s # r, RunExists(d, s), KeepsOtherRows(d, e, s)
  PROVE  /\ RunExists(e, r)
         /\ \A n : IterationExists(d, RunRowId(d, r), n) => IterationExists(e, RunRowId(e, r), n)
<1>1. PICK x \in d.runs : x.run_id = r /\ x.id = RunRowId(d, r)  BY RunRowIdIsARow
<1>2. PICK y \in d.runs : y.run_id = s /\ y.id = RunRowId(d, s)  BY RunRowIdIsARow
<1>3. RunRowId(d, r) # RunRowId(d, s)  BY <1>1, <1>2 DEF Consistent, UniqueRuns
<1> QED  BY <1>3, KeptRun DEF KeepsOtherRows
=============================================================================
