------------------------- MODULE HistoryReadsProofs -------------------------
(***************************************************************************)
(* Recalibrations and readers beside the writers: what HistoryReads states *)
(* of them holds for any number of processes, writes and refreshes.        *)
(*                                                                         *)
(* Every commit, whoever makes it, leaves the tables Consistent and Grows  *)
(* them.  Under Grows, what a recalibration knows of its row ids (Cursor)  *)
(* and what a reader has collected (Collected) stays true, so a step only  *)
(* has to be shown right for the process that takes it.                    *)
(***************************************************************************)
EXTENDS HistoryReads, TLAPS

-----------------------------------------------------------------------------
(***************************************************************************)
(* What the writers' transactions and the UPDATEs of recalibrate keep      *)
(* of the tables, without reference to processes.                          *)
(***************************************************************************)
\* How a commit may change the tables under a process that keeps row ids: an id
\* means what it meant, and the iterations of a run row go only with the row.
Grows(d, e) ==
  /\ d.runseq <= e.runseq
  /\ d.iterseq <= e.iterseq
  /\ \A y \in e.runs : y.id <= d.runseq =>
       \E x \in d.runs : x.id = y.id /\ x.run_id = y.run_id
  /\ \A y \in e.iterations : y.id <= d.iterseq =>
       \E x \in d.iterations : x.id = y.id /\ x.run_row_id = y.run_row_id
  /\ \A x \in d.iterations : \A y \in e.runs : y.id = x.run_row_id =>
       \E z \in e.iterations : z.id = x.id /\ z.run_row_id = x.run_row_id

\* What a writer keeps besides: the other columns of an iteration, and the mark of
\* a recalibration belongs to the row that had it.
Keeps(d, e) ==
  /\ \A y \in e.iterations : y.id <= d.iterseq => y \in d.iterations
  /\ \A y \in e.runs : y.synced_at = "recalibration" => y \in d.runs

-----------------------------------------------------------------------------
LEMMA RowsTyped ==
  ASSUME NEW d, Consistent(d)
  PROVE  /\ d.runseq \in Nat /\ d.iterseq \in Nat
         /\ d.runs \subseteq RunRow /\ d.iterations \subseteq IterationRow
         /\ \A x \in d.runs : x.id \in Nat /\ x.run_id \in RunId /\ x.id <= d.runseq
         /\ \A x \in d.iterations : /\ x.id \in Nat /\ x.run_row_id \in Nat
                                    /\ x.id <= d.iterseq /\ x.run_row_id <= d.runseq
<1>1. d \in Tables /\ CountersAhead(d) /\ ForeignKey(d) BY DEF Consistent
<1>2. /\ d.runseq \in Nat /\ d.iterseq \in Nat
      /\ d.runs \subseteq RunRow /\ d.iterations \subseteq IterationRow
  BY <1>1 DEF Tables
<1> QED BY <1>1, <1>2 DEF CountersAhead, ForeignKey, RunRow, IterationRow

LEMMA PayloadTyped ==
  ASSUME NEW p \in Payload
  PROVE  /\ p.run_id \in RunId
         /\ Len(p.iterations) \in Nat
         /\ \A i \in 1..Len(p.iterations) : p.iterations[i] \in IterationRecord
<1>1. p.run_id \in RunId /\ p.iterations \in Seq(IterationRecord)
  BY PayloadAssumption
<1> QED BY <1>1

LEMMA NewIterationTyped ==
  ASSUME NEW p \in Payload, NEW row \in Nat, NEW seq \in Nat, NEW i \in 1..Len(p.iterations)
  PROVE  /\ NewIteration(row, seq, p, i) \in IterationRow
         /\ NewIteration(row, seq, p, i).id = seq + i
         /\ NewIteration(row, seq, p, i).run_row_id = row
<1>1. p.iterations[i] \in IterationRecord /\ Len(p.iterations) \in Nat BY PayloadTyped
<1> QED BY <1>1 DEF NewIteration, IterationRow, IterationRecord

\* The INSERTs of some iterations under one run row.
LEMMA InsertIterationsKeeps ==
  ASSUME NEW d \in Tables, UniqueRows(d), CountersAhead(d),
         NEW row \in Nat, NEW p \in Payload, NEW new \in SUBSET (1..Len(p.iterations)),
         NEW e, e = InsertIterations(d, row, p, new)
  PROVE  /\ e \in Tables /\ UniqueRows(e) /\ CountersAhead(e)
         /\ e.runs = d.runs /\ e.runseq = d.runseq /\ d.iterseq <= e.iterseq
         /\ d.iterations \subseteq e.iterations
         /\ \A y \in e.iterations : y.id <= d.iterseq => y \in d.iterations
         /\ \A y \in e.iterations : y \in d.iterations \/ y.run_row_id = row
<1> DEFINE added == {NewIteration(row, d.iterseq, p, i) : i \in new}
<1>1. /\ d.runseq \in Nat /\ d.iterseq \in Nat /\ Len(p.iterations) \in Nat
      /\ d.runs \subseteq RunRow /\ d.iterations \subseteq IterationRow
  BY PayloadTyped DEF Tables
<1>2. /\ e.iterations = d.iterations \cup added /\ e.runs = d.runs
      /\ e.runseq = d.runseq /\ e.iterseq = d.iterseq + Len(p.iterations)
  <2> DEFINE its == d.iterations \cup added
             n == d.iterseq + Len(p.iterations)
  <2>1. e = [d EXCEPT !.iterations = its, !.iterseq = n] BY DEF InsertIterations
  <2> HIDE DEF its, n
  <2>2. e.iterations = its /\ e.runs = d.runs /\ e.runseq = d.runseq /\ e.iterseq = n
    BY <2>1 DEF Tables
  <2> QED BY <2>2 DEF its, n
<1>3. \A y \in added : \E i \in new :
        /\ y = NewIteration(row, d.iterseq, p, i)
        /\ i \in Nat /\ 1 <= i /\ i <= Len(p.iterations)
        /\ y \in IterationRow /\ y.id = d.iterseq + i /\ y.run_row_id = row
  <2>1. ASSUME NEW i \in new
        PROVE  /\ i \in Nat /\ 1 <= i /\ i <= Len(p.iterations)
               /\ NewIteration(row, d.iterseq, p, i) \in IterationRow
               /\ NewIteration(row, d.iterseq, p, i).id = d.iterseq + i
               /\ NewIteration(row, d.iterseq, p, i).run_row_id = row
    <3>1. i \in 1..Len(p.iterations) OBVIOUS
    <3>2. i \in Nat /\ 1 <= i /\ i <= Len(p.iterations) BY <1>1, <3>1
    <3> DEFINE m == d.iterseq
    <3>3. m \in Nat BY <1>1
    <3> HIDE DEF m, added
    <3>4. /\ NewIteration(row, m, p, i) \in IterationRow
          /\ NewIteration(row, m, p, i).id = m + i
          /\ NewIteration(row, m, p, i).run_row_id = row
      BY <3>1, <3>3, NewIterationTyped
    <3> QED BY <3>2, <3>4 DEF m
  <2>2. \A y \in added : \E i \in new : y = NewIteration(row, d.iterseq, p, i)
    OBVIOUS
  <2> HIDE DEF added
  <2> QED BY <2>1, <2>2
<1>4. e = [runs |-> e.runs, iterations |-> e.iterations, runseq |-> e.runseq, iterseq |-> e.iterseq]
  <2> DEFINE its == d.iterations \cup {NewIteration(row, d.iterseq, p, i) : i \in new}
  <2> DEFINE n == d.iterseq + Len(p.iterations)
  <2>1. e = [d EXCEPT !.iterations = its, !.iterseq = n] BY DEF InsertIterations
  <2> HIDE DEF its, n
  <2> QED BY <2>1 DEF Tables
<1> HIDE DEF added
<1>5. e \in Tables
  <2>1. e.iterations \subseteq IterationRow BY <1>1, <1>2, <1>3
  <2>2. e.iterseq \in Nat BY <1>1, <1>2
  <2> QED BY <1>1, <1>2, <1>4, <2>1, <2>2 DEF Tables
<1>6. \A y \in added : y.id > d.iterseq /\ y.id <= e.iterseq BY <1>1, <1>2, <1>3
<1>7. CountersAhead(e)
  <2>1. \A y \in d.iterations : y.id \in Nat /\ y.id <= d.iterseq
    BY <1>1 DEF CountersAhead, IterationRow
  <2>2. \A y \in d.iterations : y.id <= e.iterseq BY <1>1, <1>2, <2>1
  <2> QED BY <1>2, <1>6, <2>2 DEF CountersAhead
<1>8. UniqueRows(e)
  <2>1. \A x, y \in added : x.id = y.id => x = y
    <3> SUFFICES ASSUME NEW x \in added, NEW y \in added, x.id = y.id PROVE x = y OBVIOUS
    <3>1. PICK i \in new : x = NewIteration(row, d.iterseq, p, i) /\ i \in Nat /\ x.id = d.iterseq + i
      BY <1>3
    <3>2. PICK j \in new : y = NewIteration(row, d.iterseq, p, j) /\ j \in Nat /\ y.id = d.iterseq + j
      BY <1>3
    <3>3. i = j BY <1>1, <3>1, <3>2
    <3> QED BY <3>1, <3>2, <3>3
  <2>2. \A x \in added, y \in d.iterations : x.id # y.id
    <3>1. \A y \in d.iterations : y.id \in Nat /\ y.id <= d.iterseq
      BY <1>1 DEF CountersAhead, IterationRow
    <3>2. \A x \in added : x.id \in Nat BY <1>3 DEF IterationRow
    <3> QED BY <1>1, <1>6, <3>1, <3>2
  <2> QED BY <1>2, <2>1, <2>2 DEF UniqueRows
<1>9. \A y \in e.iterations : y.id <= d.iterseq => y \in d.iterations
  <2>1. \A x \in added : x.id \in Nat BY <1>3 DEF IterationRow
  <2> QED BY <1>1, <1>2, <1>6, <2>1
<1>10. \A y \in e.iterations : y \in d.iterations \/ y.run_row_id = row BY <1>2, <1>3
<1>11. d.iterseq <= e.iterseq BY <1>1, <1>2
<1> QED BY <1>2, <1>5, <1>7, <1>8, <1>9, <1>10, <1>11

\* INSERT of a run that is not there, with its iterations.
LEMMA InsertRunFreshKeeps ==
  ASSUME NEW d, Consistent(d), NEW p \in Payload, p.run_id \notin RunIds(d),
         NEW e, e = InsertRunFresh(d, p)
  PROVE  Consistent(e) /\ Grows(d, e) /\ Keeps(d, e) /\ RunIds(e) = RunIds(d) \cup {p.run_id}
<1> DEFINE new == [id |-> d.runseq + 1, run_id |-> p.run_id, synced_at |-> "sync"]
           f == [d EXCEPT !.runs = @ \cup {new}, !.runseq = @ + 1]
<1>1. /\ d \in Tables /\ UniqueRows(d) /\ CountersAhead(d) /\ ForeignKey(d)
      /\ d.runseq \in Nat /\ d.iterseq \in Nat
      /\ d.runs \subseteq RunRow /\ d.iterations \subseteq IterationRow
  BY RowsTyped DEF Consistent
<1>2. p.run_id \in RunId BY PayloadTyped
<1>3. new \in RunRow /\ new.id = d.runseq + 1 /\ new.run_id = p.run_id /\ new.synced_at = "sync"
  BY <1>1, <1>2 DEF RunRow
<1>4. e = InsertIterations(f, d.runseq + 1, p, 1..Len(p.iterations))
  BY DEF InsertRunFresh, NewRunRow
<1> HIDE DEF new
<1>5. /\ f.runs = d.runs \cup {new} /\ f.runseq = d.runseq + 1
      /\ f.iterations = d.iterations /\ f.iterseq = d.iterseq
  BY <1>1 DEF Tables
<1>6. f \in Tables
  <2> DEFINE rows == d.runs \cup {new}
  <2>1. rows \in SUBSET RunRow /\ d.runseq + 1 \in Nat BY <1>1, <1>3
  <2> HIDE DEF rows
  <2>2. [d EXCEPT !.runs = rows, !.runseq = d.runseq + 1] \in Tables BY <1>1, <2>1 DEF Tables
  <2> QED BY <2>2 DEF rows
<1> HIDE DEF f
<1>7. UniqueRows(f) /\ CountersAhead(f)
  <2>1. \A x \in d.runs : x.id \in Nat /\ x.id <= d.runseq /\ x.run_id # p.run_id
    BY <1>1 DEF CountersAhead, RunRow, RunIds
  <2>2. \A x \in d.runs : x.id # new.id /\ x.id <= f.runseq BY <1>1, <1>5, <1>3, <2>1
  <2> QED BY <1>1, <1>5, <1>3, <2>1, <2>2 DEF UniqueRows, CountersAhead
<1>8. /\ e \in Tables /\ UniqueRows(e) /\ CountersAhead(e)
      /\ e.runs = f.runs /\ e.runseq = f.runseq /\ f.iterseq <= e.iterseq
      /\ f.iterations \subseteq e.iterations
      /\ \A y \in e.iterations : y.id <= f.iterseq => y \in f.iterations
      /\ \A y \in e.iterations : y \in f.iterations \/ y.run_row_id = d.runseq + 1
  <2>1. d.runseq + 1 \in Nat BY <1>1
  <2> DEFINE all == 1..Len(p.iterations)
  <2>2. all \in SUBSET (1..Len(p.iterations)) OBVIOUS
  <2> HIDE DEF all
  <2> DEFINE row == d.runseq + 1
  <2>3. e = InsertIterations(f, row, p, all) BY <1>4 DEF all
  <2>4. row \in Nat BY <2>1
  <2> HIDE DEF row
  <2>5. /\ e \in Tables /\ UniqueRows(e) /\ CountersAhead(e)
        /\ e.runs = f.runs /\ e.runseq = f.runseq /\ f.iterseq <= e.iterseq
        /\ f.iterations \subseteq e.iterations
        /\ \A y \in e.iterations : y.id <= f.iterseq => y \in f.iterations
        /\ \A y \in e.iterations : y \in f.iterations \/ y.run_row_id = row
    BY <1>6, <1>7, <2>2, <2>3, <2>4, InsertIterationsKeeps
  <2> QED BY <2>5 DEF row
<1>9. Consistent(e)
  <2>1. ForeignKey(e) BY <1>1, <1>5, <1>3, <1>8 DEF ForeignKey
  <2> QED BY <1>8, <2>1 DEF Consistent
<1>10. Keeps(d, e) BY <1>5, <1>3, <1>8 DEF Keeps
<1>11. Grows(d, e)
  <2>1. d.runseq <= e.runseq /\ d.iterseq <= e.iterseq BY <1>1, <1>5, <1>8
  <2>2. ~ (new.id <= d.runseq) BY <1>1, <1>3
  <2> QED BY <1>5, <1>8, <2>1, <2>2 DEF Grows
<1>12. RunIds(e) = RunIds(d) \cup {p.run_id} BY <1>5, <1>3, <1>8 DEF RunIds
<1> QED BY <1>9, <1>10, <1>11, <1>12

\* DELETE of a run, with its iterations.
LEMMA DeleteRunKeeps ==
  ASSUME NEW d, Consistent(d), NEW r, NEW e, e = DeleteRun(d, r)
  PROVE  Consistent(e) /\ Grows(d, e) /\ Keeps(d, e) /\ RunIds(e) = RunIds(d) \ {r}
<1>1. /\ d \in Tables /\ UniqueRows(d) /\ CountersAhead(d) /\ ForeignKey(d)
      /\ d.runseq \in Nat /\ d.iterseq \in Nat
      /\ d.runs \subseteq RunRow /\ d.iterations \subseteq IterationRow
  BY RowsTyped DEF Consistent
<1>2. /\ e.runs = {x \in d.runs : x.run_id # r}
      /\ e.iterations = {x \in d.iterations : \A y \in d.runs : y.run_id = r => x.run_row_id # y.id}
      /\ e.runseq = d.runseq /\ e.iterseq = d.iterseq
      /\ e = [runs |-> e.runs, iterations |-> e.iterations, runseq |-> e.runseq, iterseq |-> e.iterseq]
  BY <1>1 DEF DeleteRun, Tables
<1>3. e \in Tables BY <1>1, <1>2 DEF Tables
<1>4. UniqueRows(e) /\ CountersAhead(e) BY <1>1, <1>2 DEF UniqueRows, CountersAhead
<1>5. ForeignKey(e) BY <1>1, <1>2 DEF ForeignKey
<1>6. \A x \in d.iterations : \A y \in e.runs : y.id = x.run_row_id => x \in e.iterations
  BY <1>1, <1>2 DEF UniqueRows
<1>7. Consistent(e) BY <1>3, <1>4, <1>5 DEF Consistent
<1>8. Grows(d, e) BY <1>1, <1>2, <1>6 DEF Grows
<1>9. Keeps(d, e) BY <1>2 DEF Keeps
<1>10. RunIds(e) = RunIds(d) \ {r} BY <1>2 DEF RunIds
<1> QED BY <1>7, <1>8, <1>9, <1>10

LEMMA GrowsTransitive ==
  ASSUME NEW d, NEW e, NEW f, Consistent(d), Consistent(e), Consistent(f),
         Grows(d, e), Keeps(d, e), Grows(e, f), Keeps(e, f)
  PROVE  Grows(d, f) /\ Keeps(d, f)
<1>1. /\ d.runseq \in Nat /\ d.iterseq \in Nat /\ e.runseq \in Nat /\ e.iterseq \in Nat
      /\ f.runseq \in Nat /\ f.iterseq \in Nat
      /\ \A x \in f.runs : x.id \in Nat
      /\ \A x \in f.iterations : x.id \in Nat
      /\ \A x \in d.iterations : x.run_row_id \in Nat /\ x.run_row_id <= d.runseq
  BY RowsTyped
<1>2. /\ d.runseq <= e.runseq /\ e.runseq <= f.runseq
      /\ d.iterseq <= e.iterseq /\ e.iterseq <= f.iterseq
  BY DEF Grows
<1>3. d.runseq <= f.runseq /\ d.iterseq <= f.iterseq BY <1>1, <1>2
<1>4. \A n \in Nat : (n <= d.runseq => n <= e.runseq) /\ (n <= d.iterseq => n <= e.iterseq)
  BY <1>1, <1>2
<1>5. ASSUME NEW y \in f.runs, y.id <= d.runseq
      PROVE  \E x \in d.runs : x.id = y.id /\ x.run_id = y.run_id
  <2>1. PICK x \in e.runs : x.id = y.id /\ x.run_id = y.run_id BY <1>1, <1>4, <1>5 DEF Grows
  <2> QED BY <1>5, <2>1 DEF Grows
<1>6. \A y \in f.iterations : y.id <= d.iterseq => y \in d.iterations
  BY <1>1, <1>4 DEF Keeps
<1>7. ASSUME NEW x \in d.iterations, NEW y \in f.runs, y.id = x.run_row_id
      PROVE  \E z \in f.iterations : z.id = x.id /\ z.run_row_id = x.run_row_id
  <2>1. PICK y2 \in e.runs : y2.id = y.id BY <1>1, <1>4, <1>7 DEF Grows
  <2>2. PICK x2 \in e.iterations : x2.id = x.id /\ x2.run_row_id = x.run_row_id
    BY <1>7, <2>1 DEF Grows
  <2> QED BY <1>7, <2>2 DEF Grows
<1>8. \A y \in f.runs : y.synced_at = "recalibration" => y \in d.runs BY DEF Keeps
<1> QED BY <1>3, <1>5, <1>6, <1>7, <1>8 DEF Grows, Keeps

LEMMA ReplaceRunKeeps ==
  ASSUME NEW d, Consistent(d), NEW p \in Payload, p.run_id \in RunIds(d), NEW e, e = ReplaceRun(d, p)
  PROVE  Consistent(e) /\ Grows(d, e) /\ Keeps(d, e) /\ RunIds(d) \subseteq RunIds(e)
<1> DEFINE f == DeleteRun(d, p.run_id)
<1>1. e = InsertRunFresh(f, p) BY DEF ReplaceRun
<1> HIDE DEF f
<1>2. Consistent(f) /\ Grows(d, f) /\ Keeps(d, f) /\ RunIds(f) = RunIds(d) \ {p.run_id}
  BY DeleteRunKeeps DEF f
<1>3. Consistent(e) /\ Grows(f, e) /\ Keeps(f, e) /\ RunIds(e) = RunIds(f) \cup {p.run_id}
  BY <1>1, <1>2, InsertRunFreshKeeps
<1>4. Grows(d, e) /\ Keeps(d, e) BY <1>2, <1>3, GrowsTransitive
<1> QED BY <1>2, <1>3, <1>4

\* The merge of a run that is there: its row stays, new commits are added.
LEMMA UpsertRunKeeps ==
  ASSUME NEW d, Consistent(d), NEW p \in Payload, NEW x \in d.runs, NEW e, e = UpsertRun(d, x, p)
  PROVE  Consistent(e) /\ Grows(d, e) /\ Keeps(d, e) /\ RunIds(d) \subseteq RunIds(e)
<1> DEFINE merged == [x EXCEPT !.synced_at = "sync"]
           f == [d EXCEPT !.runs = (@ \ {x}) \cup {merged}]
<1>1. /\ d \in Tables /\ UniqueRows(d) /\ CountersAhead(d) /\ ForeignKey(d)
      /\ d.runseq \in Nat /\ d.iterseq \in Nat
      /\ d.runs \subseteq RunRow /\ d.iterations \subseteq IterationRow /\ x.id \in Nat
  BY RowsTyped DEF Consistent
<1>2. /\ f.runs = (d.runs \ {x}) \cup {merged} /\ f.runseq = d.runseq
      /\ f.iterations = d.iterations /\ f.iterseq = d.iterseq
      /\ f = [runs |-> f.runs, iterations |-> f.iterations, runseq |-> f.runseq, iterseq |-> f.iterseq]
  BY <1>1 DEF Tables
<1>3. merged \in RunRow /\ merged.id = x.id /\ merged.run_id = x.run_id /\ merged.synced_at = "sync"
  BY <1>1 DEF RunRow
<1>4. e = InsertIterations(f, x.id, p, NewCommits(d, x.id, p)) BY DEF UpsertRun
<1> HIDE DEF merged, f
<1>5. f \in Tables BY <1>1, <1>2, <1>3 DEF Tables
<1>6. \A y \in f.runs : \E z \in d.runs : z.id = y.id /\ z.run_id = y.run_id BY <1>2, <1>3
<1>7. \A z \in d.runs : \E y \in f.runs : z.id = y.id /\ z.run_id = y.run_id BY <1>2, <1>3
<1>8. UniqueRows(f) /\ CountersAhead(f)
  <2>1. \A y, z \in f.runs : y.id = z.id \/ y.run_id = z.run_id => y = z
    BY <1>1, <1>2, <1>3 DEF UniqueRows
  <2> QED BY <1>1, <1>2, <1>6, <2>1 DEF UniqueRows, CountersAhead
<1>9. /\ e \in Tables /\ UniqueRows(e) /\ CountersAhead(e)
      /\ e.runs = f.runs /\ e.runseq = f.runseq /\ f.iterseq <= e.iterseq
      /\ f.iterations \subseteq e.iterations
      /\ \A y \in e.iterations : y.id <= f.iterseq => y \in f.iterations
      /\ \A y \in e.iterations : y \in f.iterations \/ y.run_row_id = x.id
  <2>1. NewCommits(d, x.id, p) \subseteq 1..Len(p.iterations) BY DEF NewCommits
  <2> QED BY <1>1, <1>4, <1>5, <1>8, <2>1, InsertIterationsKeeps
<1>10. Consistent(e)
  <2>1. ForeignKey(e) BY <1>1, <1>2, <1>3, <1>7, <1>9 DEF ForeignKey
  <2> QED BY <1>9, <2>1 DEF Consistent
<1>11. Grows(d, e) BY <1>1, <1>2, <1>6, <1>9 DEF Grows
<1>12. Keeps(d, e) BY <1>2, <1>3, <1>9 DEF Keeps
<1>13. RunIds(d) \subseteq RunIds(e) BY <1>7, <1>9 DEF RunIds
<1> QED BY <1>10, <1>11, <1>12, <1>13

\* The INSERT of iterations for a run that is there and that stays as it is.
LEMMA AddIterationsKeeps ==
  ASSUME NEW d, Consistent(d), NEW p \in Payload, NEW new \in SUBSET (1..Len(p.iterations)),
         NEW x \in d.runs, NEW e, e = InsertIterations(d, x.id, p, new)
  PROVE  Consistent(e) /\ Grows(d, e) /\ Keeps(d, e) /\ RunIds(d) = RunIds(e)
<1>1. /\ d \in Tables /\ UniqueRows(d) /\ CountersAhead(d) /\ ForeignKey(d)
      /\ d.runseq \in Nat /\ d.iterseq \in Nat /\ x.id \in Nat
  BY RowsTyped DEF Consistent
<1>2. /\ e \in Tables /\ UniqueRows(e) /\ CountersAhead(e)
      /\ e.runs = d.runs /\ e.runseq = d.runseq /\ d.iterseq <= e.iterseq
      /\ d.iterations \subseteq e.iterations
      /\ \A y \in e.iterations : y.id <= d.iterseq => y \in d.iterations
      /\ \A y \in e.iterations : y \in d.iterations \/ y.run_row_id = x.id
  BY <1>1, InsertIterationsKeeps
<1>3. Consistent(e) BY <1>1, <1>2 DEF Consistent, ForeignKey
<1>4. Grows(d, e) BY <1>1, <1>2 DEF Grows
<1>5. Keeps(d, e) BY <1>2 DEF Keeps
<1> QED BY <1>2, <1>3, <1>4, <1>5 DEF RunIds

\* UPDATE iterations SET speedup_vs_baseline = s WHERE id = i.
SameButSpeedup(x, y) == y = [x EXCEPT !.speedup = y.speedup]
SetsOnlySpeedup(d, e, i, s) ==
  \A y \in e.iterations : \E x \in d.iterations :
    /\ x.id = y.id /\ SameButSpeedup(x, y)
    /\ y # x => y.id = i /\ y.speedup = s

LEMMA SetSpeedupKeeps ==
  ASSUME NEW d, Consistent(d), NEW i \in Nat, NEW s \in Nat, NEW e, e = SetSpeedup(d, i, s)
  PROVE  /\ Consistent(e) /\ Grows(d, e) /\ e.runs = d.runs
         /\ SetsOnlySpeedup(d, e, i, s)
<1> DEFINE New(x) == IF x.id = i THEN [x EXCEPT !.speedup = s] ELSE x
<1>1. /\ d \in Tables /\ UniqueRows(d) /\ CountersAhead(d) /\ ForeignKey(d)
      /\ d.runseq \in Nat /\ d.iterseq \in Nat
      /\ d.runs \subseteq RunRow /\ d.iterations \subseteq IterationRow
  BY RowsTyped DEF Consistent
<1>2. /\ e.runs = d.runs /\ e.runseq = d.runseq /\ e.iterseq = d.iterseq
      /\ e.iterations = {New(x) : x \in d.iterations}
      /\ e = [runs |-> e.runs, iterations |-> e.iterations, runseq |-> e.runseq, iterseq |-> e.iterseq]
  BY <1>1 DEF SetSpeedup, Tables
<1>3. \A x \in d.iterations :
        /\ New(x) \in IterationRow /\ New(x).id = x.id /\ New(x).run_row_id = x.run_row_id
        /\ New(x) = [x EXCEPT !.speedup = New(x).speedup]
        /\ New(x) # x => New(x).id = i /\ New(x).speedup = s
  BY <1>1 DEF IterationRow
<1> HIDE DEF New
<1>4. e \in Tables BY <1>1, <1>2, <1>3 DEF Tables
<1>5. \A y \in e.iterations : \E x \in d.iterations : y = New(x) BY <1>2
<1>6. \A x \in d.iterations : New(x) \in e.iterations BY <1>2
<1>7. UniqueRows(e) BY <1>1, <1>2, <1>3, <1>5 DEF UniqueRows
<1>8. CountersAhead(e) BY <1>1, <1>2, <1>3, <1>5 DEF CountersAhead
<1>9. ForeignKey(e) BY <1>1, <1>2, <1>3, <1>5 DEF ForeignKey
<1>10. Consistent(e) BY <1>4, <1>7, <1>8, <1>9 DEF Consistent
<1>11. Grows(d, e) BY <1>1, <1>2, <1>3, <1>5, <1>6 DEF Grows
<1>12. SetsOnlySpeedup(d, e, i, s) BY <1>3, <1>5 DEF SetsOnlySpeedup, SameButSpeedup
<1> QED BY <1>2, <1>10, <1>11, <1>12

\* UPDATE runs SET synced_at.
LEMMA SetRecalibratedKeeps ==
  ASSUME NEW d, Consistent(d), NEW row \in Nat, NEW e, e = SetRecalibrated(d, row)
  PROVE  /\ Consistent(e) /\ Grows(d, e) /\ e.iterations = d.iterations /\ RunIds(d) = RunIds(e)
         /\ \A y \in e.runs : y.synced_at = "recalibration" => y \in d.runs \/ y.id = row
         /\ \A y \in e.runs : \E x \in d.runs : x.id = y.id
<1> DEFINE New(x) == IF x.id = row THEN [x EXCEPT !.synced_at = "recalibration"] ELSE x
<1>1. /\ d \in Tables /\ UniqueRows(d) /\ CountersAhead(d) /\ ForeignKey(d)
      /\ d.runseq \in Nat /\ d.iterseq \in Nat
      /\ d.runs \subseteq RunRow /\ d.iterations \subseteq IterationRow
  BY RowsTyped DEF Consistent
<1>2. /\ e.iterations = d.iterations /\ e.runseq = d.runseq /\ e.iterseq = d.iterseq
      /\ e.runs = {New(x) : x \in d.runs}
      /\ e = [runs |-> e.runs, iterations |-> e.iterations, runseq |-> e.runseq, iterseq |-> e.iterseq]
  BY <1>1 DEF SetRecalibrated, Tables
<1>3. \A x \in d.runs :
        /\ New(x) \in RunRow /\ New(x).id = x.id /\ New(x).run_id = x.run_id
        /\ New(x) # x => New(x).id = row
  BY <1>1 DEF RunRow
<1> HIDE DEF New
<1>4. e \in Tables BY <1>1, <1>2, <1>3 DEF Tables
<1>5. \A y \in e.runs : \E x \in d.runs : y = New(x) BY <1>2
<1>6. \A x \in d.runs : New(x) \in e.runs BY <1>2
<1>7. UniqueRows(e) BY <1>1, <1>2, <1>3, <1>5 DEF UniqueRows
<1>8. CountersAhead(e) BY <1>1, <1>2, <1>3, <1>5 DEF CountersAhead
<1>9. ForeignKey(e) BY <1>1, <1>2, <1>3, <1>6 DEF ForeignKey
<1>10. Consistent(e) BY <1>4, <1>7, <1>8, <1>9 DEF Consistent
<1>11. Grows(d, e) BY <1>1, <1>2, <1>3, <1>5 DEF Grows
<1>12. RunIds(d) = RunIds(e) BY <1>3, <1>5, <1>6 DEF RunIds
<1>13. \A y \in e.runs : y \in d.runs \/ y.id = row BY <1>3, <1>5
<1>14. \A y \in e.runs : \E x \in d.runs : x.id = y.id BY <1>3, <1>5
<1>15. e.iterations = d.iterations BY <1>2
<1> QED BY <1>10, <1>11, <1>12, <1>13, <1>14, <1>15

-----------------------------------------------------------------------------
(***************************************************************************)
(* Recalibrations.                                                         *)
(***************************************************************************)
\* The runs still to bench and to update are different runs.
Queue(p) ==
  /\ pc[p] = "idle" => results[p] = {}
  /\ \A x, y \in todo[p] : x.id = y.id => x = y
  /\ \A r, s \in results[p] : r.id = s.id => r = s
  /\ \A x \in todo[p], r \in results[p] : x.id # r.id

\* What the row ids of updateBestIterationSpeedup stand for, if anything.
Cursor(p) ==
  /\ pc[p] \in {"pick", "pickLast", "update", "mark"} =>
       /\ rowId[p] <= db.runseq
       /\ \A x \in db.runs : x.id = rowId[p] =>
            \A r \in First(results[p]) : x.run_id = r.run_id
  /\ pc[p] = "update" =>
       /\ iterId[p] <= db.iterseq
       /\ \A i \in db.iterations : i.id = iterId[p] => i.run_row_id = rowId[p]
       /\ \A x \in db.runs : x.id = rowId[p] =>
            \E i \in db.iterations : i.id = iterId[p] /\ i.run_row_id = rowId[p]
  /\ pc[p] = "mark" => \A x \in db.runs : x.id = rowId[p] => x.id \in hits

RecalInv ==
  /\ TypeOK
  /\ Consistent(db)
  /\ \A p \in Recalibrator : Queue(p) /\ Cursor(p)
  /\ MarkedRunWasUpdated

\* Only p has taken a step.
OthersWait(p) ==
  \A q \in Recalibrator \ {p} :
    /\ pc'[q] = pc[q] /\ todo'[q] = todo[q] /\ results'[q] = results[q]
    /\ rowId'[q] = rowId[q] /\ iterId'[q] = iterId[q]

-----------------------------------------------------------------------------
LEMMA GrowsReflexive ==
  ASSUME NEW d, Consistent(d)
  PROVE  Grows(d, d)
BY RowsTyped DEF Grows

LEMMA CursorStable ==
  ASSUME TypeOK, Consistent(db), Consistent(db'), Grows(db, db'), hits \subseteq hits',
         NEW p \in Recalibrator, Cursor(p),
         pc'[p] = pc[p], results'[p] = results[p], rowId'[p] = rowId[p], iterId'[p] = iterId[p]
  PROVE  Cursor(p)'
<1>1. /\ db.runseq \in Nat /\ db.iterseq \in Nat /\ db'.runseq \in Nat /\ db'.iterseq \in Nat
      /\ db.runseq <= db'.runseq /\ db.iterseq <= db'.iterseq
  BY RowsTyped DEF Grows
<1>2. rowId[p] \in Nat /\ iterId[p] \in Nat BY DEF TypeOK
<1>3. ASSUME pc[p] \in {"pick", "pickLast", "update", "mark"}
      PROVE  /\ rowId[p] <= db'.runseq
             /\ \A y \in db'.runs : y.id = rowId[p] =>
                  \E x \in db.runs : x.id = rowId[p] /\ x.run_id = y.run_id
  <2>1. rowId[p] <= db.runseq BY <1>3 DEF Cursor
  <2>2. rowId[p] <= db'.runseq BY <1>1, <1>2, <2>1
  <2> QED BY <2>1, <2>2 DEF Grows
<1>4. ASSUME pc[p] \in {"pick", "pickLast", "update", "mark"}
      PROVE  \A y \in db'.runs : y.id = rowId[p] =>
               \A r \in First(results'[p]) : y.run_id = r.run_id
  BY <1>3, <1>4 DEF Cursor
<1>5. ASSUME pc[p] = "update"
      PROVE  /\ iterId[p] <= db'.iterseq
             /\ \A i \in db'.iterations : i.id = iterId[p] => i.run_row_id = rowId[p]
             /\ \A x \in db'.runs : x.id = rowId[p] =>
                  \E i \in db'.iterations : i.id = iterId[p] /\ i.run_row_id = rowId[p]
  <2>1. /\ iterId[p] <= db.iterseq
        /\ \A i \in db.iterations : i.id = iterId[p] => i.run_row_id = rowId[p]
        /\ \A x \in db.runs : x.id = rowId[p] =>
             \E i \in db.iterations : i.id = iterId[p] /\ i.run_row_id = rowId[p]
    BY <1>5 DEF Cursor
  <2>2. iterId[p] <= db'.iterseq BY <1>1, <1>2, <2>1
  <2>3. \A i \in db'.iterations : i.id = iterId[p] => i.run_row_id = rowId[p]
    BY <2>1 DEF Grows
  <2>4. ASSUME NEW y \in db'.runs, y.id = rowId[p]
        PROVE  \E i \in db'.iterations : i.id = iterId[p] /\ i.run_row_id = rowId[p]
    <3>1. \E x \in db.runs : x.id = rowId[p] BY <1>3, <1>5, <2>4
    <3>2. PICK i \in db.iterations : i.id = iterId[p] /\ i.run_row_id = rowId[p] BY <2>1, <3>1
    <3> QED BY <2>4, <3>2 DEF Grows
  <2> QED BY <2>2, <2>3, <2>4
<1>6. ASSUME pc[p] = "mark" PROVE \A x \in db'.runs : x.id = rowId[p] => x.id \in hits'
  BY <1>3, <1>6 DEF Cursor
<1> QED BY <1>3, <1>4, <1>5, <1>6 DEF Cursor

LEMMA RecalStepPreserves ==
  ASSUME RecalInv, NEW p \in Recalibrator, OthersWait(p),
         TypeOK', Consistent(db'), Grows(db, db'), hits \subseteq hits',
         Queue(p)', Cursor(p)', MarkedRunWasUpdated'
  PROVE  RecalInv'
<1>1. ASSUME NEW q \in Recalibrator PROVE Queue(q)' /\ Cursor(q)'
  <2>1. CASE q = p BY <2>1
  <2>2. CASE q # p
    <3>1. /\ pc'[q] = pc[q] /\ todo'[q] = todo[q] /\ results'[q] = results[q]
          /\ rowId'[q] = rowId[q] /\ iterId'[q] = iterId[q]
      BY <2>2 DEF OthersWait
    <3>2. TypeOK /\ Consistent(db) /\ Queue(q) /\ Cursor(q) BY DEF RecalInv
    <3>3. Cursor(q)' BY <3>1, <3>2, CursorStable
    <3>4. Queue(q)' BY <3>1, <3>2 DEF Queue
    <3> QED BY <3>3, <3>4
  <2> QED BY <2>1, <2>2
<1> QED BY <1>1 DEF RecalInv

-----------------------------------------------------------------------------
LEMMA RecalInitial ==
  ASSUME RecalInit
  PROVE  RecalInv
<1>1. db = EmptyTables /\ Consistent(db)
  BY DEF RecalInit, EmptyTables, Consistent, Tables, UniqueRows, CountersAhead, ForeignKey
<1>2. TypeOK
  BY <1>1 DEF RecalInit, TypeOK, Consistent
<1>3. \A p \in Recalibrator : Queue(p) /\ Cursor(p) BY DEF RecalInit, Queue, Cursor
<1>4. MarkedRunWasUpdated BY DEF RecalInit, EmptyTables, MarkedRunWasUpdated
<1> QED BY <1>1, <1>2, <1>3, <1>4 DEF RecalInv

LEMMA WriteKeeps ==
  ASSUME Consistent(db), Write
  PROVE  Consistent(db') /\ Grows(db, db') /\ Keeps(db, db') /\ RunIds(db) \subseteq RunIds(db')
<1>1. PICK p \in Payload : SyncRun(p) \/ PostRun(p) \/ PostIteration(p) BY DEF Write
<1>2. CASE SyncInsert(p) \/ PostRun(p) BY <1>2, InsertRunFreshKeeps DEF SyncInsert, PostRun
<1>3. CASE SyncReplace(p) BY <1>3, ReplaceRunKeeps DEF SyncReplace
<1>4. CASE SyncUpsert(p) BY <1>4, UpsertRunKeeps DEF SyncUpsert
<1>5. CASE PostIteration(p)
  <2>1. PICK x \in db.runs, i \in DOMAIN p.iterations : db' = InsertIterations(db, x.id, p, {i})
    BY <1>5 DEF PostIteration
  <2>2. PICK new \in SUBSET (1..Len(p.iterations)) : db' = InsertIterations(db, x.id, p, new)
    <3>1. {i} \in SUBSET (1..Len(p.iterations)) BY PayloadAssumption
    <3> QED BY <2>1, <3>1
  <2> DEFINE e == db'
  <2>3. e = InsertIterations(db, x.id, p, new) BY <2>2
  <2> HIDE DEF e
  <2>4. Consistent(e) /\ Grows(db, e) /\ Keeps(db, e) /\ RunIds(db) = RunIds(e)
    BY <2>3, AddIterationsKeeps
  <2> QED BY <2>4 DEF e
<1> QED BY <1>1, <1>2, <1>3, <1>4, <1>5 DEF SyncRun

LEMMA WritePreserves ==
  ASSUME RecalInv, Write
  PROVE  RecalInv'
<1>1. /\ TypeOK /\ Consistent(db) /\ Consistent(db') /\ Grows(db, db') /\ Keeps(db, db')
      /\ UNCHANGED <<procVars, hits, starts>> /\ writes' = writes + 1
  BY WriteKeeps DEF RecalInv, Write
<1>2. TypeOK'
  <2>1. db' \in Tables BY <1>1 DEF Consistent
  <2> QED BY <1>1, <2>1 DEF TypeOK, procVars
<1>3. ASSUME NEW p \in Recalibrator PROVE Queue(p)' /\ Cursor(p)'
  <2>1. Queue(p) /\ Cursor(p) BY DEF RecalInv
  <2>2. /\ pc' = pc /\ todo' = todo /\ results' = results
        /\ rowId' = rowId /\ iterId' = iterId /\ hits' = hits
    BY <1>1 DEF procVars
  <2>3. Queue(p)' BY <2>1, <2>2 DEF Queue
  <2>4. Cursor(p)' BY <1>1, <2>1, <2>2, CursorStable
  <2> QED BY <2>3, <2>4
<1>4. MarkedRunWasUpdated' BY <1>1 DEF RecalInv, MarkedRunWasUpdated, Keeps
<1> QED BY <1>1, <1>2, <1>3, <1>4 DEF RecalInv

LEMMA ProcessTyped ==
  ASSUME TypeOK, NEW p \in Recalibrator
  PROVE  /\ rowId[p] \in Nat /\ iterId[p] \in Nat
         /\ todo[p] \subseteq RunRow /\ \A x \in todo[p] : x.id \in Nat /\ x.run_id \in RunId
         /\ results[p] \subseteq Result
         /\ \A r \in results[p] : r.id \in Nat /\ r.run_id \in RunId /\ r.speedup \in Speedup
<1>1. todo[p] \subseteq RunRow /\ results[p] \subseteq Result BY DEF TypeOK
<1>2. \A x \in RunRow : x.id \in Nat /\ x.run_id \in RunId BY DEF RunRow
<1>3. \A r \in Result : r.id \in Nat /\ r.run_id \in RunId /\ r.speedup \in Speedup BY DEF Result
<1> QED BY <1>1, <1>2, <1>3 DEF TypeOK

\* The loop of recalibrate has one result in hand at a time.
LEMMA OneResult ==
  ASSUME RecalInv, NEW p \in Recalibrator, NEW r \in First(results[p]), NEW s \in First(results[p])
  PROVE  r = s
<1>1. /\ r \in results[p] /\ s \in results[p] /\ r.id <= s.id /\ s.id <= r.id BY DEF First
<1>2. r.id \in Nat /\ s.id \in Nat BY <1>1, ProcessTyped DEF RecalInv
<1>3. r.id = s.id BY <1>1, <1>2
<1> QED BY <1>1, <1>3 DEF RecalInv, Queue

LEMMA NextResultPreserves ==
  ASSUME RecalInv, NEW p \in Recalibrator, NEW r \in First(results[p]), NextResult(p, r),
         Consistent(db'), Grows(db, db'), MarkedRunWasUpdated', UNCHANGED <<todo, hits, writes, starts>>
  PROVE  RecalInv'
<1>1. TypeOK /\ Queue(p) BY DEF RecalInv
<1>2. TypeOK'
  <2>1. db' \in Tables BY DEF Consistent
  <2> QED BY <1>1, <2>1 DEF TypeOK, NextResult
<1>3. pc'[p] = "lookup" /\ results'[p] \subseteq results[p] /\ todo' = todo
  BY <1>1 DEF NextResult, TypeOK
<1>4. Queue(p)' BY <1>1, <1>3 DEF Queue
<1>5. Cursor(p)' BY <1>3 DEF Cursor
<1>6. OthersWait(p) BY <1>1 DEF TypeOK, NextResult, OthersWait
<1> QED BY <1>2, <1>4, <1>5, <1>6, RecalStepPreserves

LEMMA TablesStay ==
  ASSUME RecalInv, UNCHANGED <<db, hits>>
  PROVE  Consistent(db') /\ Grows(db, db') /\ MarkedRunWasUpdated' /\ hits \subseteq hits'
<1>1. Consistent(db) /\ MarkedRunWasUpdated BY DEF RecalInv
<1>2. Grows(db, db) BY <1>1, GrowsReflexive
<1> QED BY <1>1, <1>2 DEF MarkedRunWasUpdated

LEMMA LoadPreserves ==
  ASSUME RecalInv, NEW p \in Recalibrator, Load(p)
  PROVE  RecalInv'
<1>1. /\ TypeOK /\ Queue(p) /\ Consistent(db) /\ UNCHANGED <<db, results, rowId, iterId, hits, writes>>
      /\ pc[p] = "idle" /\ pc' = [pc EXCEPT ![p] = "bench"] /\ starts' = starts + 1
  BY DEF RecalInv, Load
<1>2. PICK targets \in SUBSET db.runs : todo' = [todo EXCEPT ![p] = targets]
  BY DEF Load
<1>3. targets \subseteq RunRow BY <1>1, RowsTyped
<1>4. TypeOK'
  <2>1. todo' \in [Recalibrator -> SUBSET RunRow] BY <1>1, <1>2, <1>3 DEF TypeOK
  <2>2. pc' \in [Recalibrator -> {"idle", "bench", "lookup", "pick", "pickLast", "update", "mark"}]
    BY <1>1 DEF TypeOK
  <2> QED BY <1>1, <2>1, <2>2 DEF TypeOK
<1>5. pc'[p] = "bench" /\ todo'[p] = targets /\ results'[p] = {}
  BY <1>1, <1>2 DEF TypeOK, Queue
<1>6. Queue(p)'
  <2>1. \A x, y \in targets : x.id = y.id => x = y
    BY <1>1, <1>2 DEF Consistent, UniqueRows
  <2> QED BY <1>5, <2>1 DEF Queue
<1>7. Cursor(p)' BY <1>5 DEF Cursor
<1>8. OthersWait(p) BY <1>1, <1>2 DEF TypeOK, OthersWait
<1> QED BY <1>1, <1>4, <1>6, <1>7, <1>8, TablesStay, RecalStepPreserves

LEMMA BenchPreserves ==
  ASSUME RecalInv, NEW p \in Recalibrator, Bench(p)
  PROVE  RecalInv'
<1>1. /\ TypeOK /\ Queue(p) /\ UNCHANGED <<db, pc, rowId, iterId, hits, writes, starts>>
      /\ pc[p] = "bench"
  BY DEF RecalInv, Bench
<1>2. PICK x \in First(todo[p]) :
        /\ todo' = [todo EXCEPT ![p] = @ \ {x}]
        /\ \/ UNCHANGED results
           \/ \E s \in Speedup :
                results' = [results EXCEPT ![p] = @ \cup
                  {[id |-> x.id, run_id |-> x.run_id, speedup |-> s]}]
  BY DEF Bench
<1>3. x \in todo[p] /\ x.id \in Nat /\ x.run_id \in RunId
  BY <1>1, ProcessTyped DEF First
<1>4. todo'[p] = todo[p] \ {x} /\ todo' \in [Recalibrator -> SUBSET RunRow]
  BY <1>1, <1>2 DEF TypeOK
<1>5. /\ results' \in [Recalibrator -> SUBSET Result]
      /\ \A q \in Recalibrator \ {p} : results'[q] = results[q]
      /\ \E s \in SUBSET Result :
           /\ results'[p] = results[p] \cup s
           /\ \A r \in s : r.id = x.id
           /\ \A r, t \in s : r = t
  <2>1. CASE UNCHANGED results
    <3>1. \E s \in SUBSET Result :
             /\ results'[p] = results[p] \cup s
             /\ \A r \in s : r.id = x.id
             /\ \A r, t \in s : r = t
      <4> WITNESS {} \in SUBSET Result
      <4> QED BY <2>1
    <3> QED BY <1>1, <2>1, <3>1 DEF TypeOK
  <2>2. CASE ~UNCHANGED results
    <3>1. PICK s \in Speedup :
            results' = [results EXCEPT ![p] = @ \cup
                         {[id |-> x.id, run_id |-> x.run_id, speedup |-> s]}]
      BY <1>2, <2>2
    <3> DEFINE new == [id |-> x.id, run_id |-> x.run_id, speedup |-> s]
    <3>2. new \in Result /\ new.id = x.id BY <1>3 DEF Result
    <3>3. results' = [results EXCEPT ![p] = @ \cup {new}] BY <3>1
    <3> HIDE DEF new
    <3>4. results'[p] = results[p] \cup {new} BY <1>1, <3>3 DEF TypeOK
    <3>5. results' \in [Recalibrator -> SUBSET Result] BY <1>1, <3>2, <3>3 DEF TypeOK
    <3>6. \A q \in Recalibrator \ {p} : results'[q] = results[q] BY <1>1, <3>3 DEF TypeOK
    <3>7. {new} \in SUBSET Result BY <3>2
    <3> QED BY <3>2, <3>4, <3>5, <3>6, <3>7
  <2> QED BY <2>1, <2>2
<1>6. TypeOK' BY <1>1, <1>4, <1>5 DEF TypeOK
<1>7. Queue(p)'
  <2>1. PICK s \in SUBSET Result :
          /\ results'[p] = results[p] \cup s
          /\ \A r \in s : r.id = x.id
          /\ \A r, t \in s : r = t
    BY <1>5
  <2>2. \A y \in todo'[p] : y \in todo[p] /\ y.id # x.id BY <1>1, <1>3, <1>4 DEF Queue
  <2>3. \A r \in results[p] : r.id # x.id BY <1>1, <1>3 DEF Queue
  <2>4. \A r, t \in results'[p] : r.id = t.id => r = t BY <1>1, <2>1, <2>3 DEF Queue
  <2>5. \A y \in todo'[p], r \in results'[p] : y.id # r.id BY <1>1, <2>1, <2>2 DEF Queue
  <2>6. \A y, z \in todo'[p] : y.id = z.id => y = z BY <1>1, <2>2 DEF Queue
  <2>7. pc'[p] # "idle" BY <1>1
  <2> QED BY <2>4, <2>5, <2>6, <2>7 DEF Queue
<1>8. Cursor(p)' BY <1>1 DEF Cursor
<1>9. OthersWait(p) BY <1>1, <1>2, <1>5 DEF TypeOK, OthersWait
<1> QED BY <1>1, <1>6, <1>7, <1>8, <1>9, TablesStay, RecalStepPreserves

LEMMA BenchesDonePreserves ==
  ASSUME RecalInv, NEW p \in Recalibrator, BenchesDone(p)
  PROVE  RecalInv'
<1>1. /\ TypeOK /\ Queue(p) /\ UNCHANGED <<db, todo, rowId, iterId, hits, writes, starts>>
      /\ \/ pc' = [pc EXCEPT ![p] = "lookup"] /\ UNCHANGED results
         \/ pc' = [pc EXCEPT ![p] = "idle"] /\ results' = [results EXCEPT ![p] = {}]
  BY DEF RecalInv, BenchesDone
<1>2. TypeOK' BY <1>1 DEF TypeOK
<1>3. /\ pc'[p] \in {"idle", "lookup"} /\ results'[p] \subseteq results[p]
      /\ pc'[p] = "idle" => results'[p] = {}
  BY <1>1 DEF TypeOK
<1>4. Queue(p)' BY <1>1, <1>3 DEF Queue
<1>5. Cursor(p)' BY <1>3 DEF Cursor
<1>6. OthersWait(p) BY <1>1 DEF TypeOK, OthersWait
<1> QED BY <1>1, <1>2, <1>4, <1>5, <1>6, TablesStay, RecalStepPreserves

LEMMA LookupRunPreserves ==
  ASSUME RecalInv, NEW p \in Recalibrator, LookupRun(p)
  PROVE  RecalInv'
<1>1. PICK r \in First(results[p]) :
        \/ \E x \in db.runs :
             /\ x.run_id = r.run_id
             /\ rowId' = [rowId EXCEPT ![p] = x.id]
             /\ pc' = [pc EXCEPT ![p] = "pick"]
             /\ UNCHANGED <<results, iterId>>
        \/ r.run_id \notin RunIds(db) /\ NextResult(p, r)
  BY DEF LookupRun
<1>2. /\ TypeOK /\ Queue(p) /\ Consistent(db) /\ UNCHANGED <<db, todo, hits, writes, starts>>
  BY DEF RecalInv, LookupRun
<1>3. CASE NextResult(p, r) BY <1>2, <1>3, TablesStay, NextResultPreserves
<1>4. CASE ~NextResult(p, r)
  <2>1. PICK x \in db.runs :
          /\ x.run_id = r.run_id
          /\ rowId' = [rowId EXCEPT ![p] = x.id]
          /\ pc' = [pc EXCEPT ![p] = "pick"]
          /\ UNCHANGED <<results, iterId>>
    BY <1>1, <1>4
  <2>2. x.id \in Nat /\ x.id <= db.runseq BY <1>2, RowsTyped
  <2>3. TypeOK' BY <1>2, <2>1, <2>2 DEF TypeOK
  <2>4. pc'[p] = "pick" /\ rowId'[p] = x.id /\ results' = results
    BY <1>2, <2>1 DEF TypeOK
  <2>5. Queue(p)' BY <1>2, <2>4 DEF Queue
  <2>6. Cursor(p)'
    <3>1. \A y \in db.runs : y.id = x.id => y = x BY <1>2 DEF Consistent, UniqueRows
    <3>2. \A s \in First(results[p]) : s = r BY OneResult
    <3> QED BY <1>2, <2>1, <2>2, <2>4, <3>1, <3>2 DEF Cursor
  <2>7. OthersWait(p) BY <1>2, <2>1 DEF TypeOK, OthersWait
  <2> QED BY <1>2, <2>3, <2>5, <2>6, <2>7, TablesStay, RecalStepPreserves
<1> QED BY <1>3, <1>4

\* Both SELECTs of updateBestIterationSpeedup pick a row of the run.
LEMMA PickPreserves ==
  ASSUME RecalInv, NEW p \in Recalibrator, pc[p] \in {"pick", "pickLast"},
         NEW x \in RowsOf(db, rowId[p]),
         iterId' = [iterId EXCEPT ![p] = x.id], pc' = [pc EXCEPT ![p] = "update"],
         UNCHANGED <<db, todo, results, rowId, hits, writes, starts>>
  PROVE  RecalInv'
<1>1. TypeOK /\ Queue(p) /\ Cursor(p) /\ Consistent(db) BY DEF RecalInv
<1>2. x \in db.iterations /\ x.run_row_id = rowId[p] BY DEF RowsOf
<1>3. x.id \in Nat /\ x.id <= db.iterseq BY <1>1, <1>2, RowsTyped
<1>4. TypeOK' BY <1>1, <1>3 DEF TypeOK
<1>5. pc'[p] = "update" /\ iterId'[p] = x.id BY <1>1 DEF TypeOK
<1>6. Queue(p)' BY <1>1, <1>5 DEF Queue
<1>7. Cursor(p)'
  <2>1. \A i \in db.iterations : i.id = x.id => i = x
    BY <1>1, <1>2 DEF Consistent, UniqueRows
  <2> QED BY <1>1, <1>2, <1>3, <1>5, <2>1 DEF Cursor
<1>8. OthersWait(p) BY <1>1 DEF TypeOK, OthersWait
<1> QED BY <1>4, <1>6, <1>7, <1>8, TablesStay, RecalStepPreserves

LEMMA PickBestPreserves ==
  ASSUME RecalInv, NEW p \in Recalibrator, PickBest(p)
  PROVE  RecalInv'
<1>1. /\ TypeOK /\ Queue(p) /\ Cursor(p) /\ pc[p] = "pick"
      /\ UNCHANGED <<db, todo, results, rowId, hits, writes, starts>>
  BY DEF RecalInv, PickBest
<1>2. ASSUME NEW x \in BestIterations(db, rowId[p]),
             iterId' = [iterId EXCEPT ![p] = x.id], pc' = [pc EXCEPT ![p] = "update"]
      PROVE  RecalInv'
  <2>1. x \in RowsOf(db, rowId[p]) BY DEF BestIterations, Measured
  <2> QED BY <1>1, <1>2, <2>1, PickPreserves
<1>3. CASE pc' = [pc EXCEPT ![p] = "pickLast"] /\ UNCHANGED iterId
  <2>1. TypeOK' BY <1>1, <1>3 DEF TypeOK
  <2>2. pc'[p] = "pickLast" BY <1>1, <1>3 DEF TypeOK
  <2>3. Queue(p)' BY <1>1, <2>2 DEF Queue
  <2>4. Cursor(p)' BY <1>1, <2>2 DEF Cursor
  <2>5. OthersWait(p) BY <1>1, <1>3 DEF TypeOK, OthersWait
  <2> QED BY <1>1, <2>1, <2>3, <2>4, <2>5, TablesStay, RecalStepPreserves
<1> QED BY <1>2, <1>3 DEF PickBest

LEMMA PickLastPreserves ==
  ASSUME RecalInv, NEW p \in Recalibrator, PickLast(p)
  PROVE  RecalInv'
<1>1. pc[p] = "pickLast" /\ UNCHANGED <<db, todo, hits, writes, starts>> BY DEF PickLast
<1>2. ASSUME NEW x \in LastIterations(db, rowId[p]),
             iterId' = [iterId EXCEPT ![p] = x.id], pc' = [pc EXCEPT ![p] = "update"],
             UNCHANGED <<results, rowId>>
      PROVE  RecalInv'
  <2>1. x \in RowsOf(db, rowId[p]) BY DEF LastIterations
  <2> QED BY <1>1, <1>2, <2>1, PickPreserves
<1>3. ASSUME NEW r \in First(results[p]), NextResult(p, r)
      PROVE  RecalInv'
  BY <1>1, <1>3, TablesStay, NextResultPreserves
<1> QED BY <1>2, <1>3 DEF PickLast

\* What the first UPDATE does, with the row it was given.
LEMMA UpdateIterationChanges ==
  ASSUME RecalInv, NEW p \in Recalibrator, UpdateIteration(p)
  PROVE  \E r \in First(results[p]) :
           /\ r \in results[p]
           /\ Consistent(db') /\ Grows(db, db') /\ db'.runs = db.runs
           /\ SetsOnlySpeedup(db, db', iterId[p], r.speedup)
<1>1. PICK r \in First(results[p]) : db' = SetSpeedup(db, iterId[p], r.speedup)
  BY DEF UpdateIteration
<1>2. r \in results[p] BY DEF First
<1>3. iterId[p] \in Nat /\ r.speedup \in Speedup BY <1>2, ProcessTyped DEF RecalInv
<1>4. r.speedup \in Nat BY <1>3, SpeedupAssumption
<1>5. Consistent(db) BY DEF RecalInv
<1>6. /\ Consistent(db') /\ Grows(db, db') /\ db'.runs = db.runs
      /\ SetsOnlySpeedup(db, db', iterId[p], r.speedup)
  <2> DEFINE i == iterId[p]
  <2> DEFINE s == r.speedup
  <2> DEFINE e == db'
  <2>1. i \in Nat /\ s \in Nat /\ e = SetSpeedup(db, i, s) BY <1>1, <1>3, <1>4
  <2>2. ASSUME NEW d, Consistent(d), NEW j \in Nat, NEW t \in Nat, NEW f, f = SetSpeedup(d, j, t)
        PROVE  Consistent(f) /\ Grows(d, f) /\ f.runs = d.runs /\ SetsOnlySpeedup(d, f, j, t)
    BY <2>2, SetSpeedupKeeps
  <2> HIDE DEF i, s, e
  <2>3. Consistent(e) /\ Grows(db, e) /\ e.runs = db.runs /\ SetsOnlySpeedup(db, e, i, s)
    BY <1>5, <2>1, <2>2
  <2> QED BY <2>3 DEF i, s, e
<1> QED BY <1>2, <1>6

LEMMA UpdateIterationPreserves ==
  ASSUME RecalInv, NEW p \in Recalibrator, UpdateIteration(p)
  PROVE  RecalInv'
<1>1. /\ TypeOK /\ Queue(p) /\ Cursor(p) /\ Consistent(db) /\ MarkedRunWasUpdated
      /\ pc[p] = "update" /\ pc' = [pc EXCEPT ![p] = "mark"]
      /\ UNCHANGED <<todo, results, rowId, iterId, writes, starts>>
      /\ hits' = hits \cup {x.run_row_id : x \in {y \in db.iterations : y.id = iterId[p]}}
  BY DEF RecalInv, UpdateIteration
<1>2. Consistent(db') /\ Grows(db, db') /\ db'.runs = db.runs BY UpdateIterationChanges
<1>3. TypeOK'
  <2>1. db' \in Tables BY <1>2 DEF Consistent
  <2>2. \A x \in db.iterations : x.run_row_id \in Nat BY <1>1, RowsTyped
  <2>3. hits' \in SUBSET Nat BY <1>1, <2>2 DEF TypeOK
  <2> QED BY <1>1, <2>1, <2>3 DEF TypeOK
<1>4. pc'[p] = "mark" /\ hits \subseteq hits' BY <1>1 DEF TypeOK
<1>5. Queue(p)' BY <1>1, <1>4 DEF Queue
<1>6. Cursor(p)'
  <2>1. /\ rowId[p] \in Nat /\ rowId[p] <= db.runseq
        /\ db.runseq \in Nat /\ db'.runseq \in Nat /\ db.runseq <= db'.runseq
        /\ \A x \in db.runs : x.id = rowId[p] =>
             \A r \in First(results[p]) : x.run_id = r.run_id
    BY <1>1, <1>2, RowsTyped, ProcessTyped DEF Cursor, Grows
  <2>2. rowId[p] <= db'.runseq BY <2>1
  <2>3. \A x \in db.runs : x.id = rowId[p] =>
          \E i \in db.iterations : i.id = iterId[p] /\ i.run_row_id = rowId[p]
    BY <1>1 DEF Cursor
  <2>4. \A x \in db.runs : x.id = rowId[p] => x.id \in hits' BY <1>1, <2>3
  <2> QED BY <1>1, <1>2, <1>4, <2>1, <2>2, <2>4 DEF Cursor
<1>7. OthersWait(p) BY <1>1 DEF TypeOK, OthersWait
<1>8. MarkedRunWasUpdated' BY <1>1, <1>2, <1>4 DEF MarkedRunWasUpdated
<1> QED BY <1>2, <1>3, <1>4, <1>5, <1>6, <1>7, <1>8, RecalStepPreserves

LEMMA MarkRunChanges ==
  ASSUME RecalInv, NEW p \in Recalibrator, MarkRun(p)
  PROVE  /\ Consistent(db') /\ Grows(db, db') /\ db'.iterations = db.iterations
         /\ RunIds(db) = RunIds(db')
         /\ \A y \in db'.runs : y.synced_at = "recalibration" => y \in db.runs \/ y.id = rowId[p]
         /\ \A y \in db'.runs : \E x \in db.runs : x.id = y.id
<1>1. db' = SetRecalibrated(db, rowId[p]) BY DEF MarkRun
<1>2. Consistent(db) /\ rowId[p] \in Nat BY ProcessTyped DEF RecalInv
<1> QED BY <1>1, <1>2, SetRecalibratedKeeps

LEMMA MarkRunPreserves ==
  ASSUME RecalInv, NEW p \in Recalibrator, MarkRun(p)
  PROVE  RecalInv'
<1>1. /\ Cursor(p) /\ MarkedRunWasUpdated /\ pc[p] = "mark"
      /\ UNCHANGED <<todo, hits, writes, starts>>
  BY DEF RecalInv, MarkRun
<1>2. PICK r \in First(results[p]) : NextResult(p, r) BY DEF MarkRun
<1>3. MarkedRunWasUpdated'
  <2>1. \A x \in db.runs : x.id = rowId[p] => x.id \in hits BY <1>1 DEF Cursor
  <2>2. ASSUME NEW y \in db'.runs, y.synced_at = "recalibration"
        PROVE  y.id \in hits
    <3>1. y \in db.runs \/ y.id = rowId[p] BY <2>2, MarkRunChanges
    <3>2. \E x \in db.runs : x.id = y.id BY MarkRunChanges
    <3> QED BY <1>1, <2>1, <2>2, <3>1, <3>2 DEF MarkedRunWasUpdated
  <2> QED BY <1>1, <2>2 DEF MarkedRunWasUpdated
<1> QED BY <1>1, <1>2, <1>3, MarkRunChanges, NextResultPreserves

LEMMA StatementFailsPreserves ==
  ASSUME RecalInv, NEW p \in Recalibrator, StatementFails(p)
  PROVE  RecalInv'
BY TablesStay, NextResultPreserves DEF StatementFails

LEMMA ExitPreserves ==
  ASSUME RecalInv, NEW p \in Recalibrator, Exit(p)
  PROVE  RecalInv'
<1>1. TypeOK /\ UNCHANGED <<db, hits, writes, starts>> BY DEF RecalInv, Exit
<1>2. TypeOK' BY <1>1 DEF TypeOK, Exit
<1>3. pc'[p] = "idle" /\ results'[p] = {} /\ todo'[p] = {} BY <1>1 DEF TypeOK, Exit
<1>4. Queue(p)' BY <1>3 DEF Queue
<1>5. Cursor(p)' BY <1>3 DEF Cursor
<1>6. OthersWait(p) BY <1>1 DEF TypeOK, OthersWait, Exit
<1> QED BY <1>1, <1>2, <1>4, <1>5, <1>6, TablesStay, RecalStepPreserves

LEMMA RecalNextPreserves ==
  ASSUME RecalInv, RecalNext
  PROVE  RecalInv'
<1>1. CASE Write BY <1>1, WritePreserves
<1>2. ASSUME NEW p \in Recalibrator, RecalStep(p) PROVE RecalInv'
  <2>1. CASE Load(p) BY <2>1, LoadPreserves
  <2>2. CASE Bench(p) BY <2>2, BenchPreserves
  <2>3. CASE BenchesDone(p) BY <2>3, BenchesDonePreserves
  <2>4. CASE LookupRun(p) BY <2>4, LookupRunPreserves
  <2>5. CASE PickBest(p) BY <2>5, PickBestPreserves
  <2>6. CASE PickLast(p) BY <2>6, PickLastPreserves
  <2>7. CASE UpdateIteration(p) BY <2>7, UpdateIterationPreserves
  <2>8. CASE MarkRun(p) BY <2>8, MarkRunPreserves
  <2>9. CASE StatementFails(p) BY <2>9, StatementFailsPreserves
  <2>10. CASE Exit(p) BY <2>10, ExitPreserves
  <2> QED BY <1>2, <2>1, <2>2, <2>3, <2>4, <2>5, <2>6, <2>7, <2>8, <2>9, <2>10 DEF RecalStep
<1> QED BY <1>1, <1>2 DEF RecalNext

\* A miss of the first UPDATE, from the invariant.
LEMMA CursorHits ==
  ASSUME RecalInv
  PROVE  MissMeansReplaced
BY DEF RecalInv, Cursor, MissMeansReplaced, RowsOf

-----------------------------------------------------------------------------
\* Every step of the writers and recalibrations, as a reader sees it, and what
\* it does to the speedups.
StaysInRun ==
  \A x \in db.iterations : \A y \in db'.iterations :
    y.id = x.id =>
      /\ y = [x EXCEPT !.speedup = y.speedup]
      /\ y # x => \E p \in Recalibrator : \E r \in results[p] :
           /\ pc[p] = "update"
           /\ y.speedup = r.speedup
           /\ \E run \in db.runs : run.id = x.run_row_id /\ run.run_id = r.run_id

LEMMA SameRowStays ==
  ASSUME Consistent(db), \A y \in db'.iterations : y.id <= db.iterseq => y \in db.iterations
  PROVE  StaysInRun
<1>1. SUFFICES ASSUME NEW x \in db.iterations, NEW y \in db'.iterations, y.id = x.id
               PROVE  y = x /\ y = [x EXCEPT !.speedup = y.speedup]
  BY DEF StaysInRun
<1>2. x.id <= db.iterseq /\ x \in IterationRow BY RowsTyped
<1>3. y = x BY <1>1, <1>2 DEF Consistent, UniqueRows
<1> QED BY <1>2, <1>3 DEF IterationRow

LEMMA UpdateStaysInRun ==
  ASSUME RecalInv, NEW p \in Recalibrator, UpdateIteration(p)
  PROVE  StaysInRun
<1>1. PICK r \in First(results[p]) : r \in results[p] /\ SetsOnlySpeedup(db, db', iterId[p], r.speedup)
  BY UpdateIterationChanges
<1>2. Consistent(db) /\ Cursor(p) /\ pc[p] = "update" BY DEF RecalInv, UpdateIteration
<1>3. SUFFICES ASSUME NEW x \in db.iterations, NEW y \in db'.iterations, y.id = x.id
               PROVE  /\ SameButSpeedup(x, y)
                      /\ y # x => \E q \in Recalibrator : \E s \in results[q] :
                           /\ pc[q] = "update"
                           /\ y.speedup = s.speedup
                           /\ \E run \in db.runs : run.id = x.run_row_id /\ run.run_id = s.run_id
  BY DEF StaysInRun, SameButSpeedup
<1>4. PICK z \in db.iterations :
        /\ z.id = y.id /\ SameButSpeedup(z, y)
        /\ y # z => y.id = iterId[p] /\ y.speedup = r.speedup
  BY <1>1 DEF SetsOnlySpeedup
<1>5. z = x BY <1>2, <1>3, <1>4 DEF Consistent, UniqueRows
<1>6. ASSUME y # x
      PROVE  \E run \in db.runs : run.id = x.run_row_id /\ run.run_id = r.run_id
  <2>1. PICK run \in db.runs : run.id = x.run_row_id BY <1>2 DEF Consistent, ForeignKey
  <2>2. x.id = iterId[p] BY <1>3, <1>4, <1>5, <1>6
  <2>3. x.run_row_id = rowId[p] BY <1>2, <2>2 DEF Cursor
  <2>4. run.run_id = r.run_id BY <1>2, <2>1, <2>3 DEF Cursor
  <2> QED BY <2>1, <2>4
<1> QED BY <1>1, <1>2, <1>4, <1>5, <1>6

LEMMA RecalStepChanges ==
  ASSUME RecalInv, RecalNext
  PROVE  /\ Consistent(db') /\ Grows(db, db') /\ RunIds(db) \subseteq RunIds(db')
         /\ StaysInRun
<1>1. Consistent(db) /\ Grows(db, db) BY GrowsReflexive DEF RecalInv
<1>2. Consistent(db') BY RecalNextPreserves DEF RecalInv
<1>3. CASE Write
  <2>1. Grows(db, db') /\ Keeps(db, db') /\ RunIds(db) \subseteq RunIds(db') BY <1>1, <1>3, WriteKeeps
  <2> QED BY <1>1, <1>2, <2>1, SameRowStays DEF Keeps
<1>4. CASE UNCHANGED db
  <2>1. StaysInRun BY <1>1, <1>4, SameRowStays
  <2> QED BY <1>1, <1>2, <1>4, <2>1
<1>5. ASSUME NEW p \in Recalibrator, RecalStep(p), ~UNCHANGED db
      PROVE  Grows(db, db') /\ RunIds(db) \subseteq RunIds(db') /\ StaysInRun
  <2>1. CASE UpdateIteration(p)
    <3>1. Grows(db, db') /\ db'.runs = db.runs BY <2>1, UpdateIterationChanges
    <3> QED BY <2>1, <3>1, UpdateStaysInRun DEF RunIds
  <2>2. CASE MarkRun(p)
    <3>1. Grows(db, db') /\ db'.iterations = db.iterations /\ RunIds(db) = RunIds(db')
      BY <2>2, MarkRunChanges
    <3> QED BY <1>1, <3>1, SameRowStays
  <2> QED BY <1>5, <2>1, <2>2
       DEF RecalStep, Load, Bench, BenchesDone, LookupRun, PickBest, PickLast, StatementFails, Exit
<1> QED BY <1>2, <1>3, <1>4, <1>5 DEF RecalNext

-----------------------------------------------------------------------------
\* What a reader has collected, its request made when asked was the last id.
EntryKnown(e, asked) ==
  /\ e.run.id <= db.runseq
  /\ asked <= db.iterseq
  /\ EntryIsPrefix(e, asked)

Collected(q) ==
  /\ rpc[q] = "idle" => pending[q] = {} /\ out[q] = {}
  /\ rpc[q] = "runs" => pending[q] = {} /\ out[q] = {} /\ known[q] \subseteq RunIds(db)
  /\ rpc[q] = "iterations" => \A n \in known[q] :
       (\E x \in pending[q] : x.run_id = n) \/ (\E e \in out[q] : e.run.run_id = n)
  /\ \A x \in pending[q] : x.id <= db.runseq
  /\ \A x, y \in pending[q] : x.run_id = y.run_id => x = y
  /\ \A x \in pending[q], e \in out[q] : x.run_id # e.run.run_id
  /\ \A d, e \in out[q] : d.run.run_id = e.run.run_id => d = e
  /\ since[q] <= db.iterseq
  /\ \A e \in out[q] : EntryKnown(e, since[q])

PageInv ==
  /\ NoRunMissing
  /\ OneEntryPerRun
  /\ \A e \in shown.entries : EntryKnown(e, shown.since)

ReadInv ==
  /\ ReadTypeOK
  /\ \A q \in Reader : Collected(q)
  /\ PageInv

LEMMA EntryStable ==
  ASSUME Consistent(db), Consistent(db'), Grows(db, db'), NEW e \in Entry, NEW asked \in Nat,
         EntryKnown(e, asked)
  PROVE  EntryKnown(e, asked)'
<1>1. /\ db.runseq \in Nat /\ db.iterseq \in Nat /\ db'.runseq \in Nat /\ db.runseq <= db'.runseq
      /\ db'.iterseq \in Nat /\ db.iterseq <= db'.iterseq
      /\ \A x \in db.iterations : x.id \in Nat /\ x.id <= db.iterseq
      /\ \A x \in db'.iterations : x.id \in Nat
      /\ e.run.id \in Nat
  BY RowsTyped DEF Grows, Entry, RunRow
<1>2. e.run.id <= db.runseq /\ asked <= db.iterseq /\ EntryIsPrefix(e, asked) BY DEF EntryKnown
<1>3. e.run.id <= db'.runseq /\ asked <= db'.iterseq BY <1>1, <1>2
<1>4. ASSUME NEW run \in db'.runs, run.id = e.run.id
      PROVE  /\ \A i \in e.iterations : \E j \in RowsOf(db, e.run.id) : j.id = i.id
             /\ \A j \in RowsOf(db, e.run.id) :
                  j.id <= asked \/ (\E i \in e.iterations : j.id < i.id)
                    => \E k \in e.iterations : k.id = j.id
  <2>1. \E x \in db.runs : x.id = e.run.id BY <1>2, <1>4 DEF Grows
  <2> QED BY <1>2, <2>1 DEF EntryIsPrefix
<1>5. ASSUME NEW run \in db'.runs, run.id = e.run.id, NEW i \in e.iterations
      PROVE  \E j \in RowsOf(db', e.run.id) : j.id = i.id
  <2>1. PICK j \in RowsOf(db, e.run.id) : j.id = i.id BY <1>4, <1>5
  <2>2. j \in db.iterations /\ run.id = j.run_row_id BY <1>5, <2>1 DEF RowsOf
  <2>3. \E z \in db'.iterations : z.id = j.id /\ z.run_row_id = j.run_row_id BY <2>2 DEF Grows
  <2> QED BY <1>5, <2>1, <2>2, <2>3 DEF RowsOf
<1>6. ASSUME NEW run \in db'.runs, run.id = e.run.id, NEW j \in RowsOf(db', e.run.id),
             j.id <= asked \/ (\E i \in e.iterations : j.id < i.id)
      PROVE  \E k \in e.iterations : k.id = j.id
  <2>1. j \in db'.iterations /\ j.run_row_id = e.run.id BY DEF RowsOf
  <2>2. j.id <= db.iterseq
    <3>1. CASE j.id <= asked BY <1>1, <1>2, <2>1, <3>1
    <3>2. ASSUME NEW i \in e.iterations, j.id < i.id PROVE j.id <= db.iterseq
      <4>1. PICK old \in RowsOf(db, e.run.id) : old.id = i.id BY <1>4, <1>6
      <4>2. old \in db.iterations BY DEF RowsOf
      <4> QED BY <1>1, <2>1, <3>2, <4>1, <4>2
    <3> QED BY <1>6, <3>1, <3>2
  <2>3. PICK x \in db.iterations : x.id = j.id /\ x.run_row_id = j.run_row_id
    BY <2>1, <2>2 DEF Grows
  <2>4. x \in RowsOf(db, e.run.id) BY <2>1, <2>3 DEF RowsOf
  <2>5. x.id <= asked \/ (\E i \in e.iterations : x.id < i.id) BY <1>6, <2>3
  <2> QED BY <1>4, <1>6, <2>3, <2>4, <2>5
<1>7. EntryIsPrefix(e, asked)' BY <1>4, <1>5, <1>6 DEF EntryIsPrefix
<1> QED BY <1>3, <1>7 DEF EntryKnown

LEMMA EntriesTyped ==
  ASSUME ReadTypeOK
  PROVE  /\ \A q \in Reader : out[q] \subseteq Entry /\ pending[q] \subseteq RunRow
         /\ shown.entries \subseteq Entry
         /\ \A q \in Reader : since[q] \in Nat
         /\ shown.since \in Nat
BY DEF ReadTypeOK, Page

LEMMA ReadStable ==
  ASSUME ReadInv, UNCHANGED readVars, Consistent(db), Consistent(db'), Grows(db, db'),
         RunIds(db) \subseteq RunIds(db')
  PROVE  ReadInv'
<1>1. UNCHANGED <<rpc, pending, out, known, since, shown, refreshes>> BY DEF readVars
<1>2. ReadTypeOK' BY <1>1 DEF ReadInv, ReadTypeOK
<1>3. /\ db.runseq \in Nat /\ db'.runseq \in Nat /\ db.runseq <= db'.runseq
      /\ db.iterseq \in Nat /\ db'.iterseq \in Nat /\ db.iterseq <= db'.iterseq
      /\ \A x \in RunRow : x.id \in Nat
  BY RowsTyped DEF Grows, RunRow
<1>4. ASSUME NEW q \in Reader PROVE Collected(q)'
  <2>1. /\ Collected(q) /\ out[q] \subseteq Entry /\ pending[q] \subseteq RunRow
        /\ since[q] \in Nat /\ since'[q] = since[q]
    BY <1>1, EntriesTyped DEF ReadInv
  <2> DEFINE asked == since[q]
  <2>2. \A e \in out[q] : EntryKnown(e, since[q])'
    <3>1. asked \in Nat /\ asked' = asked BY <2>1
    <3>2. \A e \in out[q] : e \in Entry /\ EntryKnown(e, asked) BY <2>1 DEF Collected
    <3> HIDE DEF asked
    <3>3. \A e \in out[q] : EntryKnown(e, asked)' BY <3>1, <3>2, EntryStable
    <3> QED BY <3>3 DEF asked
  <2>3. \A x \in pending[q] : x.id <= db'.runseq BY <1>3, <2>1 DEF Collected
  <2>4. rpc[q] = "runs" => known[q] \subseteq RunIds(db') BY <2>1 DEF Collected
  <2>5. since[q] <= db'.iterseq BY <1>3, <2>1 DEF Collected
  <2> QED BY <1>1, <2>1, <2>2, <2>3, <2>4, <2>5 DEF Collected
<1>5. PageInv'
  <2>1. PageInv /\ shown.entries \subseteq Entry /\ shown.since \in Nat
    BY EntriesTyped DEF ReadInv
  <2>2. \A e \in shown.entries : EntryKnown(e, shown.since)'
    BY <1>1, <2>1, EntryStable DEF PageInv
  <2> QED BY <1>1, <2>1, <2>2 DEF PageInv, NoRunMissing, OneEntryPerRun
<1> QED BY <1>2, <1>4, <1>5 DEF ReadInv

LEMMA RecalKeepsReads ==
  ASSUME RecalInv, ReadInv, RecalNext, UNCHANGED readVars
  PROVE  ReadInv'
<1>1. Consistent(db) BY DEF RecalInv
<1> QED BY <1>1, RecalStepChanges, ReadStable

-----------------------------------------------------------------------------
\* Only request r has taken a step.
OtherRequestsWait(r) ==
  \A q \in Reader \ {r} :
    /\ rpc'[q] = rpc[q] /\ pending'[q] = pending[q] /\ out'[q] = out[q]
    /\ known'[q] = known[q] /\ since'[q] = since[q]

LEMMA ReadStepPreserves ==
  ASSUME ReadInv, UNCHANGED db, NEW r \in Reader, OtherRequestsWait(r),
         ReadTypeOK', Collected(r)', PageInv'
  PROVE  ReadInv'
<1>1. ASSUME NEW q \in Reader PROVE Collected(q)'
  <2>1. CASE q = r BY <2>1
  <2>2. CASE q # r
    <3>1. /\ rpc'[q] = rpc[q] /\ pending'[q] = pending[q] /\ out'[q] = out[q]
          /\ known'[q] = known[q] /\ since'[q] = since[q]
      BY <2>2 DEF OtherRequestsWait
    <3>2. Collected(q) BY DEF ReadInv
    <3>3. \A e : EntryKnown(e, since[q])' <=> EntryKnown(e, since[q])
      BY <3>1 DEF EntryKnown, EntryIsPrefix
    <3> QED BY <3>1, <3>2, <3>3 DEF Collected
  <2> QED BY <2>1, <2>2
<1> QED BY <1>1 DEF ReadInv

LEMMA PageStays ==
  ASSUME ReadInv, UNCHANGED <<db, shown>>
  PROVE  PageInv'
BY DEF ReadInv, PageInv, NoRunMissing, OneEntryPerRun, EntryKnown, EntryIsPrefix

LEMMA RefreshPreserves ==
  ASSUME RecalInv, ReadInv, UNCHANGED db, NEW r \in Reader, Refresh(r)
  PROVE  ReadInv'
<1>1. /\ ReadTypeOK /\ Collected(r) /\ rpc[r] = "idle"
      /\ refreshes' = refreshes + 1
      /\ rpc' = [rpc EXCEPT ![r] = "runs"]
      /\ known' = [known EXCEPT ![r] = RunIds(db)]
      /\ since' = [since EXCEPT ![r] = db.iterseq]
      /\ UNCHANGED <<pending, out, shown>>
  BY DEF ReadInv, Refresh
<1>2. RunIds(db) \subseteq RunId /\ db.iterseq \in Nat BY RowsTyped DEF RecalInv, RunIds
<1>3. ReadTypeOK' BY <1>1, <1>2 DEF ReadTypeOK
<1>4. /\ rpc'[r] = "runs" /\ known'[r] = RunIds(db)
      /\ pending'[r] = {} /\ out'[r] = {} /\ since'[r] = db.iterseq
  BY <1>1 DEF ReadTypeOK, Collected
<1>5. Collected(r)' BY <1>2, <1>4 DEF Collected
<1>6. OtherRequestsWait(r) BY <1>1 DEF ReadTypeOK, OtherRequestsWait
<1> QED BY <1>1, <1>3, <1>5, <1>6, PageStays, ReadStepPreserves

LEMMA QueryRunsPreserves ==
  ASSUME RecalInv, ReadInv, UNCHANGED db, NEW r \in Reader, QueryRuns(r)
  PROVE  ReadInv'
<1>1. /\ ReadTypeOK /\ Collected(r) /\ rpc[r] = "runs" /\ Consistent(db)
      /\ rpc' = [rpc EXCEPT ![r] = "iterations"]
      /\ pending' = [pending EXCEPT ![r] = db.runs]
      /\ UNCHANGED <<out, known, since, shown, refreshes>>
  BY DEF RecalInv, ReadInv, QueryRuns
<1>2. /\ db.runs \subseteq RunRow
      /\ \A x \in db.runs : x.id <= db.runseq
      /\ \A x, y \in db.runs : x.run_id = y.run_id => x = y
  BY <1>1, RowsTyped DEF Consistent, UniqueRows
<1>3. ReadTypeOK' BY <1>1, <1>2 DEF ReadTypeOK
<1>4. /\ rpc'[r] = "iterations" /\ pending'[r] = db.runs /\ out'[r] = {}
      /\ known'[r] \subseteq RunIds(db) /\ since'[r] = since[r] /\ since[r] <= db.iterseq
  BY <1>1 DEF ReadTypeOK, Collected
<1>5. \A n \in known'[r] : \E x \in pending'[r] : x.run_id = n BY <1>4 DEF RunIds
<1>6. Collected(r)' BY <1>2, <1>4, <1>5 DEF Collected
<1>7. OtherRequestsWait(r) BY <1>1 DEF ReadTypeOK, OtherRequestsWait
<1> QED BY <1>1, <1>3, <1>6, <1>7, PageStays, ReadStepPreserves

LEMMA QueryIterationsPreserves ==
  ASSUME RecalInv, ReadInv, UNCHANGED db, NEW r \in Reader, QueryIterations(r)
  PROVE  ReadInv'
<1>1. /\ ReadTypeOK /\ Collected(r) /\ Consistent(db) /\ rpc[r] = "iterations"
      /\ UNCHANGED <<rpc, known, since, shown, refreshes>>
  BY DEF RecalInv, ReadInv, QueryIterations
<1>2. PICK x \in First(pending[r]) :
        /\ pending' = [pending EXCEPT ![r] = @ \ {x}]
        /\ out' = [out EXCEPT ![r] = @ \cup
                     {[run |-> x, iterations |-> RowsOf(db, x.id)]}]
  BY DEF QueryIterations
<1> DEFINE new == [run |-> x, iterations |-> RowsOf(db, x.id)]
<1>3. x \in pending[r] /\ x \in RunRow /\ x.id <= db.runseq
  BY <1>1, EntriesTyped DEF First, Collected
<1>4. new \in Entry /\ new.run = x /\ new.iterations = RowsOf(db, x.id)
  BY <1>1, <1>3, RowsTyped DEF Entry, RowsOf
<1>5. EntryKnown(new, since[r])
  <2>1. since[r] <= db.iterseq BY <1>1 DEF Collected
  <2>2. EntryIsPrefix(new, since[r]) BY <1>4 DEF EntryIsPrefix
  <2> QED BY <1>3, <1>4, <2>1, <2>2 DEF EntryKnown
<1>6. out' = [out EXCEPT ![r] = @ \cup {new}] BY <1>2
<1> HIDE DEF new
<1>7. ReadTypeOK' BY <1>1, <1>2, <1>4, <1>6 DEF ReadTypeOK
<1>8. rpc'[r] = "iterations" /\ pending'[r] = pending[r] \ {x} /\ out'[r] = out[r] \cup {new}
  BY <1>1, <1>2, <1>6 DEF ReadTypeOK
<1>9. /\ \A y \in pending'[r] : y \in pending[r] /\ y.run_id # x.run_id
      /\ \A e \in out[r] : e.run.run_id # x.run_id
  BY <1>1, <1>3, <1>8 DEF Collected
<1>10. Collected(r)'
  <2>1. \A n \in known'[r] :
          (\E y \in pending'[r] : y.run_id = n) \/ (\E e \in out'[r] : e.run.run_id = n)
    BY <1>1, <1>4, <1>8 DEF Collected
  <2>2. /\ \A y \in pending'[r] : y.id <= db'.runseq
        /\ \A y, z \in pending'[r] : y.run_id = z.run_id => y = z
    BY <1>1, <1>9 DEF Collected
  <2>3. \A y \in pending'[r], e \in out'[r] : y.run_id # e.run.run_id
    BY <1>1, <1>4, <1>8, <1>9 DEF Collected
  <2>4. \A d, e \in out'[r] : d.run.run_id = e.run.run_id => d = e
    BY <1>1, <1>4, <1>8, <1>9 DEF Collected
  <2>5. \A e \in out'[r] : EntryKnown(e, since[r])'
    <3>1. \A e : EntryKnown(e, since[r])' <=> EntryKnown(e, since[r])
      BY <1>1 DEF EntryKnown, EntryIsPrefix
    <3>2. \A e \in out'[r] : EntryKnown(e, since[r]) BY <1>1, <1>5, <1>8 DEF Collected
    <3> QED BY <3>1, <3>2
  <2>6. since'[r] <= db'.iterseq BY <1>1 DEF Collected
  <2> QED BY <1>1, <1>8, <2>1, <2>2, <2>3, <2>4, <2>5, <2>6 DEF Collected
<1>11. OtherRequestsWait(r) BY <1>1, <1>2, <1>6 DEF ReadTypeOK, OtherRequestsWait
<1> QED BY <1>1, <1>7, <1>10, <1>11, PageStays, ReadStepPreserves

\* A request that ends forgets what it has collected.
LEMMA EndRequestPreserves ==
  ASSUME RecalInv, ReadInv, UNCHANGED db, NEW r \in Reader, EndRequest(r),
         shown' \in Page, PageInv'
  PROVE  ReadInv'
<1>1. ReadTypeOK' BY DEF ReadInv, ReadTypeOK, EndRequest
<1>2. rpc'[r] = "idle" /\ pending'[r] = {} /\ out'[r] = {} /\ since'[r] = 0
  BY DEF ReadInv, ReadTypeOK, EndRequest
<1>3. db'.iterseq \in Nat BY RowsTyped DEF RecalInv
<1>4. Collected(r)' BY <1>2, <1>3 DEF Collected
<1>5. OtherRequestsWait(r) BY DEF ReadInv, ReadTypeOK, EndRequest, OtherRequestsWait
<1> QED BY <1>1, <1>4, <1>5, ReadStepPreserves

LEMMA RenderPreserves ==
  ASSUME RecalInv, ReadInv, UNCHANGED db, NEW r \in Reader, Render(r)
  PROVE  ReadInv'
<1>1. /\ ReadTypeOK /\ Collected(r) /\ rpc[r] = "iterations" /\ pending[r] = {} /\ EndRequest(r)
      /\ shown' = [entries |-> out[r], known |-> known[r], since |-> since[r]]
  BY DEF ReadInv, Render
<1>2. shown'.entries = out[r] /\ shown'.known = known[r] /\ shown'.since = since[r] BY <1>1
<1>3. shown' \in Page BY <1>1 DEF ReadTypeOK, Page
<1>4. NoRunMissing' BY <1>1, <1>2 DEF NoRunMissing, Collected
<1>5. OneEntryPerRun' BY <1>1, <1>2 DEF OneEntryPerRun, Collected
<1>6. \A e \in out[r] : EntryKnown(e, since[r])
  BY <1>1 DEF Collected
<1>7. \A e \in shown'.entries : EntryKnown(e, shown.since)'
  BY <1>2, <1>6 DEF EntryKnown, EntryIsPrefix
<1>8. PageInv' BY <1>4, <1>5, <1>7 DEF PageInv
<1> QED BY <1>1, <1>3, <1>8, EndRequestPreserves

LEMMA ReadStepInvariant ==
  ASSUME RecalInv, ReadInv, UNCHANGED recalVars, NEW r \in Reader, ReadStep(r)
  PROVE  ReadInv'
<1>1. UNCHANGED db BY DEF recalVars
<1>2. CASE Refresh(r) BY <1>1, <1>2, RefreshPreserves
<1>3. CASE QueryRuns(r) BY <1>1, <1>3, QueryRunsPreserves
<1>4. CASE QueryIterations(r) BY <1>1, <1>4, QueryIterationsPreserves
<1>5. CASE Render(r) BY <1>1, <1>5, RenderPreserves
<1>6. CASE RefreshFails(r)
  <2>1. EndRequest(r) /\ UNCHANGED shown BY <1>6 DEF RefreshFails
  <2>2. shown' \in Page BY <2>1 DEF ReadInv, ReadTypeOK
  <2> QED BY <1>1, <2>1, <2>2, PageStays, EndRequestPreserves
<1> QED BY <1>2, <1>3, <1>4, <1>5, <1>6 DEF ReadStep

-----------------------------------------------------------------------------
HistoryInv == RecalInv /\ ReadInv

LEMMA RecalInvUnchanged ==
  ASSUME RecalInv, UNCHANGED recalVars
  PROVE  RecalInv'
<1>1. /\ db' = db /\ pc' = pc /\ todo' = todo /\ results' = results /\ rowId' = rowId
      /\ iterId' = iterId /\ hits' = hits /\ writes' = writes /\ starts' = starts
  BY DEF recalVars
<1>2. TypeOK' BY <1>1 DEF RecalInv, TypeOK
<1>3. \A p \in Recalibrator : Queue(p)' BY <1>1 DEF RecalInv, Queue
<1>4. \A p \in Recalibrator : Cursor(p)' BY <1>1 DEF RecalInv, Cursor
<1>5. Consistent(db') /\ MarkedRunWasUpdated' BY <1>1 DEF RecalInv, MarkedRunWasUpdated
<1> QED BY <1>2, <1>3, <1>4, <1>5 DEF RecalInv

LEMMA HistoryInitial ==
  ASSUME Init
  PROVE  HistoryInv
<1>1. RecalInv BY RecalInitial DEF Init
<1>2. ReadTypeOK BY DEF Init, ReadInit, ReadTypeOK, Page
<1>3. db.iterseq = 0 BY DEF Init, RecalInit, EmptyTables
<1>4. \A q \in Reader : Collected(q) BY <1>3 DEF Init, ReadInit, Collected
<1>5. PageInv BY DEF Init, ReadInit, PageInv, NoRunMissing, OneEntryPerRun
<1> QED BY <1>1, <1>2, <1>4, <1>5 DEF HistoryInv, ReadInv

LEMMA HistoryPreserved ==
  ASSUME HistoryInv, [Next]_vars
  PROVE  HistoryInv'
<1>1. RecalInv /\ ReadInv BY DEF HistoryInv
<1>2. CASE RecalNext /\ UNCHANGED readVars
  BY <1>1, <1>2, RecalNextPreserves, RecalKeepsReads DEF HistoryInv
<1>3. ASSUME NEW r \in Reader, ReadStep(r), UNCHANGED recalVars PROVE HistoryInv'
  BY <1>1, <1>3, ReadStepInvariant, RecalInvUnchanged DEF HistoryInv
<1>4. CASE UNCHANGED vars
  <2>1. UNCHANGED recalVars /\ UNCHANGED readVars BY <1>4 DEF vars
  <2>2. RecalInv' BY <1>1, <2>1, RecalInvUnchanged
  <2>3. Consistent(db) /\ db' = db BY <1>1, <2>1 DEF RecalInv, recalVars
  <2>4. ReadInv' BY <1>1, <2>1, <2>3, GrowsReflexive, ReadStable
  <2> QED BY <2>2, <2>4 DEF HistoryInv
<1> QED BY <1>2, <1>3, <1>4 DEF Next

\* The invariant of writes, recalibrations and readers together.
THEOREM HistoryInvariant == Spec => []HistoryInv
BY HistoryInitial, HistoryPreserved, PTL DEF Spec

\* Requests, loaded entries and the page keep their types.
THEOREM ReadersAreTyped == Spec => []ReadersTypeOK
<1>1. HistoryInv => ReadersTypeOK BY DEF HistoryInv, RecalInv, ReadInv, ReadersTypeOK
<1> QED BY <1>1, HistoryInvariant, PTL

\* A recalibration changes iterations of the run it has benched and of no other.
THEOREM RecalibrationIsLocal == Spec => RecalibrationStaysInRun
<1>1. ASSUME HistoryInv, [Next]_vars PROVE StaysInRun \/ UNCHANGED db
  <2>1. CASE RecalNext BY <1>1, <2>1, RecalStepChanges DEF HistoryInv
  <2>2. CASE UNCHANGED recalVars BY <2>2 DEF recalVars
  <2> QED BY <1>1, <2>1, <2>2 DEF Next, vars
<1>2. HistoryInv /\ [Next]_vars => [StaysInRun]_db BY <1>1
<1>3. Spec => [][StaysInRun]_db BY <1>2, HistoryInvariant, PTL DEF Spec
<1> QED BY <1>3 DEF StaysInRun, RecalibrationStaysInRun

\* A run row marked as recalibrated has had an iteration updated.
THEOREM MarkIsEarned == Spec => []MarkedRunWasUpdated
<1>1. HistoryInv => MarkedRunWasUpdated BY DEF HistoryInv, RecalInv
<1> QED BY <1>1, HistoryInvariant, PTL

\* An UPDATE of an iteration misses only when its run has been replaced.
THEOREM MissIsReplacement == Spec => []MissMeansReplaced
<1>1. HistoryInv => MissMeansReplaced BY CursorHits DEF HistoryInv
<1> QED BY <1>1, HistoryInvariant, PTL

\* What loadHistory returns of a run that was not replaced is all there was when
\* the request was made, and a prefix of what was added since.
THEOREM ReadsArePrefixes == Spec => []ReadIsPrefix
<1>1. HistoryInv => ReadIsPrefix
  BY DEF HistoryInv, ReadInv, Collected, PageInv, EntryKnown, ReadIsPrefix
<1> QED BY <1>1, HistoryInvariant, PTL

\* The page shows every run there was when the refresh was clicked.
THEOREM ReadsAreComplete == Spec => []NoRunMissing
<1>1. HistoryInv => NoRunMissing BY DEF HistoryInv, ReadInv, PageInv
<1> QED BY <1>1, HistoryInvariant, PTL

\* queryRuns has no entries to merge.
THEOREM EntriesAreUnique == Spec => []OneEntryPerRun
<1>1. HistoryInv => OneEntryPerRun BY DEF HistoryInv, ReadInv, PageInv
<1> QED BY <1>1, HistoryInvariant, PTL
=============================================================================
