------------------------- MODULE HistoryFileProofs -------------------------
(***************************************************************************)
(* Theorems about HistoryFile, for any number of processes and restarts:   *)
(* the descriptors and names point to files that exist, and whoever else   *)
(* migrates the database at the same time, a command gets it only with the *)
(* unique index, every column, and no duplicates.  Two processes, and no   *)
(* more, lose no row of the old history between them; one keeps the        *)
(* backup the README promises and, but for a death between its renames,    *)
(* opens nothing else than the old history; and only duplicates keep it    *)
(* from opening.                                                           *)
(***************************************************************************)
EXTENDS HistoryFile, TLAPS

USE LegacyAssumption, BoundAssumption

HasFile == {"fill", "schema", "column", "alter", "dedup", "ready"}

\* Where a process is says what it holds and what the file it holds has.
ReachedInv ==
  \A p \in Proc :
    /\ pc[p] \in HasFile => fd[p] \in 1 .. Len(file)
    /\ pc[p] \in {"column", "alter", "dedup", "ready"} =>
         Has(p, "index") /\ ~Has(p, "dups")
    /\ pc[p] \in {"dedup", "ready"} => Has(p, "column")

IInv == TypeOK /\ ReachedInv

-----------------------------------------------------------------------------
\* The facts a step may only add to a file, or only remove.
Kept(old, new) ==
  /\ old.facts \cap {"index", "column"} \subseteq new.facts
  /\ new.facts \cap {"dups"} \subseteq old.facts

\* No file disappears, and none loses its index or a column, or gains
\* duplicates.
FilesKept ==
  /\ Len(file) <= Len(file')
  /\ \A f \in 1 .. Len(file) : Kept(file[f], file'[f])

\* What a process reached stays true through the steps of the others.
LEMMA ReachedStays ==
  ASSUME IInv, FilesKept, file' \in Seq(Content), NEW q \in Proc,
         pc'[q] = pc[q], fd'[q] = fd[q]
  PROVE  /\ pc'[q] \in HasFile => fd'[q] \in 1 .. Len(file')
         /\ pc'[q] \in {"column", "alter", "dedup", "ready"} =>
              Has(q, "index")' /\ ~Has(q, "dups")'
         /\ pc'[q] \in {"dedup", "ready"} => Has(q, "column")'
<1>1. CASE pc[q] \notin HasFile
  BY <1>1 DEF HasFile
<1>2. CASE pc[q] \in HasFile
  <2>1. fd[q] \in 1 .. Len(file) /\ fd[q] \in 1 .. Len(file')
    BY <1>2 DEF IInv, ReachedInv, FilesKept, TypeOK
  <2>2. Kept(file[fd[q]], file'[fd[q]])  BY <2>1 DEF FilesKept
  <2> QED  BY <1>2, <2>1, <2>2 DEF IInv, ReachedInv, Kept, Has, Opened
<1> QED  BY <1>1, <1>2

LEMMA SameFiles ==
  ASSUME TypeOK, file' = file
  PROVE  FilesKept /\ file' \in Seq(Content) /\ Len(file') = Len(file)
BY DEF FilesKept, Kept, TypeOK

LEMMA NewFile ==
  ASSUME TypeOK, NEW c \in Content, file' = Append(file, c)
  PROVE  /\ FilesKept /\ file' \in Seq(Content)
         /\ Len(file') = Len(file) + 1
         /\ file'[Len(file) + 1] = c
BY DEF FilesKept, Kept, TypeOK

LEMMA ChangedFile ==
  ASSUME IInv, NEW p \in Proc, pc[p] \in HasFile,
         NEW c \in Content, Kept(Opened(p), c), Change(p, c)
  PROVE  /\ FilesKept /\ file' \in Seq(Content)
         /\ Len(file') = Len(file)
         /\ file'[fd[p]] = c
<1>1. fd[p] \in 1 .. Len(file) /\ file \in Seq(Content)
  BY DEF IInv, ReachedInv, TypeOK
<1>2. file' = [file EXCEPT ![fd[p]] = c]  BY DEF Change
<1> QED  BY <1>1, <1>2 DEF FilesKept, Kept, Opened

\* What p has open is a file, and stays one with other rows or facts.
LEMMA OpenedFile ==
  ASSUME IInv, NEW p \in Proc, pc[p] \in HasFile
  PROVE  /\ Opened(p) \in Content
         /\ \A r \in SUBSET (LegacyRow \cup Proc) :
              [Opened(p) EXCEPT !.rows = r] \in Content
         /\ \A s \in SUBSET Fact : [Opened(p) EXCEPT !.facts = s] \in Content
<1>1. Opened(p) \in Content
  BY DEF IInv, ReachedInv, TypeOK, Opened
<1> QED  BY <1>1 DEF Content

LEMMA FreshFile == Fresh \in Content /\ [Fresh EXCEPT !.facts = {"column"}] \in Content
BY DEF Fresh, Content, Fact

-----------------------------------------------------------------------------
\* A step of one process that leaves the files in order and puts the process
\* itself in order preserves the invariant.
LEMMA StepPreserves ==
  ASSUME IInv, NEW p \in Proc, FilesKept, file' \in Seq(Content),
         path' \in 0 .. Len(file'), tmp' \in 0 .. Len(file'),
         backup' \in [BackupName -> 0 .. Len(file')],
         bak' \in [Proc -> BackupName], restarts' \in 0 .. MaxRestarts,
         NEW s \in State, Goto(p, s),
         NEW f \in 0 .. Len(file'), fd' = [fd EXCEPT ![p] = f],
         s \in HasFile => f # NoFile,
         s \in {"column", "alter", "dedup", "ready"} =>
           "index" \in file'[f].facts /\ "dups" \notin file'[f].facts,
         s \in {"dedup", "ready"} => "column" \in file'[f].facts
  PROVE  IInv'
<1>1. pc' = [pc EXCEPT ![p] = s] /\ pc \in [Proc -> State]
      /\ fd \in [Proc -> 0 .. Len(file)]
  BY DEF Goto, IInv, TypeOK
<1>2. Len(file) \in Nat /\ Len(file') \in Nat /\ Len(file) <= Len(file')
  BY DEF FilesKept, IInv, TypeOK
<1>3. fd' \in [Proc -> 0 .. Len(file')]  BY <1>1, <1>2
<1>4. TypeOK'  BY <1>1, <1>3 DEF TypeOK
<1>5. ASSUME NEW q \in Proc
      PROVE  /\ pc'[q] \in HasFile => fd'[q] \in 1 .. Len(file')
             /\ pc'[q] \in {"column", "alter", "dedup", "ready"} =>
                  Has(q, "index")' /\ ~Has(q, "dups")'
             /\ pc'[q] \in {"dedup", "ready"} => Has(q, "column")'
  <2>1. CASE q # p  BY <1>1, <2>1, ReachedStays
  <2>2. CASE q = p
    <3>1. pc'[q] = s /\ fd'[q] = f  BY <1>1, <2>2
    <3> QED  BY <1>2, <3>1 DEF NoFile, Has, Opened
  <2> QED  BY <2>1, <2>2
<1> QED  BY <1>4, <1>5 DEF IInv, ReachedInv

-----------------------------------------------------------------------------
\* The steps before the database is opened change names, not files.
LEMMA PrepareStep ==
  ASSUME IInv, NEW p \in Proc, Prepare(p)
  PROVE  IInv'
<1>1. /\ file' = file /\ UNCHANGED names /\ UNCHANGED <<bak, restarts>>
      /\ \E s \in {"open", "header", "load", "removeTmp", "failed"} : Goto(p, s)
      /\ fd' = fd \/ fd' = [fd EXCEPT ![p] = NoFile]
  BY DEF Prepare, Stat, ReadHeader, LoadLegacy, Steady, Fail
<1>2. PICK s \in {"open", "header", "load", "removeTmp", "failed"} : Goto(p, s)
  BY <1>1
<1>3. PICK f \in 0 .. Len(file) : fd' = [fd EXCEPT ![p] = f]
  BY <1>1 DEF NoFile, IInv, TypeOK
<1>4. s \in State /\ s \notin HasFile  BY DEF State, HasFile
<1>5. FilesKept /\ file' \in Seq(Content) /\ Len(file') = Len(file)
  BY <1>1, SameFiles DEF IInv
<1> QED
  BY <1>1, <1>2, <1>3, <1>4, <1>5, StepPreserves
  DEF IInv, TypeOK, names, HasFile

\* Choosing a backup name and the two renames move files, and change none.
LEMMA RenameStep ==
  ASSUME IInv, NEW p \in Proc,
         RemoveTmp(p) \/ ChooseBackup(p) \/ RenameAside(p) \/ RenameIn(p)
  PROVE  IInv'
<1>1. /\ file' = file /\ fd' = fd /\ restarts' = restarts
      /\ \E s \in {"createTmp", "aside", "in", "open", "failed"} : Goto(p, s)
  BY DEF RemoveTmp, ChooseBackup, RenameAside, RenameIn, Steady
<1>2. PICK s \in {"createTmp", "aside", "in", "open", "failed"} : Goto(p, s)
  BY <1>1
<1>3. FilesKept /\ file' \in Seq(Content) /\ Len(file') = Len(file)
  BY <1>1, SameFiles DEF IInv
<1>4. path' \in 0 .. Len(file) /\ tmp' \in 0 .. Len(file)
  BY DEF RemoveTmp, ChooseBackup, RenameAside, RenameIn, IInv, TypeOK, NoFile
<1>5. backup' \in [BackupName -> 0 .. Len(file)]
  BY DEF RemoveTmp, ChooseBackup, RenameAside, RenameIn, IInv, TypeOK
<1>6. bak' \in [Proc -> BackupName]
  BY DEF RemoveTmp, ChooseBackup, RenameAside, RenameIn, IInv, TypeOK,
         FreeBackup, Steady
<1>7. s \in State /\ s \notin HasFile  BY DEF State, HasFile
<1>8. fd[p] \in 0 .. Len(file) /\ fd' = [fd EXCEPT ![p] = fd[p]]
  BY <1>1 DEF IInv, TypeOK
<1> QED
  BY <1>1, <1>2, <1>3, <1>4, <1>5, <1>6, <1>7, <1>8, StepPreserves
  DEF IInv, TypeOK, HasFile

\* The temporary database is a new file, or the one another process builds.
LEMMA CreateTmpStep ==
  ASSUME IInv, NEW p \in Proc, CreateTmp(p)
  PROVE  IInv'
<1>1. /\ path' = path /\ backup' = backup /\ bak' = bak /\ restarts' = restarts
      /\ Goto(p, "fill") /\ fd' = [fd EXCEPT ![p] = tmp']
  BY DEF CreateTmp, Steady
<1>2. /\ FilesKept /\ file' \in Seq(Content) /\ Len(file) <= Len(file')
      /\ tmp' \in 1 .. Len(file')
  <2>1. CASE tmp = NoFile
    <3>1. file' = Append(file, Fresh) /\ tmp' = Len(file) + 1
      BY <2>1 DEF CreateTmp
    <3> QED  BY <3>1, FreshFile, NewFile DEF IInv, TypeOK
  <2>2. CASE tmp # NoFile
    <3>1. file' = file /\ tmp' = tmp  BY <2>2 DEF CreateTmp
    <3> QED  BY <2>2, <3>1, SameFiles DEF IInv, TypeOK, NoFile
  <2> QED  BY <2>1, <2>2
<1>3. Len(file) \in Nat /\ Len(file') \in Nat  BY <1>2 DEF IInv, TypeOK
<1>4. path' \in 0 .. Len(file') /\ tmp' \in 0 .. Len(file')
  BY <1>1, <1>2, <1>3 DEF IInv, TypeOK
<1>5. backup' \in [BackupName -> 0 .. Len(file')]
  BY <1>1, <1>2, <1>3 DEF IInv, TypeOK
<1>6. "fill" \in State /\ tmp' # NoFile  BY <1>2 DEF State, NoFile
<1> QED
  BY <1>1, <1>2, <1>4, <1>5, <1>6, StepPreserves DEF IInv, TypeOK

\* Rows are added to the temporary database; its facts stay.
LEMMA FillTmpStep ==
  ASSUME IInv, NEW p \in Proc, FillTmp(p)
  PROVE  IInv'
<1>1. /\ path' = path /\ backup' = backup /\ bak' = bak /\ restarts' = restarts
      /\ fd' = [fd EXCEPT ![p] = NoFile] /\ pc[p] = "fill"
      /\ \E s \in {"choose", "failed"} : Goto(p, s)
      /\ tmp' \in {tmp, NoFile}
  BY DEF FillTmp, Steady
<1>2. PICK s \in {"choose", "failed"} : Goto(p, s)  BY <1>1
<1>3. FilesKept /\ file' \in Seq(Content) /\ Len(file') = Len(file)
  <2>1. CASE file' = file  BY <2>1, SameFiles DEF IInv
  <2>2. CASE Change(p, [Opened(p) EXCEPT !.rows = @ \cup LegacyRow])
    <3> DEFINE c == [Opened(p) EXCEPT !.rows = @ \cup LegacyRow]
    <3>1. Opened(p).rows \cup LegacyRow \in SUBSET (LegacyRow \cup Proc)
      BY <1>1, OpenedFile DEF HasFile, Content
    <3>2. c \in Content  BY <1>1, <3>1, OpenedFile DEF HasFile
    <3>3. Opened(p) \in Content  BY <1>1, OpenedFile DEF HasFile
    <3>4. c.facts = Opened(p).facts  BY <3>3 DEF Content
    <3>5. Kept(Opened(p), c)  BY <3>4 DEF Kept
    <3> HIDE DEF c
    <3>6. Change(p, c)  BY <2>2 DEF c
    <3> QED  BY <1>1, <3>2, <3>5, <3>6, ChangedFile DEF HasFile
  <2> QED  BY <2>1, <2>2 DEF FillTmp
<1>4. s \in State /\ s \notin HasFile  BY DEF State, HasFile
<1>5. NoFile \in 0 .. Len(file)  BY DEF NoFile, IInv, TypeOK
<1> QED
  BY <1>1, <1>2, <1>3, <1>4, <1>5, StepPreserves DEF IInv, TypeOK, HasFile

-----------------------------------------------------------------------------
\* Opening creates a database where there is none.
LEMMA OpenDbStep ==
  ASSUME IInv, NEW p \in Proc, OpenDb(p)
  PROVE  IInv'
<1>1. /\ tmp' = tmp /\ backup' = backup /\ bak' = bak /\ restarts' = restarts
      /\ Goto(p, "schema") /\ fd' = [fd EXCEPT ![p] = path']
  BY DEF OpenDb, Steady
<1>2. /\ FilesKept /\ file' \in Seq(Content) /\ Len(file) <= Len(file')
      /\ path' \in 1 .. Len(file')
  <2>1. CASE path = NoFile
    <3> DEFINE c == [Fresh EXCEPT !.facts = {"column"}]
    <3>1. file' = Append(file, c) /\ path' = Len(file) + 1
      BY <2>1 DEF OpenDb
    <3>2. c \in Content  BY FreshFile
    <3> HIDE DEF c
    <3> QED  BY <3>1, <3>2, NewFile DEF IInv, TypeOK
  <2>2. CASE path # NoFile
    <3>1. file' = file /\ path' = path  BY <2>2 DEF OpenDb
    <3> QED  BY <2>2, <3>1, SameFiles DEF IInv, TypeOK, NoFile
  <2> QED  BY <2>1, <2>2
<1>3. Len(file) \in Nat /\ Len(file') \in Nat  BY <1>2 DEF IInv, TypeOK
<1>4. path' \in 0 .. Len(file') /\ tmp' \in 0 .. Len(file')
  BY <1>1, <1>2, <1>3 DEF IInv, TypeOK
<1>5. backup' \in [BackupName -> 0 .. Len(file')]
  BY <1>1, <1>2, <1>3 DEF IInv, TypeOK
<1>6. "schema" \in State /\ path' # NoFile  BY <1>2 DEF State, NoFile
<1> QED
  BY <1>1, <1>2, <1>4, <1>5, <1>6, StepPreserves DEF IInv, TypeOK

\* A statement on the open database that only changes the facts p may change.
LEMMA FactsStep ==
  ASSUME IInv, NEW p \in Proc, pc[p] \in HasFile, fd' = fd,
         UNCHANGED <<path, tmp, backup, bak, restarts>>,
         NEW facts \in SUBSET Fact, NEW s \in State, Goto(p, s),
         \/ file' = file /\ facts = Opened(p).facts
         \/ Change(p, [Opened(p) EXCEPT !.facts = facts]),
         Opened(p).facts \cap {"index", "column"} \subseteq facts,
         facts \cap {"dups"} \subseteq Opened(p).facts,
         s \in {"column", "alter", "dedup", "ready"} =>
           "index" \in facts /\ "dups" \notin facts,
         s \in {"dedup", "ready"} => "column" \in facts
  PROVE  IInv'
<1>1. fd[p] \in 1 .. Len(file) /\ fd' = [fd EXCEPT ![p] = fd[p]]
  BY DEF IInv, ReachedInv, TypeOK
<1>2. /\ FilesKept /\ file' \in Seq(Content) /\ Len(file') = Len(file)
      /\ file'[fd[p]].facts = facts
  <2>1. CASE file' = file /\ facts = Opened(p).facts
    BY <2>1, SameFiles DEF IInv, Opened
  <2>2. CASE Change(p, [Opened(p) EXCEPT !.facts = facts])
    <3> DEFINE c == [Opened(p) EXCEPT !.facts = facts]
    <3>1. c \in Content /\ Opened(p) \in Content  BY OpenedFile
    <3>2. c.facts = facts  BY <3>1 DEF Content
    <3>3. Kept(Opened(p), c)  BY <3>2 DEF Kept
    <3> HIDE DEF c
    <3>4. Change(p, c)  BY <2>2 DEF c
    <3> QED  BY <3>1, <3>2, <3>3, <3>4, ChangedFile
  <2> QED  BY <2>1, <2>2
<1>3. fd[p] \in 0 .. Len(file') /\ fd[p] # NoFile
  BY <1>1, <1>2 DEF NoFile
<1>4. /\ path' \in 0 .. Len(file') /\ tmp' \in 0 .. Len(file')
      /\ backup' \in [BackupName -> 0 .. Len(file')]
      /\ bak' \in [Proc -> BackupName] /\ restarts' \in 0 .. MaxRestarts
  BY <1>2 DEF IInv, TypeOK
<1> DEFINE f == fd[p]
<1>5. /\ s \in {"column", "alter", "dedup", "ready"} =>
           "index" \in file'[f].facts /\ "dups" \notin file'[f].facts
      /\ s \in {"dedup", "ready"} => "column" \in file'[f].facts
  BY <1>2
<1>6. f \in 0 .. Len(file') /\ f # NoFile /\ fd' = [fd EXCEPT ![p] = f]
  BY <1>1, <1>3
<1> HIDE DEF f
<1> QED  BY <1>2, <1>4, <1>5, <1>6, StepPreserves

\* A command that fails closes its connection.
LEMMA FailStep ==
  ASSUME IInv, NEW p \in Proc, Fail(p), UNCHANGED <<file, path, tmp, backup, bak, restarts>>
  PROVE  IInv'
<1>1. FilesKept /\ file' \in Seq(Content) /\ Len(file') = Len(file)
  BY SameFiles DEF IInv
<1>2. "failed" \in State /\ "failed" \notin HasFile  BY DEF State, HasFile
<1>3. NoFile \in 0 .. Len(file)  BY DEF NoFile, IInv, TypeOK
<1> QED
  BY <1>1, <1>2, <1>3, StepPreserves DEF Fail, IInv, TypeOK, HasFile

\* CREATE UNIQUE INDEX succeeds only without duplicates.
LEMMA InitSchemaStep ==
  ASSUME IInv, NEW p \in Proc, InitSchema(p)
  PROVE  IInv'
<1>1. pc[p] \in HasFile /\ UNCHANGED <<path, tmp, backup, bak, restarts>>
  BY DEF InitSchema, HasFile, names, Steady
<1>2. CASE Has(p, "dups")
  BY <1>1, <1>2, FailStep DEF InitSchema
<1>3. CASE ~Has(p, "dups")
  <2> DEFINE facts == Opened(p).facts \cup {"index"}
  <2>1. /\ Change(p, [Opened(p) EXCEPT !.facts = facts])
        /\ Goto(p, "column") /\ fd' = fd
    BY <1>3 DEF InitSchema
  <2>2. facts \in SUBSET Fact  BY <1>1, OpenedFile DEF Content, Fact
  <2>3. "index" \in facts /\ "dups" \notin facts  BY <1>3 DEF Has
  <2>4. Opened(p).facts \cap {"index", "column"} \subseteq facts
        /\ facts \cap {"dups"} \subseteq Opened(p).facts
    OBVIOUS
  <2>5. "column" \in State  BY DEF State
  <2> HIDE DEF facts
  <2> QED  BY <1>1, <2>1, <2>2, <2>3, <2>4, <2>5, FactsStep
<1> QED  BY <1>2, <1>3

\* The check for the column changes nothing.
LEMMA CheckColumnStep ==
  ASSUME IInv, NEW p \in Proc, CheckColumn(p)
  PROVE  IInv'
<1> DEFINE s == IF Has(p, "column") THEN "dedup" ELSE "alter"
<1>1. /\ pc[p] = "column" /\ UNCHANGED <<file, path, tmp, backup, fd, bak, restarts>>
      /\ Goto(p, s)
  BY DEF CheckColumn, names, Steady
<1>2. Has(p, "index") /\ ~Has(p, "dups")  BY <1>1 DEF IInv, ReachedInv
<1>3. pc[p] \in HasFile /\ s \in State  BY <1>1 DEF HasFile, State
<1>4. Opened(p).facts \in SUBSET Fact  BY <1>3, OpenedFile DEF Content
<1>5. s = "dedup" => "column" \in Opened(p).facts  BY DEF Has
<1>6. s \notin {"ready", "column"}  OBVIOUS
<1> HIDE DEF s
<1> QED
  BY <1>1, <1>2, <1>3, <1>4, <1>5, <1>6, FactsStep DEF Has

\* ALTER TABLE adds the column, or fails because another process added it.
LEMMA AlterTableStep ==
  ASSUME IInv, NEW p \in Proc, AlterTable(p)
  PROVE  IInv'
<1>1. pc[p] = "alter" /\ UNCHANGED <<path, tmp, backup, bak, restarts>>
  BY DEF AlterTable, names, Steady
<1>2. CASE Has(p, "column")
  BY <1>1, <1>2, FailStep DEF AlterTable
<1>3. CASE ~Has(p, "column")
  <2> DEFINE facts == Opened(p).facts \cup {"column"}
  <2>1. /\ Change(p, [Opened(p) EXCEPT !.facts = facts])
        /\ Goto(p, "dedup") /\ fd' = fd
    BY <1>3 DEF AlterTable
  <2>2. pc[p] \in HasFile /\ "dedup" \in State  BY <1>1 DEF HasFile, State
  <2>3. facts \in SUBSET Fact  BY <2>2, OpenedFile DEF Content, Fact
  <2>4. "index" \in facts /\ "dups" \notin facts /\ "column" \in facts
    BY <1>1 DEF Has, IInv, ReachedInv
  <2>5. Opened(p).facts \cap {"index", "column"} \subseteq facts
        /\ facts \cap {"dups"} \subseteq Opened(p).facts
    OBVIOUS
  <2> HIDE DEF facts
  <2> QED  BY <1>1, <2>1, <2>2, <2>3, <2>4, <2>5, FactsStep
<1> QED  BY <1>2, <1>3

\* The deduplication finds the index there: it never has anything to do.
LEMMA DeduplicateStep ==
  ASSUME IInv, NEW p \in Proc, Deduplicate(p)
  PROVE  IInv' /\ file' = file
<1>1. /\ pc[p] = "dedup" /\ UNCHANGED <<path, tmp, backup, fd, bak, restarts>>
      /\ Goto(p, "ready")
  BY DEF Deduplicate, names, Steady
<1>2. Has(p, "index") /\ ~Has(p, "dups") /\ Has(p, "column")
  BY <1>1 DEF IInv, ReachedInv
<1>3. file' = file  BY <1>2 DEF Deduplicate
<1>4. pc[p] \in HasFile /\ "ready" \in State  BY <1>1 DEF HasFile, State
<1>5. Opened(p).facts \in SUBSET Fact  BY <1>4, OpenedFile DEF Content
<1>6. IInv'
  BY <1>1, <1>2, <1>3, <1>4, <1>5, FactsStep DEF Has
<1> QED  BY <1>3, <1>6

\* The command adds its row to the database it has open.
LEMMA WriteRowStep ==
  ASSUME IInv, NEW p \in Proc, WriteRow(p)
  PROVE  IInv'
<1>1. /\ pc[p] = "ready" /\ UNCHANGED <<path, tmp, backup, bak, restarts>>
      /\ Goto(p, "done") /\ fd' = [fd EXCEPT ![p] = NoFile]
  BY DEF WriteRow, names
<1> DEFINE c == [Opened(p) EXCEPT !.rows = @ \cup {p}]
<1>2. Opened(p) \in Content  BY <1>1, OpenedFile DEF HasFile
<1>3. Opened(p).rows \cup {p} \in SUBSET (LegacyRow \cup Proc)
  BY <1>2 DEF Content
<1>4. c \in Content  BY <1>1, <1>3, OpenedFile DEF HasFile
<1>5. c.facts = Opened(p).facts  BY <1>2 DEF Content
<1>6. Kept(Opened(p), c)  BY <1>5 DEF Kept
<1>7. Change(p, c)  BY DEF WriteRow
<1> HIDE DEF c
<1>8. FilesKept /\ file' \in Seq(Content) /\ Len(file') = Len(file)
  BY <1>1, <1>4, <1>6, <1>7, ChangedFile DEF HasFile
<1>9. "done" \in State /\ "done" \notin HasFile /\ NoFile \in 0 .. Len(file)
  BY DEF State, HasFile, NoFile, IInv, TypeOK
<1> QED
  BY <1>1, <1>8, <1>9, StepPreserves DEF IInv, TypeOK, HasFile

\* A process that dies is run again from the start.
LEMMA RestartStep ==
  ASSUME IInv, NEW p \in Proc, Restart(p)
  PROVE  IInv'
<1>1. /\ UNCHANGED <<file, path, tmp, backup, bak>> /\ Goto(p, "stat")
      /\ fd' = [fd EXCEPT ![p] = NoFile]
      /\ restarts < MaxRestarts /\ restarts' = restarts + 1
  BY DEF Restart, names
<1>2. FilesKept /\ file' \in Seq(Content) /\ Len(file') = Len(file)
  BY <1>1, SameFiles DEF IInv
<1>3. "stat" \in State /\ "stat" \notin HasFile /\ NoFile \in 0 .. Len(file)
  BY DEF State, HasFile, NoFile, IInv, TypeOK
<1>4. restarts' \in 0 .. MaxRestarts  BY <1>1 DEF IInv, TypeOK
<1> QED
  BY <1>1, <1>2, <1>3, <1>4, StepPreserves DEF IInv, TypeOK, HasFile

-----------------------------------------------------------------------------
\* Every step of every process keeps names and files in order.
LEMMA Inductive == IInv /\ [Next]_vars => IInv'
<1> SUFFICES ASSUME IInv, [Next]_vars PROVE IInv'
  OBVIOUS
<1>1. ASSUME NEW p \in Proc, Prepare(p) PROVE IInv'
  BY <1>1, PrepareStep
<1>2. ASSUME NEW p \in Proc, Migrate(p) PROVE IInv'
  BY <1>2, RenameStep, CreateTmpStep, FillTmpStep DEF Migrate
<1>3. ASSUME NEW p \in Proc, Connect(p) PROVE IInv'
  BY <1>3, OpenDbStep, InitSchemaStep, CheckColumnStep, AlterTableStep,
     DeduplicateStep
  DEF Connect
<1>4. ASSUME NEW p \in Proc, WriteRow(p) \/ Restart(p) PROVE IInv'
  BY <1>4, WriteRowStep, RestartStep
<1>5. CASE UNCHANGED vars
  BY <1>5 DEF vars, names, IInv, TypeOK, ReachedInv, Has, Opened
<1> QED  BY <1>1, <1>2, <1>3, <1>4, <1>5 DEF Next, Finished

LEMMA Initial == Init => IInv
<1> SUFFICES ASSUME Init PROVE IInv
  OBVIOUS
<1>1. PICK c \in Old :
        \/ /\ file = <<c>>
           /\ backup = [i \in BackupName |-> NoFile]
        \/ /\ file = <<c, EarlierBackup>>
           /\ backup = [i \in BackupName |-> IF i = 1 THEN 2 ELSE NoFile]
  BY DEF Init
<1>2. c \in Content /\ EarlierBackup \in Content
  BY DEF Old, Content, EarlierBackup
<1>3. /\ file \in Seq(Content) /\ Len(file) \in {1, 2}
      /\ backup \in [BackupName -> 0 .. Len(file)]
  <2>1. CASE /\ file = <<c>>
             /\ backup = [i \in BackupName |-> NoFile]
    BY <1>2, <2>1 DEF NoFile
  <2>2. CASE /\ file = <<c, EarlierBackup>>
             /\ backup = [i \in BackupName |-> IF i = 1 THEN 2 ELSE NoFile]
    <3>1. file \in Seq(Content) /\ Len(file) = 2  BY <1>2, <2>2
    <3> QED  BY <2>2, <3>1 DEF NoFile
  <2> QED  BY <1>1, <2>1, <2>2
<1>4. /\ path = 1 /\ tmp = NoFile /\ pc = [p \in Proc |-> "stat"]
      /\ fd = [p \in Proc |-> NoFile] /\ bak = [p \in Proc |-> 1] /\ restarts = 0
  BY DEF Init
<1>5. TypeOK
  <2>1. 1 \in BackupName /\ 0 \in 0 .. MaxRestarts  BY DEF BackupName
  <2>2. "stat" \in State  BY DEF State
  <2> DEFINE n == Len(file)
  <2>3. 0 \in 0 .. n /\ 1 \in 0 .. n
    <3>1. n \in {1, 2}  BY <1>3
    <3> HIDE DEF n
    <3> QED  BY <3>1
  <2> QED  BY <1>3, <1>4, <2>1, <2>2, <2>3 DEF TypeOK, NoFile
<1>6. ReachedInv
  BY <1>4 DEF ReachedInv, HasFile
<1> QED  BY <1>5, <1>6 DEF IInv

\* Every name and every descriptor points to a file, in every state.
THEOREM NamesAndFiles == Spec => []TypeOK
<1>1. IInv => TypeOK  BY DEF IInv
<1> QED  BY <1>1, Initial, Inductive, PTL DEF Spec

\* A command gets the database only with the unique index, every column and no
\* duplicate run_id, however many processes migrate it at once or die.
THEOREM SchemaIsReady == Spec => []ReadyHasSchema
<1>1. IInv => ReadyHasSchema
  <2> SUFFICES ASSUME IInv, NEW p \in Proc, pc[p] = "ready"
               PROVE  Opened(p).facts = {"index", "column"}
    BY DEF ReadyHasSchema
  <2>1. Opened(p).facts \in SUBSET Fact  BY OpenedFile DEF HasFile, Content
  <2>2. "index" \in Opened(p).facts /\ "column" \in Opened(p).facts
        /\ "dups" \notin Opened(p).facts
    BY DEF IInv, ReachedInv, Has
  <2> QED  BY <2>1, <2>2 DEF Fact
<1> QED  BY <1>1, Initial, Inductive, PTL DEF Spec

\* deduplicateRunsMigration never changes a database: the index it looks for
\* has been created, or opening has failed, before it runs.
THEOREM DeduplicationIsIdle ==
  Spec => [][\A p \in Proc : Deduplicate(p) => UNCHANGED file]_vars
<1>1. IInv /\ [Next]_vars => [\A p \in Proc : Deduplicate(p) => UNCHANGED file]_vars
  BY DeduplicateStep
<1> QED  BY <1>1, Initial, Inductive, PTL DEF Spec

-----------------------------------------------------------------------------
(***************************************************************************)
(* Two processes never lose the history between them.                      *)
(*                                                                         *)
(* The old rows are at path or in a backup, except after a process has     *)
(* overwritten the backup of another one that died between its renames;    *)
(* then they are in the temporary file, and no process is left that would  *)
(* remove it.  A third process would be: it could still be migrating.      *)
(***************************************************************************)
TwoProcesses == \A p, q, r \in Proc : p = q \/ q = r \/ p = r

Migrating == {"removeTmp", "createTmp", "fill", "choose", "aside"}

Keeps(fs, f) == f # NoFile /\ LegacyRow \subseteq fs[f].rows
IsLegacy(fs, f) == f # NoFile /\ fs[f].kind = "json"
InBackup(fs, names_) == \E i \in BackupName : Keeps(fs, names_[i])

\* The temporary file is a database, and a legacy path is the first file.
KindInv ==
  /\ 1 <= Len(file)
  /\ Keeps(file, 1)
  /\ ~ IsLegacy(file, tmp)
  /\ IsLegacy(file, path) => path = 1

\* What a process that is about to rename relies on.
RenameInv(p) ==
  /\ pc[p] = "aside" =>
       \/ Keeps(file, path) \/ Keeps(file, tmp)
       \/ \E i \in BackupName : i # bak[p] /\ Keeps(file, backup[i])
  /\ pc[p] = "in" =>
       /\ ~ IsLegacy(file, path)
       /\ InBackup(file, backup) \/ Keeps(file, tmp)

\* What each process may be doing while the other one is at its renames: the
\* first to rename leaves no legacy file for the other, and the last to fill
\* leaves a full temporary file.
PairInv(p, q) ==
  /\ pc[p] \in Migrating /\ pc[q] \in Migrating => IsLegacy(file, path)
  /\ pc[p] = "in" => pc[q] # "in"
  /\ pc[p] = "in" /\ pc[q] \in Migrating => path = NoFile /\ InBackup(file, backup)
  /\ pc[p] = "fill" /\ pc[q] = "fill" => tmp \in {fd[p], fd[q]}
  /\ pc[p] \in {"choose", "aside", "in"} /\ pc[q] = "fill" => tmp = fd[q] \/ Keeps(file, tmp)
  /\ pc[p] \in {"choose", "aside", "in"} /\ pc[q] \in {"choose", "aside"} => Keeps(file, tmp)

Somewhere ==
  \/ Keeps(file, path)
  \/ InBackup(file, backup)
  \/ /\ Keeps(file, tmp)
     /\ ~ IsLegacy(file, path)
     /\ \A p \in Proc : pc[p] \notin Migrating

SurvivesInv ==
  /\ KindInv
  /\ \A p \in Proc : RenameInv(p)
  /\ \A p, q \in Proc : p # q => PairInv(p, q)
  /\ Somewhere

-----------------------------------------------------------------------------
\* No file loses a row or changes its kind.
Grow ==
  /\ Len(file) <= Len(file')
  /\ \A f \in 1 .. Len(file) : file[f].rows \subseteq file'[f].rows /\ file'[f].kind = file[f].kind

LEMMA GrowKeeps ==
  ASSUME IInv, Grow, NEW f \in 0 .. Len(file)
  PROVE  /\ Keeps(file, f) => Keeps(file', f)
         /\ IsLegacy(file', f) <=> IsLegacy(file, f)
<1>1. Len(file) \in Nat BY DEF IInv, TypeOK
<1>2. f = NoFile \/ f \in 1 .. Len(file) BY <1>1 DEF NoFile
<1> QED BY <1>2 DEF Keeps, IsLegacy, Grow

LEMMA SameGrows ==
  ASSUME IInv, file' = file
  PROVE  Grow
BY DEF IInv, TypeOK, Grow

LEMMA AppendGrows ==
  ASSUME IInv, NEW c \in Content, file' = Append(file, c)
  PROVE  Grow
<1>1. file \in Seq(Content) BY DEF IInv, TypeOK
<1> QED BY <1>1 DEF Grow

LEMMA ChangeGrows ==
  ASSUME IInv, NEW p \in Proc, pc[p] \in HasFile, NEW c \in Content, Change(p, c),
         Opened(p).rows \subseteq c.rows, c.kind = Opened(p).kind
  PROVE  Grow /\ file'[fd[p]] = c /\ fd[p] \in 1 .. Len(file)
<1>1. fd[p] \in 1 .. Len(file) /\ file \in Seq(Content) BY DEF IInv, ReachedInv, TypeOK
<1>2. file' = [file EXCEPT ![fd[p]] = c] BY DEF Change
<1>3. Len(file') = Len(file) /\ file'[fd[p]] = c
      /\ \A f \in 1 .. Len(file) : f # fd[p] => file'[f] = file[f]
  BY <1>1, <1>2
<1> QED BY <1>1, <1>3 DEF Grow, Opened

\* The process that moves is in every pair.
LEMMA SurvivesStep ==
  ASSUME TwoProcesses, NEW p \in Proc, KindInv', RenameInv(p)', Somewhere',
         \A q \in Proc \ {p} : RenameInv(q)' /\ PairInv(p, q)' /\ PairInv(q, p)'
  PROVE  SurvivesInv'
<1>1. ASSUME NEW q \in Proc, NEW r \in Proc, q # r PROVE PairInv(q, r)'
  BY <1>1 DEF TwoProcesses
<1> QED BY <1>1 DEF SurvivesInv

-----------------------------------------------------------------------------
\* A step that leaves the names alone, of a process that is not migrating then.
LEMMA QuietKeeps ==
  ASSUME TwoProcesses, IInv, SurvivesInv, Grow, NEW p \in Proc, UNCHANGED names, bak' = bak,
         NEW s \in State \ (Migrating \cup {"in"}), Goto(p, s),
         NEW f, fd' = [fd EXCEPT ![p] = f]
  PROVE  SurvivesInv'
<1>1. /\ pc'[p] = s
      /\ \A q \in Proc \ {p} : pc'[q] = pc[q] /\ fd'[q] = fd[q] /\ bak'[q] = bak[q]
      /\ path' = path /\ tmp' = tmp /\ backup' = backup
  BY DEF Goto, names, IInv, TypeOK
<1>2. {path, tmp} \subseteq 0 .. Len(file) /\ backup \in [BackupName -> 0 .. Len(file)]
      /\ Len(file) \in Nat /\ Len(file') \in Nat
  BY DEF IInv, TypeOK, Grow
<1>3. /\ Keeps(file, path) => Keeps(file', path')
      /\ Keeps(file, tmp) => Keeps(file', tmp')
      /\ \A i \in BackupName : Keeps(file, backup[i]) => Keeps(file', backup'[i])
      /\ IsLegacy(file', path') <=> IsLegacy(file, path)
      /\ IsLegacy(file', tmp') <=> IsLegacy(file, tmp)
  BY <1>1, <1>2, GrowKeeps
<1>4. InBackup(file, backup) => InBackup(file', backup') BY <1>3 DEF InBackup
<1>5. KindInv'
  <2>1. 1 <= Len(file) /\ Keeps(file, 1) BY DEF SurvivesInv, KindInv
  <2>2. 1 <= Len(file') /\ Keeps(file', 1) BY <1>2, <2>1, GrowKeeps DEF Grow
  <2> QED BY <1>1, <1>3, <2>2 DEF SurvivesInv, KindInv
<1>6. RenameInv(p)' BY <1>1 DEF RenameInv, Migrating
<1>7. Somewhere' BY <1>1, <1>3, <1>4 DEF SurvivesInv, Somewhere
<1>8. ASSUME NEW q \in Proc \ {p} PROVE RenameInv(q)' /\ PairInv(p, q)' /\ PairInv(q, p)'
  <2>1. RenameInv(q)' BY <1>1, <1>3, <1>4 DEF SurvivesInv, RenameInv
  <2>2. PairInv(p, q)' /\ PairInv(q, p)' BY <1>1 DEF PairInv, Migrating
  <2> QED BY <2>1, <2>2
<1> QED BY <1>5, <1>6, <1>7, <1>8, SurvivesStep

\* Reading the path, and what a command does with the database it has open.
LEMMA PrepareKeeps ==
  ASSUME TwoProcesses, IInv, SurvivesInv, NEW p \in Proc, Prepare(p), pc'[p] # "removeTmp"
  PROVE  SurvivesInv'
<1>1. /\ file' = file /\ UNCHANGED names /\ bak' = bak
      /\ \E s \in {"open", "header", "load", "removeTmp", "failed"} : Goto(p, s)
      /\ fd' = fd \/ fd' = [fd EXCEPT ![p] = NoFile]
  BY DEF Prepare, Stat, ReadHeader, LoadLegacy, Steady, Fail
<1>2. PICK s \in {"open", "header", "load", "removeTmp", "failed"} : Goto(p, s) BY <1>1
<1>3. s # "removeTmp" BY <1>2 DEF Goto, IInv, TypeOK
<1>4. s \in State \ (Migrating \cup {"in"}) BY <1>2, <1>3 DEF State, Migrating
<1>5. \E f : fd' = [fd EXCEPT ![p] = f] BY <1>1 DEF IInv, TypeOK
<1> QED BY <1>1, <1>2, <1>4, <1>5, SameGrows, QuietKeeps

\* A statement that changes the facts of a file keeps its rows.
LEMMA FactsGrow ==
  ASSUME IInv, NEW p \in Proc, pc[p] \in HasFile, NEW facts \in SUBSET Fact,
         Change(p, [Opened(p) EXCEPT !.facts = facts])
  PROVE  Grow
<1> DEFINE c == [Opened(p) EXCEPT !.facts = facts]
<1>1. c \in Content /\ Opened(p) \in Content BY OpenedFile
<1>2. c.rows = Opened(p).rows /\ c.kind = Opened(p).kind BY <1>1 DEF Content
<1> HIDE DEF c
<1>3. Change(p, c) BY DEF c
<1> QED BY <1>1, <1>2, <1>3, ChangeGrows

LEMMA RowsGrow ==
  ASSUME IInv, NEW p \in Proc, pc[p] \in HasFile, NEW more \in SUBSET (LegacyRow \cup Proc),
         Change(p, [Opened(p) EXCEPT !.rows = @ \cup more])
  PROVE  Grow /\ fd[p] \in 1 .. Len(file) /\ more \subseteq file'[fd[p]].rows
<1> DEFINE c == [Opened(p) EXCEPT !.rows = @ \cup more]
<1>1. Opened(p) \in Content BY OpenedFile
<1>2. Opened(p).rows \cup more \in SUBSET (LegacyRow \cup Proc) BY <1>1 DEF Content
<1>3. c \in Content BY <1>2, OpenedFile
<1>4. c.rows = Opened(p).rows \cup more /\ c.kind = Opened(p).kind BY <1>1 DEF Content
<1> HIDE DEF c
<1>5. Change(p, c) BY DEF c
<1> QED BY <1>3, <1>4, <1>5, ChangeGrows

\* No step takes a row out of a file or changes its kind.
LEMMA StatementGrows ==
  ASSUME IInv, NEW p \in Proc,
         InitSchema(p) \/ CheckColumn(p) \/ AlterTable(p) \/ Deduplicate(p) \/ WriteRow(p) \/ Restart(p)
  PROVE  Grow
<1>1. ASSUME pc[p] \in HasFile PROVE Opened(p).facts \in SUBSET Fact
  BY <1>1, OpenedFile DEF Content
<1>2. CASE InitSchema(p)
  <2>1. pc[p] \in HasFile BY <1>2 DEF InitSchema, HasFile
  <2>2. Opened(p).facts \cup {"index"} \in SUBSET Fact BY <1>1, <2>1 DEF Fact
  <2>3. file' = file \/ Change(p, [Opened(p) EXCEPT !.facts = Opened(p).facts \cup {"index"}])
    BY <1>2 DEF InitSchema
  <2> QED BY <2>1, <2>2, <2>3, SameGrows, FactsGrow
<1>3. CASE AlterTable(p)
  <2>1. pc[p] \in HasFile BY <1>3 DEF AlterTable, HasFile
  <2>2. Opened(p).facts \cup {"column"} \in SUBSET Fact BY <1>1, <2>1 DEF Fact
  <2>3. file' = file \/ Change(p, [Opened(p) EXCEPT !.facts = Opened(p).facts \cup {"column"}])
    BY <1>3 DEF AlterTable
  <2> QED BY <2>1, <2>2, <2>3, SameGrows, FactsGrow
<1>4. CASE Deduplicate(p) BY <1>4, DeduplicateStep, SameGrows
<1>5. CASE WriteRow(p)
  <2>1. pc[p] \in HasFile /\ Change(p, [Opened(p) EXCEPT !.rows = @ \cup {p}])
    BY <1>5 DEF WriteRow, HasFile
  <2>2. {p} \in SUBSET (LegacyRow \cup Proc) OBVIOUS
  <2> QED BY <2>1, <2>2, RowsGrow
<1>6. CASE CheckColumn(p) \/ Restart(p)
  BY <1>6, SameGrows DEF CheckColumn, Restart
<1> QED BY <1>2, <1>3, <1>4, <1>5, <1>6

LEMMA StatementKeeps ==
  ASSUME TwoProcesses, IInv, SurvivesInv, NEW p \in Proc,
         InitSchema(p) \/ CheckColumn(p) \/ AlterTable(p) \/ Deduplicate(p) \/ WriteRow(p) \/ Restart(p)
  PROVE  SurvivesInv'
<1>1. /\ UNCHANGED names /\ bak' = bak
      /\ \E s \in {"column", "dedup", "alter", "ready", "done", "stat", "failed"} : Goto(p, s)
      /\ fd' = fd \/ fd' = [fd EXCEPT ![p] = NoFile]
  BY DEF InitSchema, CheckColumn, AlterTable, Deduplicate, WriteRow, Restart, Steady, Fail
<1>2. PICK s \in {"column", "dedup", "alter", "ready", "done", "stat", "failed"} : Goto(p, s)
  BY <1>1
<1>3. s \in State \ (Migrating \cup {"in"}) BY <1>2 DEF State, Migrating
<1>4. \E f : fd' = [fd EXCEPT ![p] = f] BY <1>1 DEF IInv, TypeOK
<1>5. Grow BY StatementGrows
<1> QED BY <1>1, <1>2, <1>3, <1>4, <1>5, QuietKeeps

-----------------------------------------------------------------------------
(***************************************************************************)
(* The steps of a migration.                                               *)
(***************************************************************************)
\* What a step of p that changes no file says of the rest.
LEMMA NamesStep ==
  ASSUME IInv, NEW p \in Proc, file' = file, NEW s \in State, Goto(p, s)
  PROVE  /\ pc'[p] = s
         /\ \A q \in Proc \ {p} : pc'[q] = pc[q]
         /\ \A f : (Keeps(file', f) <=> Keeps(file, f)) /\ (IsLegacy(file', f) <=> IsLegacy(file, f))
         /\ backup' = backup => (InBackup(file', backup') <=> InBackup(file, backup))
BY DEF Goto, IInv, TypeOK

\* A process that has found the legacy file starts to migrate.
LEMMA LoadKeeps ==
  ASSUME TwoProcesses, IInv, SurvivesInv, NEW p \in Proc, Prepare(p), pc'[p] = "removeTmp"
  PROVE  SurvivesInv'
<1>1. /\ IsLegacy(file, path) /\ Goto(p, "removeTmp") /\ file' = file /\ UNCHANGED names
      /\ bak' = bak /\ fd' = fd
  BY DEF Prepare, Stat, ReadHeader, LoadLegacy, Steady, Fail, Goto, IInv, TypeOK, IsLegacy
<1>2. path' = path /\ tmp' = tmp /\ backup' = backup BY <1>1 DEF names
<1>3. "removeTmp" \in State BY DEF State
<1>4. /\ \A q \in Proc \ {p} : pc'[q] = pc[q]
      /\ \A f : (Keeps(file', f) <=> Keeps(file, f)) /\ (IsLegacy(file', f) <=> IsLegacy(file, f))
      /\ InBackup(file', backup') <=> InBackup(file, backup)
  BY <1>1, <1>2, <1>3, NamesStep
<1>5. Keeps(file, path) BY <1>1 DEF SurvivesInv, KindInv
<1>6. KindInv' BY <1>1, <1>2 DEF SurvivesInv, KindInv
<1>7. RenameInv(p)' BY DEF RenameInv
<1>8. Somewhere' BY <1>1, <1>2, <1>5 DEF Somewhere
<1>9. ASSUME NEW q \in Proc \ {p} PROVE RenameInv(q)' /\ PairInv(p, q)' /\ PairInv(q, p)'
  <2>1. RenameInv(q) BY DEF SurvivesInv
  <2>2. RenameInv(q)' BY <1>1, <1>2, <1>4, <2>1 DEF RenameInv
  <2>3. pc'[q] # "in" BY <1>1, <1>4, <2>1 DEF RenameInv
  <2> QED BY <1>1, <1>2, <2>2, <2>3 DEF PairInv
<1> QED BY <1>6, <1>7, <1>8, <1>9, SurvivesStep

\* While the other one migrates as well, the old file is at path; once it has
\* renamed that, it is in a backup.  The temporary file may go.
LEMMA DropKeeps ==
  ASSUME TwoProcesses, IInv, SurvivesInv, NEW p \in Proc, pc[p] \in Migrating,
         tmp' = NoFile, UNCHANGED <<file, path, backup, bak>>,
         NEW s \in {"createTmp", "failed"}, Goto(p, s),
         NEW f, fd' = [fd EXCEPT ![p] = f]
  PROVE  SurvivesInv'
<1>1. s \in State BY DEF State
<1>2. /\ pc'[p] = s
      /\ \A q \in Proc \ {p} : pc'[q] = pc[q]
      /\ \A g : (Keeps(file', g) <=> Keeps(file, g)) /\ (IsLegacy(file', g) <=> IsLegacy(file, g))
      /\ InBackup(file', backup') <=> InBackup(file, backup)
  BY <1>1, NamesStep
<1>3. KindInv' BY DEF SurvivesInv, KindInv, IsLegacy
<1>4. RenameInv(p)' BY <1>2 DEF RenameInv
<1>5. Somewhere' BY <1>2 DEF SurvivesInv, Somewhere
<1>6. ASSUME NEW q \in Proc \ {p} PROVE RenameInv(q)' /\ PairInv(p, q)' /\ PairInv(q, p)'
  <2>1. RenameInv(q) /\ PairInv(p, q) /\ PairInv(q, p) BY DEF SurvivesInv
  <2>2. pc[q] \in Migrating => IsLegacy(file, path) /\ Keeps(file, path)
    BY <2>1 DEF PairInv, SurvivesInv, KindInv
  <2>3. pc[q] = "in" => path = NoFile /\ InBackup(file, backup) BY <2>1 DEF PairInv
  <2>4. RenameInv(q)' BY <1>2, <2>1, <2>2, <2>3 DEF RenameInv, Migrating, IsLegacy
  <2>5. PairInv(p, q)' /\ PairInv(q, p)' BY <1>2, <2>2, <2>3 DEF PairInv, Migrating
  <2> QED BY <2>4, <2>5
<1> QED BY <1>3, <1>4, <1>5, <1>6, SurvivesStep

\* The last one to create the temporary file has it open.
LEMMA CreateKeeps ==
  ASSUME TwoProcesses, IInv, SurvivesInv, NEW p \in Proc, CreateTmp(p)
  PROVE  SurvivesInv'
<1>1. /\ pc[p] = "createTmp" /\ UNCHANGED <<path, backup, bak>>
      /\ pc'[p] = "fill" /\ fd'[p] = tmp'
      /\ \A q \in Proc \ {p} : pc'[q] = pc[q] /\ fd'[q] = fd[q]
  BY DEF CreateTmp, Steady, Goto, IInv, TypeOK
<1>2. /\ path \in 0 .. Len(file) /\ tmp \in 0 .. Len(file)
      /\ backup \in [BackupName -> 0 .. Len(file)] /\ Len(file) \in Nat /\ file \in Seq(Content)
  BY DEF IInv, TypeOK
<1>3. Grow /\ ~ IsLegacy(file', tmp') /\ (Keeps(file, tmp) => Keeps(file', tmp'))
  <2>1. CASE tmp = NoFile
    <3>1. file' = Append(file, Fresh) /\ tmp' = Len(file) + 1 BY <2>1 DEF CreateTmp
    <3>2. file'[tmp'].kind = "sqlite" BY <1>2, <3>1 DEF Fresh
    <3> QED BY <2>1, <3>1, <3>2, FreshFile, AppendGrows DEF IsLegacy, Keeps
  <2>2. CASE tmp # NoFile
    <3>1. file' = file /\ tmp' = tmp BY <2>2 DEF CreateTmp
    <3> QED BY <3>1, SameGrows DEF SurvivesInv, KindInv
  <2> QED BY <2>1, <2>2
<1>4. /\ Keeps(file, path) => Keeps(file', path')
      /\ IsLegacy(file', path') <=> IsLegacy(file, path)
      /\ \A i \in BackupName : Keeps(file, backup[i]) => Keeps(file', backup'[i])
      /\ InBackup(file, backup) => InBackup(file', backup')
  <2>1. \A i \in BackupName : Keeps(file, backup[i]) => Keeps(file', backup'[i])
    BY <1>1, <1>2, <1>3, GrowKeeps
  <2> QED BY <1>1, <1>2, <1>3, <2>1, GrowKeeps DEF InBackup
<1>5. KindInv'
  <2>1. 1 <= Len(file) /\ Keeps(file, 1) BY DEF SurvivesInv, KindInv
  <2>2. 1 <= Len(file') /\ Keeps(file', 1)
    <3>1. 1 \in 0 .. Len(file) BY <1>2, <2>1
    <3>2. Keeps(file', 1) BY <1>3, <2>1, <3>1, GrowKeeps
    <3>3. Len(file') \in Nat
      <4>1. file' = file \/ file' = Append(file, Fresh) BY DEF CreateTmp
      <4>2. file' \in Seq(Content) BY <1>2, <4>1, FreshFile
      <4> QED BY <4>2
    <3> QED BY <1>2, <1>3, <2>1, <3>2, <3>3 DEF Grow
  <2> QED BY <1>1, <1>3, <1>4, <2>2 DEF SurvivesInv, KindInv
<1>6. RenameInv(p)' BY <1>1 DEF RenameInv
<1>7. Somewhere' BY <1>1, <1>4 DEF SurvivesInv, Somewhere, Migrating
<1>8. ASSUME NEW q \in Proc \ {p} PROVE RenameInv(q)' /\ PairInv(p, q)' /\ PairInv(q, p)'
  <2>1. RenameInv(q) /\ PairInv(p, q) /\ PairInv(q, p) BY DEF SurvivesInv
  <2>2. RenameInv(q)' BY <1>1, <1>3, <1>4, <2>1 DEF RenameInv
  <2>3. PairInv(p, q)' /\ PairInv(q, p)' BY <1>1, <1>3, <1>4, <2>1 DEF PairInv, Migrating
  <2> QED BY <2>2, <2>3
<1> QED BY <1>5, <1>6, <1>7, <1>8, SurvivesStep

\* Whoever fills the temporary file that has the name leaves all rows there.
LEMMA FillKeeps ==
  ASSUME TwoProcesses, IInv, SurvivesInv, NEW p \in Proc, FillTmp(p)
  PROVE  SurvivesInv'
<1>1. pc[p] = "fill" /\ fd' = [fd EXCEPT ![p] = NoFile] /\ UNCHANGED <<path, backup, bak>>
      /\ pc[p] \in HasFile
  BY DEF FillTmp, Steady, HasFile
<1>2. CASE tmp' = NoFile /\ Goto(p, "failed") /\ UNCHANGED file
  BY <1>1, <1>2, DropKeeps DEF Migrating
<1>3. CASE /\ Change(p, [Opened(p) EXCEPT !.rows = @ \cup LegacyRow])
           /\ Goto(p, "choose") /\ UNCHANGED tmp
  <2>1. Grow /\ fd[p] \in 1 .. Len(file) /\ LegacyRow \subseteq file'[fd[p]].rows
    BY <1>1, <1>3, RowsGrow
  <2>2. Keeps(file', fd[p]) BY <2>1 DEF Keeps, NoFile
  <2>3. /\ pc'[p] = "choose"
        /\ \A q \in Proc \ {p} : pc'[q] = pc[q] /\ fd'[q] = fd[q]
    BY <1>1, <1>3 DEF Goto, IInv, TypeOK
  <2>4. /\ path \in 0 .. Len(file) /\ tmp \in 0 .. Len(file) /\ Len(file) \in Nat
        /\ backup \in [BackupName -> 0 .. Len(file)] /\ file \in Seq(Content)
    BY DEF IInv, TypeOK
  <2>5. \A i \in BackupName : Keeps(file, backup[i]) => Keeps(file', backup'[i])
    BY <1>1, <2>1, <2>4, GrowKeeps
  <2>6. /\ Keeps(file, path) => Keeps(file', path')
        /\ Keeps(file, tmp) => Keeps(file', tmp')
        /\ IsLegacy(file', path') <=> IsLegacy(file, path)
        /\ IsLegacy(file', tmp') <=> IsLegacy(file, tmp)
        /\ InBackup(file, backup) => InBackup(file', backup')
    BY <1>1, <1>3, <2>1, <2>4, <2>5, GrowKeeps DEF InBackup
  <2>7. KindInv'
    <3>1. 1 <= Len(file) /\ Keeps(file, 1) BY DEF SurvivesInv, KindInv
    <3>2. 1 \in 0 .. Len(file) BY <2>4, <3>1
    <3>3. Keeps(file', 1) BY <2>1, <3>1, <3>2, GrowKeeps
    <3>4. Len(file') = Len(file) BY <1>3, <2>4 DEF Change
    <3> QED BY <1>1, <1>3, <2>6, <3>1, <3>3, <3>4 DEF SurvivesInv, KindInv
  <2>8. RenameInv(p)' BY <2>3 DEF RenameInv
  <2>9. Somewhere' BY <1>1, <2>6 DEF SurvivesInv, Somewhere, Migrating
  <2>10. ASSUME NEW q \in Proc \ {p} PROVE RenameInv(q)' /\ PairInv(p, q)' /\ PairInv(q, p)'
    <3>1. RenameInv(q) /\ PairInv(p, q) /\ PairInv(q, p) BY DEF SurvivesInv
    <3>2. RenameInv(q)' BY <1>1, <2>3, <2>5, <2>6, <3>1 DEF RenameInv
    <3>3. PairInv(p, q)' BY <1>1, <1>3, <2>2, <2>3, <2>6, <3>1 DEF PairInv, Migrating
    <3>4. PairInv(q, p)' BY <1>1, <1>3, <2>2, <2>3, <2>6, <3>1 DEF PairInv, Migrating
    <3> QED BY <3>2, <3>3, <3>4
  <2> QED BY <2>7, <2>8, <2>9, <2>10, SurvivesStep
<1> QED BY <1>2, <1>3 DEF FillTmp

\* The name chosen is free, so the old rows are elsewhere.
LEMMA ChooseKeeps ==
  ASSUME TwoProcesses, IInv, SurvivesInv, NEW p \in Proc, ChooseBackup(p)
  PROVE  SurvivesInv'
<1>1. pc[p] = "choose" /\ UNCHANGED <<file, path, backup, fd, restarts>> BY DEF ChooseBackup
<1>2. fd' = [fd EXCEPT ![p] = fd[p]] BY <1>1 DEF IInv, TypeOK
<1>3. CASE tmp' = NoFile /\ Goto(p, "failed") /\ UNCHANGED bak
  BY <1>1, <1>2, <1>3, DropKeeps DEF Migrating
<1>4. CASE /\ \E i \in FreeBackup :
                (\A j \in FreeBackup : i <= j) /\ bak' = [bak EXCEPT ![p] = i]
           /\ Goto(p, "aside") /\ UNCHANGED tmp
  <2>1. PICK i \in FreeBackup : bak' = [bak EXCEPT ![p] = i] BY <1>4
  <2>2. /\ bak'[p] = i /\ i \in BackupName /\ backup[i] = NoFile
        /\ \A q \in Proc \ {p} : bak'[q] = bak[q]
    BY <2>1 DEF FreeBackup, IInv, TypeOK
  <2>3. "aside" \in State BY DEF State
  <2>4. /\ pc'[p] = "aside"
        /\ \A q \in Proc \ {p} : pc'[q] = pc[q]
        /\ \A f : (Keeps(file', f) <=> Keeps(file, f)) /\ (IsLegacy(file', f) <=> IsLegacy(file, f))
        /\ InBackup(file', backup') <=> InBackup(file, backup)
    BY <1>1, <1>4, <2>3, NamesStep
  <2>5. KindInv' BY <1>1, <1>4 DEF SurvivesInv, KindInv
  <2>6. RenameInv(p)'
    BY <1>1, <2>2, <2>4 DEF SurvivesInv, Somewhere, RenameInv, InBackup, Keeps, Migrating
  <2>7. Somewhere' BY <1>1, <2>4 DEF SurvivesInv, Somewhere, Migrating
  <2>8. ASSUME NEW q \in Proc \ {p} PROVE RenameInv(q)' /\ PairInv(p, q)' /\ PairInv(q, p)'
    <3>1. RenameInv(q) /\ PairInv(p, q) /\ PairInv(q, p) BY DEF SurvivesInv
    <3>2. RenameInv(q)' BY <1>1, <1>4, <2>2, <2>4, <3>1 DEF RenameInv
    <3>3. PairInv(p, q)' /\ PairInv(q, p)' BY <1>1, <1>4, <2>4, <3>1 DEF PairInv, Migrating
    <3> QED BY <3>2, <3>3
  <2> QED BY <2>5, <2>6, <2>7, <2>8, SurvivesStep
<1> QED BY <1>3, <1>4 DEF ChooseBackup

\* The first rename: the old file is in a backup then, or it was already
\* overwritten at path, and the rows are in the temporary file.
LEMMA AsideKeeps ==
  ASSUME TwoProcesses, IInv, SurvivesInv, NEW p \in Proc, RenameAside(p)
  PROVE  SurvivesInv'
<1>1. pc[p] = "aside" /\ UNCHANGED <<file, fd, bak, restarts>> BY DEF RenameAside, Steady
<1>2. fd' = [fd EXCEPT ![p] = fd[p]] BY <1>1 DEF IInv, TypeOK
<1>3. CASE path = NoFile
  <2>1. tmp' = NoFile /\ Goto(p, "failed") /\ UNCHANGED <<path, backup>>
    BY <1>3 DEF RenameAside
  <2> QED BY <1>1, <1>2, <2>1, DropKeeps DEF Migrating
<1>4. CASE path # NoFile
  <2>1. /\ backup' = [backup EXCEPT ![bak[p]] = path] /\ path' = NoFile
        /\ Goto(p, "in") /\ tmp' = tmp
    BY <1>4 DEF RenameAside
  <2>2. bak[p] \in BackupName /\ backup \in [BackupName -> 0 .. Len(file)] BY DEF IInv, TypeOK
  <2>3. backup'[bak[p]] = path /\ \A i \in BackupName : i # bak[p] => backup'[i] = backup[i]
    BY <2>1, <2>2
  <2>4. "in" \in State BY DEF State
  <2>5. /\ pc'[p] = "in"
        /\ \A q \in Proc \ {p} : pc'[q] = pc[q] /\ fd'[q] = fd[q] /\ bak'[q] = bak[q]
        /\ \A f : (Keeps(file', f) <=> Keeps(file, f)) /\ (IsLegacy(file', f) <=> IsLegacy(file, f))
    BY <1>1, <2>1, <2>4, NamesStep
  <2>6. /\ Keeps(file, path) => InBackup(file', backup')
        /\ (\E i \in BackupName : i # bak[p] /\ Keeps(file, backup[i])) => InBackup(file', backup')
    BY <2>2, <2>3, <2>5 DEF InBackup
  <2>7. InBackup(file', backup') \/ Keeps(file', tmp')
    BY <1>1, <2>1, <2>5, <2>6 DEF SurvivesInv, RenameInv
  <2>8. KindInv' BY <1>1, <2>1 DEF SurvivesInv, KindInv, IsLegacy
  <2>9. RenameInv(p)' BY <2>1, <2>5, <2>7 DEF RenameInv, IsLegacy
  <2>10. ASSUME NEW q \in Proc \ {p}
         PROVE  /\ RenameInv(q)' /\ PairInv(p, q)' /\ PairInv(q, p)'
                /\ pc'[q] \in Migrating => InBackup(file', backup')
    <3>1. PairInv(p, q) /\ PairInv(q, p) BY DEF SurvivesInv
    <3>2. pc[q] # "in" BY <1>1, <1>4, <3>1 DEF PairInv, Migrating
    <3>3. pc[q] \in Migrating => Keeps(file, path)
      BY <1>1, <3>1 DEF PairInv, Migrating, SurvivesInv, KindInv
    <3>4. RenameInv(q)' BY <1>1, <2>1, <2>5, <3>1, <3>2 DEF RenameInv, PairInv
    <3>5. PairInv(p, q)' BY <1>1, <2>1, <2>5, <2>6, <3>1, <3>2, <3>3 DEF PairInv, Migrating
    <3>6. PairInv(q, p)' BY <2>1, <2>5, <3>2 DEF PairInv, Migrating
    <3> QED BY <2>5, <2>6, <3>3, <3>4, <3>5, <3>6
  <2>11. Somewhere'
    <3>1. ASSUME ~ InBackup(file', backup'), NEW q \in Proc PROVE pc'[q] \notin Migrating
      BY <2>5, <2>10, <3>1 DEF Migrating
    <3> QED BY <2>1, <2>7, <3>1 DEF Somewhere, IsLegacy
  <2> QED BY <2>8, <2>9, <2>10, <2>11, SurvivesStep
<1> QED BY <1>3, <1>4

\* The second rename: whatever the path was, the rows are in a backup or come
\* with the temporary file.
LEMMA InKeeps ==
  ASSUME TwoProcesses, IInv, SurvivesInv, NEW p \in Proc, RenameIn(p)
  PROVE  SurvivesInv'
<1>1. pc[p] = "in" /\ UNCHANGED <<file, backup, fd, bak, restarts>> BY DEF RenameIn, Steady
<1>2. fd' = [fd EXCEPT ![p] = fd[p]] BY <1>1 DEF IInv, TypeOK
<1>3. CASE tmp = NoFile
  <2>1. Goto(p, "failed") /\ UNCHANGED names BY <1>1, <1>3 DEF RenameIn, names
  <2>2. "failed" \in State \ (Migrating \cup {"in"}) BY DEF State, Migrating
  <2> QED BY <1>1, <1>2, <2>1, <2>2, SameGrows, QuietKeeps
<1>4. CASE tmp # NoFile
  <2>1. path' = tmp /\ tmp' = NoFile /\ Goto(p, "open") BY <1>4 DEF RenameIn
  <2>2. "open" \in State BY DEF State
  <2>3. /\ pc'[p] = "open"
        /\ \A q \in Proc \ {p} : pc'[q] = pc[q]
        /\ \A f : (Keeps(file', f) <=> Keeps(file, f)) /\ (IsLegacy(file', f) <=> IsLegacy(file, f))
        /\ InBackup(file', backup') <=> InBackup(file, backup)
    BY <1>1, <2>1, <2>2, NamesStep
  <2>4. InBackup(file', backup') \/ Keeps(file', path')
    BY <1>1, <2>1, <2>3 DEF SurvivesInv, RenameInv
  <2>5. KindInv' BY <1>1, <2>1, <2>3 DEF SurvivesInv, KindInv, IsLegacy
  <2>6. RenameInv(p)' BY <2>3 DEF RenameInv
  <2>7. Somewhere' BY <2>4 DEF Somewhere
  <2>8. ASSUME NEW q \in Proc \ {p} PROVE RenameInv(q)' /\ PairInv(p, q)' /\ PairInv(q, p)'
    <3>1. PairInv(p, q) BY DEF SurvivesInv
    <3>2. RenameInv(q)' BY <1>1, <2>1, <2>3, <3>1 DEF RenameInv, PairInv
    <3>3. PairInv(p, q)' /\ PairInv(q, p)' BY <2>3 DEF PairInv, Migrating
    <3> QED BY <3>2, <3>3
  <2> QED BY <2>5, <2>6, <2>7, <2>8, SurvivesStep
<1> QED BY <1>3, <1>4

\* A new database at path takes the place of no file.
LEMMA OpenKeeps ==
  ASSUME TwoProcesses, IInv, SurvivesInv, NEW p \in Proc, OpenDb(p)
  PROVE  SurvivesInv'
<1>1. /\ pc[p] = "open" /\ UNCHANGED <<tmp, backup, bak>>
      /\ Goto(p, "schema") /\ fd' = [fd EXCEPT ![p] = path']
  BY DEF OpenDb, Steady
<1>2. CASE path # NoFile
  <2>1. file' = file /\ UNCHANGED names BY <1>1, <1>2 DEF OpenDb, names
  <2>2. "schema" \in State \ (Migrating \cup {"in"}) BY DEF State, Migrating
  <2> QED BY <1>1, <2>1, <2>2, SameGrows, QuietKeeps
<1>3. CASE path = NoFile
  <2> DEFINE c == [Fresh EXCEPT !.facts = {"column"}]
  <2>1. file' = Append(file, c) /\ path' = Len(file) + 1 BY <1>3 DEF OpenDb
  <2>2. c \in Content /\ c.kind = "sqlite" BY FreshFile DEF Fresh
  <2> HIDE DEF c
  <2>3. /\ tmp \in 0 .. Len(file) /\ Len(file) \in Nat /\ file \in Seq(Content)
        /\ backup \in [BackupName -> 0 .. Len(file)]
    BY DEF IInv, TypeOK
  <2>4. Grow BY <2>1, <2>2, AppendGrows
  <2>5. ~ IsLegacy(file', path') BY <2>1, <2>2, <2>3 DEF IsLegacy
  <2>6. \A i \in BackupName : Keeps(file, backup[i]) => Keeps(file', backup'[i])
    BY <1>1, <2>3, <2>4, GrowKeeps
  <2>7. /\ Keeps(file, tmp) => Keeps(file', tmp')
        /\ IsLegacy(file', tmp') <=> IsLegacy(file, tmp)
        /\ InBackup(file, backup) => InBackup(file', backup')
        /\ ~ Keeps(file, path)
    BY <1>1, <1>3, <2>3, <2>4, <2>6, GrowKeeps DEF InBackup, Keeps
  <2>8. /\ pc'[p] = "schema"
        /\ \A q \in Proc \ {p} : pc'[q] = pc[q] /\ bak'[q] = bak[q]
    BY <1>1 DEF Goto, IInv, TypeOK
  <2>9. KindInv'
    <3>1. 1 <= Len(file) /\ Keeps(file, 1) BY DEF SurvivesInv, KindInv
    <3>2. 1 \in 0 .. Len(file) BY <2>3, <3>1
    <3>3. Keeps(file', 1) BY <2>4, <3>1, <3>2, GrowKeeps
    <3>4. Len(file') = Len(file) + 1 BY <2>1, <2>2, <2>3
    <3> QED BY <2>3, <2>5, <2>7, <3>1, <3>3, <3>4 DEF SurvivesInv, KindInv
  <2>10. RenameInv(p)' BY <2>8 DEF RenameInv
  <2>11. Somewhere' BY <2>5, <2>7, <2>8 DEF SurvivesInv, Somewhere, Migrating
  <2>12. ASSUME NEW q \in Proc \ {p} PROVE RenameInv(q)' /\ PairInv(p, q)' /\ PairInv(q, p)'
    <3>1. RenameInv(q)' BY <2>5, <2>6, <2>7, <2>8 DEF SurvivesInv, RenameInv
    <3>2. PairInv(p, q)' /\ PairInv(q, p)' BY <2>8 DEF PairInv, Migrating
    <3> QED BY <3>1, <3>2
  <2> QED BY <2>9, <2>10, <2>11, <2>12, SurvivesStep
<1> QED BY <1>2, <1>3

-----------------------------------------------------------------------------
LEMMA SurvivesInitial ==
  ASSUME Init
  PROVE  SurvivesInv
<1>1. PICK c \in Old : file = <<c>> \/ file = <<c, EarlierBackup>> BY DEF Init
<1>2. file[1] = c /\ 1 <= Len(file)
  <2>1. CASE file = <<c>> BY <2>1
  <2>2. CASE file = <<c, EarlierBackup>> BY <2>2
  <2> QED BY <1>1, <2>1, <2>2
<1>3. Keeps(file, 1) /\ path = 1 /\ tmp = NoFile /\ \A p \in Proc : pc[p] = "stat"
  BY <1>1, <1>2 DEF Init, Keeps, Old, NoFile
<1>4. KindInv /\ Somewhere BY <1>2, <1>3 DEF KindInv, Somewhere, IsLegacy
<1>5. \A p \in Proc : RenameInv(p) BY <1>3 DEF RenameInv
<1>6. \A p, q \in Proc : PairInv(p, q) BY <1>3 DEF PairInv, Migrating
<1> QED BY <1>4, <1>5, <1>6 DEF SurvivesInv

LEMMA SurvivesPreserved ==
  TwoProcesses => (IInv /\ SurvivesInv /\ [Next]_vars => SurvivesInv')
<1> SUFFICES ASSUME TwoProcesses, IInv, SurvivesInv, [Next]_vars PROVE SurvivesInv'
  OBVIOUS
<1>1. ASSUME NEW p \in Proc, Prepare(p) PROVE SurvivesInv'
  BY <1>1, PrepareKeeps, LoadKeeps
<1>2. ASSUME NEW p \in Proc, Migrate(p) PROVE SurvivesInv'
  <2>1. ASSUME RemoveTmp(p) PROVE SurvivesInv'
    <3>1. /\ pc[p] \in Migrating /\ tmp' = NoFile /\ UNCHANGED <<file, path, backup, bak>>
          /\ Goto(p, "createTmp") /\ fd' = [fd EXCEPT ![p] = fd[p]]
      BY <2>1 DEF RemoveTmp, Steady, Migrating, IInv, TypeOK
    <3> QED BY <3>1, DropKeeps
  <2> QED BY <1>2, <2>1, CreateKeeps, FillKeeps, ChooseKeeps, AsideKeeps, InKeeps DEF Migrate
<1>3. ASSUME NEW p \in Proc, Connect(p) \/ WriteRow(p) \/ Restart(p) PROVE SurvivesInv'
  BY <1>3, OpenKeeps, StatementKeeps DEF Connect
<1>4. CASE UNCHANGED vars
  BY <1>4 DEF vars, names, SurvivesInv, KindInv, RenameInv, PairInv, Somewhere, InBackup, Keeps, IsLegacy
<1> QED BY <1>1, <1>2, <1>3, <1>4 DEF Next, Finished

\* Two processes that open the file at once, and die anywhere, lose no row of
\* the old history.
THEOREM TwoLoseNothing ==
  ASSUME TwoProcesses
  PROVE  Spec => []HistorySurvives
<1>1. IInv /\ SurvivesInv => HistorySurvives
  <2> SUFFICES ASSUME IInv, SurvivesInv PROVE HistorySurvives
    OBVIOUS
  <2>1. \/ Keeps(file, path) \/ Keeps(file, tmp)
        \/ \E i \in BackupName : Keeps(file, backup[i])
    BY DEF SurvivesInv, Somewhere, InBackup
  <2> QED BY <2>1 DEF Keeps, HistorySurvives, Linked
<1>2. IInv /\ SurvivesInv /\ [Next]_vars => (IInv /\ SurvivesInv)'
  BY Inductive, SurvivesPreserved
<1>3. Init => IInv /\ SurvivesInv BY Initial, SurvivesInitial
<1> QED BY <1>1, <1>2, <1>3, PTL DEF Spec

-----------------------------------------------------------------------------
(***************************************************************************)
(* One process keeps the backup that the README promises; a second one     *)
(* that has chosen the same name replaces it.                              *)
(***************************************************************************)
OneProcess == \A p, q \in Proc : p = q

\* The legacy file is at the path or in a backup, and no rename of the process
\* replaces a name that is taken.
KeptInv ==
  /\ 1 <= Len(file)
  /\ tmp # 1
  /\ file[1].kind = "json" => path = 1 \/ \E i \in BackupName : backup[i] = 1
  /\ \A p \in Proc : pc[p] = "aside" => backup[bak[p]] = NoFile
  /\ \A p \in Proc : pc[p] = "in" => path = NoFile

\* A step that moves neither the path nor a backup.
LEMMA QuietKeepsBackup ==
  ASSUME OneProcess, IInv, KeptInv, Grow, NEW p \in Proc, UNCHANGED <<path, backup>>, tmp' # 1,
         NEW s \in State \ {"aside", "in"}, Goto(p, s)
  PROVE  KeptInv'
<1>1. \A q \in Proc : pc'[q] = s BY DEF Goto, IInv, TypeOK, OneProcess
<1>2. 1 <= Len(file') /\ file'[1].kind = file[1].kind BY DEF KeptInv, Grow, IInv, TypeOK
<1> QED BY <1>1, <1>2 DEF KeptInv

LEMMA ChooseKeepsBackup ==
  ASSUME OneProcess, IInv, KeptInv, NEW p \in Proc, ChooseBackup(p)
  PROVE  KeptInv'
<1>1. file' = file /\ UNCHANGED <<path, backup>> /\ Grow BY SameGrows DEF ChooseBackup
<1>2. CASE /\ \E i \in FreeBackup :
                (\A j \in FreeBackup : i <= j) /\ bak' = [bak EXCEPT ![p] = i]
           /\ Goto(p, "aside") /\ UNCHANGED tmp
  <2>1. PICK i \in FreeBackup : bak' = [bak EXCEPT ![p] = i] BY <1>2
  <2>2. \A q \in Proc : pc'[q] = "aside" /\ bak'[q] = i
    BY <1>2, <2>1 DEF Goto, IInv, TypeOK, OneProcess
  <2> QED BY <1>1, <1>2, <2>2 DEF KeptInv, FreeBackup
<1>3. CASE tmp' = NoFile /\ Goto(p, "failed")
  BY <1>1, <1>3, QuietKeepsBackup DEF State, NoFile
<1> QED BY <1>2, <1>3 DEF ChooseBackup

LEMMA RenamesKeepBackup ==
  ASSUME OneProcess, IInv, KeptInv, NEW p \in Proc, RenameAside(p) \/ RenameIn(p)
  PROVE  KeptInv'
<1>1. file' = file /\ bak' = bak BY DEF RenameAside, RenameIn, Steady
<1>2. bak \in [Proc -> BackupName] /\ backup \in [BackupName -> 0 .. Len(file)]
  BY DEF IInv, TypeOK
<1>3. CASE RenameAside(p) /\ path = NoFile
  <2>1. tmp' = NoFile /\ Goto(p, "failed") /\ UNCHANGED <<path, backup>> BY <1>3 DEF RenameAside
  <2> QED BY <1>1, <2>1, SameGrows, QuietKeepsBackup DEF State, NoFile
<1>4. CASE RenameAside(p) /\ path # NoFile
  <2>1. /\ pc[p] = "aside" /\ backup' = [backup EXCEPT ![bak[p]] = path] /\ path' = NoFile
        /\ Goto(p, "in") /\ UNCHANGED tmp
    BY <1>4 DEF RenameAside
  <2>2. \A q \in Proc : pc'[q] = "in" BY <2>1 DEF Goto, IInv, TypeOK, OneProcess
  <2>3. /\ backup'[bak[p]] = path
        /\ \A i \in BackupName : backup[i] = 1 => backup'[i] = 1
    BY <1>2, <2>1 DEF KeptInv, NoFile
  <2>4. path = 1 => \E i \in BackupName : backup'[i] = 1 BY <1>2, <2>3
  <2> QED BY <1>1, <2>1, <2>2, <2>3, <2>4 DEF KeptInv
<1>5. CASE RenameIn(p) /\ tmp = NoFile
  <2>1. tmp' = tmp /\ Goto(p, "failed") /\ UNCHANGED <<path, backup>> BY <1>5 DEF RenameIn
  <2> QED BY <1>1, <1>5, <2>1, SameGrows, QuietKeepsBackup DEF State, NoFile
<1>6. CASE RenameIn(p) /\ tmp # NoFile
  <2>1. /\ pc[p] = "in" /\ path' = tmp /\ tmp' = NoFile /\ Goto(p, "open") /\ UNCHANGED backup
    BY <1>6 DEF RenameIn
  <2>2. \A q \in Proc : pc'[q] = "open" BY <2>1 DEF Goto, IInv, TypeOK, OneProcess
  <2>3. path = NoFile BY <2>1 DEF KeptInv
  <2> QED BY <1>1, <2>1, <2>2, <2>3 DEF KeptInv, NoFile
<1> QED BY <1>3, <1>4, <1>5, <1>6

LEMMA OpenKeepsBackup ==
  ASSUME OneProcess, IInv, KeptInv, NEW p \in Proc, OpenDb(p)
  PROVE  KeptInv'
<1>1. /\ UNCHANGED <<tmp, backup>> /\ Goto(p, "schema")
  BY DEF OpenDb
<1>2. \A q \in Proc : pc'[q] = "schema" BY <1>1 DEF Goto, IInv, TypeOK, OneProcess
<1>3. CASE path # NoFile
  <2>1. file' = file /\ path' = path BY <1>3 DEF OpenDb
  <2> QED BY <1>1, <1>2, <2>1 DEF KeptInv
<1>4. CASE path = NoFile
  <2> DEFINE c == [Fresh EXCEPT !.facts = {"column"}]
  <2>1. file' = Append(file, c) BY <1>4 DEF OpenDb
  <2>2. c \in Content BY FreshFile
  <2> HIDE DEF c
  <2>3. 1 <= Len(file') /\ file'[1] = file[1] BY <2>1, <2>2 DEF KeptInv, IInv, TypeOK
  <2> QED BY <1>1, <1>2, <1>4, <2>3 DEF KeptInv, NoFile
<1> QED BY <1>3, <1>4

\* The temporary file is a new one.
LEMMA BuildKeepsBackup ==
  ASSUME OneProcess, IInv, KeptInv, NEW p \in Proc, RemoveTmp(p) \/ CreateTmp(p) \/ FillTmp(p)
  PROVE  KeptInv'
<1>1. UNCHANGED <<path, backup>> BY DEF RemoveTmp, CreateTmp, FillTmp
<1>2. /\ \E s \in {"createTmp", "fill", "choose", "failed"} : Goto(p, s)
      /\ {"createTmp", "fill", "choose", "failed"} \subseteq State \ {"aside", "in"}
  BY DEF RemoveTmp, CreateTmp, FillTmp, State
<1>3. tmp' # 1 /\ Grow
  <2>1. CASE RemoveTmp(p) BY <2>1, SameGrows DEF RemoveTmp, NoFile
  <2>2. CASE CreateTmp(p)
    <3>1. tmp' # 1 BY <2>2 DEF CreateTmp, KeptInv, IInv, TypeOK
    <3>2. Grow BY <2>2, FreshFile, SameGrows, AppendGrows DEF CreateTmp
    <3> QED BY <3>1, <3>2
  <2>3. CASE FillTmp(p)
    <3>1. pc[p] \in HasFile /\ tmp' \in {tmp, NoFile}
          /\ (file' = file \/ Change(p, [Opened(p) EXCEPT !.rows = @ \cup LegacyRow]))
      BY <2>3 DEF FillTmp, HasFile
    <3>2. Grow BY <3>1, SameGrows, RowsGrow
    <3> QED BY <3>1, <3>2 DEF KeptInv, NoFile
  <2> QED BY <2>1, <2>2, <2>3
<1> QED BY <1>1, <1>2, <1>3, QuietKeepsBackup

\* Reading the path, and what a command does with the database it has open.
LEMMA CommandKeepsBackup ==
  ASSUME OneProcess, IInv, KeptInv, NEW p \in Proc,
         \/ Prepare(p)
         \/ InitSchema(p) \/ CheckColumn(p) \/ AlterTable(p) \/ Deduplicate(p) \/ WriteRow(p) \/ Restart(p)
  PROVE  KeptInv'
<1>1. UNCHANGED <<path, backup, tmp>>
  BY DEF Prepare, Stat, ReadHeader, LoadLegacy, InitSchema, CheckColumn, AlterTable, Deduplicate,
         WriteRow, Restart, names
<1> DEFINE Places == {"open", "header", "load", "removeTmp", "failed", "column", "dedup", "alter",
                      "ready", "done", "stat"}
<1>2. \E s \in Places : Goto(p, s)
  BY DEF Prepare, Stat, ReadHeader, LoadLegacy, InitSchema, CheckColumn, AlterTable, Deduplicate,
         WriteRow, Restart, Fail
<1>3. Places \subseteq State \ {"aside", "in"} BY DEF State
<1>4. Grow
  <2>1. Prepare(p) => file' = file BY DEF Prepare, Stat, ReadHeader, LoadLegacy
  <2> QED BY <2>1, SameGrows, StatementGrows
<1>5. tmp' # 1 BY <1>1 DEF KeptInv
<1> QED BY <1>1, <1>2, <1>3, <1>4, <1>5, QuietKeepsBackup

\* A process that is alone with the file, and may die anywhere, keeps the
\* legacy history: README.md:60-61 holds without concurrent commands.
THEOREM OneKeepsTheBackup ==
  ASSUME OneProcess
  PROVE  Spec => []LegacyFileKept
<1>1. Init => IInv /\ KeptInv
  <2>1. Init => 1 <= Len(file) /\ path = 1 /\ tmp # 1
    BY SurvivesInitial DEF Init, NoFile, SurvivesInv, KindInv
  <2>2. Init => \A p \in Proc : pc[p] \notin {"aside", "in"} BY DEF Init
  <2> QED BY <2>1, <2>2, Initial DEF KeptInv
<1>2. IInv /\ KeptInv /\ [Next]_vars => (IInv /\ KeptInv)'
  <2> SUFFICES ASSUME IInv, KeptInv, [Next]_vars PROVE KeptInv'
    BY Inductive
  <2>1. ASSUME NEW p \in Proc, Prepare(p) \/ Migrate(p) \/ Connect(p) \/ WriteRow(p) \/ Restart(p)
        PROVE  KeptInv'
    BY <2>1, CommandKeepsBackup, BuildKeepsBackup, ChooseKeepsBackup, RenamesKeepBackup,
       OpenKeepsBackup DEF Migrate, Connect
  <2>2. CASE UNCHANGED vars BY <2>2 DEF vars, names, KeptInv
  <2> QED BY <2>1, <2>2 DEF Next, Finished
<1>3. KeptInv => LegacyFileKept BY DEF KeptInv, LegacyFileKept, Linked, NoFile
<1> QED BY <1>1, <1>2, <1>3, PTL DEF Spec

-----------------------------------------------------------------------------
(***************************************************************************)
(* One process that does not die between its two renames opens nothing but *)
(* the old history: the window between them, in which the path is free, is *)
(* the only one.                                                           *)
(***************************************************************************)
DiesBetweenRenames == \E p \in Proc : pc[p] = "in" /\ pc'[p] = "stat"

Connected == {"schema", "column", "alter", "dedup", "ready"}
Renaming == {"choose", "aside", "in"}

\* The rows are at the path outside the window, in the temporary file from the
\* time it is filled, and in what the process has open as its database.
ShownAt(p) ==
  /\ pc[p] # "in" => Keeps(file, path)
  /\ pc[p] = "fill" => tmp = fd[p]
  /\ pc[p] \in Renaming => Keeps(file, tmp)
  /\ pc[p] \in Connected => Keeps(file, fd[p])

ShownInv == \A p \in Proc : ShownAt(p)

LEMMA RowsStay ==
  ASSUME IInv, Grow
  PROVE  /\ Keeps(file, path) => Keeps(file', path)
         /\ Keeps(file, tmp) => Keeps(file', tmp)
         /\ \A p \in Proc : Keeps(file, fd[p]) => Keeps(file', fd[p])
<1>1. path \in 0 .. Len(file) /\ tmp \in 0 .. Len(file) /\ fd \in [Proc -> 0 .. Len(file)]
  BY DEF IInv, TypeOK
<1> QED BY <1>1, GrowKeeps

\* A step outside the renames that leaves the path alone.
LEMMA QuietShows ==
  ASSUME OneProcess, IInv, ShownInv, Grow, NEW p \in Proc, pc[p] # "in", path' = path,
         NEW s \in State \ (Renaming \cup {"fill"}), Goto(p, s),
         s \in Connected => pc[p] \in Connected /\ fd'[p] = fd[p]
  PROVE  ShownInv'
<1>1. pc'[p] = s BY DEF Goto, IInv, TypeOK
<1>2. ShownAt(p) BY DEF ShownInv
<1>3. ShownAt(p)' BY <1>1, <1>2, RowsStay DEF ShownAt, Renaming
<1> QED BY <1>3 DEF ShownInv, OneProcess

\* Reading the path, and the statements of a command on its database.
LEMMA CommandShows ==
  ASSUME OneProcess, IInv, ShownInv, NEW p \in Proc, ~ DiesBetweenRenames,
         \/ Prepare(p)
         \/ InitSchema(p) \/ CheckColumn(p) \/ AlterTable(p) \/ Deduplicate(p) \/ WriteRow(p) \/ Restart(p)
  PROVE  ShownInv'
<1>1. path' = path
  BY DEF Prepare, Stat, ReadHeader, LoadLegacy, InitSchema, CheckColumn, AlterTable, Deduplicate,
         WriteRow, Restart, names
<1>2. Grow
  <2>1. Prepare(p) => file' = file BY DEF Prepare, Stat, ReadHeader, LoadLegacy
  <2> QED BY <2>1, SameGrows, StatementGrows
<1>3. pc[p] # "in"
  <2>1. CASE Restart(p)
    BY <2>1 DEF Restart, Goto, DiesBetweenRenames, IInv, TypeOK
  <2>2. CASE ~ Restart(p)
    BY <2>2 DEF Prepare, Stat, ReadHeader, LoadLegacy, InitSchema, CheckColumn, AlterTable,
                Deduplicate, WriteRow
  <2> QED BY <2>1, <2>2
<1> DEFINE Apart == {"open", "header", "load", "removeTmp", "failed", "done", "stat"}
<1>4. \/ \E s \in Apart : Goto(p, s)
      \/ /\ pc[p] \in Connected /\ fd' = fd
         /\ \E s \in Connected : Goto(p, s)
  <2>1. CASE Prepare(p) BY <2>1 DEF Prepare, Stat, ReadHeader, LoadLegacy, Fail
  <2>2. CASE InitSchema(p) BY <2>2 DEF InitSchema, Fail, Connected
  <2>3. CASE CheckColumn(p) BY <2>3 DEF CheckColumn, Connected
  <2>4. CASE AlterTable(p) BY <2>4 DEF AlterTable, Fail, Connected
  <2>5. CASE Deduplicate(p) BY <2>5 DEF Deduplicate, Connected
  <2>6. CASE WriteRow(p) \/ Restart(p) BY <2>6 DEF WriteRow, Restart
  <2> QED BY <2>1, <2>2, <2>3, <2>4, <2>5, <2>6
<1>5. Apart \cup Connected \subseteq State \ (Renaming \cup {"fill"}) /\ Apart \cap Connected = {}
  BY DEF State, Connected, Renaming
<1> HIDE DEF Apart
<1> QED BY <1>1, <1>2, <1>3, <1>4, <1>5, QuietShows

\* The temporary file is built beside the path.
LEMMA BuildShows ==
  ASSUME OneProcess, IInv, ShownInv, NEW p \in Proc, RemoveTmp(p) \/ CreateTmp(p) \/ FillTmp(p)
  PROVE  ShownInv'
<1>1. path' = path /\ pc[p] # "in" BY DEF RemoveTmp, CreateTmp, FillTmp
<1>2. ShownAt(p) /\ pc[p] \in State BY DEF ShownInv, IInv, TypeOK
<1>3. CASE RemoveTmp(p)
  <2>1. Goto(p, "createTmp") /\ Grow BY <1>3, SameGrows DEF RemoveTmp
  <2> QED BY <1>1, <2>1, QuietShows DEF State, Renaming, Connected
<1>4. CASE CreateTmp(p)
  <2>1. Grow BY <1>4, FreshFile, SameGrows, AppendGrows DEF CreateTmp
  <2>2. pc'[p] = "fill" /\ fd'[p] = tmp' BY <1>4 DEF CreateTmp, Goto, IInv, TypeOK
  <2>3. Keeps(file, path) BY <1>1, <1>2 DEF ShownAt
  <2>4. ShownAt(p)' BY <1>1, <2>1, <2>2, <2>3, RowsStay DEF ShownAt, Renaming, Connected
  <2> QED BY <2>4 DEF ShownInv, OneProcess
<1>5. CASE FillTmp(p) /\ Goto(p, "choose")
  <2>1. pc'[p] = "choose" BY <1>5 DEF Goto, IInv, TypeOK
  <2>2. /\ pc[p] = "fill" /\ tmp' = tmp
        /\ Change(p, [Opened(p) EXCEPT !.rows = @ \cup LegacyRow])
    BY <1>5, <2>1 DEF FillTmp, Goto, IInv, TypeOK
  <2>3. LegacyRow \in SUBSET (LegacyRow \cup Proc) OBVIOUS
  <2>4. Grow /\ fd[p] \in 1 .. Len(file) /\ LegacyRow \subseteq file'[fd[p]].rows
    BY <2>2, <2>3, RowsGrow DEF HasFile
  <2>5. tmp = fd[p] /\ Keeps(file, path) BY <1>2, <2>2 DEF ShownAt
  <2>6. Keeps(file', tmp') BY <2>2, <2>4, <2>5 DEF Keeps, NoFile
  <2>7. ShownAt(p)' BY <1>1, <2>1, <2>4, <2>5, <2>6, RowsStay DEF ShownAt, Connected
  <2> QED BY <2>7 DEF ShownInv, OneProcess
<1>6. CASE FillTmp(p) /\ ~ Goto(p, "choose")
  <2>1. Goto(p, "failed") /\ file' = file BY <1>6 DEF FillTmp
  <2> QED BY <1>1, <2>1, SameGrows, QuietShows DEF State, Renaming, Connected
<1> QED BY <1>3, <1>4, <1>5, <1>6

\* The renames, and the opening of what is at the path.
LEMMA RenameShows ==
  ASSUME OneProcess, IInv, ShownInv, NEW p \in Proc,
         ChooseBackup(p) \/ RenameAside(p) \/ RenameIn(p) \/ OpenDb(p)
  PROVE  ShownInv'
<1> USE DEF Goto
<1>1. ShownAt(p) /\ pc \in [Proc -> State] /\ fd \in [Proc -> 0 .. Len(file)]
  BY DEF ShownInv, IInv, TypeOK
<1>2. CASE ChooseBackup(p)
  <2>1. /\ pc[p] = "choose" /\ UNCHANGED <<file, path>>
        /\ pc'[p] = "failed" \/ (pc'[p] = "aside" /\ tmp' = tmp)
    BY <1>1, <1>2 DEF ChooseBackup
  <2>2. ShownAt(p)' BY <1>1, <2>1 DEF ShownAt, Renaming, Connected
  <2> QED BY <2>2 DEF ShownInv, OneProcess
<1>3. CASE RenameAside(p)
  <2>1. pc[p] = "aside" /\ path # NoFile BY <1>1, <1>3 DEF RenameAside, ShownAt, Keeps
  <2>2. pc'[p] = "in" /\ UNCHANGED <<file, tmp>> BY <1>1, <1>3, <2>1 DEF RenameAside
  <2>3. ShownAt(p)' BY <1>1, <2>1, <2>2 DEF ShownAt, Renaming, Connected
  <2> QED BY <2>3 DEF ShownInv, OneProcess
<1>4. CASE RenameIn(p)
  <2>1. pc[p] = "in" /\ Keeps(file, tmp) BY <1>1, <1>4 DEF RenameIn, ShownAt, Renaming
  <2>2. pc'[p] = "open" /\ file' = file /\ path' = tmp
    BY <1>1, <1>4, <2>1 DEF RenameIn, Keeps
  <2>3. ShownAt(p)' BY <2>1, <2>2 DEF ShownAt, Renaming, Connected
  <2> QED BY <2>3 DEF ShownInv, OneProcess
<1>5. CASE OpenDb(p)
  <2>1. Keeps(file, path) BY <1>1, <1>5 DEF OpenDb, ShownAt
  <2>2. pc'[p] = "schema" /\ UNCHANGED <<file, path>> /\ fd'[p] = path
    BY <1>1, <1>5, <2>1 DEF OpenDb, Keeps
  <2>3. ShownAt(p)' BY <2>1, <2>2 DEF ShownAt, Renaming
  <2> QED BY <2>3 DEF ShownInv, OneProcess
<1> QED BY <1>2, <1>3, <1>4, <1>5

\* However often the process dies elsewhere and is run again, a command that
\* opens the path sees the old history (README.md:60).
THEOREM OneShowsHistory ==
  ASSUME OneProcess
  PROVE  Spec /\ [][~ DiesBetweenRenames]_vars => []OpenShowsHistory
<1>1. Init => IInv /\ ShownInv
  <2>1. Init => Keeps(file, path)
    BY SurvivesInitial DEF Init, SurvivesInv, KindInv
  <2>2. Init => \A p \in Proc : pc[p] = "stat" BY DEF Init
  <2> QED BY <2>1, <2>2, Initial DEF ShownInv, ShownAt, Renaming, Connected
<1>2. IInv /\ ShownInv /\ [Next]_vars /\ [~ DiesBetweenRenames]_vars => (IInv /\ ShownInv)'
  <2> SUFFICES ASSUME IInv, ShownInv, [Next]_vars, [~ DiesBetweenRenames]_vars
               PROVE  ShownInv'
    BY Inductive
  <2>1. CASE UNCHANGED vars BY <2>1 DEF vars, names, ShownInv, ShownAt, Keeps
  <2>2. ASSUME NEW p \in Proc, ~ DiesBetweenRenames,
               Prepare(p) \/ Migrate(p) \/ Connect(p) \/ WriteRow(p) \/ Restart(p)
        PROVE  ShownInv'
    BY <2>2, CommandShows, BuildShows, RenameShows DEF Migrate, Connect
  <2> QED BY <2>1, <2>2 DEF Next, Finished
<1>3. ShownInv => OpenShowsHistory
  BY DEF ShownInv, ShownAt, Connected, Keeps, OpenShowsHistory, Opened
<1> QED BY <1>1, <1>2, <1>3, PTL DEF Spec

-----------------------------------------------------------------------------
(***************************************************************************)
(* Opening a history that has no duplicates fails only because of another  *)
(* process, or for want of a backup name.                                  *)
(***************************************************************************)
NoDups == \A f \in 1 .. Len(file) : "dups" \notin file[f].facts

\* What each step of one process has found or made for the next.
AloneAt(p) ==
  /\ pc[p] # "failed"
  /\ pc[p] = "header" => path # NoFile
  /\ pc[p] \in {"load"} \cup Migrating => IsLegacy(file, path)
  /\ pc[p] = "createTmp" => tmp = NoFile
  /\ pc[p] = "fill" => tmp = fd[p] /\ Opened(p).rows \cap LegacyRow = {}
  /\ pc[p] \in Renaming => tmp # NoFile
  /\ pc[p] = "alter" => ~ Has(p, "column")

\* The legacy file is renamed once, so one spare name is enough.
AloneInv ==
  /\ NoDups
  /\ IsLegacy(file, path) => FreeBackup # {}
  /\ ~ IsLegacy(file, tmp)
  /\ \A p \in Proc : AloneAt(p)

LEMMA ChangeBringsNoDups ==
  ASSUME IInv, NoDups, NEW p \in Proc, pc[p] \in HasFile, NEW c \in Content, Change(p, c),
         "dups" \notin c.facts
  PROVE  NoDups'
<1>1. fd[p] \in 1 .. Len(file) /\ file \in Seq(Content) BY DEF IInv, ReachedInv, TypeOK
<1>2. file' = [file EXCEPT ![fd[p]] = c] BY DEF Change
<1> QED BY <1>1, <1>2 DEF NoDups

LEMMA AppendBringsNoDups ==
  ASSUME IInv, NoDups, NEW c \in Content, "dups" \notin c.facts, file' = Append(file, c)
  PROVE  NoDups'
<1>1. file \in Seq(Content) BY DEF IInv, TypeOK
<1> QED BY <1>1 DEF NoDups

\* A legacy file stays legacy, and what is none does not become one.
LEMMA LegacyStays ==
  ASSUME IInv, Grow
  PROVE  /\ IsLegacy(file', path) <=> IsLegacy(file, path)
         /\ IsLegacy(file', tmp) <=> IsLegacy(file, tmp)
<1>1. path \in 0 .. Len(file) /\ tmp \in 0 .. Len(file) BY DEF IInv, TypeOK
<1> QED BY <1>1, GrowKeeps

LEMMA AloneStep ==
  ASSUME OneProcess, NEW p \in Proc, AloneAt(p)', NoDups',
         IsLegacy(file, path)' => FreeBackup' # {}, ~ IsLegacy(file, tmp)'
  PROVE  AloneInv'
BY DEF AloneInv, OneProcess

\* Reading the path, and the statements of a command on its database.
LEMMA CommandAlone ==
  ASSUME OneProcess, IInv, AloneInv, NEW p \in Proc,
         \/ Prepare(p)
         \/ InitSchema(p) \/ CheckColumn(p) \/ AlterTable(p) \/ Deduplicate(p) \/ WriteRow(p) \/ Restart(p)
  PROVE  AloneInv'
<1>1. UNCHANGED names
  BY DEF Prepare, Stat, ReadHeader, LoadLegacy, InitSchema, CheckColumn, AlterTable, Deduplicate,
         WriteRow, Restart, names
<1>2. Grow
  <2>1. Prepare(p) => file' = file BY DEF Prepare, Stat, ReadHeader, LoadLegacy
  <2> QED BY <2>1, SameGrows, StatementGrows
<1>3. IsLegacy(file, path)' <=> IsLegacy(file, path) BY <1>1, <1>2, LegacyStays DEF names
<1>4. ~ IsLegacy(file, tmp)' BY <1>1, <1>2, LegacyStays DEF names, AloneInv
<1>5. IsLegacy(file, path)' => FreeBackup' # {}
  BY <1>1, <1>3 DEF names, FreeBackup, AloneInv
<1>6. AloneAt(p) /\ NoDups /\ pc \in [Proc -> State] BY DEF AloneInv, IInv, TypeOK
<1>7. pc[p] \in HasFile => Opened(p) \in Content /\ fd[p] \in 1 .. Len(file) /\ ~ Has(p, "dups")
  BY <1>6, OpenedFile DEF NoDups, Has, Opened, IInv, ReachedInv
<1>8. NoDups'
  <2>1. CASE Prepare(p) \/ CheckColumn(p) \/ Deduplicate(p) \/ Restart(p)
    <3>1. file' = file
      BY <2>1, DeduplicateStep DEF Prepare, Stat, ReadHeader, LoadLegacy, CheckColumn, Restart
    <3> QED BY <1>6, <3>1 DEF NoDups
  <2>2. CASE InitSchema(p) \/ AlterTable(p)
    <3>1. pc[p] \in HasFile BY <2>2 DEF InitSchema, AlterTable, HasFile
    <3>2. CASE file' = file BY <1>6, <3>2 DEF NoDups
    <3>3. CASE file' # file
      <4>1. PICK fact \in {"index", "column"} :
              Change(p, [Opened(p) EXCEPT !.facts = @ \cup {fact}])
        BY <2>2, <3>3 DEF InitSchema, AlterTable
      <4> DEFINE c == [Opened(p) EXCEPT !.facts = @ \cup {fact}]
      <4>2. Opened(p).facts \cup {fact} \in SUBSET Fact BY <1>7, <3>1 DEF Content, Fact
      <4>3. c \in Content BY <3>1, <4>2, OpenedFile
      <4>4. "dups" \notin c.facts BY <1>7, <3>1 DEF Content, Has
      <4> HIDE DEF c
      <4>5. Change(p, c) BY <4>1 DEF c
      <4> QED BY <1>6, <3>1, <4>3, <4>4, <4>5, ChangeBringsNoDups
    <3> QED BY <3>2, <3>3
  <2>3. CASE WriteRow(p)
    <3> DEFINE c == [Opened(p) EXCEPT !.rows = @ \cup {p}]
    <3>1. pc[p] \in HasFile /\ Change(p, c) BY <2>3 DEF WriteRow, HasFile
    <3>2. Opened(p).rows \cup {p} \in SUBSET (LegacyRow \cup Proc) BY <1>7, <3>1 DEF Content
    <3>3. c \in Content BY <3>1, <3>2, OpenedFile
    <3>4. "dups" \notin c.facts BY <1>7, <3>1 DEF Content, Has
    <3> HIDE DEF c
    <3> QED BY <1>6, <3>1, <3>3, <3>4, ChangeBringsNoDups
  <2> QED BY <2>1, <2>2, <2>3
<1> DEFINE Free == {"stat", "open", "column", "dedup", "ready", "done"}
<1>9. \/ pc'[p] \in Free
      \/ pc'[p] = "header" /\ path # NoFile
      \/ pc'[p] \in {"load", "removeTmp"} /\ IsLegacy(file, path)
      \/ pc'[p] = "alter" /\ ~ Has(p, "column")'
  <2> USE DEF Goto
  <2>1. CASE Stat(p) BY <1>6, <2>1 DEF Stat
  <2>2. CASE ReadHeader(p)
    <3>1. path # NoFile BY <1>6, <2>2 DEF ReadHeader, AloneAt
    <3> QED BY <1>6, <2>2, <3>1 DEF ReadHeader, IsLegacy
  <2>3. CASE LoadLegacy(p)
    <3>1. IsLegacy(file, path) BY <1>6, <2>3 DEF LoadLegacy, AloneAt
    <3> QED BY <1>6, <2>3, <3>1 DEF LoadLegacy, IsLegacy
  <2>4. CASE InitSchema(p) BY <1>6, <1>7, <2>4 DEF InitSchema, HasFile
  <2>5. CASE CheckColumn(p) BY <1>6, <2>5 DEF CheckColumn, Has, Opened
  <2>6. CASE AlterTable(p) BY <1>6, <2>6 DEF AlterTable, AloneAt
  <2>7. CASE Deduplicate(p) BY <1>6, <2>7 DEF Deduplicate
  <2>8. CASE WriteRow(p) \/ Restart(p) BY <1>6, <2>8 DEF WriteRow, Restart
  <2> QED BY <2>1, <2>2, <2>3, <2>4, <2>5, <2>6, <2>7, <2>8 DEF Prepare
<1>10. AloneAt(p)' BY <1>1, <1>3, <1>9 DEF AloneAt, Migrating, Renaming, names
<1> QED BY <1>4, <1>5, <1>8, <1>10, AloneStep

\* The temporary file is this process's own, and a new one.
LEMMA BuildAlone ==
  ASSUME OneProcess, IInv, AloneInv, NEW p \in Proc, RemoveTmp(p) \/ CreateTmp(p) \/ FillTmp(p)
  PROVE  AloneInv'
<1>1. UNCHANGED <<path, backup>> BY DEF RemoveTmp, CreateTmp, FillTmp
<1>2. /\ AloneAt(p) /\ NoDups /\ FreeBackup # {} /\ IsLegacy(file, path)
      /\ pc \in [Proc -> State] /\ file \in Seq(Content) /\ fd \in [Proc -> 0 .. Len(file)]
  BY DEF AloneInv, IInv, TypeOK, RemoveTmp, CreateTmp, FillTmp, AloneAt, Migrating
<1>3. FreeBackup' # {} BY <1>1, <1>2 DEF FreeBackup
<1>4. CASE RemoveTmp(p)
  <2>1. pc'[p] = "createTmp" /\ tmp' = NoFile /\ file' = file
    BY <1>2, <1>4 DEF RemoveTmp, Goto
  <2>2. AloneAt(p)' BY <1>1, <1>2, <2>1 DEF AloneAt, Renaming, IsLegacy
  <2>3. NoDups' /\ ~ IsLegacy(file, tmp)' BY <1>2, <2>1 DEF NoDups, IsLegacy
  <2> QED BY <1>3, <2>2, <2>3, AloneStep
<1>5. CASE CreateTmp(p)
  <2>1. tmp = NoFile BY <1>2, <1>5 DEF CreateTmp, AloneAt
  <2>2. /\ pc'[p] = "fill" /\ file' = Append(file, Fresh)
        /\ tmp' = Len(file) + 1 /\ fd'[p] = tmp'
    BY <1>2, <1>5, <2>1 DEF CreateTmp, Goto
  <2>3. file'[tmp'] = Fresh BY <1>2, <2>2
  <2>4. NoDups' BY <1>2, <2>2, FreshFile, AppendBringsNoDups DEF Fresh
  <2>5. Grow BY <2>2, FreshFile, AppendGrows
  <2>6. IsLegacy(file, path)' BY <1>1, <1>2, <2>5, LegacyStays
  <2>7. ~ IsLegacy(file, tmp)' BY <2>3 DEF IsLegacy, Fresh
  <2>8. Opened(p)'.rows = {} BY <2>2, <2>3 DEF Opened, Fresh
  <2>9. AloneAt(p)' BY <2>2, <2>6, <2>8 DEF AloneAt, Renaming
  <2> QED BY <1>3, <2>4, <2>7, <2>9, AloneStep
<1>6. CASE FillTmp(p)
  <2>1. /\ pc[p] = "fill" /\ pc[p] \in HasFile /\ tmp = fd[p]
        /\ Opened(p).rows \cap LegacyRow = {} /\ Opened(p) \in Content
    BY <1>2, <1>6, OpenedFile DEF FillTmp, HasFile, AloneAt
  <2>2. fd[p] \in 1 .. Len(file) BY <2>1 DEF IInv, ReachedInv
  <2>3. 1 \in 1 .. Len(file) BY <2>2
  <2>4. "dups" \notin file[1].facts BY <1>2, <2>3 DEF NoDups
  <2>5. ~ Contended(p) BY <2>1 DEF Contended, OneProcess
  <2> DEFINE c == [Opened(p) EXCEPT !.rows = @ \cup LegacyRow]
  <2>6. Change(p, c) /\ pc'[p] = "choose" /\ tmp' = tmp
    BY <1>2, <1>6, <2>1, <2>4, <2>5 DEF FillTmp, Goto
  <2>7. LegacyRow \in SUBSET (LegacyRow \cup Proc) OBVIOUS
  <2>8. Grow BY <2>1, <2>6, <2>7, RowsGrow
  <2>9. Opened(p).rows \cup LegacyRow \in SUBSET (LegacyRow \cup Proc) BY <2>1 DEF Content
  <2>10. c \in Content BY <2>1, <2>9, OpenedFile
  <2>11. "dups" \notin c.facts BY <1>2, <2>1, <2>2 DEF NoDups, Opened, Content
  <2> HIDE DEF c
  <2>12. NoDups' BY <1>2, <2>1, <2>6, <2>10, <2>11, ChangeBringsNoDups
  <2>13. IsLegacy(file, path)' BY <1>1, <1>2, <2>8, LegacyStays
  <2>14. ~ IsLegacy(file, tmp)' BY <2>6, <2>8, LegacyStays DEF AloneInv
  <2>15. AloneAt(p)' BY <2>1, <2>2, <2>6, <2>13 DEF AloneAt, NoFile
  <2> QED BY <1>3, <2>12, <2>14, <2>15, AloneStep
<1> QED BY <1>4, <1>5, <1>6

\* The renames move files that are there; opening finds one or creates one.
LEMMA RenameAlone ==
  ASSUME OneProcess, IInv, AloneInv, NEW p \in Proc,
         ChooseBackup(p) \/ RenameAside(p) \/ RenameIn(p) \/ OpenDb(p)
  PROVE  AloneInv'
<1> USE DEF Goto
<1>1. AloneAt(p) /\ NoDups /\ ~ IsLegacy(file, tmp) /\ pc \in [Proc -> State]
  BY DEF AloneInv, IInv, TypeOK
<1>2. CASE ChooseBackup(p)
  <2>1. pc[p] = "choose" /\ IsLegacy(file, path) /\ FreeBackup # {}
    BY <1>1, <1>2 DEF ChooseBackup, AloneAt, Migrating, AloneInv
  <2>2. pc'[p] = "aside" /\ UNCHANGED <<file, path, tmp, backup>>
    BY <1>1, <1>2, <2>1 DEF ChooseBackup
  <2>3. AloneAt(p)' BY <1>1, <2>1, <2>2 DEF AloneAt, Renaming
  <2>4. NoDups' /\ ~ IsLegacy(file, tmp)' /\ FreeBackup' # {}
    BY <1>1, <2>1, <2>2 DEF NoDups, FreeBackup
  <2> QED BY <2>3, <2>4, AloneStep
<1>3. CASE RenameAside(p)
  <2>1. pc[p] = "aside" /\ path # NoFile /\ tmp # NoFile
    BY <1>1, <1>3 DEF RenameAside, AloneAt, Migrating, Renaming, IsLegacy
  <2>2. pc'[p] = "in" /\ UNCHANGED <<file, tmp>> /\ path' = NoFile
    BY <1>1, <1>3, <2>1 DEF RenameAside
  <2>3. AloneAt(p)' BY <2>1, <2>2 DEF AloneAt, Migrating
  <2>4. NoDups' /\ ~ IsLegacy(file, tmp)' /\ ~ IsLegacy(file, path)'
    BY <1>1, <2>2 DEF NoDups, IsLegacy
  <2> QED BY <2>3, <2>4, AloneStep
<1>4. CASE RenameIn(p)
  <2>1. pc[p] = "in" /\ tmp # NoFile BY <1>1, <1>4 DEF RenameIn, AloneAt, Renaming
  <2>2. pc'[p] = "open" /\ file' = file /\ path' = tmp /\ tmp' = NoFile
    BY <1>1, <1>4, <2>1 DEF RenameIn
  <2>3. AloneAt(p)' BY <2>2 DEF AloneAt, Migrating, Renaming
  <2>4. NoDups' /\ ~ IsLegacy(file, tmp)' /\ ~ IsLegacy(file, path)'
    BY <1>1, <2>2 DEF NoDups, IsLegacy
  <2> QED BY <2>3, <2>4, AloneStep
<1>5. CASE OpenDb(p)
  <2>1. pc'[p] = "schema" /\ UNCHANGED <<tmp, backup>> BY <1>1, <1>5 DEF OpenDb
  <2>2. AloneAt(p)' BY <2>1 DEF AloneAt, Migrating, Renaming
  <2>3. CASE path # NoFile
    <3>1. UNCHANGED <<file, path>> BY <1>5, <2>3 DEF OpenDb
    <3>2. /\ NoDups' /\ ~ IsLegacy(file, tmp)'
          /\ IsLegacy(file, path)' => FreeBackup' # {}
      BY <1>1, <2>1, <3>1 DEF NoDups, FreeBackup, AloneInv
    <3> QED BY <2>2, <3>2, AloneStep
  <2>4. CASE path = NoFile
    <3> DEFINE c == [Fresh EXCEPT !.facts = {"column"}]
    <3>1. file' = Append(file, c) /\ path' = Len(file) + 1 BY <1>5, <2>4 DEF OpenDb
    <3>2. c \in Content /\ "dups" \notin c.facts /\ c.kind = "sqlite"
      BY FreshFile DEF Fresh
    <3> HIDE DEF c
    <3>3. NoDups' BY <1>1, <3>1, <3>2, AppendBringsNoDups
    <3>4. Grow BY <3>1, <3>2, AppendGrows
    <3>5. ~ IsLegacy(file, tmp)' BY <1>1, <2>1, <3>4, LegacyStays
    <3>6. ~ IsLegacy(file, path)'
      BY <3>1, <3>2 DEF IsLegacy, IInv, TypeOK
    <3> QED BY <2>2, <3>3, <3>5, <3>6, AloneStep
  <2> QED BY <2>3, <2>4
<1> QED BY <1>2, <1>3, <1>4, <1>5

\* A history without duplicates always opens for a process alone with it, if it
\* dies anywhere, in the middle of the migration too, and is run again: what
\* the deduplication should have repaired is the only obstacle on the disk.
THEOREM OneOpens ==
  ASSUME OneProcess, MaxBackup >= 2
  PROVE  Spec /\ "dups" \notin file[1].facts => [](\A p \in Proc : pc[p] # "failed")
<1>1. Init /\ "dups" \notin file[1].facts => IInv /\ AloneInv
  <2> SUFFICES ASSUME Init, "dups" \notin file[1].facts PROVE AloneInv
    BY Initial
  <2>1. NoDups BY DEF Init, NoDups, EarlierBackup
  <2>2. 2 \in FreeBackup
    BY BoundAssumption DEF Init, FreeBackup, BackupName, NoFile
  <2>3. \A p \in Proc : AloneAt(p)
    BY DEF Init, AloneAt, Migrating, Renaming
  <2>4. ~ IsLegacy(file, tmp) BY DEF Init, IsLegacy
  <2> QED BY <2>1, <2>2, <2>3, <2>4 DEF AloneInv
<1>2. IInv /\ AloneInv /\ [Next]_vars => (IInv /\ AloneInv)'
  <2> SUFFICES ASSUME IInv, AloneInv, [Next]_vars PROVE AloneInv'
    BY Inductive
  <2>1. ASSUME NEW p \in Proc, Prepare(p) \/ Migrate(p) \/ Connect(p) \/ WriteRow(p) \/ Restart(p)
        PROVE  AloneInv'
    BY <2>1, CommandAlone, BuildAlone, RenameAlone DEF Migrate, Connect
  <2>2. CASE UNCHANGED vars
    BY <2>2 DEF vars, names, AloneInv, AloneAt, NoDups, FreeBackup, Has, Opened, IsLegacy, IInv, TypeOK
  <2> QED BY <2>1, <2>2 DEF Next, Finished
<1>3. AloneInv => \A p \in Proc : pc[p] # "failed" BY DEF AloneInv, AloneAt
<1> QED BY <1>1, <1>2, <1>3, PTL DEF Spec
=============================================================================
