-------------------------- MODULE IngestRowsProofs --------------------------
(***************************************************************************)
(* IInv, the invariant of IngestServer with the rows of the history beside *)
(* the key table, is inductive; the theorems at the end say what becomes   *)
(* of the rows a reply speaks of.                                          *)
(*                                                                         *)
(* A step that commits nothing only has to be right for the process that   *)
(* takes it (StepWithoutCommit); a commit has to keep what every key row   *)
(* and every refusal needs (CommitStep).                                   *)
(***************************************************************************)
EXTENDS IngestServerProofs

-----------------------------------------------------------------------------
(***************************************************************************)
(* What stays of a resource, and steps that commit nothing.                *)
(***************************************************************************)
\* A CLI process that has ended stays so.
OkStays == \A w \in Writer : pc[w] = "ok" => pc'[w] = "ok" /\ job'[w] = job[w]

LEMMA ReplacedStays ==
  ASSUME OkStays, NEW r, Replaced(r)
  PROVE  Replaced(r)'
BY DEF OkStays, Replaced

\* The resource of a key is still there after a commit that keeps all rows, or
\* all but those of a run that it replaces.
LEMMA PresentKept ==
  ASSUME Consistent(db), Consistent(db'), OkStays, NEW r, Present(r),
         \/ KeepsRows(db, db')
         \/ \E s \in RunId : RunExists(db, s) /\ KeepsOtherRows(db, db', s) /\ Replaced(s)'
  PROVE  Present(r)'
<1> DEFINE id == r.body.run_id
<1>1. CASE r.route = "archives"
  BY <1>1 DEF Present, KeepsRows, KeepsOtherRows
<1>2. CASE r.route # "archives"
  <2>1. /\ RunExists(db, id)
        /\ \/ Replaced(id)
           \/ \A it \in r.body.iterations :
                IterationExists(db, RunRowId(db, id), it.iteration)
    BY <1>2 DEF Present
  <2>2. Replaced(id) => Replaced(id)'  BY ReplacedStays
  <2>3. CASE KeepsRows(db, db')
    <3>1. /\ RunExists(db', id)
          /\ \A n : IterationExists(db, RunRowId(db, id), n)
                      => IterationExists(db', RunRowId(db', id), n)
      BY <2>1, <2>3, KeptRun DEF KeepsRows
    <3> QED  BY <1>2, <2>1, <2>2, <3>1 DEF Present
  <2>4. ASSUME NEW s \in RunId, RunExists(db, s), KeepsOtherRows(db, db', s), Replaced(s)'
        PROVE  Present(r)'
    <3>1. CASE s = id
      <4>1. RunExists(db', id)  BY <2>4, <3>1 DEF KeepsOtherRows
      <4> QED  BY <1>2, <2>4, <3>1, <4>1 DEF Present
    <3>2. CASE s # id
      <4>1. /\ RunExists(db', id)
            /\ \A n : IterationExists(db, RunRowId(db, id), n)
                        => IterationExists(db', RunRowId(db', id), n)
        BY <2>1, <2>4, <3>2, OtherRunKept
      <4> QED  BY <1>2, <2>1, <2>2, <4>1 DEF Present
    <3> QED  BY <3>1, <3>2
  <2> QED  BY <2>3, <2>4
<1> QED  BY <1>1, <1>2

\* So is the reason of a refusal.
LEMMA RefusedKept ==
  ASSUME \/ KeepsRows(db, db')
         \/ \E s \in RunId : KeepsOtherRows(db, db', s),
         NEW r, NEW code, Refused(r, code)
  PROVE  Refused(r, code)'
<1>1. RunExists(db, r.body.run_id) => RunExists(db', r.body.run_id)
  BY DEF RunExists, KeepsRows, KeepsOtherRows
<1>2. db.archives \subseteq db'.archives  BY DEF KeepsRows, KeepsOtherRows
<1> QED  BY <1>1, <1>2 DEF Refused

LEMMA SameKeepsRows ==
  ASSUME db' = db
  PROVE  KeepsRows(db, db')
BY DEF KeepsRows

\* A process that rests, while nothing is committed.
LEMMA HandlerRests ==
  ASSUME LockInv, NEW h \in Handler, HandlerData(h), pc'[h] = pc[h], req'[h] = req[h],
         db' = db, writer' = h <=> writer = h, writer = h => view' = view
  PROVE  HandlerData(h)'
<1>1. pc[h] \in {"existing", "commit"} => writer = h  BY DEF LockInv, InTx
<1> QED  BY <1>1 DEF HandlerData

LEMMA WriterRests ==
  ASSUME LockInv, NEW w \in Writer, WriterData(w), pc'[w] = pc[w], job'[w] = job[w],
         snap'[w] = snap[w], db' = db, ver' = ver, writer = w => view' = view
  PROVE  WriterData(w)'
<1>1. pc[w] = "cliCommit" => writer = w  BY DEF LockInv
<1> QED  BY <1>1 DEF WriterData

\* A handler outside the transaction, without the lock.
LEMMA HandlerOutside ==
  ASSUME NEW h \in Handler, pc'[h] \in {"idle", "ensure", "respond"}, writer' # h
  PROVE  HandlerData(h)'
BY DEF HandlerData

LEMMA WriterOutside ==
  ASSUME NEW w \in Writer, pc'[w] \in {"start", "ok", "failed"}
  PROVE  WriterData(w)'
BY DEF WriterData

\* A step of process p that commits nothing keeps RowsInv if what it means for
\* p is right.
LEMMA StepWithoutCommit ==
  ASSUME KeyInv, RowsInv, NEW p, db' = db, ver' = ver,
         \A q \in Proc \ {p} : pc'[q] = pc[q] /\ snap'[q] = snap[q],
         \A h \in Handler \ {p} : req'[h] = req[h] /\ reply'[h] = reply[h],
         \A w \in Writer \ {p} : job'[w] = job[w],
         p \in Handler => HandlerData(p)',
         p \in Writer => WriterData(p)' /\ pc[p] # "ok",
         \/ writer' = writer /\ view' = view
         \/ writer \in {p, NoProc} /\ writer' \in {p, NoProc},
         p \in Handler /\ pc'[p] = "respond" => Refused(req'[p], reply'[p].code),
         \A x \in replies' : x \in replies \/ Refused(x.request, x.reply.code)
  PROVE  RowsInv'
<1> USE ProcAssumption, ProcessAssumption
<1>1. LockInv  BY DEF KeyInv
<1>2. \A h \in Handler : HandlerData(h)'
  <2> SUFFICES ASSUME NEW h \in Handler, h # p PROVE HandlerData(h)'  OBVIOUS
  <2>1. HandlerData(h)  BY DEF RowsInv
  <2> QED  BY <1>1, <2>1, HandlerRests
<1>3. \A w \in Writer : WriterData(w)'
  <2> SUFFICES ASSUME NEW w \in Writer, w # p PROVE WriterData(w)'  OBVIOUS
  <2>1. WriterData(w)  BY DEF RowsInv
  <2>2. writer = w => view' = view  OBVIOUS
  <2> QED  BY <1>1, <2>1, <2>2, WriterRests
<1>4. OkStays  BY DEF OkStays
<1>5. KeepsRows(db, db')  BY SameKeepsRows
<1>6. Consistent(db)  BY DEF KeyInv, StoreInv
<1>7. \A k \in db'.keys : Present(RequestOf(k))'
  <2> SUFFICES ASSUME NEW k \in db.keys PROVE Present(RequestOf(k))'  OBVIOUS
  <2>1. Present(RequestOf(k))  BY DEF RowsInv
  <2> QED  BY <1>4, <1>5, <1>6, <2>1, PresentKept
<1>8. \A r, code : Refused(r, code) => Refused(r, code)'  BY DEF Refused
<1>9. \A h \in Handler : (pc[h] = "respond" => Refused(req[h], reply[h].code))'
  <2> SUFFICES ASSUME NEW h \in Handler, pc'[h] = "respond"
               PROVE  Refused(req[h], reply[h].code)'
    OBVIOUS
  <2>1. Refused(req'[h], reply'[h].code)  BY DEF RowsInv
  <2> QED  BY <2>1 DEF Refused
<1>10. \A x \in replies' : Refused(x.request, x.reply.code)'
  BY <1>8 DEF RowsInv
<1>11. db'.keys # {} => db'.keytable  BY DEF RowsInv
<1> QED  BY <1>2, <1>3, <1>7, <1>9, <1>10, <1>11 DEF RowsInv

-----------------------------------------------------------------------------
(***************************************************************************)
(* One lemma per action.                                                   *)
(***************************************************************************)
LEMMA InitRowsInv == Init => RowsInv
<1> SUFFICES ASSUME Init PROVE RowsInv  OBVIOUS
<1> USE ProcAssumption, ProcessAssumption DEF Init, StoreInit
<1>1. db.keys = {}  BY DEF EmptyDB
<1>2. \A h \in Handler : HandlerData(h)  BY DEF HandlerData
<1>3. \A w \in Writer : WriterData(w)  BY DEF WriterData
<1> QED  BY <1>1, <1>2, <1>3 DEF RowsInv

LEMMA SendRows ==
  ASSUME KeyInv, RowsInv, NEW c \in Client, NEW h \in Handler, Send(c, h)
  PROVE  RowsInv'
<1> USE ProcAssumption, ProcessAssumption
<1>1. /\ db' = db /\ ver' = ver /\ writer' = writer /\ view' = view /\ snap' = snap
      /\ job' = job /\ replies' = replies
  BY DEF Send, storeVars, historyVars
<1>2. PICK r \in Request :
        /\ req' = [req EXCEPT ![h] = r]
        /\ \/ Goto(h, "ensure") /\ UNCHANGED reply
           \/ /\ Goto(h, "respond")
              /\ reply' = [reply EXCEPT ![h] = Failed("invalid_payload")]
  BY DEF Send
<1>3. TypeOK /\ LockInv  BY DEF KeyInv
<1>4. pc'[h] \in {"ensure", "respond"} /\ writer' # h
  BY <1>1, <1>2, <1>3 DEF Send, Goto, TypeOK, LockInv, InTx
<1>5. HandlerData(h)'  BY <1>4, HandlerOutside
<1>6. \A q \in Proc \ {h} : pc'[q] = pc[q] /\ snap'[q] = snap[q]
  BY <1>1, <1>2, <1>3 DEF Goto, TypeOK
<1>7. \A g \in Handler \ {h} : req'[g] = req[g] /\ reply'[g] = reply[g]
  BY <1>2, <1>3 DEF TypeOK
<1>8. pc'[h] = "respond" => Refused(req'[h], reply'[h].code)
  BY <1>2, <1>3 DEF TypeOK, Goto, Failed, Refused
<1> QED  BY <1>1, <1>5, <1>6, <1>7, <1>8, StepWithoutCommit

LEMMA RespondRows ==
  ASSUME KeyInv, RowsInv, NEW h \in Handler, Respond(h)
  PROVE  RowsInv'
<1> USE ProcAssumption, ProcessAssumption
<1>1. /\ db' = db /\ ver' = ver /\ writer' = writer /\ view' = view /\ snap' = snap
      /\ job' = job
      /\ pc[h] = "respond" /\ pc' = [pc EXCEPT ![h] = "idle"]
      /\ req' = [req EXCEPT ![h] = NoRequest] /\ reply' = [reply EXCEPT ![h] = NoReply]
  BY DEF Respond, Goto, storeVars
<1>2. replies' \subseteq replies \cup {[request |-> req[h], reply |-> reply[h]]}
  BY DEF Respond
<1>3. TypeOK /\ LockInv  BY DEF KeyInv
<1>4. pc'[h] = "idle" /\ writer' # h
  BY <1>1, <1>3 DEF TypeOK, LockInv, InTx
<1>5. HandlerData(h)'  BY <1>4, HandlerOutside
<1>6. \A q \in Proc \ {h} : pc'[q] = pc[q] /\ snap'[q] = snap[q]
  BY <1>1, <1>3 DEF TypeOK
<1>7. \A g \in Handler \ {h} : req'[g] = req[g] /\ reply'[g] = reply[g]
  BY <1>1, <1>3 DEF TypeOK
<1>8. Refused(req[h], reply[h].code)  BY <1>1 DEF RowsInv
<1>9. \A x \in replies' : x \in replies \/ Refused(x.request, x.reply.code)
  BY <1>2, <1>8
<1> QED  BY <1>1, <1>4, <1>5, <1>6, <1>7, <1>9, StepWithoutCommit

\* Steps that touch no process and no table: a client's timeout, a stutter.
LEMMA QuietRows ==
  ASSUME KeyInv, RowsInv, UNCHANGED <<storeVars, handlerVars, replies>>
  PROVE  RowsInv'
<1>1. NoProc \notin Handler /\ NoProc \notin Writer
  BY ProcAssumption, ProcessAssumption
<1>2. /\ db' = db /\ ver' = ver /\ writer' = writer /\ view' = view /\ snap' = snap
      /\ pc' = pc /\ req' = req /\ reply' = reply /\ job' = job /\ replies' = replies
  BY DEF storeVars, handlerVars
<1> QED  BY <1>1, <1>2, StepWithoutCommit

LEMMA EnsureTableRows ==
  ASSUME KeyInv, RowsInv, NEW h \in Handler, EnsureTable(h)
  PROVE  RowsInv'
<1> USE ProcAssumption, ProcessAssumption
<1>1. /\ pc[h] = "ensure" /\ pc' = [pc EXCEPT ![h] = "claim"]
      /\ req' = req /\ reply' = reply /\ job' = job /\ replies' = replies
  BY DEF EnsureTable, Goto, Unwritten, historyVars
<1>2. TypeOK /\ LockInv /\ Consistent(db)  BY DEF KeyInv, StoreInv
<1>3. /\ db' = db /\ ver' = ver /\ snap' = [snap EXCEPT ![h] = ver]
      /\ \/ db.keytable /\ writer' = writer /\ view' = view
         \/ /\ ~db.keytable /\ writer = NoProc /\ writer' = h
            /\ view' = [db EXCEPT !.keytable = TRUE]
  <2>1. CASE db.keytable  BY <2>1 DEF EnsureTable, ReadSnapshot
  <2>2. CASE ~db.keytable  BY <2>2 DEF EnsureTable, WriteSnapshot
  <2> QED  BY <2>1, <2>2
<1>4. pc'[h] = "claim" /\ writer # h
  BY <1>1, <1>2 DEF TypeOK, LockInv, InTx
<1>5. HandlerData(h)'
  <2>1. CASE db.keytable
    BY <1>3, <1>4, <2>1 DEF HandlerData
  <2>2. CASE ~db.keytable
    <3>1. view'.keytable /\ SameHistory(view', db)
      BY <1>2, <1>3, <2>2 DEF Consistent, DB, SameHistory
    <3>2. (SameHistory(view, db))'  BY <1>3, <3>1 DEF SameHistory
    <3> QED  BY <1>3, <1>4, <2>2, <3>1, <3>2 DEF HandlerData
  <2> QED  BY <2>1, <2>2
<1>6. \A q \in Proc \ {h} : pc'[q] = pc[q] /\ snap'[q] = snap[q]
  BY <1>1, <1>2, <1>3 DEF TypeOK
<1> QED  BY <1>1, <1>3, <1>4, <1>5, <1>6, StepWithoutCommit

LEMMA ClaimKeyRows ==
  ASSUME KeyInv, RowsInv, NEW h \in Handler, ClaimKey(h)
  PROVE  RowsInv'
<1> DEFINE r == req[h]
           base == IF writer = h THEN view ELSE db
<1> USE ProcAssumption, ProcessAssumption
<1>1. /\ pc[h] = "claim" /\ writer \in {h, NoProc}
      /\ db' = db /\ ver' = ver /\ writer' = h /\ snap' = snap
      /\ req' = req /\ reply' = reply /\ job' = job /\ replies' = replies
      /\ \/ /\ KeyTaken(base, r.route, r.key)
            /\ view' = base /\ pc' = [pc EXCEPT ![h] = "existing"]
         \/ /\ view' = InsertClaim(base, r.route, r.key, r.body)
            /\ pc' = [pc EXCEPT ![h] = "write"]
  BY DEF ClaimKey, CanWrite, Write, Goto, Unwritten, historyVars
<1>2. TypeOK /\ Consistent(db) /\ Consistent(view) /\ ViewInv  BY DEF KeyInv, StoreInv
<1>3. HandlerData(h) /\ (db.keys # {} => db.keytable)  BY DEF RowsInv
<1>4. /\ Consistent(base) /\ base.keytable /\ SameHistory(base, db)
      /\ base.keys = db.keys
      /\ writer = h => ~db.keytable
  <2>1. CASE writer = h  BY <1>1, <1>2, <1>3, <2>1 DEF HandlerData, ViewInv
  <2>2. CASE writer # h  BY <1>1, <1>2, <1>3, <2>2 DEF HandlerData, SameHistory
  <2> QED  BY <2>1, <2>2
<1>5. KeyTaken(base, r.route, r.key) => base = db
  <2>1. KeyTaken(base, r.route, r.key) => db.keys # {}
    BY <1>4 DEF KeyTaken, KeyRows
  <2> QED  BY <1>3, <1>4, <2>1
<1>6. HandlerData(h)'
  <2>1. CASE view' = base /\ pc' = [pc EXCEPT ![h] = "existing"]
                          /\ KeyTaken(base, r.route, r.key)
    <3> HIDE DEF base, r
    <3>1. pc'[h] = "existing" /\ view' = db /\ db' = db /\ view'.keytable
      BY <1>1, <1>2, <1>4, <1>5, <2>1 DEF TypeOK
    <3> QED  BY <3>1 DEF HandlerData
  <2>2. CASE view' = InsertClaim(base, r.route, r.key, r.body)
             /\ pc' = [pc EXCEPT ![h] = "write"]
    <3>1. SameHistory(InsertClaim(base, r.route, r.key, r.body), base)
          /\ InsertClaim(base, r.route, r.key, r.body).keytable
      <4> HIDE DEF base, r
      <4>1. base \in DB  BY <1>4 DEF Consistent
      <4> QED  BY <1>4, <4>1 DEF InsertClaim, DB, SameHistory
    <3> HIDE DEF base, r
    <3>2. pc'[h] = "write"  BY <1>2, <2>2 DEF TypeOK
    <3>3. (SameHistory(view, db))' /\ view'.keytable
      BY <1>1, <1>4, <2>2, <3>1 DEF SameHistory
    <3> QED  BY <3>2, <3>3 DEF HandlerData
  <2> QED  BY <1>1, <2>1, <2>2
<1>7. \A q \in Proc \ {h} : pc'[q] = pc[q] /\ snap'[q] = snap[q]
  BY <1>1, <1>2 DEF TypeOK
<1>8. pc'[h] # "respond"  BY <1>1, <1>2 DEF TypeOK
<1> HIDE DEF base, r
<1> QED  BY <1>1, <1>6, <1>7, <1>8, StepWithoutCommit

\* Every way out of a handler that rolls back.
LEMMA AbortRows ==
  ASSUME KeyInv, RowsInv, NEW h \in Handler, NEW code, Abort(h, code),
         Refused(req[h], code), replies' = replies
  PROVE  RowsInv'
<1> USE ProcAssumption, ProcessAssumption
<1>1. /\ db' = db /\ ver' = ver
      /\ snap' = [p \in Proc |-> IF p \in {h} THEN NoSnapshot ELSE snap[p]]
      /\ \/ writer = h /\ writer' = NoProc /\ view' = db
         \/ writer # h /\ writer' = writer /\ view' = view
      /\ pc' = [pc EXCEPT ![h] = "respond"] /\ req' = req /\ job' = job
      /\ reply' = [reply EXCEPT ![h] = Failed(code)]
  BY DEF Abort, Answer, Rollback, RollbackAll, Goto
<1>2. TypeOK  BY DEF KeyInv
<1>3. pc'[h] = "respond" /\ writer' # h  BY <1>1, <1>2 DEF TypeOK
<1>4. HandlerData(h)'  BY <1>3, HandlerOutside
<1>5. \A q \in Proc \ {h} : pc'[q] = pc[q] /\ snap'[q] = snap[q]
  BY <1>1, <1>2 DEF TypeOK
<1>6. \A g \in Handler \ {h} : req'[g] = req[g] /\ reply'[g] = reply[g]
  BY <1>1, <1>2 DEF TypeOK
<1>7. Refused(req'[h], reply'[h].code)
  BY <1>1, <1>2 DEF TypeOK, Failed
<1> QED  BY <1>1, <1>4, <1>5, <1>6, <1>7, StepWithoutCommit

\* An API error names what is in the way.
LEMMA ErrorRefuses ==
  ASSUME NEW r, r.route \in Route
  PROVE  Refused(r, IngestError(db, r.route, r.body))
BY DEF Refused, IngestError, Route

LEMMA ReplayExistingRows ==
  ASSUME KeyInv, RowsInv, NEW h \in Handler, ReplayExisting(h)
  PROVE  RowsInv'
<1> USE ProcAssumption, ProcessAssumption
<1>1. pc[h] = "existing" /\ replies' = replies
  BY DEF ReplayExisting, Unwritten, historyVars
<1>2. CASE Abort(h, "idempotency_key_conflict") \/ Abort(h, "idempotency_key_in_progress")
  <2>1. /\ Refused(req[h], "idempotency_key_conflict")
        /\ Refused(req[h], "idempotency_key_in_progress")
    BY DEF Refused
  <2> QED  BY <1>1, <1>2, <2>1, AbortRows
<1>3. ASSUME NEW x, CommitUnchanged(h),
             Answer(h, [code |-> "replayed", body |-> x.response_body])
      PROVE  RowsInv'
  <2>1. view = db  BY <1>1 DEF RowsInv, HandlerData
  <2>2. /\ writer = h /\ db' = db /\ ver' = ver /\ writer' = NoProc /\ view' = view
        /\ snap' = [snap EXCEPT ![h] = NoSnapshot]
        /\ pc' = [pc EXCEPT ![h] = "respond"] /\ req' = req /\ job' = job
        /\ reply' = [reply EXCEPT ![h] = [code |-> "replayed", body |-> x.response_body]]
    BY <1>3, <2>1 DEF CommitUnchanged, Answer, Goto
  <2>3. TypeOK  BY DEF KeyInv
  <2>4. pc'[h] = "respond" /\ writer' # h  BY <2>2, <2>3 DEF TypeOK
  <2>5. HandlerData(h)'  BY <2>4, HandlerOutside
  <2>6. \A q \in Proc \ {h} : pc'[q] = pc[q] /\ snap'[q] = snap[q]
    BY <2>2, <2>3 DEF TypeOK
  <2>7. \A g \in Handler \ {h} : req'[g] = req[g] /\ reply'[g] = reply[g]
    BY <2>2, <2>3 DEF TypeOK
  <2>8. Refused(req'[h], reply'[h].code)
    BY <2>2, <2>3 DEF TypeOK, Refused
  <2> QED  BY <1>1, <2>2, <2>5, <2>6, <2>7, <2>8, StepWithoutCommit
<1> QED  BY <1>2, <1>3 DEF ReplayExisting

LEMMA WriteRecordRows ==
  ASSUME KeyInv, RowsInv, NEW h \in Handler, WriteRecord(h)
  PROVE  RowsInv'
<1> DEFINE r == req[h]
           error == IngestError(view, r.route, r.body)
           d == IngestWrite(view, r.route, r.body)
           e == FinalizeKey(d, r.route, r.key, CreatedBody(r.route, r.body))
<1> USE ProcAssumption, ProcessAssumption
<1>1. pc[h] = "write" /\ replies' = replies
  BY DEF WriteRecord, Unwritten, historyVars
<1>2. TypeOK /\ LockInv /\ Consistent(db) /\ Consistent(view) /\ r \in Request
  BY <1>1 DEF KeyInv, StoreInv, ServedInv
<1>3. writer = h /\ SameHistory(view, db) /\ view.keytable
  BY <1>1, <1>2 DEF RowsInv, HandlerData, LockInv, InTx
<1>4. r.route \in Route /\ r.body \in Payload  BY <1>2, RequestFacts
<1>5. /\ error = IngestError(db, r.route, r.body)
      /\ SameHistory(d, IngestWrite(db, r.route, r.body))
  <2> HIDE DEF r
  <2> QED  BY <1>2, <1>3, <1>4, SameHistoryWrites DEF Consistent
<1>6. CASE error # "none" /\ Abort(h, error)
  <2>1. Refused(r, error)  BY <1>4, <1>5, ErrorRefuses
  <2> HIDE DEF error
  <2> QED  BY <1>1, <1>6, <2>1, AbortRows
<1>7. CASE error = "none" /\ Write(h, e) /\ Goto(h, "commit") /\ UNCHANGED <<req, reply, job>>
  <2>1. Consistent(d) /\ d.keytable
    <3>1. Consistent(d)  BY <1>2, <1>4, <1>7, IngestWriteConsistent
    <3>2. d.keytable = view.keytable  BY <1>2, <1>4, <1>7, IngestWriteKeeps
    <3> QED  BY <1>3, <3>1, <3>2
  <2>2. e.keytable /\ SameHistory(e, d)
    <3> HIDE DEF d, r
    <3>1. d \in DB  BY <2>1 DEF Consistent
    <3> QED  BY <2>1, <3>1 DEF FinalizeKey, DB, SameHistory
  <2>3. /\ db' = db /\ ver' = ver /\ snap' = snap /\ writer' = h /\ view' = e
        /\ pc' = [pc EXCEPT ![h] = "commit"] /\ req' = req /\ reply' = reply /\ job' = job
    BY <1>7 DEF Write, Goto
  <2>4. pc'[h] = "commit"  BY <1>2, <2>3 DEF TypeOK
  <2>5. SameHistory(e, IngestWrite(db, r.route, r.body))
    BY <1>5, <2>2 DEF SameHistory
  <2>6. (SameHistory(view, IngestWrite(db, req[h].route, req[h].body)))'
    <3>1. (IngestWrite(db, req[h].route, req[h].body))' = IngestWrite(db, r.route, r.body)
      BY <2>3
    <3> HIDE DEF e
    <3> QED  BY <2>3, <2>5, <3>1 DEF SameHistory
  <2>7. (IngestError(db, req[h].route, req[h].body))' = "none"
    BY <1>5, <1>7, <2>3
  <2> HIDE DEF e
  <2>8. HandlerData(h)'
    BY <2>2, <2>3, <2>4, <2>6, <2>7 DEF HandlerData
  <2>9. \A q \in Proc \ {h} : pc'[q] = pc[q] /\ snap'[q] = snap[q]
    BY <1>2, <2>3 DEF TypeOK
  <2> QED  BY <1>1, <1>3, <2>3, <2>4, <2>8, <2>9, StepWithoutCommit
<1> QED  BY <1>6, <1>7 DEF WriteRecord

\* The server dies and is started again.
LEMMA CrashRows ==
  ASSUME KeyInv, RowsInv, Crash
  PROVE  RowsInv'
<1> USE ProcAssumption, ProcessAssumption
<1>1. /\ db' = db /\ ver' = ver /\ job' = job /\ replies' = replies
      /\ \/ writer' = writer /\ view' = view /\ writer \notin Handler
         \/ writer' = NoProc /\ writer \in Handler
      /\ snap' = [p \in Proc |-> IF p \in Handler THEN NoSnapshot ELSE snap[p]]
      /\ pc' = [p \in Proc |-> IF p \in Handler THEN "idle" ELSE pc[p]]
  BY DEF Crash, RollbackAll, historyVars
<1>2. LockInv /\ Consistent(db)  BY DEF KeyInv, StoreInv
<1>3. \A h \in Handler : HandlerData(h)'
  BY <1>1, HandlerOutside
<1>4. \A w \in Writer : WriterData(w)'
  <2> SUFFICES ASSUME NEW w \in Writer PROVE WriterData(w)'  OBVIOUS
  <2>1. WriterData(w)  BY DEF RowsInv
  <2>2. pc'[w] = pc[w] /\ job'[w] = job[w] /\ snap'[w] = snap[w]  BY <1>1
  <2>3. writer = w => view' = view  BY <1>1
  <2> QED  BY <1>1, <1>2, <2>1, <2>2, <2>3, WriterRests
<1>5. OkStays  BY <1>1 DEF OkStays
<1>6. \A k \in db'.keys : Present(RequestOf(k))'
  <2> SUFFICES ASSUME NEW k \in db.keys PROVE Present(RequestOf(k))'  BY <1>1
  <2>1. Present(RequestOf(k))  BY DEF RowsInv
  <2>2. KeepsRows(db, db')  BY <1>1, SameKeepsRows
  <2> QED  BY <1>1, <1>2, <1>5, <2>1, <2>2, PresentKept
<1>7. \A h \in Handler : pc'[h] # "respond"  BY <1>1
<1>8. \A x \in replies' : Refused(x.request, x.reply.code)'
  BY <1>1 DEF RowsInv, Refused
<1>9. db'.keys # {} => db'.keytable  BY <1>1 DEF RowsInv
<1> QED  BY <1>3, <1>4, <1>6, <1>7, <1>8, <1>9 DEF RowsInv

LEMMA CliStartRows ==
  ASSUME KeyInv, RowsInv, NEW w \in Writer, CliStart(w)
  PROVE  RowsInv'
<1> USE ProcAssumption, ProcessAssumption
<1>1. PICK j \in Job : SelectRun(w, j) \/ AppendArchive(w, j)  BY DEF CliStart
<1>2. /\ pc[w] = "start" /\ db' = db /\ ver' = ver /\ req' = req /\ reply' = reply
      /\ replies' = replies /\ job' = [job EXCEPT ![w] = j]
  BY <1>1
  DEF CliStart, Quiet, historyVars, SelectRun, AppendArchive, ReadSnapshot, WriteSnapshot,
      storeVars
<1>3. TypeOK /\ LockInv  BY DEF KeyInv
<1>4. job'[w] = j /\ writer # w  BY <1>2, <1>3 DEF TypeOK, LockInv
<1>5. \/ Goto(w, "failed") /\ UNCHANGED storeVars
      \/ /\ j.kind = "run" /\ ~InsertRunRefused(db, j.payload, j.mode)
         /\ Goto(w, "cliWrite") /\ ReadSnapshot(w)
      \/ /\ j.kind = "archive"
         /\ Goto(w, "cliCommit") /\ WriteSnapshot(w, InsertArchive(db, j.payload))
  BY <1>1 DEF SelectRun, AppendArchive
<1>6. WriterData(w)'
  <2>1. CASE Goto(w, "failed")
    <3>1. pc'[w] = "failed"  BY <1>3, <2>1 DEF Goto, TypeOK
    <3> QED  BY <3>1, WriterOutside
  <2>2. CASE /\ j.kind = "run" /\ ~InsertRunRefused(db, j.payload, j.mode)
             /\ Goto(w, "cliWrite") /\ ReadSnapshot(w)
    <3>1. pc'[w] = "cliWrite" /\ snap'[w] = ver /\ ver \in Nat
      BY <1>3, <2>2 DEF Goto, ReadSnapshot, TypeOK
    <3> QED  BY <1>2, <1>4, <2>2, <3>1 DEF WriterData, InsertRunRefused, RunExists
  <2>3. CASE /\ j.kind = "archive"
             /\ Goto(w, "cliCommit") /\ WriteSnapshot(w, InsertArchive(db, j.payload))
    <3>1. pc'[w] = "cliCommit" /\ view' = InsertArchive(db, j.payload)
      BY <1>3, <2>3 DEF Goto, WriteSnapshot, TypeOK
    <3>2. (InsertArchive(db, job[w].payload))' = InsertArchive(db, j.payload)
      BY <1>2, <1>4
    <3> QED  BY <1>4, <2>3, <3>1, <3>2 DEF WriterData
  <2> QED  BY <1>5, <2>1, <2>2, <2>3
<1>7. \/ writer' = writer /\ view' = view
      \/ writer = NoProc /\ writer' = w
  BY <1>5 DEF ReadSnapshot, WriteSnapshot, storeVars
<1>8. \A q \in Proc \ {w} : pc'[q] = pc[q] /\ snap'[q] = snap[q]
  BY <1>3, <1>5 DEF TypeOK, Goto, ReadSnapshot, WriteSnapshot, storeVars
<1>9. \A v \in Writer \ {w} : job'[v] = job[v]  BY <1>2, <1>3 DEF TypeOK
<1> QED  BY <1>2, <1>6, <1>7, <1>8, <1>9, StepWithoutCommit

LEMMA CliWriteRows ==
  ASSUME KeyInv, RowsInv, NEW w \in Writer, CliWrite(w)
  PROVE  RowsInv'
<1> DEFINE p == job[w].payload
           mode == job[w].mode
<1> USE ProcAssumption, ProcessAssumption
<1>1. /\ pc[w] = "cliWrite" /\ job' = job /\ req' = req /\ reply' = reply
      /\ replies' = replies
      /\ \/ CanWrite(w) /\ Write(w, InsertRun(db, p, mode)) /\ Goto(w, "cliCommit")
         \/ Rollback(w) /\ Goto(w, "failed")
  BY DEF CliWrite, Quiet, historyVars
<1>2. TypeOK /\ LockInv /\ WriterData(w)  BY DEF KeyInv, RowsInv
<1>3. writer # w  BY <1>1, <1>2 DEF LockInv
<1>4. db' = db /\ ver' = ver  BY <1>1 DEF Write, Rollback, RollbackAll
<1>5. \A q \in Proc \ {w} : pc'[q] = pc[q] /\ snap'[q] = snap[q]
  BY <1>1, <1>2 DEF TypeOK, Goto, Write, Rollback, RollbackAll
<1>6. \/ writer' = writer /\ view' = view
      \/ writer = NoProc /\ writer' = w
  BY <1>1, <1>3 DEF Write, CanWrite, Rollback, RollbackAll
<1>7. WriterData(w)'
  <2>1. CASE CanWrite(w) /\ Write(w, InsertRun(db, p, mode)) /\ Goto(w, "cliCommit")
    <3>1. /\ job[w].kind = "run" /\ ~InsertRunRefused(db, p, mode)
          /\ view' = InsertRun(db, p, mode)
      BY <1>1, <1>2, <1>3, <2>1 DEF WriterData, CanWrite, Write
    <3>2. pc'[w] = "cliCommit"  BY <1>2, <2>1 DEF Goto, TypeOK
    <3>3. /\ (InsertRun(db, job[w].payload, job[w].mode))' = InsertRun(db, p, mode)
          /\ (InsertRunRefused(db, job[w].payload, job[w].mode))' <=> InsertRunRefused(db, p, mode)
      BY <1>1, <1>4 DEF InsertRunRefused, RunExists
    <3> HIDE DEF p, mode
    <3> QED  BY <1>1, <3>1, <3>2, <3>3 DEF WriterData
  <2>2. CASE Goto(w, "failed")
    <3>1. pc'[w] = "failed"  BY <1>2, <2>2 DEF Goto, TypeOK
    <3> QED  BY <3>1, WriterOutside
  <2> QED  BY <1>1, <2>1, <2>2
<1> QED  BY <1>1, <1>4, <1>5, <1>6, <1>7, StepWithoutCommit

LEMMA CliFailRows ==
  ASSUME KeyInv, RowsInv, NEW w \in Writer, CliFail(w)
  PROVE  RowsInv'
<1> USE ProcAssumption, ProcessAssumption
<1>1. /\ pc[w] \in {"cliWrite", "cliCommit"} /\ pc' = [pc EXCEPT ![w] = "failed"]
      /\ job' = job /\ req' = req /\ reply' = reply /\ replies' = replies
      /\ db' = db /\ ver' = ver
      /\ snap' = [p \in Proc |-> IF p \in {w} THEN NoSnapshot ELSE snap[p]]
      /\ \/ writer = w /\ writer' = NoProc /\ view' = db
         \/ writer # w /\ writer' = writer /\ view' = view
  BY DEF CliFail, Goto, Rollback, RollbackAll, historyVars
<1>2. TypeOK  BY DEF KeyInv
<1>3. pc'[w] = "failed"  BY <1>1, <1>2 DEF TypeOK
<1>4. WriterData(w)'  BY <1>3, WriterOutside
<1>5. \A q \in Proc \ {w} : pc'[q] = pc[q] /\ snap'[q] = snap[q]
  BY <1>1, <1>2 DEF TypeOK
<1> QED  BY <1>1, <1>4, <1>5, StepWithoutCommit

-----------------------------------------------------------------------------
(***************************************************************************)
(* The commits.                                                            *)
(***************************************************************************)
\* A commit keeps RowsInv if its rows are there, and those of others still are.
LEMMA CommitStep ==
  ASSUME KeyInv, RowsInv, KeyInv', NEW p \in Proc, CommitTx(p),
         \A q \in Proc \ {p} : pc'[q] = pc[q],
         p \in Handler => pc'[p] = "respond" /\ Refused(req[p], reply'[p].code),
         p \in Writer => pc[p] # "ok" /\ pc'[p] = "ok",
         \A h \in Handler \ {p} : reply'[h] = reply[h],
         req' = req, job' = job, replies' = replies,
         db.keytable => db'.keytable,
         db'.keys # {} => db'.keytable,
         \A k \in db'.keys : k \in db.keys \/ Present(RequestOf(k))',
         \/ KeepsRows(db, db')
         \/ \E s \in RunId : RunExists(db, s) /\ KeepsOtherRows(db, db', s) /\ Replaced(s)'
  PROVE  RowsInv'
<1> USE ProcAssumption, ProcessAssumption
<1>1. LockInv /\ TypeOK /\ Consistent(db) /\ Consistent(db')  BY DEF KeyInv, StoreInv
<1>2. /\ writer = p /\ writer' = NoProc /\ ver' = ver + 1 /\ ver \in Nat
      /\ snap' = [snap EXCEPT ![p] = NoSnapshot]
  BY <1>1 DEF CommitTx, TypeOK
<1>3. \A h \in Handler : HandlerData(h)'
  <2> SUFFICES ASSUME NEW h \in Handler PROVE HandlerData(h)'  OBVIOUS
  <2>1. CASE h = p
    BY <1>2, <2>1, HandlerOutside
  <2>2. CASE h # p
    <3>1. pc'[h] = pc[h] /\ writer' # h /\ HandlerData(h)  BY <1>2, <2>2 DEF RowsInv
    <3>2. pc[h] \notin InTx  BY <1>1, <1>2, <2>2 DEF LockInv
    <3>3. pc[h] = "claim" => db'.keytable  BY <1>2, <2>2, <3>1 DEF HandlerData
    <3> QED  BY <3>1, <3>2, <3>3 DEF HandlerData, InTx
  <2> QED  BY <2>1, <2>2
<1>4. \A w \in Writer : WriterData(w)'
  <2> SUFFICES ASSUME NEW w \in Writer PROVE WriterData(w)'  OBVIOUS
  <2>1. CASE w = p
    BY <2>1, WriterOutside
  <2>2. CASE w # p
    <3>1. pc'[w] = pc[w] /\ WriterData(w)  BY <2>2 DEF RowsInv
    <3>2. snap'[w] = snap[w]  BY <1>1, <1>2, <2>2 DEF TypeOK
    <3>3. pc[w] # "cliCommit"  BY <1>1, <1>2, <2>2 DEF LockInv
    <3> QED  BY <1>2, <3>1, <3>2, <3>3 DEF WriterData
  <2> QED  BY <2>1, <2>2
<1>5. OkStays  BY DEF OkStays
<1>6. \A k \in db'.keys : Present(RequestOf(k))'
  <2> SUFFICES ASSUME NEW k \in db.keys PROVE Present(RequestOf(k))'  OBVIOUS
  <2>1. Present(RequestOf(k))  BY DEF RowsInv
  <2> QED  BY <1>1, <1>5, <2>1, PresentKept
<1>7. \A r, code : Refused(r, code) => Refused(r, code)'
  <2>1. KeepsRows(db, db') \/ \E s \in RunId : KeepsOtherRows(db, db', s)  OBVIOUS
  <2> QED  BY <2>1, RefusedKept
<1>8. \A h \in Handler : (pc[h] = "respond" => Refused(req[h], reply[h].code))'
  <2> SUFFICES ASSUME NEW h \in Handler, pc'[h] = "respond"
               PROVE  Refused(req[h], reply[h].code)'
    OBVIOUS
  <2>1. Refused(req'[h], reply'[h].code)  BY DEF RowsInv
  <2>2. /\ RunExists(db, req[h].body.run_id) => RunExists(db', req[h].body.run_id)
        /\ db.archives \subseteq db'.archives
    BY DEF KeepsRows, KeepsOtherRows, RunExists
  <2> QED  BY <2>1, <2>2 DEF Refused
<1>9. \A x \in replies' : Refused(x.request, x.reply.code)'
  BY <1>7 DEF RowsInv
<1> QED  BY <1>3, <1>4, <1>6, <1>8, <1>9 DEF RowsInv

\* The commit of a fresh write: its effect on the database.
LEMMA CommitEffect ==
  ASSUME KeyInv, RowsInv, NEW h \in Handler, Commit(h)
  PROVE  /\ req[h] \in Request
         /\ ~KeyTaken(db, req[h].route, req[h].key)
         /\ db'.keys = db.keys \cup {FinalRow(req[h])}
         /\ IngestError(db, req[h].route, req[h].body) = "none"
         /\ SameHistory(db', IngestWrite(db, req[h].route, req[h].body))
         /\ KeepsRows(db, db') /\ db'.keytable
         /\ Present(req[h])'
<1> DEFINE r == req[h]
           e == IngestWrite(db, r.route, r.body)
<1> USE ProcAssumption, ProcessAssumption
<1>1. /\ pc[h] = "commit" /\ writer = h /\ db' = view /\ req' = req
  BY DEF Commit, CommitTx, Answer
<1>2. /\ r \in Request /\ ~KeyTaken(db, r.route, r.key)
      /\ db'.keys = db.keys \cup {FinalRow(r)}
      /\ Consistent(db)
  BY <1>1 DEF KeyInv, ServedInv, ViewInv, StoreInv
<1>3. /\ db'.keytable /\ IngestError(db, r.route, r.body) = "none"
      /\ SameHistory(db', e)
  BY <1>1 DEF RowsInv, HandlerData
<1>4. r.route \in Route /\ r.body \in Payload  BY <1>2, RequestFacts
<1>5. /\ KeepsRows(db, e)
      /\ r.route = "archives" => r.body.archive \in e.archives
      /\ r.route # "archives" =>
           /\ RunExists(e, r.body.run_id)
           /\ \A it \in r.body.iterations :
                IterationExists(e, RunRowId(e, r.body.run_id), it.iteration)
  BY <1>2, <1>3, <1>4, IngestWriteKeeps
<1> HIDE DEF e
<1>6. KeepsRows(db, db')  BY <1>3, <1>5 DEF KeepsRows, SameHistory
<1>7. Present(r)'
  <2>1. r' = r  BY <1>1
  <2>2. CASE r.route = "archives"
    BY <1>3, <1>5, <2>1, <2>2 DEF Present, SameHistory
  <2>3. CASE r.route # "archives"
    <3>1. /\ RunExists(db', r.body.run_id)
          /\ \A it \in r.body.iterations :
               IterationExists(db', RunRowId(db', r.body.run_id), it.iteration)
      BY <1>3, <1>5, <2>3 DEF SameHistory, RunExists, RunRowId, IterationExists
    <3> QED  BY <2>1, <2>3, <3>1 DEF Present
  <2> QED  BY <2>2, <2>3
<1> QED  BY <1>2, <1>3, <1>6, <1>7 DEF e

LEMMA CommitRows ==
  ASSUME KeyInv, RowsInv, KeyInv', NEW h \in Handler, Commit(h)
  PROVE  RowsInv'
<1> USE ProcAssumption, ProcessAssumption
<1>1. /\ CommitTx(h) /\ pc' = [pc EXCEPT ![h] = "respond"]
      /\ reply' = [reply EXCEPT ![h] = [code |-> "created",
                     body |-> CreatedBody(req[h].route, req[h].body)]]
      /\ req' = req /\ job' = job /\ replies' = replies
  BY DEF Commit, Answer, Goto
<1>2. TypeOK  BY DEF KeyInv
<1>3. pc'[h] = "respond" /\ \A q \in Proc \ {h} : pc'[q] = pc[q]
  BY <1>1, <1>2 DEF TypeOK
<1>4. /\ Refused(req[h], reply'[h].code)
      /\ \A g \in Handler \ {h} : reply'[g] = reply[g]
  BY <1>1, <1>2 DEF TypeOK, Refused
<1>5. /\ req[h] \in Request /\ db'.keys = db.keys \cup {FinalRow(req[h])}
      /\ KeepsRows(db, db') /\ db'.keytable /\ Present(req[h])'
  BY CommitEffect
<1>6. \A k \in db'.keys : k \in db.keys \/ Present(RequestOf(k))'
  <2> SUFFICES Present(RequestOf(FinalRow(req[h])))'  BY <1>1, <1>5 DEF FinalRow, CreatedBody
  <2>1. RequestOf(FinalRow(req[h])) = req[h]  BY <1>5, RequestFacts
  <2> QED  BY <1>1, <1>5, <2>1
<1> QED  BY <1>1, <1>3, <1>4, <1>5, <1>6, CommitStep

\* The commit of a CLI process: its effect on the database.
LEMMA CliCommitEffect ==
  ASSUME KeyInv, RowsInv, NEW w \in Writer, CliCommit(w)
  PROVE  /\ db'.keys = db.keys /\ db'.keytable = db.keytable
         /\ job[w].kind = "run" =>
              /\ ~InsertRunRefused(db, job[w].payload, job[w].mode)
              /\ job[w].payload.run_id \in RunId
         /\ \/ KeepsRows(db, db')
            \/ /\ job[w].kind = "run" /\ job[w].mode = "replace"
               /\ RunExists(db, job[w].payload.run_id)
               /\ KeepsOtherRows(db, db', job[w].payload.run_id)
<1> DEFINE p == job[w].payload
           mode == job[w].mode
<1> USE ProcAssumption, ProcessAssumption
<1>1. pc[w] = "cliCommit" /\ writer = w /\ db' = view
  BY DEF CliCommit, CommitTx
<1>2. /\ Consistent(db) /\ db'.keys = db.keys /\ job[w] \in Job
  BY <1>1 DEF KeyInv, StoreInv, ViewInv, ServedInv
<1>3. mode \in WriteMode /\ p \in PayloadType
  <2>1. job[w] \in JobType  BY <1>2, RequestAssumption
  <2> QED  BY <2>1, PayloadAssumption DEF JobType
<1>4. p.run_id \in RunId  BY <1>3 DEF PayloadType
<1>5. \/ /\ job[w].kind = "run"
         /\ ~InsertRunRefused(db, p, mode) /\ db' = InsertRun(db, p, mode)
      \/ job[w].kind = "archive" /\ db' = InsertArchive(db, p)
  BY <1>1 DEF RowsInv, WriterData
<1> HIDE DEF p, mode
<1>6. CASE job[w].kind = "run" /\ ~InsertRunRefused(db, p, mode) /\ db' = InsertRun(db, p, mode)
  <2>1. /\ db'.keytable = db.keytable
        /\ \/ KeepsRows(db, db')
           \/ /\ mode = "replace" /\ RunExists(db, p.run_id)
              /\ KeepsOtherRows(db, db', p.run_id)
    BY <1>2, <1>3, <1>6, InsertRunKeeps
  <2> QED  BY <1>2, <1>4, <1>6, <2>1 DEF p, mode
<1>7. CASE job[w].kind = "archive" /\ db' = InsertArchive(db, p)
  BY <1>2, <1>7, InsertArchiveKeeps
<1> QED  BY <1>5, <1>6, <1>7

LEMMA CliCommitRows ==
  ASSUME KeyInv, RowsInv, KeyInv', NEW w \in Writer, CliCommit(w)
  PROVE  RowsInv'
<1> USE ProcAssumption, ProcessAssumption
<1>1. /\ CommitTx(w) /\ pc[w] = "cliCommit" /\ pc' = [pc EXCEPT ![w] = "ok"]
      /\ req' = req /\ reply' = reply /\ job' = job /\ replies' = replies
  BY DEF CliCommit, Goto, Quiet, historyVars
<1>2. TypeOK  BY DEF KeyInv
<1>3. pc'[w] = "ok" /\ \A q \in Proc \ {w} : pc'[q] = pc[q]
  BY <1>1, <1>2 DEF TypeOK
<1>4. /\ db'.keys = db.keys /\ db'.keytable = db.keytable
      /\ job[w].kind = "run" => job[w].payload.run_id \in RunId
      /\ \/ KeepsRows(db, db')
         \/ /\ job[w].kind = "run" /\ job[w].mode = "replace"
            /\ RunExists(db, job[w].payload.run_id)
            /\ KeepsOtherRows(db, db', job[w].payload.run_id)
  BY CliCommitEffect
<1>5. job[w].kind = "run" /\ job[w].mode = "replace" => Replaced(job[w].payload.run_id)'
  BY <1>1, <1>3 DEF Replaced
<1>6. db'.keys # {} => db'.keytable  BY <1>4 DEF RowsInv
<1> QED  BY <1>1, <1>3, <1>4, <1>5, <1>6, CommitStep

-----------------------------------------------------------------------------
(***************************************************************************)
(* The theorems.                                                           *)
(***************************************************************************)
LEMMA NextIInv == IInv /\ [Next]_vars => IInv'
<1> SUFFICES ASSUME KeyInv, RowsInv, [Next]_vars, KeyInv' PROVE RowsInv'
  BY NextKeyInv DEF IInv
<1>1. CASE \E c \in Client, h \in Handler : Send(c, h)
  BY <1>1, SendRows
<1>2. CASE \E c \in Client : ClientTimeout(c)
  <2>1. UNCHANGED <<storeVars, handlerVars, replies>>
    BY <1>2 DEF ClientTimeout, historyVars
  <2> QED  BY <2>1, QuietRows
<1>3. CASE \E h \in Handler : HandlerStep(h)
  <2>1. PICK h \in Handler : HandlerStep(h)  BY <1>3
  <2>2. CASE EnsureTable(h)  BY <2>2, EnsureTableRows
  <2>3. CASE ClaimKey(h)  BY <2>3, ClaimKeyRows
  <2>4. CASE ClaimBusy(h)
    <3>1. Refused(req[h], "internal_error")  BY DEF Refused
    <3> QED  BY <2>4, <3>1, AbortRows DEF ClaimBusy, Unwritten, historyVars
  <2>5. CASE ReplayExisting(h)  BY <2>5, ReplayExistingRows
  <2>6. CASE WriteRecord(h)  BY <2>6, WriteRecordRows
  <2>7. CASE Commit(h)  BY <2>7, CommitRows
  <2>8. CASE Respond(h)  BY <2>8, RespondRows
  <2> QED  BY <2>1, <2>2, <2>3, <2>4, <2>5, <2>6, <2>7, <2>8 DEF HandlerStep
<1>4. CASE \E h \in Handler : Fault(h)
  <2>1. PICK h \in Handler : Fault(h)  BY <1>4
  <2>2. Refused(req[h], "internal_error")  BY DEF Refused
  <2> QED  BY <2>1, <2>2, AbortRows DEF Fault, historyVars
<1>5. CASE Crash
  BY <1>5, CrashRows
<1>6. CASE \E w \in Writer : WriterStep(w)
  <2>1. PICK w \in Writer : WriterStep(w)  BY <1>6
  <2>2. CASE CliStart(w)  BY <2>2, CliStartRows
  <2>3. CASE CliWrite(w)  BY <2>3, CliWriteRows
  <2>4. CASE CliCommit(w)  BY <2>4, CliCommitRows
  <2> QED  BY <2>1, <2>2, <2>3, <2>4 DEF WriterStep
<1>7. CASE \E w \in Writer : CliFail(w)
  BY <1>7, CliFailRows
<1>8. CASE Finished \/ UNCHANGED vars
  <2>1. UNCHANGED <<storeVars, handlerVars, replies>>
    BY <1>8 DEF Finished, vars, historyVars
  <2> QED  BY <2>1, QuietRows
<1> QED
  BY <1>1, <1>2, <1>3, <1>4, <1>5, <1>6, <1>7, <1>8 DEF Next

\* The inductive invariant, with the rows of the history.
THEOREM InvariantHolds == Spec => []IInv
<1>1. Init => IInv  BY InitKeyInv, InitRowsInv DEF IInv
<1> QED  BY <1>1, NextIInv, PTL DEF Spec

\* What a success reply says was created stays, whatever commits, crashes and
\* aborts follow, up to a `sync-git --replace` of that run.
THEOREM AckedResourcesExist == Spec => []AckedResourceExists
<1>1. IInv => AckedResourceExists
  <2>1. IInv => \A x \in replies : x.request \in Request
    BY DEF IInv, KeyInv, TypeOK, Replies
  <2> SUFFICES ASSUME IInv, NEW x \in replies, x.reply.code \in SuccessCode
               PROVE  Present(x.request)
    BY <2>1, RequestFacts DEF AckedResourceExists, Present, Route
  <2>2. FinalRow(x.request) \in db.keys
    BY DEF IInv, KeyInv, RepliesInv, Grounded
  <2>3. Present(RequestOf(FinalRow(x.request)))  BY <2>2 DEF IInv, RowsInv
  <2> QED  BY <2>1, <2>3, RequestFacts
<1> QED  BY <1>1, InvariantHolds, PTL

\* A refusal's cause is in the committed database, then and ever after.
THEOREM RefusalsJustified == Spec => []RefusalJustified
<1>1. IInv => RefusalJustified
  <2> SUFFICES ASSUME IInv, NEW x \in replies
               PROVE  /\ Refused(x.request, x.reply.code)
                      /\ x.reply.code = "idempotency_key_conflict" =>
                           \E k \in db.keys : /\ k.route_path = x.request.route
                                              /\ k.idempotency_key = x.request.key
                                              /\ k.request # x.request.body
    BY DEF RefusalJustified, Refused
  <2>1. Grounded(x.request, x.reply)  BY DEF IInv, KeyInv, RepliesInv
  <2>2. Refused(x.request, x.reply.code)  BY DEF IInv, RowsInv
  <2> QED  BY <2>1, <2>2 DEF Grounded, KeyRows
<1> QED  BY <1>1, InvariantHolds, PTL

\* Only the two commits change the committed database.
LEMMA OnlyCommitsWrite ==
  ASSUME IInv, Next, ~\E h \in Handler : Commit(h), ~\E w \in Writer : CliCommit(w)
  PROVE  db' = db
<1> USE DEF storeVars
<1>1. CASE \E c \in Client, h \in Handler : Send(c, h)
  BY <1>1 DEF Send
<1>2. CASE \E c \in Client : ClientTimeout(c)
  BY <1>2 DEF ClientTimeout
<1>3. CASE \E h \in Handler : HandlerStep(h)
  <2>1. PICK h \in Handler : HandlerStep(h)  BY <1>3
  <2>2. CASE EnsureTable(h)
    BY <2>2 DEF EnsureTable, ReadSnapshot, WriteSnapshot
  <2>3. CASE ClaimKey(h)  BY <2>3 DEF ClaimKey, Write
  <2>4. CASE ClaimBusy(h)  BY <2>4 DEF ClaimBusy, Abort, Rollback, RollbackAll
  <2>5. CASE ReplayExisting(h)
    BY <2>5
    DEF ReplayExisting, Abort, Rollback, RollbackAll, CommitUnchanged, IInv, RowsInv, HandlerData
  <2>6. CASE WriteRecord(h)
    BY <2>6 DEF WriteRecord, Abort, Rollback, RollbackAll, Write
  <2>7. CASE Respond(h)  BY <2>7 DEF Respond
  <2> QED  BY <2>1, <2>2, <2>3, <2>4, <2>5, <2>6, <2>7 DEF HandlerStep
<1>4. CASE \E h \in Handler : Fault(h)
  BY <1>4 DEF Fault, Abort, Rollback, RollbackAll
<1>5. CASE Crash
  BY <1>5 DEF Crash, RollbackAll
<1>6. CASE \E w \in Writer : WriterStep(w)
  <2>1. PICK w \in Writer : WriterStep(w)  BY <1>6
  <2>2. CASE CliStart(w)
    BY <2>2 DEF CliStart, SelectRun, AppendArchive, ReadSnapshot, WriteSnapshot
  <2>3. CASE CliWrite(w)
    BY <2>3 DEF CliWrite, Write, Rollback, RollbackAll
  <2> QED  BY <2>1, <2>2, <2>3 DEF WriterStep
<1>7. CASE \E w \in Writer : CliFail(w)
  BY <1>7 DEF CliFail, Rollback, RollbackAll
<1>8. CASE Finished
  BY <1>8 DEF Finished, vars
<1> QED
  BY <1>1, <1>2, <1>3, <1>4, <1>5, <1>6, <1>7, <1>8 DEF Next

\* A CLI process says "ok" only by its commit, and no other step takes it there.
LEMMA CliCommitsCommit ==
  ASSUME IInv, [Next]_vars, NEW w \in Writer, CliCommits(w)
  PROVE  CliCommit(w)
<1> USE ProcAssumption, ProcessAssumption
    DEF CliCommits, Goto, storeVars, handlerVars, historyVars
<1>1. TypeOK  BY DEF IInv, KeyInv
<1>2. ~\E c \in Client, h \in Handler : Send(c, h)  BY <1>1 DEF Send, TypeOK
<1>3. ~\E c \in Client : ClientTimeout(c)  BY DEF ClientTimeout
<1>4. ~\E h \in Handler : HandlerStep(h)
  <2> SUFFICES ASSUME NEW h \in Handler, HandlerStep(h) PROVE pc'[w] = pc[w]
    OBVIOUS
  <2>1. \E s : pc' = [pc EXCEPT ![h] = s]
    <3>1. CASE EnsureTable(h)  BY <3>1 DEF EnsureTable
    <3>2. CASE ClaimKey(h)  BY <3>2 DEF ClaimKey
    <3>3. CASE ClaimBusy(h)  BY <3>3 DEF ClaimBusy, Abort, Answer
    <3>4. CASE ReplayExisting(h)  BY <3>4 DEF ReplayExisting, Abort, Answer
    <3>5. CASE WriteRecord(h)  BY <3>5 DEF WriteRecord, Abort, Answer
    <3>6. CASE Commit(h)  BY <3>6 DEF Commit, Answer
    <3>7. CASE Respond(h)  BY <3>7 DEF Respond
    <3> QED  BY <3>1, <3>2, <3>3, <3>4, <3>5, <3>6, <3>7 DEF HandlerStep
  <2> QED  BY <1>1, <2>1 DEF TypeOK
<1>5. ~\E h \in Handler : Fault(h)  BY <1>1 DEF Fault, Abort, Answer, TypeOK
<1>6. ~Crash  BY DEF Crash
<1>7. ASSUME NEW v \in Writer, WriterStep(v) PROVE CliCommit(w)
  <2>1. CASE CliStart(v)
    BY <1>1, <2>1 DEF CliStart, SelectRun, AppendArchive, TypeOK
  <2>2. CASE CliWrite(v)
    BY <1>1, <2>2 DEF CliWrite, TypeOK
  <2>3. CASE CliCommit(v)
    BY <1>1, <2>3 DEF CliCommit, TypeOK
  <2> QED  BY <1>7, <2>1, <2>2, <2>3 DEF WriterStep
<1>8. ~\E v \in Writer : CliFail(v)  BY <1>1 DEF CliFail, TypeOK
<1>9. ~(Finished \/ UNCHANGED vars)  BY DEF Finished, vars
<1> QED
  BY <1>2, <1>3, <1>4, <1>5, <1>6, <1>7, <1>8, <1>9 DEF Next

\* The other way round, for the properties that name the step by its effect.
LEMMA CliCommitIsSeen ==
  ASSUME IInv, NEW w \in Writer, CliCommit(w)
  PROVE  CliCommits(w)
BY ProcessAssumption DEF IInv, KeyInv, TypeOK, CliCommit, CliCommits, Goto

\* A key and the resource it stands for become visible in one commit.
THEOREM IngestIsAtomic == Spec => AtomicIngest
<1>1. ASSUME IInv, [Next]_vars
      PROVE  /\ db'.keys # db.keys =>
                  \E k \in db'.keys \ db.keys :
                    db'.keys = db.keys \cup {k} /\ Appears(db, db', k)
             /\ db' # db /\ db'.keys = db.keys => \E w \in Writer : CliCommits(w)
  <2>1. ASSUME NEW h \in Handler, Commit(h)
        PROVE  \E k \in db'.keys \ db.keys :
                 db'.keys = db.keys \cup {k} /\ Appears(db, db', k)
    <3> DEFINE r == req[h]
               k == FinalRow(r)
               e == IngestWrite(db, r.route, r.body)
    <3>1. /\ r \in Request /\ ~KeyTaken(db, r.route, r.key)
          /\ db'.keys = db.keys \cup {k}
          /\ IngestError(db, r.route, r.body) = "none" /\ SameHistory(db', e)
          /\ Consistent(db)
      BY <1>1, <2>1, CommitEffect DEF IInv, KeyInv, StoreInv
    <3>2. k.route_path = r.route /\ k.idempotency_key = r.key /\ k.request = r.body
      BY DEF FinalRow
    <3>3. k \notin db.keys  BY <3>1, <3>2 DEF KeyTaken, KeyRows
    <3>4. r.route \in Route /\ r.body \in Payload  BY <3>1, RequestFacts
    <3>5. /\ r.route = "archives" =>
               r.body.archive \in e.archives /\ r.body.archive \notin db.archives
          /\ r.route # "archives" => RunExists(e, r.body.run_id)
          /\ r.route = "runs" => ~RunExists(db, r.body.run_id)
          /\ r.route = "iterations" /\ r.body.iterations # {} =>
               e.iterations \ db.iterations # {}
      BY <3>1, <3>4, IngestWriteKeeps
    <3>6. r.route = "iterations" => r.body.iterations # {}
      BY <3>1, RequestAssumption
    <3> HIDE DEF k, e, r
    <3>7. Appears(db, db', k)
      BY <3>1, <3>2, <3>4, <3>5, <3>6 DEF Appears, SameHistory, RunExists, Route
    <3> QED  BY <3>1, <3>3, <3>7
  <2>2. ASSUME NEW w \in Writer, CliCommit(w)
        PROVE  db'.keys = db.keys /\ CliCommits(w)
    BY <1>1, <2>2, CliCommitEffect, CliCommitIsSeen DEF IInv
  <2>3. CASE ~(\E h \in Handler : Commit(h)) /\ ~\E w \in Writer : CliCommit(w)
    <3>1. db' = db
      BY <1>1, <2>3, OnlyCommitsWrite DEF vars, storeVars
    <3> QED  BY <3>1
  <2> QED  BY <2>1, <2>2, <2>3
<1> QED  BY <1>1, InvariantHolds, PTL DEF Spec, AtomicIngest

\* No commit takes away what an earlier one put there, but for the iterations
\* of a run that is replaced.
THEOREM NoRowsLost == Spec => NoLostRows
<1>1. ASSUME IInv, [Next]_vars
      PROVE  /\ db.keys \subseteq db'.keys
             /\ db.archives \subseteq db'.archives
             /\ \A x \in db.runs : RunExists(db', x.run_id)
             /\ \A x \in db.iterations \ db'.iterations :
                  \E w \in Writer :
                    /\ CliCommits(w) /\ job[w].kind = "run" /\ job[w].mode = "replace"
                    /\ x.run_row_id = RunRowId(db, job[w].payload.run_id)
  <2>1. CASE \E h \in Handler : Commit(h)
    <3>1. KeepsRows(db, db') /\ db.keys \subseteq db'.keys
      BY <1>1, <2>1, CommitEffect DEF IInv
    <3> QED  BY <3>1 DEF KeepsRows, RunExists
  <2>2. CASE \E w \in Writer : CliCommit(w)
    <3>1. PICK w \in Writer : CliCommit(w)  BY <2>2
    <3>2. CliCommits(w)  BY <1>1, <3>1, CliCommitIsSeen
    <3>3. /\ db'.keys = db.keys
          /\ \/ KeepsRows(db, db')
             \/ /\ job[w].kind = "run" /\ job[w].mode = "replace"
                /\ KeepsOtherRows(db, db', job[w].payload.run_id)
      BY <1>1, <3>1, CliCommitEffect DEF IInv
    <3>4. CASE KeepsRows(db, db')
      BY <3>3, <3>4 DEF KeepsRows, RunExists
    <3>5. CASE /\ job[w].kind = "run" /\ job[w].mode = "replace"
               /\ KeepsOtherRows(db, db', job[w].payload.run_id)
      BY <3>2, <3>3, <3>5 DEF KeepsOtherRows, RunExists
    <3> QED  BY <3>3, <3>4, <3>5
  <2>3. CASE ~(\E h \in Handler : Commit(h)) /\ ~\E w \in Writer : CliCommit(w)
    <3>1. db' = db
      BY <1>1, <2>3, OnlyCommitsWrite DEF vars, storeVars
    <3> QED  BY <3>1 DEF RunExists
  <2> QED  BY <2>1, <2>2, <2>3
<1> QED  BY <1>1, InvariantHolds, PTL DEF Spec, NoLostRows

\* WriteModeInsert commits only a run_id that nobody has created meanwhile.
THEOREM InsertIsFirst == Spec => InsertModeIsFirst
<1>1. IInv /\ [Next]_vars =>
        \A w \in Writer :
          CliCommits(w) /\ job[w].kind = "run" /\ job[w].mode = "insert" =>
            ~RunExists(db, job[w].payload.run_id)
  <2> SUFFICES ASSUME IInv, [Next]_vars, NEW w \in Writer,
                      CliCommits(w), job[w].kind = "run", job[w].mode = "insert"
               PROVE  ~RunExists(db, job[w].payload.run_id)
    OBVIOUS
  <2>1. CliCommit(w)  BY CliCommitsCommit
  <2>2. ~InsertRunRefused(db, job[w].payload, job[w].mode)
    BY <2>1, CliCommitEffect DEF IInv
  <2> QED  BY <2>2 DEF InsertRunRefused
<1> QED  BY <1>1, InvariantHolds, PTL DEF Spec, InsertModeIsFirst

\* A sync that ends well has stored every commit of its payload under its run,
\* with number and backend: appendRunWithMode against the handlers' commits,
\* between its SELECT and its COMMIT too.
SyncIsStored ==
  [][\A w \in Writer :
       CliCommits(w) /\ job[w].kind = "run" =>
         HasPayload(db, db', job[w].payload, job[w].mode)]_vars

\* What the process wrote is still insertRunTx of the database it commits to,
\* because nobody could commit while it held the lock.
THEOREM SyncsAreStored == Spec => SyncIsStored
<1>1. IInv /\ [Next]_vars =>
        \A w \in Writer :
          CliCommits(w) /\ job[w].kind = "run" =>
            HasPayload(db, db', job[w].payload, job[w].mode)
  <2> SUFFICES ASSUME IInv, [Next]_vars, NEW w \in Writer,
                      CliCommits(w), job[w].kind = "run"
               PROVE  HasPayload(db, db', job[w].payload, job[w].mode)
    OBVIOUS
  <2>1. CliCommit(w)  BY CliCommitsCommit
  <2>2. pc[w] = "cliCommit" /\ db' = view  BY <2>1 DEF CliCommit, CommitTx
  <2> DEFINE p == job[w].payload
             mode == job[w].mode
  <2>3. ~InsertRunRefused(db, p, mode) /\ db' = InsertRun(db, p, mode)
    <3>1. ~InsertRunRefused(db, p, mode)  BY <2>1, CliCommitEffect DEF IInv
    <3>2. job[w].kind # "archive"  OBVIOUS
    <3> QED  BY <2>2, <3>1, <3>2 DEF IInv, RowsInv, WriterData
  <2>4. Consistent(db) /\ job[w] \in Job
    BY <2>2 DEF IInv, KeyInv, StoreInv, ServedInv
  <2>5. mode \in WriteMode /\ p \in PayloadType
    <3>1. job[w] \in JobType  BY <2>4, RequestAssumption
    <3> QED  BY <3>1, PayloadAssumption DEF JobType
  <2> HIDE DEF p, mode
  <2>6. HasPayload(db, db', p, mode)  BY <2>3, <2>4, <2>5, InsertRunStores
  <2> QED  BY <2>6 DEF p, mode
<1> QED  BY <1>1, InvariantHolds, PTL DEF Spec, SyncIsStored
=============================================================================
