------------------------- MODULE IngestServerProofs -------------------------
(***************************************************************************)
(* KeyInv, the invariant of IngestServer about locks, claims and the key   *)
(* table, is inductive for any sets of clients, handlers, CLI processes,   *)
(* requests and jobs; the theorems at the end read off it what the         *)
(* model-checked runs show on small instances.                             *)
(***************************************************************************)
EXTENDS IngestInvariant, HistoryDBProofs

-----------------------------------------------------------------------------
(***************************************************************************)
(* Facts about requests and the key table.                                 *)
(***************************************************************************)
LEMMA RequestFacts ==
  ASSUME NEW r \in Request
  PROVE  /\ r.route \in Route /\ r.key \in Key /\ r.body \in Payload
         /\ r = [route |-> r.route, key |-> r.key, body |-> r.body]
         /\ CreatedBody(r.route, r.body) \in ResponseBody
         /\ ClaimRow(r) \in KeyRow
         /\ FinalRow(r) \in KeyRow
         /\ RequestOf(FinalRow(r)) = r
<1>1. r \in RequestType  BY RequestAssumption
<1>2. /\ r.route \in Route /\ r.key \in Key /\ r.body \in Payload
      /\ r = [route |-> r.route, key |-> r.key, body |-> r.body]
  BY <1>1 DEF RequestType
<1>3. r.body \in PayloadType  BY <1>2, PayloadAssumption
<1>4. CreatedBody(r.route, r.body) \in ResponseBody
  <2> DEFINE n == IF r.route = "iterations"
                  THEN (CHOOSE it \in r.body.iterations : TRUE).iteration ELSE 0
             i == IF r.route = "archives" THEN r.body.archive ELSE r.body.run_id
  <2>1. n \in Int
    <3>1. CASE r.route = "iterations"
      <4>1. \E it \in r.body.iterations : TRUE  BY <3>1, RequestAssumption
      <4>2. (CHOOSE it \in r.body.iterations : TRUE) \in IterationRecord
        BY <4>1, <1>3 DEF PayloadType
      <4> QED  BY <3>1, <4>2 DEF IterationRecord
    <3> QED  BY <3>1
  <2>2. i \in RunId \cup ArchiveId  BY <1>3 DEF PayloadType
  <2>3. CreatedBody(r.route, r.body) = [resource |-> r.route, id |-> i, iteration |-> n]
    BY DEF CreatedBody
  <2> HIDE DEF n, i
  <2> QED  BY <1>2, <2>1, <2>2, <2>3 DEF ResponseBody
<1>5. ClaimRow(r) \in KeyRow  BY <1>2 DEF ClaimRow, KeyRow
<1>6. FinalRow(r) \in KeyRow  BY <1>2, <1>4 DEF FinalRow, KeyRow
<1>7. RequestOf(FinalRow(r)) = r  BY <1>2 DEF RequestOf, FinalRow
<1> QED  BY <1>2, <1>4, <1>5, <1>6, <1>7

\* finalizeIdempotencyKeyTx turns the claim of this transaction into the final
\* row and touches no other key.
LEMMA FinalizeClaim ==
  ASSUME NEW d, Consistent(d), NEW ks, NEW r \in Request,
         d.keys = ks \cup {ClaimRow(r)},
         \A k \in ks : ~(k.route_path = r.route /\ k.idempotency_key = r.key)
  PROVE  LET e == FinalizeKey(d, r.route, r.key, CreatedBody(r.route, r.body))
         IN  Consistent(e) /\ e.keys = ks \cup {FinalRow(r)}
<1> DEFINE body == CreatedBody(r.route, r.body)
           mine == KeyRows(d, r.route, r.key)
           e == FinalizeKey(d, r.route, r.key, body)
<1>1. d \in DB  BY DEF Consistent
<1>2. mine = {ClaimRow(r)}
  BY DEF KeyRows, ClaimRow
<1>3. {[route_path |-> r.route, idempotency_key |-> r.key, request |-> x.request,
        status_code |-> 201, response_body |-> body] : x \in mine} = {FinalRow(r)}
  <2>1. ClaimRow(r).request = r.body  BY DEF ClaimRow
  <2> HIDE DEF mine
  <2> QED  BY <1>2, <2>1 DEF FinalRow
<1>4. d.keys \ mine = ks
  <2>1. ClaimRow(r) \notin ks  BY DEF ClaimRow
  <2> HIDE DEF mine
  <2> QED  BY <1>2, <2>1
<1>5. e = [d EXCEPT !.keys = ks \cup {FinalRow(r)}]
  BY <1>3, <1>4 DEF FinalizeKey
<1>6. ks \cup {FinalRow(r)} \in SUBSET KeyRow
  BY <1>1, RequestFacts DEF DB
<1> QED  BY <1>5, <1>6, KeysOnlyConsistent

\* A claim adds one row.
LEMMA ClaimConsistent ==
  ASSUME NEW d, Consistent(d), NEW r \in Request
  PROVE  LET e == InsertClaim(d, r.route, r.key, r.body)
         IN  Consistent(e) /\ e.keys = d.keys \cup {ClaimRow(r)}
<1>1. d.keys \cup {ClaimRow(r)} \in SUBSET KeyRow
  BY RequestFacts DEF Consistent, DB
<1>2. InsertClaim(d, r.route, r.key, r.body) = [d EXCEPT !.keys = d.keys \cup {ClaimRow(r)}]
  BY DEF InsertClaim, ClaimRow
<1> QED  BY <1>1, <1>2, KeysOnlyConsistent

\* CREATE TABLE api_idempotency_keys.
LEMMA KeytableConsistent ==
  ASSUME NEW d, Consistent(d)
  PROVE  LET e == [d EXCEPT !.keytable = TRUE]
         IN  Consistent(e) /\ e.keys = d.keys
<1> DEFINE e == [d EXCEPT !.keytable = TRUE]
<1>1. d \in DB  BY DEF Consistent
<1>2. /\ e.runs = d.runs /\ e.iterations = d.iterations
      /\ e.seq = d.seq /\ e.keys = d.keys
  BY <1>1 DEF DB
<1>3. e \in DB  BY <1>1 DEF DB
<1> QED  BY <1>2, <1>3 DEF Consistent, UniqueRuns, SeqBounds, ForeignKey

\* The ground of a reply stays: key rows are never taken away.
LEMMA GroundedStable ==
  ASSUME db.keys \subseteq db'.keys, NEW r, NEW p, Grounded(r, p)
  PROVE  Grounded(r, p)'
  BY DEF Grounded, KeyRows

-----------------------------------------------------------------------------
(***************************************************************************)
(* The initial state.                                                      *)
(***************************************************************************)
LEMMA InitKeyInv == Init => KeyInv
<1> SUFFICES ASSUME Init PROVE KeyInv  OBVIOUS
<1> USE DEF Init, StoreInit
<1>1. Consistent(EmptyDB)
  BY DEF Consistent, EmptyDB, DB, UniqueRuns, SeqBounds, ForeignKey
<1>2. EmptyDB.keys = {}  BY DEF EmptyDB
<1>3. TypeOK
  <2>1. db \in DB /\ view \in DB  BY <1>1 DEF Consistent
  <2>2. mishaps \in 0 .. MaxMishaps  BY BoundAssumption
  <2> QED
    BY <2>1, <2>2, ProcessAssumption DEF TypeOK, HandlerState, WriterState, NoSnapshot
<1>4. StoreInv  BY <1>1 DEF StoreInv
<1>5. LockInv
  BY ProcAssumption, ProcessAssumption DEF LockInv, InTx
<1>6. ServedInv  BY ProcessAssumption DEF ServedInv
<1>7. ViewInv  BY ProcAssumption, ProcessAssumption DEF ViewInv
<1>8. KeysInv  BY <1>2 DEF KeysInv
<1>9. CommittedInv  BY DEF CommittedInv, ExactlyOnce
<1>10. RepliesInv  BY ProcessAssumption DEF RepliesInv
<1> QED  BY <1>3, <1>4, <1>5, <1>6, <1>7, <1>8, <1>9, <1>10 DEF KeyInv

-----------------------------------------------------------------------------
(***************************************************************************)
(* The steps of clients and replies, which leave the database alone.       *)
(***************************************************************************)
LEMMA StuttersStore ==
  ASSUME StoreInv, db' = db, view' = view, writer' = writer
  PROVE  StoreInv'
  BY DEF StoreInv

LEMMA SendKeyInv ==
  ASSUME KeyInv, NEW c \in Client, NEW h \in Handler, Send(c, h)
  PROVE  KeyInv'
<1> USE DEF Send, Goto, storeVars, historyVars
<1>1. PICK r \in Request :
        /\ creq' = [creq EXCEPT ![c] = r]
        /\ req' = [req EXCEPT ![h] = r]
        /\ \/ Goto(h, "ensure") /\ UNCHANGED reply
           \/ /\ Goto(h, "respond")
              /\ reply' = [reply EXCEPT ![h] = Failed("invalid_payload")]
  OBVIOUS
<1> USE ProcessAssumption, ProcAssumption DEF KeyInv
<1>2. TypeOK'
  BY <1>1 DEF TypeOK, HandlerState, Reply, ErrorCode, Failed
<1>3. StoreInv'  BY StuttersStore
<1>4. LockInv'
  BY <1>1 DEF TypeOK, LockInv, InTx
<1>5. ServedInv'
  BY <1>1 DEF TypeOK, ServedInv
<1>6. ViewInv'
  BY <1>1 DEF TypeOK, ViewInv, LockInv, InTx
<1>7. KeysInv'  BY DEF KeysInv
<1>8. CommittedInv'  BY DEF CommittedInv, ExactlyOnce
<1>9. RepliesInv'
  <2>1. Grounded(r, Failed("invalid_payload"))'
    BY DEF Grounded, Failed, SuccessCode
  <2>2. Failed("invalid_payload") \in Reply
    BY DEF Reply, ErrorCode, Failed
  <2> QED
    BY <1>1, <2>1, <2>2, GroundedStable DEF TypeOK, RepliesInv
<1> QED  BY <1>2, <1>3, <1>4, <1>5, <1>6, <1>7, <1>8, <1>9

LEMMA RespondKeyInv ==
  ASSUME KeyInv, NEW h \in Handler, Respond(h)
  PROVE  KeyInv'
<1> USE DEF Respond, Goto, storeVars, historyVars
<1> USE ProcessAssumption, ProcAssumption DEF KeyInv
<1>1. req[h] \in Request /\ reply[h] \in Reply /\ Grounded(req[h], reply[h])
  BY DEF ServedInv, RepliesInv
<1>2. replies' \subseteq replies \cup {[request |-> req[h], reply |-> reply[h]]}
  OBVIOUS
<1>3. TypeOK'
  <2>1. replies' \subseteq Replies  BY <1>1, <1>2 DEF TypeOK, Replies
  <2>2. /\ cpc' \in [Client -> {"new", "wait", "retry", "done"}]
        /\ conn' \in [Client -> Handler \cup {NoProc}]
    BY DEF TypeOK
  <2> QED  BY <2>1, <2>2 DEF TypeOK, HandlerState
<1>4. StoreInv'  BY StuttersStore
<1>5. LockInv'
  BY DEF TypeOK, LockInv, InTx
<1>6. ServedInv'
  BY DEF TypeOK, ServedInv
<1>7. ViewInv'
  BY DEF TypeOK, ViewInv, LockInv, InTx
<1>8. KeysInv'  BY DEF KeysInv
<1>9. CommittedInv'  BY DEF CommittedInv, ExactlyOnce
<1>10. RepliesInv'
  <2>1. \A x \in replies' : Grounded(x.request, x.reply)'
    BY <1>1, <1>2, GroundedStable DEF RepliesInv
  <2> QED
    BY <2>1, GroundedStable DEF TypeOK, RepliesInv
<1> QED  BY <1>3, <1>4, <1>5, <1>6, <1>7, <1>8, <1>9, <1>10

LEMMA ClientTimeoutKeyInv ==
  ASSUME KeyInv, NEW c \in Client, ClientTimeout(c)
  PROVE  KeyInv'
<1> USE DEF ClientTimeout, Mishap, storeVars, handlerVars, historyVars, KeyInv
<1>1. TypeOK'  BY BoundAssumption DEF TypeOK
<1>2. StoreInv'  BY StuttersStore
<1>3. LockInv' /\ ServedInv'  BY DEF LockInv, ServedInv
<1>4. ViewInv'  BY DEF ViewInv
<1>5. KeysInv' /\ CommittedInv'  BY DEF KeysInv, CommittedInv, ExactlyOnce
<1>6. RepliesInv'  BY GroundedStable DEF RepliesInv
<1> QED  BY <1>1, <1>2, <1>3, <1>4, <1>5, <1>6

-----------------------------------------------------------------------------
(***************************************************************************)
(* The steps of withIdempotentWrite.                                       *)
(***************************************************************************)
Working == {"ensure", "claim", "existing", "write", "commit"}

\* Every way out of a handler that rolls back and answers an error.
LEMMA AbortKeyInv ==
  ASSUME KeyInv, NEW h \in Handler, pc[h] \in Working,
         NEW code \in ErrorCode, Abort(h, code), Grounded(req[h], Failed(code)),
         mishaps' \in 0 .. MaxMishaps, UNCHANGED <<clientVars, historyVars>>
  PROVE  KeyInv'
<1> USE DEF Abort, Answer, Rollback, RollbackAll, Goto, clientVars, historyVars
<1> USE ProcessAssumption, ProcAssumption DEF KeyInv
<1>1. StoreInv'  BY DEF StoreInv
<1>2. TypeOK'
  <2>1. db' \in DB /\ view' \in DB  BY <1>1 DEF StoreInv, Consistent
  <2>2. Failed(code) \in Reply  BY DEF Failed, Reply
  <2>3. snap' \in [Proc -> Nat \cup {NoSnapshot}]  BY DEF TypeOK
  <2>4. writer' \in Proc \cup {NoProc}  BY DEF TypeOK
  <2> QED  BY <2>1, <2>2, <2>3, <2>4 DEF TypeOK, HandlerState
<1>3. LockInv'
  BY DEF TypeOK, LockInv, InTx
<1>4. ServedInv'
  BY DEF TypeOK, ServedInv, Working
<1>5. ViewInv'
  BY DEF TypeOK, ViewInv, LockInv, InTx
<1>6. KeysInv'  BY DEF KeysInv
<1>7. CommittedInv'  BY DEF CommittedInv, ExactlyOnce
<1>8. RepliesInv'
  <2>1. Failed(code) \in Reply  BY DEF Failed, Reply
  <2> QED  BY <2>1, GroundedStable DEF TypeOK, RepliesInv
<1> QED  BY <1>1, <1>2, <1>3, <1>4, <1>5, <1>6, <1>7, <1>8

LEMMA EnsureTableKeyInv ==
  ASSUME KeyInv, NEW h \in Handler, EnsureTable(h)
  PROVE  KeyInv'
<1> USE DEF EnsureTable, ReadSnapshot, WriteSnapshot, Goto, Unwritten, clientVars, historyVars
<1> USE ProcessAssumption, ProcAssumption DEF KeyInv
<1>1. StoreInv' /\ (writer' = h => view'.keys = db.keys) /\ db' = db
  <2>1. CASE db.keytable
    BY <2>1 DEF StoreInv, LockInv, InTx
  <2>2. CASE ~db.keytable
    BY <2>2, KeytableConsistent DEF StoreInv
  <2> QED  BY <2>1, <2>2
<1>2. \/ writer' = writer /\ view' = view
      \/ writer = NoProc /\ writer' = h
  <2>1. CASE db.keytable  BY <2>1
  <2>2. CASE ~db.keytable  BY <2>2
  <2> QED  BY <2>1, <2>2
<1>3. TypeOK'
  <2>1. db' \in DB /\ view' \in DB  BY <1>1 DEF StoreInv, Consistent
  <2>2. snap' \in [Proc -> Nat \cup {NoSnapshot}]  BY DEF TypeOK
  <2>3. writer' \in Proc \cup {NoProc}  BY <1>2 DEF TypeOK
  <2>4. ver' = ver  OBVIOUS
  <2> QED  BY <2>1, <2>2, <2>3, <2>4 DEF TypeOK, HandlerState
<1>4. LockInv'
  BY <1>2 DEF TypeOK, LockInv, InTx
<1>5. ServedInv'
  BY DEF TypeOK, ServedInv
<1>6. ViewInv'
  BY <1>1, <1>2 DEF TypeOK, ViewInv, LockInv, InTx
<1>7. KeysInv'  BY <1>1 DEF KeysInv
<1>8. CommittedInv'  BY <1>1 DEF CommittedInv, ExactlyOnce
<1>9. RepliesInv'
  BY <1>1, GroundedStable DEF TypeOK, RepliesInv
<1> QED  BY <1>1, <1>3, <1>4, <1>5, <1>6, <1>7, <1>8, <1>9

LEMMA ClaimKeyKeyInv ==
  ASSUME KeyInv, NEW h \in Handler, ClaimKey(h)
  PROVE  KeyInv'
<1> DEFINE r == req[h]
           base == IF writer = h THEN view ELSE db
<1> USE DEF ClaimKey, Write, CanWrite, Goto, Unwritten, clientVars, historyVars
<1> USE ProcessAssumption, ProcAssumption DEF KeyInv
<1>1. r \in Request  BY DEF ServedInv
<1>2. Consistent(base) /\ base.keys = db.keys
  BY DEF StoreInv, ViewInv
<1>3. KeyTaken(base, r.route, r.key) <=> KeyTaken(db, r.route, r.key)
  BY <1>2 DEF KeyTaken, KeyRows
<1>4. /\ db' = db /\ writer' = h /\ writer \in {h, NoProc}
      /\ \/ /\ KeyTaken(db, r.route, r.key)
            /\ view' = base
            /\ pc' = [pc EXCEPT ![h] = "existing"]
         \/ /\ ~KeyTaken(db, r.route, r.key)
            /\ view' = InsertClaim(base, r.route, r.key, r.body)
            /\ pc' = [pc EXCEPT ![h] = "write"]
  BY <1>3
<1>5. /\ Consistent(view')
      /\ pc'[h] = "existing" => view'.keys = db.keys /\ KeyTaken(db, r.route, r.key)
      /\ pc'[h] = "write" => view'.keys = db.keys \cup {ClaimRow(r)}
                             /\ ~KeyTaken(db, r.route, r.key)
      /\ pc' \in {[pc EXCEPT ![h] = "existing"], [pc EXCEPT ![h] = "write"]}
  <2> HIDE DEF base, r
  <2> QED  BY <1>1, <1>2, <1>4, ClaimConsistent DEF TypeOK
<1>6. req' = req /\ req'[h] = r
  OBVIOUS
<1> HIDE DEF base
<1>7. StoreInv'  BY <1>4, <1>5 DEF StoreInv
<1>8. TypeOK'
  <2>1. db' \in DB /\ view' \in DB  BY <1>7 DEF StoreInv, Consistent
  <2> QED  BY <1>4, <1>5, <2>1 DEF TypeOK, HandlerState
<1>9. LockInv'
  BY <1>4, <1>5 DEF TypeOK, LockInv, InTx
<1>10. ServedInv'
  BY <1>1, <1>5 DEF TypeOK, ServedInv
<1>11. ViewInv'
  BY <1>4, <1>5, <1>6 DEF TypeOK, ViewInv, LockInv, InTx
<1>12. KeysInv'  BY <1>4 DEF KeysInv
<1>13. CommittedInv'  BY <1>4 DEF CommittedInv, ExactlyOnce
<1>14. RepliesInv'
  BY <1>4, <1>5, GroundedStable DEF TypeOK, RepliesInv
<1> QED  BY <1>7, <1>8, <1>9, <1>10, <1>11, <1>12, <1>13, <1>14

LEMMA ClaimBusyKeyInv ==
  ASSUME KeyInv, NEW h \in Handler, ClaimBusy(h)
  PROVE  KeyInv'
<1>1. Grounded(req[h], Failed("internal_error"))
  BY DEF Grounded, Failed, SuccessCode
<1> QED
  BY <1>1, AbortKeyInv
  DEF KeyInv, TypeOK, ClaimBusy, Unwritten, clientVars, historyVars, Working, ErrorCode


LEMMA ReplayExistingKeyInv ==
  ASSUME KeyInv, NEW h \in Handler, ReplayExisting(h)
  PROVE  KeyInv'
<1> DEFINE r == req[h]
<1> USE DEF ReplayExisting, Unwritten, clientVars, historyVars
<1> USE ProcessAssumption, ProcAssumption DEF KeyInv
<1>1. /\ pc[h] = "existing" /\ writer = h /\ view.keys = db.keys
      /\ r \in Request
  BY DEF LockInv, InTx, ViewInv, ServedInv
<1>2. PICK x \in KeyRows(db, r.route, r.key) :
        \/ x.request # r.body /\ Abort(h, "idempotency_key_conflict")
        \/ x.request = r.body /\ x.status_code = 0 /\ Abort(h, "idempotency_key_in_progress")
        \/ /\ x.request = r.body
           /\ CommitUnchanged(h)
           /\ Answer(h, [code |-> "replayed", body |-> x.response_body])
  BY <1>1 DEF KeyRows
<1>3. x \in db.keys /\ x.route_path = r.route /\ x.idempotency_key = r.key
  BY <1>2 DEF KeyRows
<1>4. RequestOf(x) \in Request /\ x = FinalRow(RequestOf(x))
  BY <1>3 DEF KeysInv
<1>5. x.status_code = 201  BY <1>4 DEF FinalRow
<1>6. CASE x.request # r.body /\ Abort(h, "idempotency_key_conflict")
  <2>1. Grounded(r, Failed("idempotency_key_conflict"))
    BY <1>2, <1>6 DEF Grounded, Failed, SuccessCode
  <2> QED  BY <1>1, <1>6, <2>1, AbortKeyInv DEF TypeOK, Working, ErrorCode
<1>7. CASE /\ x.request = r.body
           /\ CommitUnchanged(h)
           /\ Answer(h, [code |-> "replayed", body |-> x.response_body])
  <2> DEFINE p == [code |-> "replayed", body |-> x.response_body]
  <2> USE DEF CommitUnchanged, Answer, Goto
  <2>1. RequestOf(x) = r
    BY <1>1, <1>3, <1>7, RequestFacts DEF RequestOf
  <2>2. FinalRow(r) \in db.keys /\ p.body = CreatedBody(r.route, r.body)
    BY <1>3, <1>4, <2>1 DEF FinalRow
  <2>3. p \in Reply  BY <1>1, <2>2, RequestFacts DEF Reply, SuccessCode
  <2>4. db'.keys = db.keys /\ Consistent(db') /\ view' = db' /\ writer' = NoProc
    BY <1>1, <1>7 DEF StoreInv
  <2>5. Grounded(r, p)'
    BY <1>7, <2>2, <2>4 DEF Grounded, SuccessCode
  <2>6. reply' = [reply EXCEPT ![h] = p] /\ pc' = [pc EXCEPT ![h] = "respond"]
        /\ req' = req /\ job' = job /\ ver' = ver
        /\ snap' = [snap EXCEPT ![h] = NoSnapshot]
    BY <1>7
  <2> HIDE DEF p
  <2>7. StoreInv'  BY <2>4 DEF StoreInv
  <2>8. TypeOK'
    <3>1. db' \in DB /\ view' \in DB  BY <2>7 DEF StoreInv, Consistent
    <3>2. snap' \in [Proc -> Nat \cup {NoSnapshot}]  BY <2>6 DEF TypeOK
    <3> QED  BY <2>3, <2>4, <2>6, <3>1, <3>2 DEF TypeOK, HandlerState
  <2>9. LockInv'  BY <1>1, <2>4, <2>6 DEF TypeOK, LockInv, InTx
  <2>10. ServedInv'  BY <1>1, <2>6 DEF TypeOK, ServedInv
  <2>11. ViewInv'  BY <1>1, <2>4, <2>6 DEF TypeOK, ViewInv, LockInv, InTx
  <2>12. KeysInv'  BY <2>4 DEF KeysInv
  <2>13. CommittedInv'  BY <2>4 DEF CommittedInv, ExactlyOnce
  <2>14. RepliesInv'
    BY <2>3, <2>4, <2>5, <2>6, GroundedStable DEF TypeOK, RepliesInv
  <2> QED  BY <2>7, <2>8, <2>9, <2>10, <2>11, <2>12, <2>13, <2>14
<1> QED  BY <1>2, <1>5, <1>6, <1>7

LEMMA WriteRecordKeyInv ==
  ASSUME KeyInv, NEW h \in Handler, WriteRecord(h)
  PROVE  KeyInv'
<1> DEFINE r == req[h]
           error == IngestError(view, r.route, r.body)
           made == IngestWrite(view, r.route, r.body)
           new == FinalizeKey(made, r.route, r.key, CreatedBody(r.route, r.body))
<1> USE DEF WriteRecord, Unwritten, clientVars, historyVars
<1> USE ProcessAssumption, ProcAssumption DEF KeyInv
<1>1. /\ pc[h] = "write" /\ writer = h /\ r \in Request
      /\ view.keys = db.keys \cup {ClaimRow(r)}
      /\ ~KeyTaken(db, r.route, r.key)
      /\ Consistent(view)
  BY DEF LockInv, InTx, ViewInv, ServedInv, StoreInv
<1>2. CASE error # "none" /\ Abort(h, error)
  <2>1. error \in {"run_exists", "run_not_found", "iteration_exists", "archive_exists"}
    BY <1>2 DEF IngestError
  <2> HIDE DEF error
  <2>2. Grounded(r, Failed(error))
    BY <2>1 DEF Grounded, Failed, SuccessCode
  <2>3. mishaps' \in 0 .. MaxMishaps  BY <1>2 DEF TypeOK
  <2> QED  BY <1>1, <1>2, <2>1, <2>2, <2>3, AbortKeyInv DEF Working, ErrorCode
<1>3. CASE /\ error = "none"
           /\ Write(h, new)
           /\ Goto(h, "commit")
           /\ UNCHANGED <<req, reply, job>>
  <2>1. r.route \in Route /\ r.body \in Payload  BY <1>1, RequestFacts
  <2>2. Consistent(made) /\ made.keys = view.keys
    BY <1>1, <1>3, <2>1, IngestWriteConsistent
  <2>3. \A k \in db.keys : ~(k.route_path = r.route /\ k.idempotency_key = r.key)
    BY <1>1 DEF KeyTaken, KeyRows
  <2>4. Consistent(new) /\ new.keys = db.keys \cup {FinalRow(r)}
    <3>1. made.keys = db.keys \cup {ClaimRow(r)}  BY <1>1, <2>2
    <3>2. r \in Request  BY <1>1
    <3> DEFINE ks == db.keys
    <3>3. made.keys = ks \cup {ClaimRow(r)}  BY <3>1
    <3>4. \A k \in ks : ~(k.route_path = r.route /\ k.idempotency_key = r.key)  BY <2>3
    <3> HIDE DEF made, r, ks
    <3>5. /\ Consistent(FinalizeKey(made, r.route, r.key, CreatedBody(r.route, r.body)))
          /\ FinalizeKey(made, r.route, r.key, CreatedBody(r.route, r.body)).keys
               = ks \cup {FinalRow(r)}
      BY <2>2, <3>2, <3>3, <3>4, FinalizeClaim
    <3> QED  BY <3>5 DEF ks
  <2>5. /\ db' = db /\ ver' = ver /\ snap' = snap /\ writer' = h /\ view' = new
        /\ pc' = [pc EXCEPT ![h] = "commit"]
        /\ req' = req /\ reply' = reply /\ job' = job
    BY <1>3 DEF Write, Goto
  <2> HIDE DEF new, made, error
  <2>6. StoreInv'  BY <2>4, <2>5 DEF StoreInv
  <2>7. TypeOK'
    <3>1. db' \in DB /\ view' \in DB  BY <2>6 DEF StoreInv, Consistent
    <3> QED  BY <2>5, <3>1 DEF TypeOK, HandlerState
  <2>8. LockInv'  BY <1>1, <2>5 DEF TypeOK, LockInv, InTx
  <2>9. ServedInv'  BY <1>1, <2>5 DEF TypeOK, ServedInv
  <2>10. ViewInv'
    BY <1>1, <2>4, <2>5 DEF TypeOK, ViewInv, LockInv, InTx
  <2>11. KeysInv'  BY <2>5 DEF KeysInv
  <2>12. CommittedInv'  BY <2>5 DEF CommittedInv, ExactlyOnce
  <2>13. RepliesInv'
    BY <2>5, GroundedStable DEF TypeOK, RepliesInv
  <2> QED  BY <2>6, <2>7, <2>8, <2>9, <2>10, <2>11, <2>12, <2>13
<1> QED  BY <1>2, <1>3

\* The commit publishes the key together with the resource, and only here
\* does a request become committed.
LEMMA CommitKeyInv ==
  ASSUME KeyInv, NEW h \in Handler, Commit(h)
  PROVE  KeyInv'
<1> DEFINE r == req[h]
           p == [code |-> "created", body |-> CreatedBody(r.route, r.body)]
<1> USE DEF Commit, CommitTx, Answer, Goto, clientVars
<1> USE ProcessAssumption, ProcAssumption DEF KeyInv
<1>1. /\ pc[h] = "commit" /\ writer = h /\ r \in Request
      /\ view.keys = db.keys \cup {FinalRow(r)}
      /\ ~KeyTaken(db, r.route, r.key)
      /\ Consistent(view)
  BY DEF LockInv, InTx, ViewInv, ServedInv, StoreInv
<1>2. /\ db'.keys = db.keys \cup {FinalRow(r)}
      /\ Consistent(db') /\ view' = db' /\ writer' = NoProc
  BY <1>1
<1>3. /\ reply' = [reply EXCEPT ![h] = p] /\ pc' = [pc EXCEPT ![h] = "respond"]
      /\ req' = req /\ job' = job /\ replies' = replies /\ ver' = ver + 1
      /\ snap' = [snap EXCEPT ![h] = NoSnapshot]
      /\ committed' = committed \cup {[at |-> ver, request |-> r]}
      /\ mishaps' = mishaps /\ cpc' = cpc /\ creq' = creq /\ conn' = conn
  OBVIOUS
<1>4. p \in Reply  BY <1>1, RequestFacts DEF Reply, SuccessCode
<1>5. RequestOf(FinalRow(r)) = r  BY <1>1, RequestFacts
<1>6. \A k \in db.keys : ~(k.route_path = r.route /\ k.idempotency_key = r.key)
  BY <1>1 DEF KeyTaken, KeyRows
<1>7. FinalRow(r).route_path = r.route /\ FinalRow(r).idempotency_key = r.key
  BY DEF FinalRow
<1>8. Grounded(req[h], reply[h])'
  <2>1. req'[h] = r /\ reply'[h] = p  BY <1>3 DEF TypeOK
  <2>2. FinalRow(r) \in db'.keys  BY <1>2
  <2> QED  BY <2>1, <2>2 DEF Grounded, SuccessCode
<1>9. db.keys \subseteq db'.keys  BY <1>2
<1> HIDE DEF p
<1>10. StoreInv'  BY <1>2 DEF StoreInv
<1>11. TypeOK'
  <2>1. db' \in DB /\ view' \in DB  BY <1>10 DEF StoreInv, Consistent
  <2>2. snap' \in [Proc -> Nat \cup {NoSnapshot}]  BY <1>3 DEF TypeOK
  <2>3. committed' \subseteq Commits  BY <1>1, <1>3 DEF TypeOK, Commits
  <2>4. ver' \in Nat  BY <1>3 DEF TypeOK
  <2> QED  BY <1>2, <1>3, <1>4, <2>1, <2>2, <2>3, <2>4 DEF TypeOK, HandlerState
<1>12. LockInv'  BY <1>1, <1>2, <1>3 DEF TypeOK, LockInv, InTx
<1>13. ServedInv'  BY <1>1, <1>3 DEF TypeOK, ServedInv
<1>14. ViewInv'  BY <1>1, <1>2, <1>3 DEF TypeOK, ViewInv, LockInv, InTx
<1>15. KeysInv'
  BY <1>1, <1>2, <1>5, <1>6, <1>7 DEF KeysInv
<1>16. CommittedInv'
  <2>1. \A a \in committed' : FinalRow(a.request) \in db'.keys
    BY <1>2, <1>3 DEF CommittedInv
  <2>2. \A a \in committed : ~SameKey(a.request, r)
    <3> SUFFICES ASSUME NEW a \in committed PROVE ~SameKey(a.request, r)  OBVIOUS
    <3>1. FinalRow(a.request) \in db.keys  BY DEF CommittedInv
    <3> QED  BY <1>6, <3>1 DEF FinalRow, SameKey
  <2>3. ExactlyOnce'
    BY <1>3, <2>2 DEF CommittedInv, ExactlyOnce, SameKey
  <2> QED  BY <2>1, <2>3 DEF CommittedInv
<1>17. RepliesInv'
  BY <1>3, <1>4, <1>8, <1>9, GroundedStable DEF TypeOK, RepliesInv
<1> QED  BY <1>10, <1>11, <1>12, <1>13, <1>14, <1>15, <1>16, <1>17

LEMMA FaultKeyInv ==
  ASSUME KeyInv, NEW h \in Handler, Fault(h)
  PROVE  KeyInv'
<1>1. Grounded(req[h], Failed("internal_error"))
  BY DEF Grounded, Failed, SuccessCode
<1>2. mishaps' \in 0 .. MaxMishaps
  BY BoundAssumption DEF KeyInv, TypeOK, Fault, Mishap
<1> QED
  BY <1>1, <1>2, AbortKeyInv DEF Fault, Working, ErrorCode

\* The crash rolls back at most the lock holder's changes; what replies rest
\* on is committed.
LEMMA CrashKeyInv ==
  ASSUME KeyInv, Crash
  PROVE  KeyInv'
<1> USE DEF Crash, Mishap, RollbackAll, historyVars
<1> USE ProcessAssumption, ProcAssumption DEF KeyInv
<1>1. /\ db' = db /\ ver' = ver
      /\ writer' = IF writer \in Handler THEN NoProc ELSE writer
      /\ view' = IF writer \in Handler THEN db ELSE view
  OBVIOUS
<1>2. StoreInv'  BY <1>1 DEF StoreInv
<1>3. TypeOK'
  <2>1. db' \in DB /\ view' \in DB  BY <1>2 DEF StoreInv, Consistent
  <2>2. snap' \in [Proc -> Nat \cup {NoSnapshot}]  BY DEF TypeOK
  <2>3. mishaps' \in 0 .. MaxMishaps  BY BoundAssumption DEF TypeOK
  <2>4. cpc' \in [Client -> {"new", "wait", "retry", "done"}]  BY DEF TypeOK
  <2>5. writer' \in Proc \cup {NoProc}  BY <1>1 DEF TypeOK
  <2> QED  BY <1>1, <2>1, <2>2, <2>3, <2>4, <2>5 DEF TypeOK, HandlerState
<1>4. LockInv'  BY <1>1 DEF TypeOK, LockInv, InTx
<1>5. ServedInv'  BY DEF ServedInv
<1>6. ViewInv'  BY <1>1 DEF TypeOK, ViewInv, InTx
<1>7. KeysInv'  BY <1>1 DEF KeysInv
<1>8. CommittedInv'  BY <1>1 DEF CommittedInv, ExactlyOnce
<1>9. RepliesInv'  BY <1>1, GroundedStable DEF TypeOK, RepliesInv
<1> QED  BY <1>2, <1>3, <1>4, <1>5, <1>6, <1>7, <1>8, <1>9

-----------------------------------------------------------------------------
(***************************************************************************)
(* The steps of the CLI processes, which never change the key table.       *)
(***************************************************************************)
LEMMA JobFacts ==
  ASSUME NEW j \in Job
  PROVE  j.payload \in PayloadType /\ j.mode \in WriteMode
<1>1. j \in JobType  BY RequestAssumption
<1> QED  BY <1>1, PayloadAssumption DEF JobType

LEMMA CliStartKeyInv ==
  ASSUME KeyInv, NEW w \in Writer, CliStart(w)
  PROVE  KeyInv'
<1> USE DEF Quiet, Goto, clientVars, historyVars
<1> USE ProcessAssumption, ProcAssumption DEF KeyInv
<1>1. pc[w] = "start" /\ writer # w
  BY DEF CliStart, LockInv
<1>2. PICK j \in Job : SelectRun(w, j) \/ AppendArchive(w, j)
  BY DEF CliStart
<1>3. /\ job' = [job EXCEPT ![w] = j] /\ req' = req /\ reply' = reply
      /\ db' = db /\ ver' = ver /\ mishaps' = mishaps
      /\ committed' = committed /\ replies' = replies
      /\ cpc' = cpc /\ creq' = creq /\ conn' = conn
      /\ snap' = snap \/ snap' = [snap EXCEPT ![w] = ver]
  BY <1>2 DEF CliStart, SelectRun, AppendArchive, ReadSnapshot, WriteSnapshot, storeVars
<1>4. \/ /\ pc' \in {[pc EXCEPT ![w] = "failed"], [pc EXCEPT ![w] = "cliWrite"]}
         /\ writer' = writer /\ view' = view
      \/ /\ pc' = [pc EXCEPT ![w] = "cliCommit"]
         /\ writer = NoProc /\ writer' = w /\ view' = InsertArchive(db, j.payload)
  <2>1. CASE SelectRun(w, j)
    BY <2>1 DEF SelectRun, ReadSnapshot, storeVars
  <2>2. CASE AppendArchive(w, j)
    BY <2>2 DEF AppendArchive, WriteSnapshot, storeVars
  <2> QED  BY <1>2, <2>1, <2>2
<1>5. /\ Consistent(InsertArchive(db, j.payload))
      /\ InsertArchive(db, j.payload).keys = db.keys
  BY JobFacts, InsertArchiveConsistent DEF StoreInv
<1>6. StoreInv' /\ (writer' = w => view'.keys = db.keys)
  BY <1>1, <1>3, <1>4, <1>5 DEF StoreInv
<1>7. TypeOK'
  <2>1. db' \in DB /\ view' \in DB  BY <1>6 DEF StoreInv, Consistent
  <2>2. snap' \in [Proc -> Nat \cup {NoSnapshot}]  BY <1>3 DEF TypeOK
  <2>3. PICK s \in {"failed", "cliWrite", "cliCommit"} : pc' = [pc EXCEPT ![w] = s]
    BY <1>4
  <2>4. s \in WriterState /\ w \in Proc /\ w \notin Handler  BY DEF WriterState
  <2>5. /\ pc' \in [Proc -> HandlerState \cup WriterState]
        /\ \A h \in Handler : pc'[h] \in HandlerState
        /\ \A v \in Writer : pc'[v] \in WriterState
    BY <2>3, <2>4 DEF TypeOK
  <2>6. job' \in [Writer -> Job \cup {NoJob}]  BY <1>3 DEF TypeOK
  <2>7. writer' \in Proc \cup {NoProc}  BY <1>4, <2>4 DEF TypeOK
  <2> QED  BY <1>3, <2>1, <2>2, <2>5, <2>6, <2>7 DEF TypeOK
<1>8. LockInv'  BY <1>1, <1>3, <1>4 DEF TypeOK, LockInv, InTx
<1>9. ServedInv'  BY <1>3, <1>4 DEF TypeOK, ServedInv
<1>10. ViewInv'
  BY <1>1, <1>3, <1>4, <1>6 DEF TypeOK, ViewInv, LockInv, InTx
<1>11. KeysInv'  BY <1>3 DEF KeysInv
<1>12. CommittedInv'  BY <1>3 DEF CommittedInv, ExactlyOnce
<1>13. RepliesInv'  BY <1>3, <1>4, GroundedStable DEF TypeOK, RepliesInv
<1> QED  BY <1>6, <1>7, <1>8, <1>9, <1>10, <1>11, <1>12, <1>13

\* A CLI process that gives up.
LEMMA CliAbortKeyInv ==
  ASSUME KeyInv, NEW w \in Writer, pc[w] \in {"cliWrite", "cliCommit"},
         Rollback(w), Goto(w, "failed"), mishaps' \in 0 .. MaxMishaps,
         UNCHANGED <<job, req, reply, clientVars, historyVars>>
  PROVE  KeyInv'
<1> USE DEF Rollback, RollbackAll, Goto, clientVars, historyVars
<1> USE ProcessAssumption, ProcAssumption DEF KeyInv
<1>1. StoreInv'  BY DEF StoreInv
<1>2. TypeOK'
  <2>1. db' \in DB /\ view' \in DB  BY <1>1 DEF StoreInv, Consistent
  <2>2. snap' \in [Proc -> Nat \cup {NoSnapshot}]  BY DEF TypeOK
  <2>3. writer' \in Proc \cup {NoProc}  BY DEF TypeOK
  <2> QED  BY <2>1, <2>2, <2>3 DEF TypeOK, WriterState
<1>3. LockInv'  BY DEF TypeOK, LockInv, InTx
<1>4. ServedInv'  BY DEF TypeOK, ServedInv
<1>5. ViewInv'  BY DEF TypeOK, ViewInv, LockInv, InTx
<1>6. KeysInv'  BY DEF KeysInv
<1>7. CommittedInv'  BY DEF CommittedInv, ExactlyOnce
<1>8. RepliesInv'  BY GroundedStable DEF TypeOK, RepliesInv
<1> QED  BY <1>1, <1>2, <1>3, <1>4, <1>5, <1>6, <1>7, <1>8

LEMMA CliWriteKeyInv ==
  ASSUME KeyInv, NEW w \in Writer, CliWrite(w)
  PROVE  KeyInv'
<1> DEFINE new == InsertRun(db, job[w].payload, job[w].mode)
<1> USE DEF CliWrite, Quiet, clientVars, historyVars
<1> USE ProcessAssumption, ProcAssumption DEF KeyInv
<1>1. CASE ~CanWrite(w)
  <2>1. mishaps' \in 0 .. MaxMishaps  BY DEF TypeOK
  <2> QED  BY <1>1, <2>1, CliAbortKeyInv
<1>2. CASE CanWrite(w)
  <2>1. /\ pc[w] = "cliWrite" /\ writer = NoProc /\ writer' = w /\ view' = new
        /\ pc' = [pc EXCEPT ![w] = "cliCommit"]
        /\ db' = db /\ ver' = ver /\ snap' = snap
    BY <1>2 DEF Write, CanWrite, Goto, LockInv
  <2>2. job[w] \in Job  BY <2>1 DEF ServedInv
  <2>3. Consistent(new) /\ new.keys = db.keys
    BY <2>2, JobFacts, InsertRunConsistent DEF StoreInv
  <2> HIDE DEF new
  <2>4. StoreInv'  BY <2>1, <2>3 DEF StoreInv
  <2>5. TypeOK'
    <3>1. db' \in DB /\ view' \in DB  BY <2>4 DEF StoreInv, Consistent
    <3> QED  BY <2>1, <3>1 DEF TypeOK, WriterState
  <2>6. LockInv'  BY <2>1 DEF TypeOK, LockInv, InTx
  <2>7. ServedInv'  BY <2>1 DEF TypeOK, ServedInv
  <2>8. ViewInv'  BY <2>1, <2>3 DEF TypeOK, ViewInv, LockInv, InTx
  <2>9. KeysInv'  BY <2>1 DEF KeysInv
  <2>10. CommittedInv'  BY <2>1 DEF CommittedInv, ExactlyOnce
  <2>11. RepliesInv'  BY <2>1, GroundedStable DEF TypeOK, RepliesInv
  <2> QED  BY <2>4, <2>5, <2>6, <2>7, <2>8, <2>9, <2>10, <2>11
<1> QED  BY <1>1, <1>2

LEMMA CliCommitKeyInv ==
  ASSUME KeyInv, NEW w \in Writer, CliCommit(w)
  PROVE  KeyInv'
<1> USE DEF CliCommit, CommitTx, Goto, Quiet, clientVars, historyVars
<1> USE ProcessAssumption, ProcAssumption DEF KeyInv
<1>1. /\ db'.keys = db.keys /\ Consistent(db') /\ view' = db' /\ writer' = NoProc
      /\ writer = w /\ pc[w] = "cliCommit"
  BY DEF ViewInv, StoreInv
<1>2. StoreInv'  BY <1>1 DEF StoreInv
<1>3. TypeOK'
  <2>1. db' \in DB /\ view' \in DB  BY <1>2 DEF StoreInv, Consistent
  <2>2. snap' \in [Proc -> Nat \cup {NoSnapshot}]  BY DEF TypeOK
  <2>3. ver' \in Nat  BY DEF TypeOK
  <2> QED  BY <1>1, <2>1, <2>2, <2>3 DEF TypeOK, WriterState
<1>4. LockInv'  BY <1>1 DEF TypeOK, LockInv, InTx
<1>5. ServedInv'  BY DEF TypeOK, ServedInv
<1>6. ViewInv'
  <2>1. \A h \in Handler : pc'[h] = pc[h] /\ pc[h] \notin InTx
    BY <1>1 DEF TypeOK, LockInv
  <2> QED  BY <1>1, <2>1 DEF ViewInv, InTx
<1>7. KeysInv'  BY <1>1 DEF KeysInv
<1>8. CommittedInv'  BY <1>1 DEF CommittedInv, ExactlyOnce
<1>9. RepliesInv'  BY <1>1, GroundedStable DEF TypeOK, RepliesInv
<1> QED  BY <1>2, <1>3, <1>4, <1>5, <1>6, <1>7, <1>8, <1>9

LEMMA CliFailKeyInv ==
  ASSUME KeyInv, NEW w \in Writer, CliFail(w)
  PROVE  KeyInv'
<1>1. mishaps' \in 0 .. MaxMishaps
  BY BoundAssumption DEF KeyInv, TypeOK, CliFail, Mishap
<1> QED  BY <1>1, CliAbortKeyInv DEF CliFail

-----------------------------------------------------------------------------
(***************************************************************************)
(* Every step preserves the invariant.                                     *)
(***************************************************************************)
LEMMA StutterKeyInv ==
  ASSUME KeyInv, UNCHANGED vars
  PROVE  KeyInv'
<1> USE DEF vars, storeVars, handlerVars, clientVars, historyVars, KeyInv
<1>1. TypeOK'  BY DEF TypeOK
<1>2. StoreInv' /\ LockInv' /\ ServedInv'  BY DEF StoreInv, LockInv, ServedInv
<1>3. ViewInv'  BY DEF ViewInv, KeyTaken, KeyRows
<1>4. KeysInv' /\ CommittedInv'  BY DEF KeysInv, CommittedInv, ExactlyOnce
<1>5. RepliesInv'  BY GroundedStable DEF RepliesInv
<1> QED  BY <1>1, <1>2, <1>3, <1>4, <1>5

LEMMA NextKeyInv == KeyInv /\ [Next]_vars => KeyInv'
<1> SUFFICES ASSUME KeyInv, [Next]_vars PROVE KeyInv'  OBVIOUS
<1>1. CASE \E c \in Client, h \in Handler : Send(c, h)
  BY <1>1, SendKeyInv
<1>2. CASE \E c \in Client : ClientTimeout(c)
  BY <1>2, ClientTimeoutKeyInv
<1>3. CASE \E h \in Handler : HandlerStep(h)
  <2>1. PICK h \in Handler : HandlerStep(h)  BY <1>3
  <2>2. CASE EnsureTable(h)  BY <2>2, EnsureTableKeyInv
  <2>3. CASE ClaimKey(h)  BY <2>3, ClaimKeyKeyInv
  <2>4. CASE ClaimBusy(h)  BY <2>4, ClaimBusyKeyInv
  <2>5. CASE ReplayExisting(h)  BY <2>5, ReplayExistingKeyInv
  <2>6. CASE WriteRecord(h)  BY <2>6, WriteRecordKeyInv
  <2>7. CASE Commit(h)  BY <2>7, CommitKeyInv
  <2>8. CASE Respond(h)  BY <2>8, RespondKeyInv
  <2> QED
    BY <2>1, <2>2, <2>3, <2>4, <2>5, <2>6, <2>7, <2>8 DEF HandlerStep
<1>4. CASE \E h \in Handler : Fault(h)
  BY <1>4, FaultKeyInv
<1>5. CASE Crash
  BY <1>5, CrashKeyInv
<1>6. CASE \E w \in Writer : WriterStep(w)
  BY <1>6, CliStartKeyInv, CliWriteKeyInv, CliCommitKeyInv DEF WriterStep
<1>7. CASE \E w \in Writer : CliFail(w)
  BY <1>7, CliFailKeyInv
<1>8. CASE UNCHANGED vars
  BY <1>8, StutterKeyInv
<1> QED
  BY <1>1, <1>2, <1>3, <1>4, <1>5, <1>6, <1>7, <1>8 DEF Next, Finished

-----------------------------------------------------------------------------
(***************************************************************************)
(* The theorems.                                                           *)
(***************************************************************************)
LEMMA KeysHold == Spec => []KeyInv
<1>1. Init => KeyInv  BY InitKeyInv
<1>2. KeyInv /\ [Next]_vars => KeyInv'  BY NextKeyInv
<1> QED  BY <1>1, <1>2, PTL DEF Spec

\* Type correctness of handlers, clients, transactions and table rows.
THEOREM TypeCorrect == Spec => []TypeOK
<1>1. KeyInv => TypeOK  BY DEF KeyInv
<1> QED  BY <1>1, KeysHold, PTL

\* withIdempotentWrite commits at most one write per route and key, for any
\* number of overlapping retries, crashes and rival requests.
THEOREM WritesAreExactlyOnce == Spec => []ExactlyOnce
<1>1. KeyInv => ExactlyOnce  BY DEF KeyInv, CommittedInv
<1> QED  BY <1>1, KeysHold, PTL

\* Every success reply that reached a client has its finalised key row, with
\* the body the client holds, in the committed table.
THEOREM AcknowledgedIsStored == Spec => []AckedReplyStored
<1>1. KeyInv => AckedReplyStored
  <2> SUFFICES ASSUME KeyInv, NEW x \in replies, x.reply.code \in SuccessCode
               PROVE  \E k \in Stored(x.request) :
                        k.status_code = 201 /\ k.response_body = x.reply.body
    BY DEF AckedReplyStored
  <2>1. Grounded(x.request, x.reply)  BY DEF KeyInv, RepliesInv
  <2>2. /\ FinalRow(x.request) \in db.keys
        /\ x.reply.body = CreatedBody(x.request.route, x.request.body)
    BY <2>1 DEF Grounded
  <2> QED  BY <2>2 DEF FinalRow, Stored
<1> QED  BY <1>1, KeysHold, PTL

\* No committed key row is a mere claim, and no client is ever told
\* "idempotency_key_in_progress".
THEOREM ClaimsStayInvisible == Spec => []NoVisibleClaim
<1>1. KeyInv => NoVisibleClaim
  <2> SUFFICES ASSUME KeyInv PROVE NoVisibleClaim  OBVIOUS
  <2>1. \A k \in db.keys : k.status_code # 0
    <3> SUFFICES ASSUME NEW k \in db.keys PROVE k.status_code # 0  OBVIOUS
    <3>1. k = FinalRow(RequestOf(k))  BY DEF KeyInv, KeysInv
    <3>2. FinalRow(RequestOf(k)).status_code = 201  BY DEF FinalRow
    <3> QED  BY <3>1, <3>2
  <2>2. \A x \in replies : x.reply.code # "idempotency_key_in_progress"
    BY DEF KeyInv, RepliesInv, Grounded
  <2> QED  BY <2>1, <2>2 DEF NoVisibleClaim
<1> QED  BY <1>1, KeysHold, PTL

\* One runs row per run_id and no iteration without its run, for the ingest
\* API and the CLI's three write modes together.
THEOREM HistoryStaysConsistent == Spec => [](RunIdUnique /\ NoOrphanIterations)
<1>1. KeyInv => RunIdUnique /\ NoOrphanIterations
  BY DEF KeyInv, StoreInv, Consistent, UniqueRuns, ForeignKey, RunIdUnique, NoOrphanIterations
<1> QED  BY <1>1, KeysHold, PTL

\* No iteration outlives its run: the cascade of a replaced run leaves none.
THEOREM IterationsHaveRuns == Spec => []NoOrphanIterations
BY HistoryStaysConsistent, PTL

-----------------------------------------------------------------------------
(***************************************************************************)
(* What is true of README.md:136, "server replays original response": an   *)
(* error is not kept, but a success is.                                    *)
(***************************************************************************)
\* Two clients that were told of a success under one route and key sent the
\* same request and hold the same response body, in whatever order their
\* handlers ran, timed out, crashed or were asked again.
RepliesAgree ==
  \A x, y \in replies :
    /\ SameKey(x.request, y.request)
    /\ x.reply.code \in SuccessCode /\ y.reply.code \in SuccessCode
    => x.request = y.request /\ x.reply.body = y.reply.body

THEOREM SuccessesAgree == Spec => []RepliesAgree
<1>1. KeyInv => RepliesAgree
  <2> SUFFICES ASSUME KeyInv, NEW x \in replies, NEW y \in replies,
                      SameKey(x.request, y.request),
                      x.reply.code \in SuccessCode, y.reply.code \in SuccessCode
               PROVE  x.request = y.request /\ x.reply.body = y.reply.body
    BY DEF RepliesAgree
  <2> DEFINE k == FinalRow(x.request)
             l == FinalRow(y.request)
  <2>1. Grounded(x.request, x.reply) /\ Grounded(y.request, y.reply)
    BY DEF KeyInv, RepliesInv
  <2>2. /\ k \in db.keys /\ x.reply.body = CreatedBody(x.request.route, x.request.body)
        /\ l \in db.keys /\ y.reply.body = CreatedBody(y.request.route, y.request.body)
    BY <2>1 DEF Grounded
  <2>3. k.route_path = l.route_path /\ k.idempotency_key = l.idempotency_key
    BY DEF FinalRow, SameKey
  <2>4. k = l  BY <2>2, <2>3 DEF KeyInv, KeysInv
  <2>5. x.request \in Request /\ y.request \in Request
    BY DEF KeyInv, TypeOK, Replies
  <2>6. RequestOf(k) = x.request /\ RequestOf(l) = y.request  BY <2>5, RequestFacts
  <2> HIDE DEF k, l
  <2> QED  BY <2>2, <2>4, <2>6
<1> QED  BY <1>1, KeysHold, PTL

Writing == {"ensure", "claim", "existing", "write", "commit"}

\* Only these five steps end a write.
LEMMA DecidingStep ==
  ASSUME KeyInv, [Next]_vars, NEW h \in Handler, pc[h] \in Writing, pc'[h] = "respond"
  PROVE  ClaimBusy(h) \/ ReplayExisting(h) \/ WriteRecord(h) \/ Commit(h) \/ Fault(h)
<1> USE ProcAssumption, ProcessAssumption DEF Goto, Writing
<1>1. TypeOK  BY DEF KeyInv
<1>2. ASSUME NEW c \in Client, NEW g \in Handler PROVE ~ Send(c, g)
  <2> SUFFICES ASSUME Send(c, g) PROVE FALSE  OBVIOUS
  <2>1. pc[g] = "idle" /\ \E s : pc' = [pc EXCEPT ![g] = s]  BY DEF Send
  <2> QED  BY <1>1, <2>1 DEF TypeOK
<1>3. ~ \E c \in Client : ClientTimeout(c)  BY DEF ClientTimeout, handlerVars
<1>4. ASSUME NEW g \in Handler, HandlerStep(g)
      PROVE  ClaimBusy(h) \/ ReplayExisting(h) \/ WriteRecord(h) \/ Commit(h)
  <2>1. CASE EnsureTable(g)  BY <1>1, <2>1 DEF EnsureTable, TypeOK
  <2>2. CASE ClaimKey(g)  BY <1>1, <2>2 DEF ClaimKey, TypeOK
  <2>3. CASE ClaimBusy(g)  BY <1>1, <2>3 DEF ClaimBusy, Abort, Answer, TypeOK
  <2>4. CASE ReplayExisting(g)
    BY <1>1, <2>4 DEF ReplayExisting, Abort, Answer, TypeOK
  <2>5. CASE WriteRecord(g)  BY <1>1, <2>5 DEF WriteRecord, Abort, Answer, TypeOK
  <2>6. CASE Commit(g)  BY <1>1, <2>6 DEF Commit, Answer, TypeOK
  <2>7. CASE Respond(g)  BY <1>1, <2>7 DEF Respond, TypeOK
  <2> QED  BY <1>4, <2>1, <2>2, <2>3, <2>4, <2>5, <2>6, <2>7 DEF HandlerStep
<1>5. ASSUME NEW g \in Handler, Fault(g) PROVE Fault(h)
  BY <1>1, <1>5 DEF Fault, Abort, Answer, TypeOK
<1>6. ~ Crash  BY DEF Crash
<1>7. ASSUME NEW w \in Writer PROVE ~ (WriterStep(w) \/ CliFail(w))
  <2> SUFFICES ASSUME WriterStep(w) \/ CliFail(w) PROVE FALSE  OBVIOUS
  <2>1. \E s : pc' = [pc EXCEPT ![w] = s]
    <3>1. CASE CliStart(w)  BY <3>1 DEF CliStart, SelectRun, AppendArchive
    <3>2. CASE CliWrite(w)  BY <3>2 DEF CliWrite
    <3>3. CASE CliCommit(w) \/ CliFail(w)  BY <3>3 DEF CliCommit, CliFail
    <3> QED  BY <3>1, <3>2, <3>3 DEF WriterStep
  <2> QED  BY <1>1, <2>1 DEF TypeOK
<1>8. ~ (Finished \/ UNCHANGED vars)  BY DEF Finished, vars, handlerVars
<1> QED
  BY <1>2, <1>3, <1>4, <1>5, <1>6, <1>7, <1>8 DEF Next

\* Once a write has been committed, every further handler of that request
\* replays its response, or fails with a 500 that the client retries: neither
\* "exists" for the resource the request itself has made, nor a conflict.
SuccessIsFinal ==
  [][\A h \in Handler :
       pc[h] \in Writing /\ pc'[h] = "respond" =>
         \A k \in Stored(req[h]) :
           \/ reply'[h].code = "internal_error"
           \/ reply'[h] = [code |-> "replayed", body |-> k.response_body]]_vars

\* A request that is stored has its key taken, so no handler is past its claim;
\* the one row under the key is the request's own.
THEOREM StoredIsReplayed == Spec => SuccessIsFinal
<1>1. ASSUME KeyInv, [Next]_vars, NEW h \in Handler, pc[h] \in Writing, pc'[h] = "respond",
             NEW k \in Stored(req[h])
      PROVE  \/ reply'[h].code = "internal_error"
             \/ reply'[h] = [code |-> "replayed", body |-> k.response_body]
  <2> DEFINE r == req[h]
  <2>1. /\ reply \in [Handler -> Reply \cup {NoReply}]
        /\ k \in db.keys /\ k.route_path = r.route /\ k.idempotency_key = r.key
        /\ k.request = r.body
    BY <1>1 DEF KeyInv, TypeOK, Stored
  <2>2. KeyTaken(db, r.route, r.key)  BY <2>1 DEF KeyTaken, KeyRows
  <2>3. pc[h] \notin {"write", "commit"}  BY <1>1, <2>2 DEF KeyInv, ViewInv
  <2>4. ClaimBusy(h) \/ ReplayExisting(h) \/ Fault(h)
    BY <1>1, <2>3, DecidingStep DEF WriteRecord, Commit
  <2>5. CASE ClaimBusy(h) \/ Fault(h)
    BY <2>1, <2>5 DEF ClaimBusy, Fault, Abort, Answer, Failed
  <2>6. CASE ReplayExisting(h)
    <3>1. pc[h] = "existing" /\ view.keys = db.keys
      BY <1>1, <2>6 DEF ReplayExisting, KeyInv, LockInv, ViewInv, InTx
    <3>2. PICK x \in KeyRows(view, r.route, r.key) :
            \/ x.request # r.body
            \/ x.request = r.body /\ x.status_code = 0
            \/ Answer(h, [code |-> "replayed", body |-> x.response_body])
      BY <2>6 DEF ReplayExisting
    <3>3. x = k  BY <1>1, <2>1, <3>1, <3>2 DEF KeyRows, KeyInv, KeysInv
    <3>4. k.status_code = 201
      <4>1. k = FinalRow(RequestOf(k))  BY <1>1, <2>1 DEF KeyInv, KeysInv
      <4>2. FinalRow(RequestOf(k)).status_code = 201  BY DEF FinalRow
      <4> QED  BY <4>1, <4>2
    <3>5. Answer(h, [code |-> "replayed", body |-> k.response_body])
      BY <2>1, <3>2, <3>3, <3>4
    <3> QED  BY <2>1, <3>5 DEF Answer
  <2> QED  BY <2>4, <2>5, <2>6
<1>2. KeyInv /\ [Next]_vars =>
        \A h \in Handler :
          pc[h] \in Writing /\ pc'[h] = "respond" =>
            \A k \in Stored(req[h]) :
              \/ reply'[h].code = "internal_error"
              \/ reply'[h] = [code |-> "replayed", body |-> k.response_body]
  BY <1>1
<1> QED  BY <1>2, KeysHold, PTL DEF Spec, SuccessIsFinal

-----------------------------------------------------------------------------
(***************************************************************************)
(* The refinement of IdempotentStore.                                      *)
(***************************************************************************)
\* A step that leaves the committed key table and the delivered replies alone
\* is a stutter of the abstract store.
LEMMA AbstractStutter ==
  ASSUME db'.keys = db.keys, replies' = replies
  PROVE  UNCHANGED Abstract!vars
<1>1. Applied' = Applied  BY DEF Applied
<1>2. {Outcome(x) : x \in replies}' = {Outcome(x) : x \in replies}
  BY DEF Outcome
<1> QED  BY <1>1, <1>2 DEF Abstract!vars

\* The commit of a fresh write is the abstract Apply.
LEMMA CommitIsApply ==
  ASSUME KeyInv, NEW h \in Handler, Commit(h)
  PROVE  Abstract!Apply(req[h])
<1> DEFINE r == req[h]
<1>1. /\ r \in Request
      /\ ~KeyTaken(db, r.route, r.key)
      /\ db'.keys = db.keys \cup {FinalRow(r)}
      /\ replies' = replies
  BY ProcAssumption, ProcessAssumption
  DEF Commit, CommitTx, KeyInv, ServedInv, ViewInv
<1>2. RequestOf(FinalRow(r)) = r  BY <1>1, RequestFacts
<1>3. Applied' = Applied \cup {[request |-> r, response |-> ResponseTo(r)]}
  <2> DEFINE A(k) == [request |-> RequestOf(k), response |-> k.response_body]
  <2>1. Applied = {A(k) : k \in db.keys} /\ Applied' = {A(k) : k \in db'.keys}
    BY DEF Applied, RequestOf
  <2>2. A(FinalRow(r)) = [request |-> r, response |-> ResponseTo(r)]
    BY <1>2 DEF FinalRow, ResponseTo
  <2> HIDE DEF A
  <2> QED  BY <1>1, <2>1, <2>2
<1>4. \A a \in Applied : ~Abstract!SameKey(a.request, r)
  BY <1>1 DEF Applied, Abstract!SameKey, KeyTaken, KeyRows
<1>5. {Outcome(x) : x \in replies}' = {Outcome(x) : x \in replies}
  BY <1>1 DEF Outcome
<1> QED  BY <1>3, <1>4, <1>5 DEF Abstract!Apply

\* The delivery of a reply is the abstract Reply, or goes nowhere.
LEMMA RespondIsReply ==
  ASSUME KeyInv, NEW h \in Handler, Respond(h)
  PROVE  Abstract!Reply(req[h]) \/ UNCHANGED Abstract!vars
<1> DEFINE r == req[h]
           x == [request |-> r, reply |-> reply[h]]
           answers == {Outcome(y) : y \in replies}
<1>1. /\ r \in Request /\ reply[h] \in Reply /\ Grounded(r, reply[h])
      /\ db' = db /\ (replies' = replies \/ replies' = replies \cup {x})
  BY DEF Respond, KeyInv, ServedInv, RepliesInv, storeVars
<1>2. CASE replies' = replies
  BY <1>1, <1>2, AbstractStutter
<1>3. CASE replies' = replies \cup {x}
  <2>1. answers' = answers \cup {Outcome(x)}
    <3>1. answers' = {Outcome(y) : y \in replies'}  BY DEF Outcome
    <3> QED  BY <1>3, <3>1
  <2>2. Applied' = Applied  BY <1>1 DEF Applied
  <2>3. CASE reply[h].code \in SuccessCode
    <3> DEFINE k == FinalRow(r)
               a == [request |-> [route |-> k.route_path, key |-> k.idempotency_key,
                                  body |-> k.request],
                     response |-> k.response_body]
    <3>1. k \in db.keys /\ reply[h].body = k.response_body
      BY <1>1, <2>3 DEF Grounded, FinalRow
    <3>2. a \in Applied  BY <3>1 DEF Applied
    <3>3. a.request = r  BY <1>1, RequestFacts DEF RequestOf
    <3>4. Outcome(x) = Abstract!Success(r, a.response)
      BY <2>3, <3>1 DEF Outcome, Abstract!Success
    <3> HIDE DEF a, answers, x
    <3> QED  BY <2>1, <2>2, <3>2, <3>3, <3>4 DEF Abstract!Reply, answers
  <2>4. CASE reply[h].code = "idempotency_key_conflict"
    <3>1. PICK k \in KeyRows(db, r.route, r.key) : k.request # r.body
      BY <1>1, <2>4 DEF Grounded
    <3> DEFINE a == [request |-> [route |-> k.route_path, key |-> k.idempotency_key,
                                  body |-> k.request],
                     response |-> k.response_body]
    <3>2. a \in Applied /\ Abstract!SameKey(a.request, r) /\ a.request # r
      <4>1. k \in db.keys /\ k.route_path = r.route /\ k.idempotency_key = r.key
        BY <3>1 DEF KeyRows
      <4>2. a \in Applied  BY <4>1 DEF Applied
      <4>3. Abstract!SameKey(a.request, r)  BY <4>1 DEF Abstract!SameKey
      <4>4. a.request.body # r.body  BY <3>1
      <4> HIDE DEF a
      <4> QED  BY <4>2, <4>3, <4>4
    <3>3. Outcome(x) = Abstract!Conflict(r)
      BY <2>4 DEF Outcome, SuccessCode, Abstract!Conflict
    <3> HIDE DEF a, answers, x
    <3> QED  BY <2>1, <2>2, <3>2, <3>3 DEF Abstract!Reply, answers
  <2>5. CASE reply[h].code \notin SuccessCode \cup {"idempotency_key_conflict"}
    <3>1. Outcome(x) = Abstract!Failure(r)
      BY <2>5 DEF Outcome, Abstract!Failure
    <3> HIDE DEF answers, x
    <3> QED  BY <2>1, <2>2, <3>1 DEF Abstract!Reply, answers
  <2> QED  BY <2>3, <2>4, <2>5
<1> QED  BY <1>1, <1>2, <1>3

\* Every other step leaves keys and replies alone.
LEMMA OthersStutter ==
  ASSUME KeyInv, Next,
         ~\E h \in Handler : Commit(h) \/ Respond(h)
  PROVE  db'.keys = db.keys /\ replies' = replies
<1> USE DEF storeVars, historyVars, clientVars, Unwritten, Quiet
<1>1. CASE \E c \in Client, h \in Handler : Send(c, h)
  BY <1>1 DEF Send
<1>2. CASE \E c \in Client : ClientTimeout(c)
  BY <1>2 DEF ClientTimeout
<1>3. CASE \E h \in Handler : HandlerStep(h)
  <2>1. PICK h \in Handler : HandlerStep(h)  BY <1>3
  <2>2. CASE EnsureTable(h)
    BY <2>2 DEF EnsureTable, ReadSnapshot, WriteSnapshot
  <2>3. CASE ClaimKey(h)  BY <2>3 DEF ClaimKey, Write
  <2>4. CASE ClaimBusy(h)  BY <2>4 DEF ClaimBusy, Abort, Rollback, RollbackAll
  <2>5. CASE ReplayExisting(h)
    BY <2>5
    DEF ReplayExisting, Abort, Rollback, RollbackAll, CommitUnchanged, KeyInv, ViewInv
  <2>6. CASE WriteRecord(h)
    BY <2>6 DEF WriteRecord, Abort, Rollback, RollbackAll, Write
  <2> QED  BY <2>1, <2>2, <2>3, <2>4, <2>5, <2>6 DEF HandlerStep
<1>4. CASE \E h \in Handler : Fault(h)
  BY <1>4 DEF Fault, Abort, Rollback, RollbackAll
<1>5. CASE Crash
  BY <1>5 DEF Crash, RollbackAll
<1>6. CASE \E w \in Writer : WriterStep(w)
  <2>1. PICK w \in Writer : WriterStep(w)  BY <1>6
  <2>2. CASE CliStart(w)
    BY <2>2 DEF CliStart, SelectRun, AppendArchive, ReadSnapshot, WriteSnapshot
  <2>3. CASE CliWrite(w)
    BY <2>3 DEF CliWrite, Write, Rollback, RollbackAll
  <2>4. CASE CliCommit(w)
    BY <2>4 DEF CliCommit, CommitTx, KeyInv, ViewInv
  <2> QED  BY <2>1, <2>2, <2>3, <2>4 DEF WriterStep
<1>7. CASE \E w \in Writer : CliFail(w)
  BY <1>7 DEF CliFail, Rollback, RollbackAll
<1>8. CASE Finished
  BY <1>8 DEF Finished, vars
<1> QED
  BY <1>1, <1>2, <1>3, <1>4, <1>5, <1>6, <1>7, <1>8 DEF Next

\* The concurrent handlers implement the abstract store: what has been applied
\* is what the committed key table says.
THEOREM Refinement == Spec => ImplementsIdempotentStore
<1>1. Init => Abstract!Init
  BY DEF Init, StoreInit, EmptyDB, Abstract!Init, Applied
<1>2. KeyInv /\ [Next]_vars => [Abstract!Next]_(Abstract!vars)
  <2> SUFFICES ASSUME KeyInv, [Next]_vars
               PROVE  Abstract!Next \/ UNCHANGED Abstract!vars
    OBVIOUS
  <2>1. CASE \E h \in Handler : Commit(h)
    <3>1. PICK h \in Handler : Commit(h)  BY <2>1
    <3>2. req[h] \in Request  BY <3>1 DEF Commit, KeyInv, ServedInv
    <3> QED  BY <3>1, <3>2, CommitIsApply DEF Abstract!Next
  <2>2. CASE \E h \in Handler : Respond(h)
    <3>1. PICK h \in Handler : Respond(h)  BY <2>2
    <3>2. req[h] \in Request  BY <3>1 DEF Respond, KeyInv, ServedInv
    <3> QED  BY <3>1, <3>2, RespondIsReply DEF Abstract!Next
  <2>3. CASE Next /\ ~\E h \in Handler : Commit(h) \/ Respond(h)
    BY <2>3, OthersStutter, AbstractStutter
  <2>4. CASE UNCHANGED vars
    BY <2>4, AbstractStutter DEF vars, storeVars, historyVars
  <2> QED  BY <2>1, <2>2, <2>3, <2>4
<1> QED
  BY <1>1, <1>2, KeysHold, PTL
  DEF Spec, ImplementsIdempotentStore, Abstract!Spec
=============================================================================
