-------------------------- MODULE IngestInvariant --------------------------
(***************************************************************************)
(* The inductive invariant of IngestServer, in parts: the committed and    *)
(* the uncommitted database are consistent, the write lock is held by the  *)
(* process whose place in the code says so, the holder's uncommitted       *)
(* changes to the key table are exactly its claim, every reply, sent or    *)
(* about to be sent, has its ground in the committed key table (KeyInv),   *)
(* and the rows it speaks of are there (RowsInv).                          *)
(***************************************************************************)
EXTENDS IngestServer

ClaimRow(r) == [route_path |-> r.route, idempotency_key |-> r.key, request |-> r.body,
                status_code |-> 0, response_body |-> NoBody]

FinalRow(r) == [route_path |-> r.route, idempotency_key |-> r.key, request |-> r.body,
                status_code |-> 201, response_body |-> CreatedBody(r.route, r.body)]

StoreInv ==
  /\ Consistent(db)
  /\ Consistent(view)
  /\ writer = NoProc => view = db

InTx == {"existing", "write", "commit"}

LockInv ==
  /\ \A h \in Handler : pc[h] \in InTx => writer = h
  /\ \A h \in Handler : writer = h => pc[h] \in InTx \cup {"claim"}
  /\ \A w \in Writer : writer = w <=> pc[w] = "cliCommit"

ServedInv ==
  /\ \A h \in Handler : pc[h] # "idle" => req[h] \in Request
  /\ \A w \in Writer : pc[w] # "start" => job[w] \in Job

ViewInv ==
  /\ \A h \in Handler :
       /\ writer = h /\ pc[h] \in {"claim", "existing"} => view.keys = db.keys
       /\ pc[h] = "existing" => KeyTaken(db, req[h].route, req[h].key)
       /\ pc[h] \in {"write", "commit"} => ~KeyTaken(db, req[h].route, req[h].key)
       /\ pc[h] = "write" => view.keys = db.keys \cup {ClaimRow(req[h])}
       /\ pc[h] = "commit" => view.keys = db.keys \cup {FinalRow(req[h])}
  /\ \A w \in Writer : writer = w => view.keys = db.keys

RequestOf(k) ==
  [route |-> k.route_path, key |-> k.idempotency_key, body |-> k.request]

KeysInv ==
  /\ \A k \in db.keys : RequestOf(k) \in Request /\ k = FinalRow(RequestOf(k))
  /\ \A k, l \in db.keys :
       k.route_path = l.route_path /\ k.idempotency_key = l.idempotency_key => k = l

CommittedInv ==
  /\ \A a \in committed : FinalRow(a.request) \in db.keys
  /\ ExactlyOnce

Grounded(r, p) ==
  /\ p.code \in SuccessCode =>
       FinalRow(r) \in db.keys /\ p.body = CreatedBody(r.route, r.body)
  /\ p.code = "idempotency_key_conflict" =>
       \E k \in KeyRows(db, r.route, r.key) : k.request # r.body
  /\ p.code # "idempotency_key_in_progress"

RepliesInv ==
  /\ \A h \in Handler :
       pc[h] = "respond" => reply[h] \in Reply /\ Grounded(req[h], reply[h])
  /\ \A x \in replies : Grounded(x.request, x.reply)

KeyInv ==
  /\ TypeOK /\ StoreInv /\ LockInv /\ ServedInv /\ ViewInv
  /\ KeysInv /\ CommittedInv /\ RepliesInv

-----------------------------------------------------------------------------
(***************************************************************************)
(* The rows of the history: at each statement, what the lock holder has    *)
(* written is the committed history with its own write, and what key rows  *)
(* and refusals say is there.                                              *)
(***************************************************************************)
HandlerData(h) ==
  /\ pc[h] = "claim" => (writer = h <=> ~db.keytable)
  /\ writer = h => view.keytable
  /\ writer = h /\ pc[h] \in {"claim", "write"} => SameHistory(view, db)
  /\ pc[h] = "existing" => view = db
  /\ pc[h] = "commit" =>
       /\ IngestError(db, req[h].route, req[h].body) = "none"
       /\ SameHistory(view, IngestWrite(db, req[h].route, req[h].body))

WriterData(w) ==
  LET p == job[w].payload
      mode == job[w].mode
  IN
  /\ pc[w] = "cliWrite" =>
       /\ job[w].kind = "run" /\ snap[w] \in 0 .. ver
       /\ snap[w] = ver => ~InsertRunRefused(db, p, mode)
  /\ pc[w] = "cliCommit" =>
       \/ /\ job[w].kind = "run"
          /\ ~InsertRunRefused(db, p, mode) /\ view = InsertRun(db, p, mode)
       \/ job[w].kind = "archive" /\ view = InsertArchive(db, p)

Present(r) ==
  IF r.route = "archives" THEN r.body.archive \in db.archives
  ELSE /\ RunExists(db, r.body.run_id)
       /\ \/ Replaced(r.body.run_id)
          \/ \A it \in r.body.iterations :
               IterationExists(db, RunRowId(db, r.body.run_id), it.iteration)

Refused(r, code) ==
  /\ code \in {"run_exists", "iteration_exists"} => RunExists(db, r.body.run_id)
  /\ code = "archive_exists" => r.body.archive \in db.archives

RowsInv ==
  /\ \A h \in Handler : HandlerData(h)
  /\ \A w \in Writer : WriterData(w)
  /\ db.keys # {} => db.keytable
  /\ \A k \in db.keys : Present(RequestOf(k))
  /\ \A h \in Handler : pc[h] = "respond" => Refused(req[h], reply[h].code)
  /\ \A x \in replies : Refused(x.request, x.reply.code)

IInv == KeyInv /\ RowsInv
=============================================================================
