---------------------------- MODULE IngestServer ----------------------------
(***************************************************************************)
(* The ingest API of `kernelhub server` over the shared history.db:        *)
(* concurrent handlers of POST /api/v1/{runs,iterations,archives}, each    *)
(* one call of withIdempotentWrite (internal/server/handlers_ingest.go),   *)
(* clients that time out and send the same request again, a server that    *)
(* crashes and restarts, and CLI processes (`sync-git`, `archive-git`)     *)
(* that write the same file with appendRunWithMode and appendArchive.      *)
(*                                                                         *)
(* A handler is one goroutine with its own connection; a client's retry    *)
(* runs in another handler while the abandoned one goes on, because the    *)
(* handlers do not look at the request's context.                          *)
(***************************************************************************)
EXTENDS HistoryDB, WalStore

CONSTANTS Client,       \* API clients
          Handler,      \* handler goroutines that can run at once
          Writer,       \* CLI processes
          Request,      \* the requests clients send
          Job,          \* what the CLI processes write
          MaxMishaps    \* bound: timeouts, lost replies, crashes and I/O errors

RequestType == [route : Route, key : Key, body : Payload]
JobType == [kind : {"run", "archive"}, mode : WriteMode, payload : Payload]

ASSUME ProcessAssumption ==
  /\ Proc = Handler \cup Writer
  /\ Handler \cap Writer = {}

ASSUME RequestAssumption ==
  /\ Request \subseteq RequestType
  /\ Job \subseteq JobType
  /\ \A r \in Request :
       r.route = "iterations" =>
         \E it \in r.body.iterations : r.body.iterations = {it}

ASSUME BoundAssumption == MaxMishaps \in Nat

\* With the variables of WalStore: db, ver, writer, view, snap.
VARIABLES pc,         \* where each handler and CLI process is
          req,        \* the request each handler serves
          reply,      \* the reply each handler will send
          job,        \* what each CLI process writes
          cpc,        \* client: "new", "wait", "retry" or "done"
          creq,       \* the request a client keeps sending
          conn,       \* the handler a client waits for
          mishaps,    \* how many of them have happened
          committed,  \* history: fresh ingest writes, with their commit numbers
          replies     \* history: replies that reached a client

handlerVars == <<pc, req, reply, job>>
clientVars == <<cpc, creq, conn>>
historyVars == <<committed, replies>>
vars == <<storeVars, handlerVars, clientVars, mishaps, historyVars>>

NoRequest == [route |-> "none"]
NoReply == [code |-> "none"]
NoJob == [kind |-> "none"]

\* writeIngestError, writeErrorCode and the success path, by their error code.
ErrorCode == {"invalid_payload", "idempotency_key_conflict",
              "idempotency_key_in_progress", "internal_error", "run_exists",
              "run_not_found", "iteration_exists", "archive_exists"}
SuccessCode == {"created", "replayed"}
Reply == [code : ErrorCode, body : {NoBody}]
           \cup [code : SuccessCode, body : ResponseBody]

Failed(code) == [code |-> code, body |-> NoBody]

HandlerState == {"idle", "ensure", "claim", "existing", "write", "commit", "respond"}
WriterState == {"start", "cliWrite", "cliCommit", "ok", "failed"}

\* The request and the number of the commit of a fresh ingest write.
Commits == [at : Nat, request : Request]
Replies == [request : Request, reply : Reply]

TypeOK ==
  /\ db \in DB /\ view \in DB
  /\ ver \in Nat
  /\ writer \in Proc \cup {NoProc}
  /\ snap \in [Proc -> Nat \cup {NoSnapshot}]
  /\ pc \in [Proc -> HandlerState \cup WriterState]
  /\ \A h \in Handler : pc[h] \in HandlerState
  /\ \A w \in Writer : pc[w] \in WriterState
  /\ req \in [Handler -> Request \cup {NoRequest}]
  /\ reply \in [Handler -> Reply \cup {NoReply}]
  /\ job \in [Writer -> Job \cup {NoJob}]
  /\ cpc \in [Client -> {"new", "wait", "retry", "done"}]
  /\ creq \in [Client -> Request \cup {NoRequest}]
  /\ conn \in [Client -> Handler \cup {NoProc}]
  /\ mishaps \in 0 .. MaxMishaps
  /\ committed \subseteq Commits
  /\ replies \subseteq Replies

Init ==
  /\ StoreInit(EmptyDB)
  /\ pc = [p \in Proc |-> IF p \in Handler THEN "idle" ELSE "start"]
  /\ req = [h \in Handler |-> NoRequest]
  /\ reply = [h \in Handler |-> NoReply]
  /\ job = [w \in Writer |-> NoJob]
  /\ cpc = [c \in Client |-> "new"]
  /\ creq = [c \in Client |-> NoRequest]
  /\ conn = [c \in Client |-> NoProc]
  /\ mishaps = 0
  /\ committed = {} /\ replies = {}

-----------------------------------------------------------------------------
(***************************************************************************)
(* Clients, and the server's end of a connection.                          *)
(***************************************************************************)
Mishap == mishaps < MaxMishaps /\ mishaps' = mishaps + 1

Goto(p, s) == pc' = [pc EXCEPT ![p] = s]

\* A reply is decided: what is left is to write it to the connection.
Answer(h, r) ==
  /\ Goto(h, "respond")
  /\ reply' = [reply EXCEPT ![h] = r]
  /\ UNCHANGED <<req, job>>

\* A client sends its request, or sends it again; a handler takes it, and
\* answers a payload that does not validate without opening the database.
Send(c, h) ==
  /\ pc[h] = "idle"
  /\ \E r \in Request :
       /\ \/ cpc[c] = "new"
          \/ cpc[c] = "retry" /\ r = creq[c]
       /\ creq' = [creq EXCEPT ![c] = r]
       /\ req' = [req EXCEPT ![h] = r]
       /\ IF ValidPayload(r.route, r.body)
          THEN Goto(h, "ensure") /\ UNCHANGED reply
          ELSE /\ Goto(h, "respond")
               /\ reply' = [reply EXCEPT ![h] = Failed("invalid_payload")]
  /\ cpc' = [cpc EXCEPT ![c] = "wait"]
  /\ conn' = [conn EXCEPT ![c] = h]
  /\ UNCHANGED <<storeVars, job, mishaps, historyVars>>

\* Only a 500 or an "in progress" is worth sending again.
Retryable(code) == code \in {"internal_error", "idempotency_key_in_progress"}

\* The reply goes to the client that waits for it, or nowhere when the client
\* has given up on this connection.
Respond(h) ==
  /\ pc[h] = "respond"
  /\ Goto(h, "idle")
  /\ req' = [req EXCEPT ![h] = NoRequest]
  /\ reply' = [reply EXCEPT ![h] = NoReply]
  /\ LET waiting == {c \in Client : conn[c] = h}
         after == IF Retryable(reply[h].code) THEN "retry" ELSE "done"
     IN /\ cpc' = [c \in Client |-> IF c \in waiting THEN after ELSE cpc[c]]
        /\ conn' = [c \in Client |-> IF c \in waiting THEN NoProc ELSE conn[c]]
        /\ replies' = IF waiting = {} THEN replies
                      ELSE replies \cup {[request |-> req[h], reply |-> reply[h]]}
  /\ UNCHANGED <<storeVars, job, creq, mishaps, committed>>

\* The client's timeout, or a connection that breaks: the handler goes on.
ClientTimeout(c) ==
  /\ cpc[c] = "wait"
  /\ Mishap
  /\ cpc' = [cpc EXCEPT ![c] = "retry"]
  /\ conn' = [conn EXCEPT ![c] = NoProc]
  /\ UNCHANGED <<storeVars, handlerVars, creq, historyVars>>

-----------------------------------------------------------------------------
(***************************************************************************)
(* withIdempotentWrite, one action per statement or transaction boundary.  *)
(***************************************************************************)
Unwritten == UNCHANGED <<clientVars, mishaps, historyVars>>

\* Mutant: an error return that leaves the transaction open.
AbortLeaks(h, code) ==
  /\ UNCHANGED storeVars
  /\ Answer(h, Failed(code))

\* The deferred Rollback, then the error reply.
Abort(h, code) ==
  /\ Rollback(h)
  /\ Answer(h, Failed(code))

\* ensureIdempotencyTableTx: CREATE TABLE IF NOT EXISTS reads when the table
\* is there, and is the transaction's first write when it is not.
EnsureTable(h) ==
  /\ pc[h] = "ensure"
  /\ IF db.keytable THEN ReadSnapshot(h)
                    ELSE WriteSnapshot(h, [db EXCEPT !.keytable = TRUE])
  /\ Goto(h, "claim")
  /\ UNCHANGED <<req, reply, job>> /\ Unwritten

\* Mutant: INSERT OR REPLACE, a second request takes the key over.
ClaimKeyTakesOver(h) ==
  LET r == req[h]
      base == IF writer = h THEN view ELSE db
  IN
  /\ pc[h] = "claim"
  /\ Write(h, InsertClaim([base EXCEPT !.keys = @ \ KeyRows(base, r.route, r.key)],
                          r.route, r.key, r.body))
  /\ Goto(h, "write")
  /\ UNCHANGED <<req, reply, job>> /\ Unwritten

\* claimIdempotencyKeyTx: the INSERT either claims the key or meets the
\* primary key; it holds the write lock in both cases.
ClaimKey(h) ==
  LET r == req[h]
      base == IF writer = h THEN view ELSE db
  IN
  /\ pc[h] = "claim"
  /\ CanWrite(h)
  /\ IF KeyTaken(base, r.route, r.key)
     THEN Write(h, base) /\ Goto(h, "existing")
     ELSE Write(h, InsertClaim(base, r.route, r.key, r.body)) /\ Goto(h, "write")
  /\ UNCHANGED <<req, reply, job>> /\ Unwritten

\* The INSERT answers SQLITE_BUSY: another connection writes, or has
\* committed since this transaction's snapshot.
ClaimBusy(h) ==
  /\ pc[h] = "claim"
  /\ ~CanWrite(h)
  /\ Abort(h, "internal_error")
  /\ Unwritten

\* Mutant: the request hash is not compared.
ReplayExistingUnchecked(h) ==
  /\ pc[h] = "existing"
  /\ \E x \in KeyRows(view, req[h].route, req[h].key) :
       /\ CommitUnchanged(h)
       /\ Answer(h, [code |-> "replayed", body |-> x.response_body])
  /\ Unwritten

\* loadIdempotencyRecordTx and the decisions on the record it finds.
ReplayExisting(h) ==
  /\ pc[h] = "existing"
  /\ \E x \in KeyRows(view, req[h].route, req[h].key) :
       \/ x.request # req[h].body /\ Abort(h, "idempotency_key_conflict")
       \/ /\ x.request = req[h].body
          /\ x.status_code = 0
          /\ Abort(h, "idempotency_key_in_progress")
       \/ /\ x.request = req[h].body
          /\ x.status_code # 0
          /\ CommitUnchanged(h)
          /\ Answer(h, [code |-> "replayed", body |-> x.response_body])
  /\ Unwritten

\* Mutant: an API error does not roll back: the key is finalised, but with a
\* success response.
WriteRecordKeepsErrors(h) ==
  LET r == req[h] IN
  /\ pc[h] = "write"
  /\ Write(h, FinalizeKey(
       IF IngestError(view, r.route, r.body) = "none"
       THEN IngestWrite(view, r.route, r.body) ELSE view,
       r.route, r.key, CreatedBody(r.route, r.body)))
  /\ Goto(h, "commit")
  /\ UNCHANGED <<req, reply, job>> /\ Unwritten

\* writeFn, then finalizeIdempotencyKeyTx; an API error rolls the claim back.
WriteRecord(h) ==
  LET r == req[h]
      error == IngestError(view, r.route, r.body)
  IN
  /\ pc[h] = "write"
  /\ \/ error # "none" /\ Abort(h, error)
     \/ /\ error = "none"
        /\ Write(h, FinalizeKey(IngestWrite(view, r.route, r.body), r.route, r.key,
                                CreatedBody(r.route, r.body)))
        /\ Goto(h, "commit")
        /\ UNCHANGED <<req, reply, job>>
  /\ Unwritten

\* Mutant: the success is answered although the commit failed.
CommitUnconfirmed(h) ==
  /\ pc[h] = "commit"
  /\ Rollback(h)
  /\ Answer(h, [code |-> "created", body |-> CreatedBody(req[h].route, req[h].body)])
  /\ UNCHANGED <<clientVars, mishaps, historyVars>>

Commit(h) ==
  /\ pc[h] = "commit"
  /\ CommitTx(h)
  /\ Answer(h, [code |-> "created", body |-> CreatedBody(req[h].route, req[h].body)])
  /\ committed' = committed \cup {[at |-> ver, request |-> req[h]]}
  /\ UNCHANGED <<clientVars, mishaps, replies>>

\* Any statement may fail with an I/O error, and the wait for the lock in
\* EnsureTable may outlast busy_timeout: rollback and 500.
Fault(h) ==
  /\ pc[h] \in {"ensure", "claim", "existing", "write", "commit"}
  /\ Mishap
  /\ Abort(h, "internal_error")
  /\ UNCHANGED <<clientVars, historyVars>>

\* The server process dies and is started again: every open transaction is
\* rolled back, every connection breaks, what was committed stays.
Crash ==
  /\ Mishap
  /\ RollbackAll(Handler)
  /\ pc' = [p \in Proc |-> IF p \in Handler THEN "idle" ELSE pc[p]]
  /\ req' = [h \in Handler |-> NoRequest]
  /\ reply' = [h \in Handler |-> NoReply]
  /\ cpc' = [c \in Client |-> IF cpc[c] = "wait" THEN "retry" ELSE cpc[c]]
  /\ conn' = [c \in Client |-> NoProc]
  /\ UNCHANGED <<job, creq, historyVars>>

-----------------------------------------------------------------------------
(***************************************************************************)
(* CLI processes: appendRunWithMode and appendArchive.                     *)
(***************************************************************************)
Quiet == UNCHANGED <<req, reply, clientVars, mishaps, historyVars>>

\* insertRunTx's SELECT takes the snapshot; WriteModeInsert refuses a run_id
\* it finds there.
SelectRun(w, j) ==
  /\ j.kind = "run"
  /\ job' = [job EXCEPT ![w] = j]
  /\ IF InsertRunRefused(db, j.payload, j.mode)
     THEN Goto(w, "failed") /\ UNCHANGED storeVars
     ELSE Goto(w, "cliWrite") /\ ReadSnapshot(w)

\* appendArchive's INSERT is its first statement and waits for the lock; the
\* primary key refuses an id that exists.
AppendArchive(w, j) ==
  /\ j.kind = "archive"
  /\ job' = [job EXCEPT ![w] = j]
  /\ writer = NoProc
  /\ IF j.payload.archive \in db.archives
     THEN Goto(w, "failed") /\ UNCHANGED storeVars
     ELSE Goto(w, "cliCommit") /\ WriteSnapshot(w, InsertArchive(db, j.payload))

CliStart(w) ==
  /\ pc[w] = "start"
  /\ \E j \in Job : SelectRun(w, j) \/ AppendArchive(w, j)
  /\ Quiet

\* The DELETE, UPDATE or INSERT that follows the SELECT upgrades to a write
\* transaction or fails with SQLITE_BUSY.
CliWrite(w) ==
  /\ pc[w] = "cliWrite"
  /\ IF CanWrite(w)
     THEN /\ Write(w, InsertRun(db, job[w].payload, job[w].mode))
          /\ Goto(w, "cliCommit")
     ELSE Rollback(w) /\ Goto(w, "failed")
  /\ UNCHANGED job /\ Quiet

CliCommit(w) ==
  /\ pc[w] = "cliCommit"
  /\ CommitTx(w)
  /\ Goto(w, "ok")
  /\ UNCHANGED job /\ Quiet

\* The process dies, or its transaction fails, with the transaction open.
CliFail(w) ==
  /\ pc[w] \in {"cliWrite", "cliCommit"}
  /\ Mishap
  /\ Rollback(w)
  /\ Goto(w, "failed")
  /\ UNCHANGED <<job, req, reply, clientVars, historyVars>>

-----------------------------------------------------------------------------
\* Every request has its answer and every process has ended.
Finished ==
  /\ \A c \in Client : cpc[c] = "done"
  /\ \A h \in Handler : pc[h] = "idle"
  /\ \A w \in Writer : pc[w] \in {"ok", "failed"}
  /\ UNCHANGED vars

HandlerStep(h) ==
  \/ EnsureTable(h) \/ ClaimKey(h) \/ ClaimBusy(h) \/ ReplayExisting(h)
  \/ WriteRecord(h) \/ Commit(h) \/ Respond(h)

WriterStep(w) == CliStart(w) \/ CliWrite(w) \/ CliCommit(w)

Next ==
  \/ \E c \in Client, h \in Handler : Send(c, h)
  \/ \E c \in Client : ClientTimeout(c)
  \/ \E h \in Handler : HandlerStep(h)
  \/ \E h \in Handler : Fault(h)
  \/ Crash
  \/ \E w \in Writer : WriterStep(w)
  \/ \E w \in Writer : CliFail(w)
  \/ Finished

Spec == Init /\ [][Next]_vars
-----------------------------------------------------------------------------
(***************************************************************************)
(* Fairness: the Go scheduler runs every handler, the operating system     *)
(* runs every CLI process, and a client that got no answer or a 500 does   *)
(* send its request again.  Mishaps are not fair: they need not happen.    *)
(***************************************************************************)
Fairness ==
  /\ \A h \in Handler : WF_vars(HandlerStep(h))
  /\ \A w \in Writer : WF_vars(WriterStep(w))
  /\ \A c \in Client : WF_vars(\E h \in Handler : Send(c, h))

FairSpec == Spec /\ Fairness

-----------------------------------------------------------------------------
SameKey(r, s) == r.route = s.route /\ r.key = s.key

Stored(r) ==
  {x \in db.keys : /\ x.route_path = r.route /\ x.idempotency_key = r.key
                   /\ x.request = r.body}

\* However often a request is retried, duplicated or overlapped by itself,
\* withIdempotentWrite commits at most one write per route and key.
ExactlyOnce ==
  \A a, b \in committed : SameKey(a.request, b.request) => a = b

\* A client that was told "created" or got a replay holds the response body
\* that the committed key row keeps, whatever crashed since.
AckedReplyStored ==
  \A x \in replies : x.reply.code \in SuccessCode =>
    \E k \in Stored(x.request) :
      k.status_code = 201 /\ k.response_body = x.reply.body

\* README.md:136: "Same key + same request body: server replays original
\* response".  Every reply to a request is the same, 500s and "in progress"
\* aside: it fails because an API error rolls the claimed key back.
OriginalResponseReplayed ==
  \A x, y \in replies :
    /\ x.request = y.request
    /\ ~Retryable(x.reply.code) /\ ~Retryable(y.reply.code)
    => \/ x.reply.code = y.reply.code
       \/ x.reply.code \in SuccessCode /\ y.reply.code \in SuccessCode

Replaced(r) ==
  \E w \in Writer : /\ pc[w] = "ok" /\ job[w].kind = "run"
                    /\ job[w].mode = "replace" /\ job[w].payload.run_id = r

\* What a success reply says was created is still there, unless a
\* `sync-git --replace` of that run has discarded its iterations.
AckedResourceExists ==
  \A x \in replies : x.reply.code \in SuccessCode =>
    LET p == x.request.body IN
    CASE x.request.route = "runs" ->
           /\ RunExists(db, p.run_id)
           /\ \/ Replaced(p.run_id)
              \/ \A it \in p.iterations :
                   IterationExists(db, RunRowId(db, p.run_id), it.iteration)
      [] x.request.route = "iterations" ->
           /\ RunExists(db, p.run_id)
           /\ \/ Replaced(p.run_id)
              \/ \A it \in p.iterations :
                   IterationExists(db, RunRowId(db, p.run_id), it.iteration)
      [] OTHER -> p.archive \in db.archives

\* A refusal has its cause in the committed database: a key conflict another
\* body under the same route and key, "exists" the run or archive it names.
RefusalJustified ==
  \A x \in replies :
    LET r == x.request IN
    /\ x.reply.code = "idempotency_key_conflict" =>
         \E k \in db.keys : /\ k.route_path = r.route
                             /\ k.idempotency_key = r.key
                             /\ k.request # r.body
    /\ x.reply.code \in {"run_exists", "iteration_exists"} =>
         RunExists(db, r.body.run_id)
    /\ x.reply.code = "archive_exists" => r.body.archive \in db.archives

\* A claimed but unfinished key is never visible to another connection, so no
\* client is ever told "idempotency_key_in_progress".
NoVisibleClaim ==
  /\ \A k \in db.keys : k.status_code # 0
  /\ \A x \in replies : x.reply.code # "idempotency_key_in_progress"

\* No two runs rows share a run_id, even between processes that each looked
\* for the run_id before inserting it (without counting on the UNIQUE index).
RunIdUnique ==
  \A x, y \in db.runs : x.run_id = y.run_id => x = y

\* Every iteration belongs to a run that exists, also when a replace gives the
\* run a new row id while iterations are being posted to it.
NoOrphanIterations ==
  \A x \in db.iterations : \E y \in db.runs : y.id = x.run_row_id

\* Does the resource of key row k come into being between databases d and e?
Appears(d, e, k) ==
  CASE k.route_path = "runs" ->
         ~RunExists(d, k.request.run_id) /\ RunExists(e, k.request.run_id)
    [] k.route_path = "iterations" -> e.iterations \ d.iterations # {}
    [] OTHER -> k.request.archive \in e.archives \ d.archives

CliCommits(w) == pc[w] = "cliCommit" /\ pc'[w] = "ok"

\* A key and the resource it stands for are committed together: a commit that
\* adds a key adds exactly one, with its resource; one that changes anything
\* else without a key is a CLI process's.
AtomicIngest ==
  [][/\ db'.keys # db.keys =>
          \E k \in db'.keys \ db.keys :
            db'.keys = db.keys \cup {k} /\ Appears(db, db', k)
     /\ db' # db /\ db'.keys = db.keys =>
          \E w \in Writer : CliCommits(w)]_vars

\* No commit undoes an earlier one: keys, archives and runs stay, and the
\* iterations of a run go only when that run is replaced.
NoLostRows ==
  [][/\ db.keys \subseteq db'.keys
     /\ db.archives \subseteq db'.archives
     /\ \A x \in db.runs : RunExists(db', x.run_id)
     /\ \A x \in db.iterations \ db'.iterations :
          \E w \in Writer :
            /\ CliCommits(w) /\ job[w].kind = "run" /\ job[w].mode = "replace"
            /\ x.run_row_id = RunRowId(db, job[w].payload.run_id)]_vars

\* `sync-git` without --upsert or --replace never touches a run that another
\* process created between its SELECT and its COMMIT.
InsertModeIsFirst ==
  [][\A w \in Writer :
       CliCommits(w) /\ job[w].kind = "run" /\ job[w].mode = "insert" =>
         ~RunExists(db, job[w].payload.run_id)]_vars

-----------------------------------------------------------------------------
(***************************************************************************)
(* The handlers implement IdempotentStore: what has been applied is what   *)
(* the committed key table says.                                           *)
(***************************************************************************)
Applied ==
  {[request |-> [route |-> k.route_path, key |-> k.idempotency_key, body |-> k.request],
    response |-> k.response_body] : k \in db.keys}

Outcome(x) ==
  IF x.reply.code \in SuccessCode
  THEN [request |-> x.request, outcome |-> "success", body |-> x.reply.body]
  ELSE [request |-> x.request,
        outcome |-> IF x.reply.code = "idempotency_key_conflict"
                    THEN "conflict" ELSE "failure"]

ResponseTo(r) == CreatedBody(r.route, r.body)

Abstract == INSTANCE IdempotentStore
              WITH Body <- ResponseTo,
                   applied <- Applied,
                   answers <- {Outcome(x) : x \in replies}

ImplementsIdempotentStore == Abstract!Spec

\* Every request is answered in the end, and every CLI process ends: nobody
\* keeps the write lock, and SQLITE_BUSY does not send the clients in circles.
EveryRequestAnswered ==
  \A c \in Client : cpc[c] \in {"wait", "retry"} ~> cpc[c] = "done"

EveryProcessEnds ==
  \A w \in Writer : <>(pc[w] \in {"ok", "failed"})
=============================================================================
