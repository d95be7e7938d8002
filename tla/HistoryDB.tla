----------------------------- MODULE HistoryDB -----------------------------
(***************************************************************************)
(* The tables of history.db and the statements that KernelHub executes on  *)
(* them inside one transaction, as pure operators from a database to a     *)
(* database.  Both writers are here: the CLI's insertRunTx and             *)
(* insertArchiveTx (internal/commands/history_store.go) and the ingest     *)
(* API's insertRunRecordTx, insertIterationForRunTx, insertArchiveRecordTx *)
(* and its idempotency table (internal/server/handlers_ingest.go).         *)
(*                                                                         *)
(* A row keeps the columns that some statement or property tells apart;    *)
(* timestamps, messages, patches and bundle bytes are left out.            *)
(***************************************************************************)
EXTENDS Integers, FiniteSets

CONSTANTS RunId,      \* values of runs.run_id
          Hash,       \* commit hashes
          Backend,    \* values of iterations.backend
          NoBackend,  \* the column's default, the empty string
          ArchiveId,  \* values of archives.id
          Key,        \* Idempotency-Key header values
          Payload     \* the request bodies and the CLI's records in play

ASSUME BackendAssumption == NoBackend \in Backend

Route == {"runs", "iterations", "archives"}
WriteMode == {"insert", "upsert", "replace"}

IterationRecord == [iteration : Int, commit_hash : Hash, backend : Backend]

\* One payload type serves the three routes: /runs uses run_id, commit_count
\* and iterations, /iterations run_id and the single element of iterations,
\* /archives archive.
PayloadType == [run_id       : RunId,
                commit_count : Int,
                iterations   : SUBSET IterationRecord,
                archive      : ArchiveId]

ASSUME PayloadAssumption ==
  \A p \in Payload : p \in PayloadType /\ IsFiniteSet(p.iterations)

(***************************************************************************)
(* Rows.  api_idempotency_keys keeps the whole request where the code      *)
(* keeps its SHA-256, and status 0 for a key that is claimed but not       *)
(* finalised; response is the resource id the cached body names.           *)
(***************************************************************************)
RunRow == [id : Nat, run_id : RunId, commit_count : Int]
IterationRow == [run_row_id  : Nat, iteration : Int,
                 commit_hash : Hash, backend : Backend]
ArchiveRow == ArchiveId
ResponseBody == [resource : Route, id : RunId \cup ArchiveId, iteration : Int]
NoBody == [resource |-> "none"]
KeyRow == [route_path      : Route,
           idempotency_key : Key,
           request         : Payload,
           status_code     : {0},
           response_body   : {NoBody}]
            \cup
          [route_path      : Route,
           idempotency_key : Key,
           request         : Payload,
           status_code     : {201},
           response_body   : ResponseBody]

DB == [runs       : SUBSET RunRow,
       iterations : SUBSET IterationRow,
       archives   : SUBSET ArchiveRow,
       seq        : Nat,                \* AUTOINCREMENT counter of runs.id
       keytable   : BOOLEAN,            \* api_idempotency_keys exists
       keys       : SUBSET KeyRow]

\* A database whose history tables initHistorySchema has just created.
EmptyDB == [runs |-> {}, iterations |-> {}, archives |-> {}, seq |-> 0,
            keytable |-> FALSE, keys |-> {}]

(***************************************************************************)
(* CLI statements: history_store.go.                                       *)
(***************************************************************************)
RunExists(d, r) == \E x \in d.runs : x.run_id = r

\* lookupRunRowIDByRunIDTx: ORDER BY id DESC LIMIT 1.
RunRowId(d, r) ==
  CHOOSE i \in {x.id : x \in {y \in d.runs : y.run_id = r}} :
    \A x \in d.runs : x.run_id = r => x.id <= i

IterationRows(row, its) ==
  {[run_row_id |-> row, iteration |-> it.iteration,
    commit_hash |-> it.commit_hash, backend |-> it.backend] : it \in its}

InsertRunFresh(d, p) ==
  [d EXCEPT !.seq = @ + 1,
            !.runs = @ \cup {[id |-> d.seq + 1, run_id |-> p.run_id,
                              commit_count |-> p.commit_count]},
            !.iterations = @ \cup IterationRows(d.seq + 1, p.iterations)]

\* Mutant: foreign keys are off, the iterations stay.
DeleteRunNoCascade(d, row) == [d EXCEPT !.runs = {x \in @ : x.id # row}]

\* DELETE FROM runs, with the foreign key's ON DELETE CASCADE.
DeleteRun(d, row) ==
  [d EXCEPT !.runs = {x \in @ : x.id # row},
            !.iterations = {x \in @ : x.run_row_id # row}]

ExistingCommitHashes(d, row) ==
  {x.commit_hash : x \in {y \in d.iterations : y.run_row_id = row}}

\* Mutant: the merge drops the iterations that were there.
UpsertRunForgets(d, p, row) ==
  [d EXCEPT !.iterations = IterationRows(row, p.iterations)]

UpsertRun(d, p, row) ==
  LET known == ExistingCommitHashes(d, row) IN
  [d EXCEPT !.runs = {x \in @ : x.id # row}
                       \cup {[id |-> row, run_id |-> p.run_id,
                              commit_count |-> p.commit_count]},
            !.iterations = @ \cup IterationRows(row,
               {it \in p.iterations : it.commit_hash \notin known})]

\* Mutant: the existence check of WriteModeInsert is missing.
InsertRunNeverRefused(d, p, mode) == FALSE

\* WriteModeInsert refuses a run_id that exists; the other modes never fail.
InsertRunRefused(d, p, mode) == mode = "insert" /\ RunExists(d, p.run_id)

\* Mutant: --replace inserts without deleting the old row.
InsertRunKeepsOld(d, p, mode) ==
  IF mode = "upsert" /\ RunExists(d, p.run_id)
  THEN UpsertRun(d, p, RunRowId(d, p.run_id)) ELSE InsertRunFresh(d, p)

\* Mutant: --upsert replaces.
InsertRunAlwaysReplaces(d, p, mode) ==
  LET row == RunRowId(d, p.run_id) IN
  IF ~RunExists(d, p.run_id) THEN InsertRunFresh(d, p)
  ELSE InsertRunFresh(DeleteRun(d, row), p)

InsertRun(d, p, mode) ==
  LET row == RunRowId(d, p.run_id) IN
  IF ~RunExists(d, p.run_id) THEN InsertRunFresh(d, p)
  ELSE IF mode = "replace" THEN InsertRunFresh(DeleteRun(d, row), p)
  ELSE UpsertRun(d, p, row)

\* insertArchiveTx; the PRIMARY KEY refuses an id that exists.
InsertArchive(d, p) == [d EXCEPT !.archives = @ \cup {p.archive}]

(***************************************************************************)
(* Ingest API statements: handlers_ingest.go.                              *)
(***************************************************************************)
\* normalizeRunPayload and validateIterationRecord, as far as the columns
\* kept here go: a bad payload is answered 400 before the database is opened.
ValidPayload(route, p) ==
  /\ route \in {"runs", "iterations"} =>
       \A it \in p.iterations : it.iteration >= 0
  /\ route = "runs" =>
       /\ p.commit_count >= 0
       /\ \A a, b \in p.iterations : a.iteration = b.iteration => a = b

\* normalizeRunPayload also raises commit_count to the number of iterations.
NormalizeRun(p) ==
  [p EXCEPT !.commit_count =
     IF @ < Cardinality(p.iterations) THEN Cardinality(p.iterations) ELSE @]

\* insertIterationTx has no backend column in its INSERT: the default is kept.
WithoutBackend(its) == {[it EXCEPT !.backend = NoBackend] : it \in its}

IterationExists(d, row, n) ==
  \E x \in d.iterations : x.run_row_id = row /\ x.iteration = n

\* The API error a write function answers, "none" when it goes through.
IngestError(d, route, p) ==
  CASE route = "runs" ->
         IF RunExists(d, p.run_id) THEN "run_exists" ELSE "none"
    [] route = "iterations" ->
         IF ~RunExists(d, p.run_id) THEN "run_not_found"
         ELSE IF \E it \in p.iterations :
                   IterationExists(d, RunRowId(d, p.run_id), it.iteration)
              THEN "iteration_exists" ELSE "none"
    [] OTHER ->
         IF p.archive \in d.archives THEN "archive_exists" ELSE "none"

InsertRunRecord(d, p) ==
  InsertRunFresh(d, [NormalizeRun(p) EXCEPT
                       !.iterations = WithoutBackend(@)])

\* insertIterationForRunTx leaves runs.commit_count as it is.
InsertIterationForRun(d, p) ==
  [d EXCEPT !.iterations = @ \cup
     IterationRows(RunRowId(d, p.run_id), WithoutBackend(p.iterations))]

IngestWrite(d, route, p) ==
  CASE route = "runs" -> InsertRunRecord(d, p)
    [] route = "iterations" -> InsertIterationForRun(d, p)
    [] OTHER -> InsertArchive(d, p)

\* The success response of a write function names the resource it created.
CreatedBody(route, p) ==
  [resource |-> route,
   id |-> IF route = "archives" THEN p.archive ELSE p.run_id,
   iteration |-> IF route = "iterations"
                 THEN (CHOOSE it \in p.iterations : TRUE).iteration ELSE 0]

(***************************************************************************)
(* api_idempotency_keys.                                                   *)
(***************************************************************************)
\* Mutant: the primary key is the idempotency key alone.
KeyRowsAnyRoute(d, route, key) == {x \in d.keys : x.idempotency_key = key}

KeyRows(d, route, key) ==
  {x \in d.keys : x.route_path = route /\ x.idempotency_key = key}

KeyTaken(d, route, key) == KeyRows(d, route, key) # {}

\* claimIdempotencyKeyTx's INSERT with status 0 and an empty body.
InsertClaim(d, route, key, p) ==
  [d EXCEPT !.keys = @ \cup
     {[route_path |-> route, idempotency_key |-> key, request |-> p,
       status_code |-> 0, response_body |-> NoBody]}]

\* Mutant: the key row is never finalised.
FinalizeKeyNot(d, route, key, body) == d

\* Mutant: the response body is not stored.
FinalizeKeyNoBody(d, route, key, body) ==
  [d EXCEPT !.keys = (@ \ KeyRows(d, route, key)) \cup
     {[x EXCEPT !.status_code = 201] : x \in KeyRows(d, route, key)}]

\* finalizeIdempotencyKeyTx: UPDATE of the rows with this route and key.
FinalizeKey(d, route, key, body) ==
  [d EXCEPT !.keys = (@ \ KeyRows(d, route, key)) \cup
     {[route_path |-> route, idempotency_key |-> key, request |-> x.request,
       status_code |-> 201, response_body |-> body] : x \in KeyRows(d, route, key)}]

(***************************************************************************)
(* What every statement preserves: the row types, the primary key and the  *)
(* AUTOINCREMENT counter of runs, one row per run_id, and the foreign key  *)
(* of iterations.                                                          *)
(***************************************************************************)
UniqueRuns(d) == \A x, y \in d.runs : x.run_id = y.run_id \/ x.id = y.id => x = y
SeqBounds(d) == \A x \in d.runs : x.id <= d.seq
ForeignKey(d) == \A x \in d.iterations : \E y \in d.runs : y.id = x.run_row_id

Consistent(d) == d \in DB /\ UniqueRuns(d) /\ SeqBounds(d) /\ ForeignKey(d)

\* Two databases that differ in the key table at most.
SameHistory(d, e) ==
  /\ d.runs = e.runs /\ d.iterations = e.iterations
  /\ d.archives = e.archives /\ d.seq = e.seq
=============================================================================
