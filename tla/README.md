# KernelHub: TLA+ models, checks and proofs

KernelHub records the history of kernel optimisation runs: command-line tools
collect commits of an agent's git repository into one SQLite file, a server
accepts the same records over HTTP, and other commands read the history to
export, chart, patch or recalibrate. What can go wrong in it is mostly in one
place: `history.db` is opened, migrated and written by several processes and
HTTP handlers at once, requests are retried, and processes die. Around that file
stand commands that talk to git, to the agent's worktree and to the target
repository in several steps each, while others change what they have just read.

Run them in this directory with `tlc -config X.cfg M` and `tlapm MProofs.tla`.

## 1. The system

| component | source | state | operations | modelled |
|---|---|---|---|---|
| Ingest API | `internal/server/handlers_ingest.go` | the table `ingest_idempotency`, one transaction per request | `POST /api/v1/runs`, `/iterations`, `/archives`, each through `withIdempotentWrite` | yes |
| History store, tables | `internal/commands/history_store.go` | tables runs, iterations, archives, meta | `appendRunWithMode` (insert, upsert, replace), `appendArchive` | yes |
| History store, opening | the same | the file, its temporary and backup files, its schema | `openHistoryDB`: legacy JSON migration, schema, added columns, deduplication | yes |
| History store, loading | the same | what a reader has collected so far | `loadHistory`: one `SELECT` of the runs, one per run, the archives | yes |
| Rate limiter | `internal/server/ratelimit.go` | one bucket per client address | `Allow`, the sweep of `cleanup` | yes |
| Recalibrate | `internal/commands/recalibrate.go` | row ids it keeps between its statements | load, bench, `updateBestIterationSpeedup` | yes |
| Sync from git | `internal/commands/sync_git.go` | the answers of git it has so far | merge-base, log, reflog, two integrity checks, append | yes |
| Archive, restore | `archive_git.go`, `restore_git.go` | bundles in the table archives, a restored repository | rev-parse, bundle, append; select, fetch, checkout | yes |
| Patch pipeline | `patch.go` | a patch directory, a target repository | generate, verify, apply | yes |
| Prepare | `prepare.go` | files under the agent's root, the shared manifest | copies, shape lookup and expansion, manifest, context | partly |
| Context | `generate_context.go` | the summary file | `findRelatedRuns`, `GenerateContextForPrepare` | partly |
| Export, dashboard | `export.go`, `serve.go` | `state` of the page | load snapshot, render | partly |
| Server lifecycle, command line | `internal/server/server.go`, `errors.go`, `internal/cli/cli.go` | `httpSrv`, the signal | `ListenAndServe`, `Shutdown`, flags | no |
| Project generator | `scripts/init_kernel.py` | none | writes a project once | no |

**Interaction.** Every command and every ingest request opens `history.db` anew
(`openHistoryDB`), so opening and migrating run concurrently with writing. The
handlers and the CLI processes meet in SQLite only: a transaction is a deferred
`BEGIN`, its first read fixes a snapshot, its first write takes the one write
lock or fails with `SQLITE_BUSY`. The rate limiter is the only shared memory of
the handlers. Handlers ignore the request's context, so a handler whose client
has gone goes on, beside the handler of the retry. `recalibrate` and the readers
use no transaction at all: each of their statements sees the database of its own
moment, and the row ids they keep may be stale. `sync-git` and `archive-git` are
a few git commands each, in a repository in which the agent goes on working.
Several `prepare` processes, one per worktree, write one
`workspace/latest_prepare_manifest.json`. `patch` checks all patches before it
applies the first, in a repository others may edit.

**What is hard.** Two handlers on one idempotency key; a retry beside the request
it repeats; a crash at each statement; a CLI `--replace` that deletes a run a
handler has just looked up; check-then-act pairs outside transactions (adding
columns, choosing a backup name, the two renames of the migration); a sweep that
forgets what a client had spent; a run replaced between two statements of a reader
or a recalibration; a branch rewritten, merged into or made again between two git
commands; a step of `prepare` that fails after others have written; answers
rendered in another order than asked. The full list, with lines and the properties
that answer it, is `hazards` in `PROJECT.json`.

**What makes each component correct.**
Ingest API: a write happens once per route and key, together with its key or not
at all, and an answer is true of the committed database, also after crashes.
Tables: one row per `run_id`, no orphan iterations, no commit undoes another.
Opening: old rows survive, a command sees a complete schema.
Rate limiter: no stretch of time holds more grants than burst and rate allow.
Loading: of a run that has not been replaced, nothing stored before the request
is missing, and what came during it is there without gaps; no run stored before
the request is missing. Recalibrate: a measurement stays in the run that
was benched, and the mark is earned. Sync: a run that passed the checks lacks no
commit the branch ever had, an honest branch is not refused. Restore: a clean
archive can be restored, with the run synced before it. Prepare: the manifest is
true of the root it names until that root's next prepare, the summary has every
earlier run of the kernel (which fails when the workload has categories, see
`kernel_history`). Patch: nothing is applied whose check has not passed.

## 2. The modules

### The ingest API

| module | what it is |
|---|---|
| `HistoryDB` | the tables as a record of sets of rows; every SQL function of the code (`InsertRun`, `UpsertRun`, `InsertArchive`, `InsertRunRecord`, `InsertIterationForRun`, `InsertClaim`, `FinalizeKey`...) as an operator from a database to a database; `Consistent` |
| `WalStore` | SQLite's transactions as the code uses them (external): snapshot, write lock, working copy, commit, rollback |
| `IngestServer` | the composition: handlers, clients, the server's crash and restart, CLI processes |
| `IdempotentStore` | the abstract specification: what the README's "Idempotency semantics" promises, without handlers or transactions |
| `IngestInvariant` | the inductive invariant, in named parts |
| `HistoryDBProofs`, `IngestServerProofs`, `IngestRowsProofs` | the proofs |

`withIdempotentWrite` is one handler `h` whose `pc[h]` walks through its
statements: `EnsureTable` (`CREATE TABLE IF NOT EXISTS`, the first read),
`ClaimKey` (`INSERT` of the key with status 0, which takes the write lock),
`ClaimBusy` (it was refused), `ReplayExisting` (the key is there: replay, refuse
another body), `WriteRecord` (the route's write function and `FinalizeKey`),
`Commit`, `Respond`. `Fault` is the error return of any statement with its
deferred rollback, `Crash` the death of the server with all its transactions.
`Send`, `ClientTimeout` and the retry inside `Send` are the clients (external):
a client sends the same request again after no answer or a 500. A CLI process
`w` runs `appendRunWithMode` or `appendArchive` as `CliStart` (the first
statement: a `SELECT` of the run, or the archive's `INSERT`), `CliWrite`,
`CliCommit`, and `CliFail`.

Data is abstract: a body is one of a few payload records, a response body is a
function of route and payload, a commit hash or run name a model value.
Malformed requests (wrong method, no key header, bad JSON) are answered before
anything is opened; one payload that does not validate stands for them.

The reply `idempotency_key_in_progress` can be produced by the code and by the
model's `ReplayExisting`, yet it is never sent: a claim is committed only in its
final form, so another handler either sees no key (and fails with
`SQLITE_BUSY`, a 500) or a finished one. `NoVisibleClaim` says so, and it is
proved.

### Opening the history

`HistoryFile` models `openHistoryDB`. Names (the path, the temporary name, the
backup names) point to numbered files or to nothing, a process keeps the file it
has opened when the name moves. One action per system call or SQL statement that
another process can come between: `Stat`, `ReadHeader`, `LoadLegacy`,
`RemoveTmp`, `CreateTmp`, `FillTmp`, `ChooseBackup`, `RenameAside`, `RenameIn`,
`OpenDb`, `InitSchema`, `CheckColumn`, `AlterTable`, `Deduplicate`, and
`WriteRow` for the command's own transaction; `Restart` is a death, or a failed
command, and another run. The four columns that `ensureHistorySchemaCompat` adds
one after the other stand as one. `FillTmp` may be refused by SQLite when the
temporary file has been unlinked or is being written by another (both outcomes
are allowed). WAL side files of a database that is renamed while open are not
modelled: the model lets such a database keep all its rows.

### The rate limiter

`RateLimiter` measures time in the units of the rate: one unit comes back per
tick and a request costs `Cost` of them, so fractions of a token are integers.
`AllowNew` and `AllowKnown` are the two paths of `Allow`, `Cleanup` one sweep, at
any time after its sleep. `TokenBucket` is the abstract specification: buckets
that are refilled all the time and never forgotten. Rounding of `float64` is left
out, as is a clock that goes backwards (Go's is monotonic).

### Readers and recalibrate

| module | what it is |
|---|---|
| `RunTables` | the tables runs and iterations with their row ids and the columns recalibrate uses; the writers' transactions as single steps |
| `Recalibrate` | the writers (`sync-git` and the ingest API), and `recalibrate` statement by statement |
| `HistoryReads` | `loadHistory` in the snapshot requests of the dashboard, several at once, answered in any order |
| `HistoryReadsProofs` | the proofs |

`HistoryDB` has every column and no iteration ids; `RunTables` has ids and
counters and only the columns that `updateBestIterationSpeedup` reads. They are
two views of one schema, because the commands are about different things: here
a row id outlives the row. A write is one step, which `AtomicIngest` and
`NoLostRows` of the ingest model justify: `SyncRun` in its three modes, which
always has a commit; `PostRun`, which may have no iterations; `PostIteration`,
which appends one to a stored run. `Load`, `Bench`, `LookupRun`,
`PickBest`, `PickLast`, `UpdateIteration` and `MarkRun` are the statements of a
recalibration, `StatementFails` and `Exit` its failures and its death. `QueryRuns`
is the `SELECT` of the runs, after it one step per run reads its iterations.
Three variables are for the properties only, and no guard reads them: `known` and
`since`, the run_ids stored and the iteration ids given out when a request was
made, and `hits`, the run rows of which an `UPDATE` has changed an iteration.

### Git

| module | what it is |
|---|---|
| `GitRepo` | commits, the agent's branch, main, the reflog (external: git as the code uses it) |
| `SyncGit` | `sync-git`, one action per git command, the checks, the write |
| `GitArchive` | `archive-git`, `restore-git`, and the composition of all four |
| `GitArchiveProofs` | the proofs |

A commit is a number and `history[c]` what it contains. `ever` is every commit
the branch has had, the ghost `sync-git` would need to be certain. The branch
moves by commits, merges, and by moves that leave a line in the reflog which
`validateReflog` matches, or leave none. How git behaves was observed with git,
and is what the external part says: `branch -f` and `checkout -B` of a branch
write "branch: Reset to", which no expression of `validateReflog` matches; a
branch deleted and made again starts a new reflog; a commit whose subject has the
word *amend* is matched although nothing was amended; a fetch into the branch
that is checked out is refused.

A run records `how` it was let in: *vetted* by both checks; *joined* when
the branch was merged into between merge-base and log; *mixed* after an upsert of
both kinds; *forced* when a warning was passed over, or the branch had moved
without a line. The properties say what each of them is worth.
The columns that commit messages are parsed into do not matter here and are
left out, so are bundles' encoding and checksums.

### Prepare and patch

| module | what it is |
|---|---|
| `ShapeLookup` | `lookupShapeEntry`, `expandShapeConfigs`, `normalizeKernelNameForMatch` as operators; a name is the sequence of its parts |
| `Prepare` | `prepare`, one process per root, step by step |
| `PatchPipeline` | `patch` and the edits of others |
| `Workspace` | both, and their properties |
| `WorkspaceProofs` | the proofs |

A file is what it was made from: a kernel's name, a reference with the key and
configurations applied to it, or part of a file after a copy that was cut off
(`copyFile` creates the target first). The manifest is emptied and then written,
by several roots at once, so it may be whole, torn or empty. `SameKernel` and
`CoversRange` are reference definitions that the code's helpers are compared
with: two names are of one kernel when they have a core in common, with a tool
before it and a direction behind it; configurations cover an entry when every
bound of every dimension is there with the other sizes nominal. A stored run has
the kernels and the backends that its iterations name: `findRelatedRuns` matches
any of the first and any of the second. `PriorRuns`, which the summary is compared
with, knows no backend. A patch changes one stretch of a file from one content to
another. `kernel-adapter` is external. The docs have it make a branch per kernel
(docs/patch-workflow.md:134), and nothing tells whether it finds the files below
the repository's root, so `ApplyNext` leaves open what becomes of a patch: refused,
on a branch, or in what is checked out. The commands share no file, hence a
behaviour of `Workspace` has prepares or patches, not both.

## 3. The runs

| run | what it checks |
|---|---|
| `ingest_core` | `MCIngestServer.cfg`: 13 properties over two clients, two handlers, one CLI process, six requests |
| `ingest_liveness` | `MCIngestLive.cfg`: every request is answered, every process ends |
| `replay_original` | finding: an error rolls the key back, so "server replays original response" does not hold of errors |
| `history_file` | `MCHistoryFile.cfg`: two processes, two deaths; old rows survive, the schema is complete |
| `open_history` | finding: a death between the two renames, then an empty history |
| `legacy_backup` | finding: two migrations at once replace the backup of the JSON file |
| `duplicates` | finding: the deduplication is unreachable, a database with duplicates does not open |
| `rate_limiter` | `MCRateLimiter.cfg`: two clients; the bound, and the refinement of `TokenBucket` |
| `history_reads` | `MCHistoryReads.cfg`: two recalibrations, two snapshot requests, three writes |
| `git_history` | `MCGitHistory.cfg`: an agent, syncs, archives and restores of one branch |
| `workspace` | `MCWorkspace.cfg`: prepares in two roots, or patch commands and edits |
| `kernel_history` | finding: the workload's category filters the history as a backend, and earlier runs of the kernel are dropped |

**Properties of `ingest_core`.** `ExactlyOnce`: one committed write per route and
key. `AckedReplyStored`, `AckedResourceExists`: what a client was told is in the
committed database (for iterations, unless a `--replace` discarded them).
`RefusalJustified`: a 409 has its cause there. `AtomicIngest`: key and resource
are committed by the same step. `NoLostRows`, `InsertModeIsFirst`: no commit
undoes another, and `sync-git` without flags never touches a run another process
created after its `SELECT`. `RunIdUnique` holds without counting on the UNIQUE
index: it is not part of the `INSERT`'s guard in the model. `NoOrphanIterations`,
`NoVisibleClaim`, and `ImplementsIdempotentStore`, the refinement of the abstract
store with `applied` read off the committed key table. `IInv` is the invariant
of the proof.

**Properties of `history_reads`.** `ReadIsPrefix`: of a run whose row still exists
`loadHistory` returns all iterations that were stored when the request was made,
and of those added since a beginning without gaps, although merges and posts may
come between the two `SELECT`s. An entry is empty only if its run had no
iterations when asked for (the API accepts such runs) or has been replaced.
`NoRunMissing`: the page has every run that was stored when the refresh it shows
was clicked, in spite of answers out of order. `OneEntryPerRun`.
`RecalibrationStaysInRun`: an `UPDATE` by a kept row id changes no other run,
which AUTOINCREMENT guarantees and a plain primary key would not (the mutant
`InsertIterationsReused`). `MissMeansReplaced`: an `UPDATE` that silently hits
nothing does so only after a `--replace`. `MarkedRunWasUpdated`: `synced_at` of a
recalibration is never there without the speedup.

**Properties of `git_history`.** `SyncedRunIsComplete`: a run that was not forced
has every commit the branch ever had since the fork, upserts included.
`RunIsOneLine`, `OnlyOwnCommits`: what merges at the wrong moment can and cannot
do to it. `LinearWorkIsAccepted`: an agent that only commits is never refused.
`ArchiveIsRestorable`, `RestoreHasRun`: of a branch that was not rewritten, the
two answers of git an archive consists of always fit together.

**Properties of `workspace`.** `ManifestIsTrue` holds because prepare stops
at the first error before it writes the manifest last. The manifest names its root
and, in the model, the turn: the property speaks of it until that root begins
another prepare. A later prepare of the root that fails after its copies leaves
the manifest false, and no property denies it. `SummaryHasPriorRuns`: without a
category in the workload every earlier run of the kernel is in the summary, under
any of its names. `ApplyIsChecked`: in the apply loop a patch that is still to
come applies, unless its stretch has changed since the patches were made, be it
by an edit during the checks or by another patch. That a patch is applied in the
end is not claimed: the loop prints what fails and goes on to "Done".

`kernel_history` is the same promise for every workload (program.md:77-78), and
false: prepare.go:227 takes the category of the shape entry for a backend, and
generate_context.go:102-112 drops every run without an iteration of that backend.
The category need not be one (prepare_test.go:567), and a run from the ingest API
has none, because the API's `INSERT` leaves the column out (handlers_ingest.go:658,
`WithoutBackend` in `HistoryDB`).

**Bounds, and why they do.** Two handlers and one CLI process give every pair of
transactions that can overlap (only one can hold the write lock, a third adds no
new pair). The six requests hold the relations the code distinguishes: two bodies
under one key, one body under two keys, one key on two routes, an invalid body.
`MaxMishaps = 1` lets one timeout, lost answer, crash or I/O error happen at each
point; with the retry, that is the case of every hazard in the list. About 182,000
states with symmetry in handlers and clients. The liveness run uses three requests
and the `archive-git` job, without symmetry. `HistoryFile`: two processes, two
restarts, two backup names (the code tries 10,000: two are enough for "taken" and
"none left"), about 25,000 states. With **three** processes `HistorySurvives` is
false: one can replace the backup, one the path, while the third builds the
temporary file; the property is stated for two, and the exposure is the same
stat-then-rename as in `legacy_backup`. `RateLimiter`: six ticks, a bucket of two
requests, a window of four ticks, long enough for a sweep to forget a bucket and
for the client to come back twice; about 340,000 states. `MaxTime` bounds the
clock, hence `CHECK_DEADLOCK FALSE`. `HistoryReads`: two runs, three writes
(insert, replace and merge of one run, or a run posted empty and two iterations
after it, or two runs and a replacement), two commands among two recalibrations
and two snapshot requests: a statement of each between any two of another; about
2,236,000 states. `GitArchive`: four commits and three events (merges, moves,
suspicious lines, commands) hold a sync, an upsert or an archive with one
disturbance in between; the properties also hold of five commits (5.4 million
states, too long for a run kept here); about 936,000 states. `Workspace`: three
commands, so a prepare that fails over one that succeeded beside a third of the
other root, or three patch commands and edits; five option records, two kernels of
which one has shapes, two stretches, three contents, two patch names; about 463,000
states. In these three the agents and commands simply end or reach the bound,
hence `CHECK_DEADLOCK FALSE` there too. Elsewhere the deadlock check is on;
`Finished` is the state in which everything has ended.

**Fairness.** `ingest_liveness` assumes weak fairness of each handler's steps and
each CLI process's steps (the Go scheduler and the operating system run what can
run) and of each client's `Send` (a client that got no answer or a 500 sends
again, as the README's idempotency keys are meant for). Mishaps are not fair.
Nothing is assumed of SQLite: a busy transaction fails at once, and that the
others still get through is what the run shows. The limit of `busy_timeout` for
an archive's first statement is not modelled: `CliStart` of an archive waits for
the lock, and the lock is shown to come free.

**Mutants.** Each property of a passing run has a mutant in `PROJECT.json`: a
mapped definition with a plausible error (`ClaimKeyTakesOver`,
`DeleteRunNoCascade`, `CommitUnconfirmed`, `AlterTableSkipped`,
`CleanupEager`, `RenderEarly`, `MarkRunByName`, `ReflogWarnsNoReset`,
`ChainUnchecked`, `CreateBundleOfHead`, `ApplyOverridesWarns`,
`FindRelatedRunsExact`...), defined before it in the module and used by no run, under
which that property fails.

## 4. The theorems

All are proved by TLAPS, for every value of the constants that satisfies the
modules' named assumptions.

**`IngestServerProofs`.** `TypeCorrect`, `WritesAreExactlyOnce`,
`AcknowledgedIsStored`, `ClaimsStayInvisible`,
`HistoryStaysConsistent` (unique run ids) with `IterationsHaveRuns` (no orphans),
and `Refinement` (the handlers implement `IdempotentStore`).
`ExactlyOnce` is not inductive: that no second write is committed rests on the
key table having one row per key, on the claim having been made in the state it
is committed to, and on nobody else committing in between. `KeyInv` says so in
parts. `LockInv`: who holds the write lock, by the place in the code. `ViewInv`:
the uncommitted changes of the holder to the key table are exactly its claim,
then its finished row, and its key is not in the committed table. `StoreInv`:
committed and uncommitted tables are `Consistent`; without a writer they are
equal. `KeysInv`: every committed key is finished and answers a request that was
sent. `CommittedInv`, `RepliesInv`: what was written and what was or is about to
be answered is grounded in the committed keys. The proof has one lemma per
action; that the SQL functions preserve `Consistent` is in `HistoryDBProofs`,
without reference to processes. The refinement maps `Commit` of a handler to
`Apply`, `Respond` to `Reply`, everything else to a stutter.

What is left of README.md:136 beside the finding of `replay_original` is proved
too. `SuccessesAgree`: successes under one route and key were for one request and
have one body. `StoredIsReplayed` (`SuccessIsFinal`): after the commit of a write,
a handler of the same request that answers gives the stored response or a 500,
never a conflict or "exists" for the resource that the request itself has made.
Both are from `KeyInv`: a handler past its claim has a key that is not in the
committed table (`ViewInv`), and a replay finds the one row there is (`KeysInv`).

**`IngestRowsProofs`.** `InvariantHolds` (`IInv`, which is `KeyInv` and
`RowsInv`), and from it `AckedResourcesExist`, `RefusalsJustified`,
`IngestIsAtomic`, `NoRowsLost`, `InsertIsFirst` and `SyncsAreStored`. These need
what is in the uncommitted rows at each statement: up to the write nothing but the
committed history, then that history with the route's write, which could still be
made to what is committed (`HandlerData`); a CLI process's write is that of its
mode to the committed tables, and its check of the `run_id` still holds as long as
its snapshot is the last commit (`WriterData`). `Present` and `Refused` say what a
key row and a refusal need of the rows; every commit keeps it, because a
transaction keeps all rows (`KeepsRows`) or all but those of the run it replaces
(`KeepsOtherRows`). `SyncsAreStored`: a sync that ends well has every commit of
its payload under its run, with number and backend (which the ingest API does not
keep), or after an upsert what was stored for that commit before (`HasPayload`).
Assumptions of both: handlers and CLI processes are different processes, requests
and jobs are well-formed, an `iterations` request carries one iteration.

**`HistoryFileProofs`.** `NamesAndFiles` (type correctness), `SchemaIsReady`
(`ReadyHasSchema`) for any number of processes and restarts, by `ReachedInv`: a
process past a step holds a file for which that step is done, and no step of
another process takes a column or the index away or brings duplicates
(`FilesKept`). `DeduplicationIsIdle`: `deduplicateRunsMigration` never changes a
database, the proof that the finding of `duplicates` is no accident of its
instance.

`TwoLoseNothing` is `HistorySurvives` for at most two processes (`TwoProcesses`),
any number of restarts, backup names and rows. "The rows are in some file with a
name" is not inductive: it does not tell whether the next rename takes that name
away. `SurvivesInv` adds why not. The rows are at the path or in a backup, or, if
one process has replaced the backup of another that died between its renames, in
the temporary file, and then nobody is left who would remove it (`Somewhere`). A
process about to rename knows of another copy (`RenameInv`). Of two processes in
the migration the first to rename leaves no legacy file for the second, and the
last to fill leaves a full temporary file (`PairInv`). Rows are never taken out
of a file (`Grow`), so only the steps that change names need the pair. With three
processes the property is false: the third takes the second's full temporary file
away and creates an empty one, the first renames that to the path, and the second,
which chose its backup name before, renames it over the backup with the rows.

Three theorems say where the findings about the migration end. `OneKeepsTheBackup`:
a process alone with the file (`OneProcess`), dying anywhere, keeps the backup of
README.md:60-61, so `legacy_backup` needs a second process. `KeptInv`: the legacy
file is at the path or in a backup, and no rename replaces a name that is taken.
`OneShowsHistory`: a process alone that does not die between its two renames
(`DiesBetweenRenames`) opens the old history or nothing, whatever happens to it
elsewhere, so that window is the only cause of `open_history` with one process.
`ShownInv` is where the rows are at each step: at the path, but in the window only
in the temporary file.
`OneOpens`: for a process alone with a history that has no duplicates, opening
never fails, however often it dies and is run again, if there are two backup names
(10000 in the code). So the duplicates that `deduplicateRunsMigration` never gets to
see (`duplicates`, `DeduplicationIsIdle`) are the only obstacle on the disk.
`AloneInv` says what each step has found or made for the next, and that a file to be
put aside has a free name: it is put aside once, so dead attempts use none up.

**`RateLimiterProofs`.** `BucketsInRange` unconditionally; `RateIsBounded` and
`BucketsRefine` from `EvictionIsSafe` (the burst is at least one request, the
sweep's window is long enough to fill a bucket; 5 minutes against 3 seconds by
default, but rate and burst are command-line flags while the window is not). The
bound is not inductive; `Budget` is (`BudgetIsKept`): what a client has spent
since any grant and what it could spend at once is no more than the burst and the
time since.

**`HistoryReadsProofs`.** For any number of writes, recalibrations and requests:
`RecalibrationIsLocal`, `MarkIsEarned`, `MissIsReplacement`, `ReadsArePrefixes`,
`ReadsAreComplete`, `EntriesAreUnique`, `ReadersAreTyped`, all from
`HistoryInvariant`. The argument: every committed change keeps the tables
`Consistent` (ids below the counters), only lets them grow (`Grows`: no id is
given out twice, a row that is gone does not come back) and keeps the iterations
of a run row that stays (`Keeps`). So what a process knows from an earlier
statement (`Cursor`: the iteration belongs to the run row, or that row is gone;
`EntryKnown`: what was read is all the run row had when asked for and a beginning
of what came later, if the row is still there) stays true whatever is committed in
between. Nothing is assumed of the payloads but their types: a run may have no
iterations. The facts of the writers' operators come first, as lemmas without
processes.

**`GitArchiveProofs`.** `SyncedRunsAreComplete`, `LinearWorkPasses`,
`ArchivesCanBeRestored`, `RestoresHaveTheRun`, `GitIsTyped`, from `GitInvariant`,
for any number of commits and events. A branch is clean when its reflog has no
suspicious line and no move went unlogged. Lines and moves never disappear, so
clean at the check means clean at the log; and while it is clean, `ever` is
exactly what the tip contains. For `LinearWorkPasses`: without merges the history
of the tip is a line, and a log of a line passes the chain check.

`VettedRunsAreOwn` (`OnlyOwnCommits`) and `CheckedRunsDoNotFork` (`RunIsOneLine`)
need where every commit was made. `LineageInv`: the commits made on main contain
one another in the order of their numbers, main contains them all, and while the
branch is clean its own commits do as well. `OriginInv`: of the commits on the
branch that contain the merge-base, only the merge-base itself can be foreign, as
long as nothing was merged in since (`BasePicked`, kept by every step of agent and
main). Then a log with a foreign commit breaks the chain (`RecordsAreOwn`): main
and branch were merged both ways, the merge-base is one of the branch's commits,
and where the log goes from a foreign commit to the branch's next one
(`Adjacent`), that one was made on an older commit. This is the argument that
`validateHistoryIntegrity`, which only compares neighbours in the log, is enough.
A log without breaks does not fork (`ChainIsLine`), nor do the branch's own
commits together (`OwnIsLine`), which is what an upsert of two vetted syncs needs.

**`WorkspaceProofs`.** `FilesAreTyped`, `ManifestsAreTrue`,
`SummariesHavePriorRuns`, `AppliesAreChecked`, from `WorkspaceInvariant`, for any
number of roots, kernels, patches and commands. Each root keeps, by the step it
is at, what it has written of the present turn; a manifest of that turn was
written behind them. `NormalizeIsCore` shows the code's normalisation to map all
names of a kernel to one core, `ExpandCovers` that the configurations cover the
bounds. The summary's theorem is for a workload without a category, as
`kernel_history` is what happens with one. For patches: what has passed the check
still applies at every stretch that nobody has changed, through the end of the
checks and the start of the apply loop. Assumptions
(`JobAssumption`, `NameAssumption`, `WorkloadAssumption`): commands have a
kernel's name of at least one part, bounds are natural numbers.

**Only model-checked.** Liveness, as fairness and `ENABLED` are outside the
prover, and `HistorySurvives` of more than two processes, of which it is false.
Every other property of the passing runs is the property of a theorem.

## 5. Not modelled

- **Server lifecycle.** `Shutdown` reads `httpSrv`, which another goroutine sets:
  a signal in the first moments finds nil. One unsynchronised pair in one
  process, with nothing after it. That a process may die at any point, which is
  what a cut connection amounts to, is in `IngestServer`.
- **The page.** Its HTML, the health check and the patch popup (guarded by the
  comparison at `serve.go:789`): display of one page. What it shows of the
  history is in `HistoryReads`.
- **Text.** Commit messages parsed into columns, the summary, exports and tables:
  their layout is no property of the system. Export reads one snapshot like every
  reader and writes files from it.
- **The git hook of prepare.** In a worktree it is written where git does not
  look. It is git that decides which hook to run; listed as a hazard.
- **The rewriting of Python sources** in prepare is its outcome: applied, refused
  or cut off. The project generator is a single write without readers.
- **Flags.** Only combinations that the commands refuse or distinguish appear, as
  choices of the actions.
- **The empty file.** SQLite creates a database as a file of length zero. A process
  that has read the header of a legacy file, and then finds such a file of another
  process at the path, takes it for an empty legacy history and migrates that
  (history_store.go:396-398). `HistoryFile` creates files with their content.
- **kernel-adapter**, which makes and applies the patches, is not in the
  repository; its effects on the output directory and the target are choices.
- **WAL side files of a renamed database**, `float64` rounding, `busy_timeout` as
  a length of time: see sections 2 and 3.
