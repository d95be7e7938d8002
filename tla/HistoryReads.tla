---------------------------- MODULE HistoryReads ----------------------------
(***************************************************************************)
(* loadHistory beside writers and recalibrations, and the page that shows  *)
(* what it returns.  loadHistory (internal/commands/history_store.go) is   *)
(* one SELECT of the runs and then one SELECT of the iterations per run,   *)
(* each in its own read snapshot.  Here the readers are requests of the    *)
(* dashboard for a snapshot (serve.go, export.go): a click on Refresh      *)
(* starts one, several may be open, and each answer that arrives replaces  *)
(* what the page shows.  export, generate-context, prepare and restore-git *)
(* call the same loadHistory once.                                         *)
(***************************************************************************)
EXTENDS Recalibrate

CONSTANTS Reader,       \* requests for a snapshot
          MaxCommands   \* bound on refreshes and recalibrations together

VARIABLES rpc,       \* where each request is
          pending,   \* run rows whose iterations are not read yet
          out,       \* the runs of the result so far
          known,     \* the run_ids in the database when the request was made
          since,     \* and the highest iteration id given out by then
          shown,     \* what the page shows
          refreshes  \* how many there were, for the bound

readVars == <<rpc, pending, out, known, since, shown, refreshes>>
vars == <<recalVars, readVars>>

\* A run of a loaded history.  Its row id is not part of the Go record.
Entry == [run : RunRow, iterations : SUBSET IterationRow]
Page == [entries : SUBSET Entry, known : SUBSET RunId, since : Nat]

ReadTypeOK ==
  /\ rpc \in [Reader -> {"idle", "runs", "iterations"}]
  /\ pending \in [Reader -> SUBSET RunRow]
  /\ out \in [Reader -> SUBSET Entry]
  /\ known \in [Reader -> SUBSET RunId]
  /\ since \in [Reader -> Nat]
  /\ shown \in Page
  /\ refreshes \in Nat

ReadInit ==
  /\ rpc = [r \in Reader |-> "idle"]
  /\ pending = [r \in Reader |-> {}]
  /\ out = [r \in Reader |-> {}]
  /\ known = [r \in Reader |-> {}]
  /\ since = [r \in Reader |-> 0]
  /\ shown = [entries |-> {}, known |-> {}, since |-> 0]
  /\ refreshes = 0

\* loadSnapshot of the page, and the handler that calls buildSnapshot.
Refresh(r) ==
  /\ rpc[r] = "idle"
  /\ refreshes' = refreshes + 1
  /\ rpc' = [rpc EXCEPT ![r] = "runs"]
  /\ known' = [known EXCEPT ![r] = RunIds(db)]
  /\ since' = [since EXCEPT ![r] = db.iterseq]
  /\ UNCHANGED <<pending, out, shown>>

\* Mutant: the runs are read in pages, by more than one SELECT.
QueryRunsTwice(r) ==
  /\ rpc[r] = "runs"
  /\ rpc' \in {rpc, [rpc EXCEPT ![r] = "iterations"]}
  /\ pending' = [pending EXCEPT ![r] = @ \cup db.runs]
  /\ UNCHANGED <<out, known, since, shown, refreshes>>

\* queryRuns: SELECT of all runs, read to the end before the next statement.
QueryRuns(r) ==
  /\ rpc[r] = "runs"
  /\ rpc' = [rpc EXCEPT ![r] = "iterations"]
  /\ pending' = [pending EXCEPT ![r] = db.runs]
  /\ UNCHANGED <<out, known, since, shown, refreshes>>

\* queryIterationsForRun of the next run.
QueryIterations(r) ==
  /\ rpc[r] = "iterations"
  /\ \E x \in First(pending[r]) :
       /\ pending' = [pending EXCEPT ![r] = @ \ {x}]
       /\ out' = [out EXCEPT ![r] = @ \cup
                    {[run |-> x, iterations |-> RowsOf(db, x.id)]}]
  /\ UNCHANGED <<rpc, known, since, shown, refreshes>>

EndRequest(r) ==
  /\ rpc' = [rpc EXCEPT ![r] = "idle"]
  /\ pending' = [pending EXCEPT ![r] = {}]
  /\ out' = [out EXCEPT ![r] = {}]
  /\ known' = [known EXCEPT ![r] = {}]
  /\ since' = [since EXCEPT ![r] = 0]
  /\ UNCHANGED refreshes

\* Mutant: the page is rendered run by run, as they are read.
RenderEarly(r) ==
  /\ rpc[r] = "iterations"
  /\ shown' = [entries |-> out[r], known |-> known[r], since |-> since[r]]
  /\ EndRequest(r)

\* The answer arrives, in any order among the open requests, and is rendered.
Render(r) ==
  /\ rpc[r] = "iterations"
  /\ pending[r] = {}
  /\ shown' = [entries |-> out[r], known |-> known[r], since |-> since[r]]
  /\ EndRequest(r)

\* A statement fails, the server ends or the answer is lost: setStatus only.
RefreshFails(r) ==
  /\ rpc[r] # "idle"
  /\ EndRequest(r)
  /\ UNCHANGED shown

ReadStep(r) ==
  \/ Refresh(r) \/ QueryRuns(r) \/ QueryIterations(r) \/ Render(r)
  \/ RefreshFails(r)

Next ==
  /\ \/ RecalNext /\ UNCHANGED readVars
     \/ \E r \in Reader : ReadStep(r) /\ UNCHANGED recalVars
  /\ starts' + refreshes' <= MaxCommands

Init == RecalInit /\ ReadInit

Spec == Init /\ [][Next]_vars
(***************************************************************************)
(* Properties.                                                             *)
(***************************************************************************)
\* Requests, loaded entries and the page keep their types, beside the
\* recalibrations (serve.go and the records of sync_git.go).
ReadersTypeOK == TypeOK /\ ReadTypeOK

\* loadHistory has no read transaction.  Still, of a run whose row has not been
\* replaced since it returns every iteration that was stored when the request
\* was made, and beyond those a prefix of what was added, in the order of the
\* ids: nothing it returns has gone, and what it misses came during the read.
\* So an entry is empty only if its run had no iterations when the request was
\* made, or was replaced during the read.
EntryIsPrefix(e, asked) ==
  e.run.id \in {x.id : x \in db.runs} =>
    /\ \A i \in e.iterations : \E j \in RowsOf(db, e.run.id) : j.id = i.id
    /\ \A j \in RowsOf(db, e.run.id) :
         j.id <= asked \/ (\E i \in e.iterations : j.id < i.id)
           => \E k \in e.iterations : k.id = j.id

ReadIsPrefix ==
  /\ \A r \in Reader : \A e \in out[r] : EntryIsPrefix(e, since[r])
  /\ \A e \in shown.entries : EntryIsPrefix(e, shown.since)

\* The page never misses a run that was in the database when the refresh it
\* shows was clicked: --replace deletes and inserts in one transaction, and
\* queryRuns reads all runs with one SELECT.
NoRunMissing == \A n \in shown.known : \E e \in shown.entries : e.run.run_id = n

\* A loaded history has one entry per run_id, so the merging of entries in
\* queryRuns (history_store.go, "Deduplicate at query time") has nothing to do.
OneEntryPerRun ==
  \A d, e \in shown.entries : d.run.run_id = e.run.run_id => d = e
=============================================================================
