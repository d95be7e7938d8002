------------------------------ MODULE WalStore ------------------------------
(***************************************************************************)
(* The transactions of one SQLite database in WAL mode, as the code in     *)
(* src/ uses it through mattn/go-sqlite3 (external: db.Begin is a deferred *)
(* BEGIN, PRAGMA journal_mode = WAL, busy_timeout = 5000; see              *)
(* internal/commands/history_store.go:130-141).                            *)
(*                                                                         *)
(* A transaction's first statement takes a read snapshot.  Its first write *)
(* takes the single write lock: when another connection holds the lock, or *)
(* has committed since the snapshot, SQLite answers SQLITE_BUSY or         *)
(* SQLITE_BUSY_SNAPSHOT at once (waiting could not help, so the busy       *)
(* handler is not called).  A transaction whose first statement is a write *)
(* does wait for the lock, for at most busy_timeout.                       *)
(*                                                                         *)
(* Only the holder of the lock has uncommitted changes, so one working     *)
(* copy, view, serves all connections; while nobody writes it equals db.   *)
(* A snapshot is the number of the last commit it contains.                *)
(***************************************************************************)
EXTENDS Integers

CONSTANTS Proc,    \* the connections, one per handler or CLI process
          NoProc   \* nobody holds the write lock

ASSUME ProcAssumption == NoProc \notin Proc

VARIABLES db,      \* the committed database
          ver,     \* how many commits have changed it
          writer,  \* the holder of the write lock, or NoProc
          view,    \* db with the lock holder's uncommitted changes
          snap     \* snap[p]: the snapshot p reads, NoSnapshot outside a transaction

storeVars == <<db, ver, writer, view, snap>>

NoSnapshot == -1

StoreInit(d) ==
  /\ db = d
  /\ ver = 0
  /\ writer = NoProc
  /\ view = d
  /\ snap = [p \in Proc |-> NoSnapshot]

\* The first statement of a transaction, reading.
ReadSnapshot(p) ==
  /\ snap' = [snap EXCEPT ![p] = ver]
  /\ UNCHANGED <<db, ver, writer, view>>

\* The first statement of a transaction, writing: it waits for the lock.
WriteSnapshot(p, new) ==
  /\ writer = NoProc
  /\ snap' = [snap EXCEPT ![p] = ver]
  /\ writer' = p
  /\ view' = new
  /\ UNCHANGED <<db, ver>>

\* May p write?  It holds the lock, or can take it with an up-to-date snapshot.
CanWrite(p) == writer = p \/ (writer = NoProc /\ snap[p] = ver)

\* A write inside a transaction that has a snapshot.
Write(p, new) ==
  /\ CanWrite(p)
  /\ writer' = p
  /\ view' = new
  /\ UNCHANGED <<db, ver, snap>>

\* COMMIT of a transaction that has written.
CommitTx(p) ==
  /\ writer = p
  /\ db' = view
  /\ ver' = ver + 1
  /\ writer' = NoProc
  /\ snap' = [snap EXCEPT ![p] = NoSnapshot]
  /\ UNCHANGED view

\* COMMIT of the lock holder whose only write was refused by a constraint:
\* no row has changed, so no snapshot becomes stale.
CommitUnchanged(p) ==
  /\ writer = p
  /\ db' = view
  /\ writer' = NoProc
  /\ snap' = [snap EXCEPT ![p] = NoSnapshot]
  /\ UNCHANGED <<ver, view>>

\* ROLLBACK of the transactions of the connections in ps; the end of a
\* process does the same to its connections.
RollbackAll(ps) ==
  /\ IF writer \in ps
     THEN writer' = NoProc /\ view' = db
     ELSE UNCHANGED <<writer, view>>
  /\ snap' = [p \in Proc |-> IF p \in ps THEN NoSnapshot ELSE snap[p]]
  /\ UNCHANGED <<db, ver>>

Rollback(p) == RollbackAll({p})
=============================================================================
