--------------------------- MODULE MCIngestServer ---------------------------
EXTENDS IngestInvariant, TLC

CONSTANTS r1, r2, h1, h2, a1, k1, k2, cuda, none

Iter(n, h) == [iteration |-> n, commit_hash |-> h, backend |-> cuda]

RunBody(r, count, its) ==
  [run_id |-> r, commit_count |-> count, iterations |-> its, archive |-> a1]

Body1   == RunBody(r1, 0, {Iter(1, h1)})
Body2   == RunBody(r2, 0, {})
BodyBad == RunBody(r1, 0, {Iter(1, h1), Iter(1, h2)})
BodyIt  == RunBody(r1, 0, {Iter(2, h2)})
BodyCli == RunBody(r1, 2, {Iter(1, h1), Iter(3, h2)})

MCPayload == {Body1, Body2, BodyBad, BodyIt, BodyCli}

Post(route, k, b) == [route |-> route, key |-> k, body |-> b]

\* Two runs under one key, one run under two keys, the same key on two
\* routes, a payload that does not validate.
MCRequest == {Post("runs", k1, Body1), Post("runs", k1, Body2),
              Post("runs", k2, Body1), Post("iterations", k1, BodyIt),
              Post("archives", k1, Body1), Post("runs", k2, BodyBad)}

MCJob == {[kind |-> "run", mode |-> m, payload |-> BodyCli] : m \in WriteMode}
           \cup {[kind |-> "archive", mode |-> "insert", payload |-> Body1]}

\* For liveness, where symmetry is unsound: a run, a rival under its key, and
\* an iteration for it, against one `archive-git`, whose first statement
\* waits for the write lock.
LiveRequest == {Post("runs", k1, Body1), Post("runs", k1, Body2),
                Post("iterations", k2, BodyIt)}
LiveJob == {[kind |-> "archive", mode |-> "insert", payload |-> Body1]}

MCProc == Handler \cup Writer

Symmetry == Permutations(Handler) \cup Permutations(Client)
=============================================================================
