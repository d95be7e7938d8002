-------------------------- MODULE IdempotentStore --------------------------
(***************************************************************************)
(* What README.md ("Idempotency semantics") and docs/design.md promise of  *)
(* the ingest API, with no handlers, transactions or processes: a request  *)
(* takes effect at most once per route and key, a success is answered only *)
(* for a request that has taken effect, with the body stored then, and a   *)
(* key conflict only when the key belongs to another request.              *)
(***************************************************************************)
CONSTANTS Request,     \* records with a route, a key and a body
          Body(_)      \* the response a request gets when it takes effect

VARIABLES applied,  \* the requests that took effect, with their responses
          answers   \* the answers clients have: success, conflict or failure

vars == <<applied, answers>>

SameKey(r, s) == r.route = s.route /\ r.key = s.key

Success(r, b) == [request |-> r, outcome |-> "success", body |-> b]
Conflict(r) == [request |-> r, outcome |-> "conflict"]
Failure(r) == [request |-> r, outcome |-> "failure"]

Init == applied = {} /\ answers = {}

Apply(r) ==
  /\ \A a \in applied : ~SameKey(a.request, r)
  /\ applied' = applied \cup {[request |-> r, response |-> Body(r)]}
  /\ UNCHANGED answers

Reply(r) ==
  /\ UNCHANGED applied
  /\ \/ \E a \in applied :
          a.request = r /\ answers' = answers \cup {Success(r, a.response)}
     \/ \E a \in applied :
          /\ SameKey(a.request, r)
          /\ a.request # r
          /\ answers' = answers \cup {Conflict(r)}
     \/ answers' = answers \cup {Failure(r)}

Next == \E r \in Request : Apply(r) \/ Reply(r)

Spec == Init /\ [][Next]_vars
=============================================================================
