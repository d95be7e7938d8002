---------------------------- MODULE TokenBucket ----------------------------
(***************************************************************************)
(* The token bucket that the comments of RateLimitConfig describe          *)
(* (internal/server/ratelimit.go), one per client and never forgotten:     *)
(* credit grows at the sustained rate up to the burst, a request that is   *)
(* let through spends the cost of one, a request is refused only when      *)
(* there is less.                                                          *)
(***************************************************************************)
EXTENDS Integers

CONSTANTS Client, Cost, Cap

VARIABLES credit,  \* of each client
          answer   \* the last request, and whether it was let through

vars == <<credit, answer>>

NoAnswer == [client |-> "none"]
Answer(c, v) == [client |-> c, verdict |-> v]

Least(a, b) == IF a <= b THEN a ELSE b

Init ==
  /\ credit = [c \in Client |-> Cap]
  /\ answer = NoAnswer

Tick ==
  /\ credit' = [c \in Client |-> Least(Cap, credit[c] + 1)]
  /\ UNCHANGED answer

Take(c) ==
  /\ credit[c] >= Cost
  /\ credit' = [credit EXCEPT ![c] = @ - Cost]
  /\ answer' = Answer(c, "ok")

Refuse(c) ==
  /\ credit[c] < Cost
  /\ answer' = Answer(c, "refused")
  /\ UNCHANGED credit

Next == Tick \/ \E c \in Client : Take(c) \/ Refuse(c)

Spec == Init /\ [][Next]_vars
=============================================================================
