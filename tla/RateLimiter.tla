---------------------------- MODULE RateLimiter ----------------------------
(***************************************************************************)
(* RateLimiter (internal/server/ratelimit.go): a bucket per client address *)
(* under one mutex, refilled when it is next looked at, and a goroutine    *)
(* that forgets the buckets nobody has looked at for a while.  Allow and   *)
(* each sweep hold the mutex from their reading of the clock to their end, *)
(* so each is one step.                                                    *)
(*                                                                         *)
(* The rate is in the units: a tick is the time in which one unit comes    *)
(* back, a request costs Cost units (1 / RequestsPerSecond, in ticks), and *)
(* a full bucket holds Burst requests.  Rounding of the float64 token      *)
(* count is left out.                                                      *)
(***************************************************************************)
EXTENDS Integers, Sequences

CONSTANTS Client,    \* client addresses
          Cost,      \* units a request spends
          Burst,     \* RateLimitConfig.Burst
          Window,    \* RateLimitConfig.CleanupInterval, in ticks
          MaxTime    \* bound: the clock

ASSUME ConfigAssumption ==
  /\ Cost \in Nat \ {0}
  /\ Burst \in Nat
  /\ Window \in Nat
  /\ MaxTime \in Nat

VARIABLES now,       \* the clock
          visitors,  \* the bucket of each client, or NoBucket
          wake,      \* when cleanup's sleep ends
          answer,    \* history: the last request and its answer
          grants     \* history: who was let through, and when, newest last

vars == <<now, visitors, wake, answer, grants>>

Cap == Burst * Cost

NoBucket == [tokens |-> "none"]
Bucket == [tokens : Int, lastSeen : Nat, updatedAt : Nat]

NoAnswer == [client |-> "none"]
Answer(c, v) == [client |-> c, verdict |-> v]

\* What the code keeps in range: a bucket never holds more than the burst, nor
\* less than nothing when the burst is at least one request.
TypeOK ==
  /\ now \in Nat
  /\ wake \in Nat
  /\ visitors \in [Client -> Bucket \cup {NoBucket}]
  /\ \A c \in Client : visitors[c] # NoBucket =>
       /\ visitors[c].tokens <= Cap
       /\ Burst > 0 => visitors[c].tokens >= 0
       /\ visitors[c].updatedAt <= now
       /\ visitors[c].lastSeen = visitors[c].updatedAt
  /\ answer \in [client : Client, verdict : {"ok", "refused"}] \cup {NoAnswer}
  /\ grants \in [Client -> Seq(Nat)]

Init ==
  /\ now = 0
  /\ visitors = [c \in Client |-> NoBucket]
  /\ wake = Window
  /\ answer = NoAnswer
  /\ grants = [c \in Client |-> <<>>]

-----------------------------------------------------------------------------
Tick ==
  /\ now < MaxTime
  /\ now' = now + 1
  /\ UNCHANGED <<visitors, wake, answer, grants>>

Least(a, b) == IF a <= b THEN a ELSE b

\* Mutant: the refill has no upper limit.
RefilledUncapped(b) == b.tokens + (now - b.updatedAt)

Refilled(b) == Least(Cap, b.tokens + (now - b.updatedAt))

Decide(c, tokens, verdict) ==
  /\ visitors' = [visitors EXCEPT ![c] =
                    [tokens |-> tokens, lastSeen |-> now, updatedAt |-> now]]
  /\ answer' = Answer(c, verdict)
  /\ grants' = IF verdict = "ok" THEN [grants EXCEPT ![c] = Append(@, now)] ELSE grants
  /\ UNCHANGED <<now, wake>>

\* A client without a bucket is let through, whatever the burst.
AllowNew(c) ==
  /\ visitors[c] = NoBucket
  /\ Decide(c, Cap - Cost, "ok")

AllowKnown(c) ==
  LET tokens == Refilled(visitors[c]) IN
  /\ visitors[c] # NoBucket
  /\ IF tokens < Cost THEN Decide(c, tokens, "refused")
                      ELSE Decide(c, tokens - Cost, "ok")

Allow(c) == AllowNew(c) \/ AllowKnown(c)

\* Mutant: the sweep forgets every bucket that was not looked at right now.
CleanupEager ==
  /\ now >= wake
  /\ visitors' = [c \in Client |->
       IF visitors[c] # NoBucket /\ visitors[c].lastSeen < now
       THEN NoBucket ELSE visitors[c]]
  /\ wake' = now + Window
  /\ UNCHANGED <<now, answer, grants>>

\* One sweep of cleanup, some time after its sleep has ended.
Cleanup ==
  /\ now >= wake
  /\ visitors' = [c \in Client |->
       IF visitors[c] # NoBucket /\ visitors[c].lastSeen < now - Window
       THEN NoBucket ELSE visitors[c]]
  /\ wake' = now + Window
  /\ UNCHANGED <<now, answer, grants>>

Next == Tick \/ Cleanup \/ \E c \in Client : Allow(c)

Spec == Init /\ [][Next]_vars

-----------------------------------------------------------------------------
\* ratelimit.go:26-29: the sustained rate, and the "maximum burst size allowed
\* above the sustained rate": in no stretch of time is a client let through
\* more often than the burst and the time that passed allow, whatever sweeps
\* happened in between.
RateBound ==
  \A c \in Client : \A i, j \in DOMAIN grants[c] :
    i <= j => (j - i + 1) * Cost <= Cap + grants[c][j] - grants[c][i]

\* Forgetting a bucket is harmless when the window is long enough to fill it.
EvictionIsSafe == Burst > 0 /\ Window >= Cap

\* What a client could spend now: a forgotten bucket counts as a full one.
Credit(c) == IF visitors[c] = NoBucket THEN Cap ELSE Refilled(visitors[c])

\* The strengthening of RateBound that steps preserve: what a client has spent
\* since any of its grants, with what it could spend at once, is no more than
\* the burst and the time since that grant.
Budget ==
  \A c \in Client : \A i \in DOMAIN grants[c] :
    (Len(grants[c]) - i + 1) * Cost + Credit(c) <= Cap + now - grants[c][i]

Abstract == INSTANCE TokenBucket WITH credit <- [c \in Client |-> Credit(c)]

\* The lazily refilled, swept buckets answer every request exactly as buckets
\* that are refilled all the time and never forgotten would.
ImplementsTokenBucket == Abstract!Spec
=============================================================================
