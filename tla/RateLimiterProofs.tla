------------------------ MODULE RateLimiterProofs ------------------------
(***************************************************************************)
(* Theorems about RateLimiter, for any clients, cost, burst and window:    *)
(* the buckets stay in range, the bound on the requests let through holds  *)
(* across sweeps, and the buckets implement TokenBucket.  The last two     *)
(* need EvictionIsSafe: the server's window of five minutes is long enough *)
(* to fill the bucket.                                                     *)
(***************************************************************************)
EXTENDS RateLimiter, TLAPS

USE ConfigAssumption

\* A full bucket is a number of units, and holds a request if it may hold any.
LEMMA CapFacts == Cap \in Nat /\ (Burst > 0 => Cap >= Cost)
<1>1. Cap \in Nat  BY DEF Cap
<1>2. ASSUME Burst > 0 PROVE Cap >= Cost
  <2>1. Burst = (Burst - 1) + 1 /\ Burst - 1 \in Nat  BY <1>2
  <2>2. (Burst - 1) * Cost \in Nat  BY <2>1
  <2>3. Burst * Cost = (Burst - 1) * Cost + Cost  BY <2>1
  <2> QED  BY <2>2, <2>3 DEF Cap
<1> QED  BY <1>1, <1>2

\* Refilling keeps a bucket in range and never takes anything out of it.
LEMMA RefilledRange ==
  ASSUME TypeOK, NEW c \in Client, visitors[c] # NoBucket
  PROVE  /\ Refilled(visitors[c]) \in Int
         /\ Refilled(visitors[c]) <= Cap
         /\ visitors[c].tokens <= Refilled(visitors[c])
         /\ Burst > 0 => Refilled(visitors[c]) >= 0
BY CapFacts DEF TypeOK, Bucket, Refilled, Least

-----------------------------------------------------------------------------
\* What Decide does, and when it is a refusal.
LEMMA AllowDecides ==
  ASSUME TypeOK, NEW c \in Client, Allow(c)
  PROVE  \E t \in Int :
           /\ Decide(c, t, "ok") \/ Decide(c, t, "refused")
           /\ t <= Cap
           /\ Burst > 0 => t >= 0
<1>1. CASE AllowNew(c)
  <2> DEFINE t == Cap - Cost
  <2>1. t \in Int /\ t <= Cap /\ (Burst > 0 => t >= 0)  BY CapFacts
  <2>2. Decide(c, t, "ok")  BY <1>1 DEF AllowNew
  <2> HIDE DEF t
  <2> QED  BY <2>1, <2>2
<1>2. CASE AllowKnown(c)
  <2>1. visitors[c] # NoBucket  BY <1>2 DEF AllowKnown
  <2> DEFINE t == Refilled(visitors[c])
  <2>2. t \in Int /\ t <= Cap /\ (Burst > 0 => t >= 0)
    BY <2>1, RefilledRange
  <2>3. \/ t < Cost /\ Decide(c, t, "refused")
        \/ ~(t < Cost) /\ Decide(c, t - Cost, "ok")
    BY <1>2 DEF AllowKnown
  <2> HIDE DEF t
  <2> DEFINE u == t - Cost
  <2>4. u \in Int /\ u <= Cap /\ (~(t < Cost) => u >= 0)
    BY <2>2, CapFacts
  <2>5. \/ Decide(c, t, "refused")
        \/ ~(t < Cost) /\ Decide(c, u, "ok")
    BY <2>3
  <2> HIDE DEF u
  <2> QED  BY <2>2, <2>4, <2>5
<1> QED  BY <1>1, <1>2 DEF Allow

\* Every request and every sweep keeps the buckets in range.
LEMMA TypeStep == TypeOK /\ [Next]_vars => TypeOK'
<1> SUFFICES ASSUME TypeOK, [Next]_vars PROVE TypeOK'
  OBVIOUS
<1>1. CASE Tick
  BY <1>1 DEF Tick, TypeOK, Bucket
<1>2. CASE Cleanup
  BY <1>2 DEF Cleanup, TypeOK, Bucket, NoBucket
<1>3. CASE \E c \in Client : Allow(c)
  <2>1. PICK c \in Client, t \in Int :
          /\ Decide(c, t, "ok") \/ Decide(c, t, "refused")
          /\ t <= Cap /\ (Burst > 0 => t >= 0)
    BY <1>3, AllowDecides
  <2> DEFINE b == [tokens |-> t, lastSeen |-> now, updatedAt |-> now]
  <2>2. b \in Bucket /\ b # NoBucket
    BY DEF TypeOK, Bucket, NoBucket
  <2>3. visitors' = [visitors EXCEPT ![c] = b] /\ now' = now /\ wake' = wake
    BY <2>1 DEF Decide
  <2>4. b.tokens = t /\ b.lastSeen = now /\ b.updatedAt = now
    OBVIOUS
  <2>5. answer' \in {Answer(c, "ok"), Answer(c, "refused")}
    BY <2>1 DEF Decide
  <2>6. answer' \in [client : Client, verdict : {"ok", "refused"}]
    BY <2>5 DEF Answer
  <2>7. grants' \in {grants, [grants EXCEPT ![c] = Append(@, now)]}
    BY <2>1 DEF Decide
  <2>8. grants' \in [Client -> Seq(Nat)]
    <3>1. Append(grants[c], now) \in Seq(Nat)  BY DEF TypeOK
    <3>2. grants \in [Client -> Seq(Nat)]  BY DEF TypeOK
    <3> QED  BY <2>7, <3>1, <3>2
  <2>9. b.tokens <= Cap /\ (Burst > 0 => b.tokens >= 0)
    BY <2>1, <2>4
  <2> HIDE DEF b
  <2>10. visitors' \in [Client -> Bucket \cup {NoBucket}]
    BY <2>2, <2>3 DEF TypeOK
  <2>11. \A d \in Client : visitors'[d] = IF d = c THEN b ELSE visitors[d]
    BY <2>3 DEF TypeOK
  <2>12. \A d \in Client : visitors'[d] # NoBucket =>
           /\ visitors'[d].tokens <= Cap
           /\ Burst > 0 => visitors'[d].tokens >= 0
           /\ visitors'[d].updatedAt <= now
           /\ visitors'[d].lastSeen = visitors'[d].updatedAt
    <3>1. \A d \in Client : d # c => visitors'[d] = visitors[d]  BY <2>11
    <3>2. visitors'[c] = b  BY <2>11
    <3>3. now \in Nat  BY DEF TypeOK
    <3> HIDE DEF b
    <3>4. b.updatedAt <= now /\ b.lastSeen = b.updatedAt  BY <2>4, <3>3
    <3> QED  BY <2>9, <3>1, <3>2, <3>4 DEF TypeOK
  <2> QED  BY <2>3, <2>6, <2>8, <2>10, <2>12 DEF TypeOK
<1>4. CASE UNCHANGED vars
  BY <1>4 DEF vars, TypeOK
<1> QED  BY <1>1, <1>2, <1>3, <1>4 DEF Next

\* A bucket never holds more than the burst, nor less than nothing, and the
\* two timestamps the code keeps are always the same.
THEOREM BucketsInRange == Spec => []TypeOK
<1>1. Init => TypeOK
  BY DEF Init, TypeOK
<1> QED  BY <1>1, TypeStep, PTL DEF Spec

-----------------------------------------------------------------------------
\* The credit of a client is a number of units it may spend.
LEMMA CreditRange ==
  ASSUME TypeOK, NEW c \in Client
  PROVE  Credit(c) \in Int /\ Credit(c) <= Cap /\ (Burst > 0 => Credit(c) >= 0)
BY CapFacts, RefilledRange DEF Credit

\* Time refills a credit that is known only by its last request.
LEMMA TickCredit ==
  ASSUME TypeOK, Tick, NEW c \in Client
  PROVE  Credit(c)' = Least(Cap, Credit(c) + 1)
BY CapFacts DEF TypeOK, Bucket, Tick, Credit, Refilled, Least

\* A sweep forgets only buckets that have been refilled to the burst.
LEMMA CleanupCredit ==
  ASSUME EvictionIsSafe, TypeOK, Cleanup, NEW c \in Client
  PROVE  Credit(c)' = Credit(c)
<1>1. now' = now /\ visitors'[c] \in {visitors[c], NoBucket}
  BY DEF Cleanup, TypeOK
<1>2. CASE visitors[c] # NoBucket /\ visitors[c].lastSeen < now - Window
  <2>1. visitors'[c] = NoBucket  BY <1>2 DEF Cleanup, TypeOK
  <2>2. Refilled(visitors[c]) = Cap
    BY <1>2, CapFacts DEF TypeOK, Bucket, Refilled, Least, EvictionIsSafe
  <2> QED  BY <1>2, <2>1, <2>2 DEF Credit
<1>3. CASE ~(visitors[c] # NoBucket /\ visitors[c].lastSeen < now - Window)
  <2>1. visitors'[c] = visitors[c]  BY <1>3 DEF Cleanup, TypeOK
  <2> QED  BY <1>1, <2>1 DEF Credit, Refilled
<1> QED  BY <1>2, <1>3

\* A request spends its cost from its client's credit exactly when it is let
\* through, is refused only when the credit does not reach, and touches nobody
\* else's.
LEMMA AllowCredit ==
  ASSUME EvictionIsSafe, TypeOK, NEW c \in Client, Allow(c)
  PROVE  /\ \/ /\ Credit(c) >= Cost
               /\ Credit(c)' = Credit(c) - Cost
               /\ answer' = Answer(c, "ok")
               /\ grants' = [grants EXCEPT ![c] = Append(@, now)]
            \/ /\ Credit(c) < Cost
               /\ Credit(c)' = Credit(c)
               /\ answer' = Answer(c, "refused")
               /\ grants' = grants
         /\ now' = now
         /\ \A d \in Client \ {c} : Credit(d)' = Credit(d)
<1>1. ASSUME NEW t \in Int, t <= Cap, NEW v \in {"ok", "refused"}, Decide(c, t, v)
      PROVE  /\ Credit(c)' = t
             /\ now' = now
             /\ \A d \in Client \ {c} : Credit(d)' = Credit(d)
  <2> DEFINE b == [tokens |-> t, lastSeen |-> now, updatedAt |-> now]
  <2>1. b # NoBucket /\ b.tokens = t /\ b.updatedAt = now
    BY DEF NoBucket
  <2>2. now' = now /\ visitors' = [visitors EXCEPT ![c] = b]
    BY <1>1 DEF Decide
  <2>3. visitors'[c] = b /\ \A d \in Client \ {c} : visitors'[d] = visitors[d]
    BY <2>2 DEF TypeOK
  <2> HIDE DEF b
  <2>4. Credit(c)' = t
    BY <1>1, <2>1, <2>2, <2>3, CapFacts DEF Credit, Refilled, Least, TypeOK
  <2> QED  BY <2>2, <2>3, <2>4 DEF Credit, Refilled
<1>2. CASE AllowNew(c)
  <2>1. Credit(c) = Cap  BY <1>2 DEF AllowNew, Credit
  <2>2. Decide(c, Cap - Cost, "ok")  BY <1>2 DEF AllowNew
  <2>3. Cap - Cost \in Int /\ Cap - Cost <= Cap  BY CapFacts
  <2> QED  BY <1>1, <2>1, <2>2, <2>3, CapFacts DEF Decide, EvictionIsSafe
<1>3. CASE AllowKnown(c)
  <2>1. Credit(c) = Refilled(visitors[c])  BY <1>3 DEF AllowKnown, Credit
  <2>2. Credit(c) \in Int /\ Credit(c) <= Cap  BY CreditRange
  <2>3. \/ Credit(c) < Cost /\ Decide(c, Credit(c), "refused")
        \/ ~(Credit(c) < Cost) /\ Decide(c, Credit(c) - Cost, "ok")
    BY <1>3, <2>1 DEF AllowKnown
  <2>4. Credit(c) - Cost \in Int /\ Credit(c) - Cost <= Cap
    BY <2>2, CapFacts
  <2> QED  BY <1>1, <2>2, <2>3, <2>4 DEF Decide
<1> QED  BY <1>2, <1>3 DEF Allow

-----------------------------------------------------------------------------
\* What a client has spent since a grant stays within the burst and the time.
LEMMA BudgetStep ==
  ASSUME EvictionIsSafe, TypeOK, Budget, [Next]_vars
  PROVE  Budget'
<1> SUFFICES ASSUME NEW c \in Client, NEW i \in DOMAIN grants'[c]
             PROVE  (Len(grants'[c]) - i + 1) * Cost + Credit(c)'
                      <= Cap + now' - grants'[c][i]
  BY DEF Budget
<1> DEFINE n == Len(grants[c])
<1>1. Credit(c) \in Int /\ Credit(c) <= Cap /\ n \in Nat /\ now \in Nat
  BY CreditRange DEF TypeOK
<1>2. ASSUME i \in DOMAIN grants[c]
      PROVE  /\ (n - i + 1) * Cost \in Int /\ grants[c][i] \in Nat
             /\ (n - i + 1) * Cost + Credit(c) <= Cap + now - grants[c][i]
  <2>1. i \in Nat /\ grants[c][i] \in Nat  BY <1>2 DEF TypeOK
  <2>2. n - i + 1 \in Int  BY <1>1, <2>1
  <2>3. n * Cost \in Int /\ (n - i + 1) * Cost \in Int  BY <2>2
  <2>4. (n - i + 1) * Cost + Credit(c) <= Cap + now - grants[c][i]
    BY <1>2 DEF Budget
  <2> QED  BY <2>1, <2>3, <2>4
<1>3. CASE Tick
  <2>1. Credit(c)' = Least(Cap, Credit(c) + 1)  BY <1>3, TickCredit
  <2>2. grants' = grants /\ now' = now + 1  BY <1>3 DEF Tick
  <2>3. Credit(c)' <= Credit(c) + 1 /\ Credit(c)' \in Int
    BY <1>1, <2>1, CapFacts DEF Least
  <2> HIDE DEF n
  <2>4. i \in DOMAIN grants[c] /\ n = Len(grants'[c])  BY <2>2 DEF n
  <2> DEFINE spent == (n - i + 1) * Cost
  <2>5. /\ spent \in Int /\ grants[c][i] \in Nat
        /\ spent + Credit(c) <= Cap + now - grants[c][i]
    BY <1>2, <2>4
  <2>6. spent = (Len(grants'[c]) - i + 1) * Cost  BY <2>4
  <2> HIDE DEF spent
  <2>7. spent + Credit(c)' <= Cap + now' - grants[c][i]
    BY <1>1, <2>2, <2>3, <2>5, CapFacts
  <2> QED  BY <2>2, <2>6, <2>7
<1>4. CASE Cleanup
  <2>1. Credit(c)' = Credit(c)  BY <1>4, CleanupCredit
  <2>2. grants' = grants /\ now' = now  BY <1>4 DEF Cleanup
  <2> QED  BY <1>2, <2>1, <2>2
<1>5. CASE \E d \in Client : Allow(d)
  <2>1. PICK d \in Client : Allow(d)  BY <1>5
  <2>2. now' = now  BY <2>1, AllowCredit
  <2>3. CASE grants'[c] = grants[c] /\ Credit(c)' = Credit(c)
    BY <1>2, <2>2, <2>3
  <2>4. CASE /\ Credit(c)' = Credit(c) - Cost
             /\ grants'[c] = Append(grants[c], now)
    <3>1. Len(grants'[c]) = n + 1  BY <2>4 DEF TypeOK
    <3>2. CASE i = n + 1
      <4>1. grants'[c][i] = now  BY <2>4, <3>2 DEF TypeOK
      <4>2. (Len(grants'[c]) - i + 1) * Cost = Cost  BY <1>1, <3>1, <3>2
      <4> HIDE DEF n
      <4> QED  BY <1>1, <2>2, <2>4, <4>1, <4>2, CapFacts
    <3>3. CASE i \in DOMAIN grants[c]
      <4>1. grants'[c][i] = grants[c][i]  BY <2>4, <3>3 DEF TypeOK
      <4>2. i \in Int  BY <3>3 DEF TypeOK
      <4>3. (Len(grants'[c]) - i + 1) * Cost = (n - i + 1) * Cost + Cost
        <5> HIDE DEF n
        <5>1. Len(grants'[c]) - i + 1 = (n - i + 1) + 1  BY <1>1, <3>1, <4>2
        <5>2. n - i + 1 \in Int  BY <1>1, <4>2
        <5> QED  BY <5>1, <5>2
      <4> HIDE DEF n
      <4> DEFINE before == (n - i + 1) * Cost
      <4> DEFINE after == (Len(grants'[c]) - i + 1) * Cost
      <4>4. /\ before \in Int /\ after = before + Cost
            /\ before + Credit(c) <= Cap + now - grants[c][i]
        BY <1>1, <1>2, <2>2, <3>3, <4>2, <4>3
      <4> HIDE DEF before
      <4>5. after + Credit(c)' <= Cap + now' - grants'[c][i]
        <5> HIDE DEF after
        <5> QED  BY <1>1, <2>2, <2>4, <4>1, <4>4, CapFacts
      <4> QED  BY <4>5
    <3>4. i = n + 1 \/ i \in DOMAIN grants[c]
      BY <2>4 DEF TypeOK
    <3> QED  BY <3>2, <3>3, <3>4
  <2>5. \/ grants'[c] = grants[c] /\ Credit(c)' = Credit(c)
        \/ Credit(c)' = Credit(c) - Cost /\ grants'[c] = Append(grants[c], now)
    BY <2>1, AllowCredit DEF TypeOK
  <2> QED  BY <2>3, <2>4, <2>5
<1>6. CASE UNCHANGED vars
  <2>1. UNCHANGED <<now, visitors, grants>>  BY <1>6 DEF vars
  <2> QED  BY <1>2, <2>1 DEF Credit, Refilled
<1> QED  BY <1>3, <1>4, <1>5, <1>6 DEF Next

\* A grant recorded by a step is within the bound counted from any earlier one;
\* a recorded pair stays as it is.
LEMMA BoundStep ==
  ASSUME EvictionIsSafe, TypeOK, TypeOK', Budget', RateBound, [Next]_vars
  PROVE  RateBound'
<1> SUFFICES ASSUME NEW c \in Client, NEW i \in DOMAIN grants'[c],
                    NEW j \in DOMAIN grants'[c], i <= j
             PROVE  (j - i + 1) * Cost <= Cap + grants'[c][j] - grants'[c][i]
  BY DEF RateBound
<1>1. CASE grants'[c] = grants[c]
  BY <1>1 DEF RateBound
<1>2. CASE grants'[c] = Append(grants[c], now) /\ now' = now
  <2>1. CASE j \in DOMAIN grants[c]
    <3>1. i \in DOMAIN grants[c]  BY <2>1 DEF TypeOK
    <3>2. grants'[c][i] = grants[c][i] /\ grants'[c][j] = grants[c][j]
      BY <1>2, <2>1, <3>1 DEF TypeOK
    <3> QED  BY <2>1, <3>1, <3>2 DEF RateBound
  <2>2. CASE j = Len(grants'[c])
    <3>1. grants'[c][j] = now'  BY <1>2, <2>2 DEF TypeOK
    <3>2. Credit(c)' \in Int /\ Credit(c)' >= 0
      <4>1. (Credit(c) \in Int /\ (Burst > 0 => Credit(c) >= 0))'
        BY CreditRange, PTL
      <4> QED  BY <4>1 DEF EvictionIsSafe
    <3>3. (j - i + 1) * Cost + Credit(c)' <= Cap + now' - grants'[c][i]
      BY <2>2 DEF Budget
    <3>4. i \in Int /\ j \in Int /\ grants'[c][i] \in Int /\ now' \in Int
      BY DEF TypeOK
    <3>5. (j - i + 1) * Cost \in Int  BY <3>4
    <3> QED  BY <3>1, <3>2, <3>3, <3>4, <3>5, CapFacts
  <2>3. j \in DOMAIN grants[c] \/ j = Len(grants'[c])
    BY <1>2 DEF TypeOK
  <2> QED  BY <2>1, <2>2, <2>3
<1>3. \/ grants'[c] = grants[c]
      \/ grants'[c] = Append(grants[c], now) /\ now' = now
  <2>1. CASE \E d \in Client : Allow(d)
    BY <2>1, AllowCredit DEF TypeOK
  <2>2. CASE Tick \/ Cleanup \/ UNCHANGED vars
    BY <2>2 DEF Tick, Cleanup, vars
  <2> QED  BY <2>1, <2>2 DEF Next
<1> QED  BY <1>1, <1>2, <1>3

LEMMA LimitsHold ==
  ASSUME EvictionIsSafe
  PROVE  Spec => [](Budget /\ RateBound)
<1>1. Init => TypeOK /\ Budget /\ RateBound
  BY DEF Init, TypeOK, Budget, RateBound
<1>2. TypeOK /\ Budget /\ RateBound /\ [Next]_vars
        => (TypeOK /\ Budget /\ RateBound)'
  BY EvictionIsSafe, TypeStep, BudgetStep, BoundStep
<1> QED  BY <1>1, <1>2, PTL DEF Spec

\* What a client has spent since any of its grants, with what it could spend at
\* once, is never more than the burst and the time since, across sweeps.
THEOREM BudgetIsKept ==
  ASSUME EvictionIsSafe
  PROVE  Spec => []Budget
BY EvictionIsSafe, LimitsHold, PTL

\* In no stretch of time, sweeps included, is a client let through more often
\* than the configured burst and rate allow.
THEOREM RateIsBounded ==
  ASSUME EvictionIsSafe
  PROVE  Spec => []RateBound
BY EvictionIsSafe, LimitsHold, PTL

-----------------------------------------------------------------------------
\* A step of the lazily refilled buckets is a step of the abstract ones.
LEMMA BucketStep ==
  ASSUME EvictionIsSafe, TypeOK, [Next]_vars
  PROVE  Abstract!Next \/ UNCHANGED Abstract!vars
<1> DEFINE credit == [c \in Client |-> Credit(c)]
<1>1. CASE Tick
  <2>1. \A c \in Client : Credit(c)' = Least(Cap, Credit(c) + 1)
    BY <1>1, TickCredit
  <2>2. answer' = answer  BY <1>1 DEF Tick
  <2> QED  BY <2>1, <2>2 DEF Abstract!Next, Abstract!Tick, Abstract!Least, Least
<1>2. CASE Cleanup
  <2>1. \A c \in Client : Credit(c)' = Credit(c)  BY <1>2, CleanupCredit
  <2>2. answer' = answer  BY <1>2 DEF Cleanup
  <2> QED  BY <2>1, <2>2 DEF Abstract!vars
<1>3. CASE \E c \in Client : Allow(c)
  <2>1. PICK c \in Client : Allow(c)  BY <1>3
  <2>2. \/ /\ Credit(c) >= Cost
           /\ Credit(c)' = Credit(c) - Cost
           /\ answer' = Answer(c, "ok")
        \/ /\ Credit(c) < Cost
           /\ Credit(c)' = Credit(c)
           /\ answer' = Answer(c, "refused")
    BY <2>1, AllowCredit
  <2>3. Credit(c) \in Int  BY CreditRange
  <2>4. CASE Credit(c) >= Cost
    <3>1. Credit(c)' = Credit(c) - Cost /\ answer' = Answer(c, "ok")
      BY <2>4, <2>2, <2>3
    <3>2. \A d \in Client \ {c} : Credit(d)' = Credit(d)
      BY <2>1, AllowCredit
    <3>3. credit' = [credit EXCEPT ![c] = @ - Cost]
      BY <3>1, <3>2
    <3>4. Abstract!Take(c)
      BY <2>4, <3>1, <3>3 DEF Abstract!Take, Abstract!Answer, Answer
    <3> QED  BY <3>4 DEF Abstract!Next
  <2>5. CASE Credit(c) < Cost
    <3>1. Credit(c)' = Credit(c) /\ answer' = Answer(c, "refused")
      BY <2>5, <2>2, <2>3
    <3>2. \A d \in Client : Credit(d)' = Credit(d)
      BY <2>1, <3>1, AllowCredit
    <3>3. Abstract!Refuse(c)
      BY <2>5, <3>1, <3>2 DEF Abstract!Refuse, Abstract!Answer, Answer
    <3> QED  BY <3>3 DEF Abstract!Next
  <2> QED  BY <2>3, <2>4, <2>5
<1>4. CASE UNCHANGED vars
  BY <1>4 DEF vars, Abstract!vars, Credit, Refilled
<1> QED  BY <1>1, <1>2, <1>3, <1>4 DEF Next

\* The lazily refilled, swept buckets answer every request as buckets that are
\* refilled all the time and never forgotten would.
THEOREM BucketsRefine ==
  ASSUME EvictionIsSafe
  PROVE  Spec => ImplementsTokenBucket
<1>1. Init => Abstract!Init
  BY DEF Init, Abstract!Init, Credit, NoAnswer, Abstract!NoAnswer
<1>2. TypeOK /\ [Next]_vars => [Abstract!Next]_(Abstract!vars)
  BY EvictionIsSafe, BucketStep
<1> QED
  BY <1>1, <1>2, BucketsInRange, PTL
  DEF Spec, ImplementsTokenBucket, Abstract!Spec
=============================================================================
