------------------------- MODULE RateLimiterProofs -------------------------
(***************************************************************************)
(* Proofs about RateLimiter: the types of the buckets and the rate limit   *)
(* itself, for any number of tenants, any bucket size and refill rate, and *)
(* however the clock is set.                                               *)
(***************************************************************************)
EXTENDS RateLimiter, TLAPS

\* The refill of two consecutive spans of time is the refill of both.
LEMMA RefillsAdd ==
  ASSUME NEW a \in Int, NEW b \in Int, NEW c \in Int, NEW rate \in Int
  PROVE  (a - b) * rate + (b - c) * rate = (a - c) * rate
  BY Z3

\* The inductive invariant: a tenant without a bucket has been allowed
\* nothing, so that a bucket starts its account with zero.
IInv ==
  /\ TypeOK
  /\ RateBounded
  /\ \A t \in Tenants \ DOMAIN buckets : allowed[t] = 0

\* A bucket and the account of its tenant obey the limit.
Within(bucket, spent, since) ==
  spent + bucket.tokens <= max_tokens + (bucket.last_refill - since) * refill_rate

BucketType(bucket) ==
  /\ bucket.tokens \in Int
  /\ bucket.tokens <= max_tokens
  /\ bucket.last_refill \in Int

\* _refill keeps a bucket within the limit, forwards and backwards in time.
LEMMA RefillWithin ==
  ASSUME TypeOK, NEW bucket, BucketType(bucket), NEW spent \in Nat, NEW since \in Int,
         Within(bucket, spent, since)
  PROVE  /\ BucketType(refill(bucket))
         /\ refill(bucket).last_refill = now
         /\ Within(refill(bucket), spent, since)
<1> DEFINE gain == (now - bucket.last_refill) * refill_rate
           old == (bucket.last_refill - since) * refill_rate
           full == (now - since) * refill_rate
<1>1. /\ now \in Int /\ refill_rate \in Int /\ max_tokens \in Int
      /\ bucket.last_refill \in Int /\ bucket.tokens \in Int
  BY RateAssumption DEF TypeOK, BucketType
<1>2. gain \in Int /\ old \in Int /\ full \in Int
  BY <1>1
<1>3. gain + old = full
  BY <1>1, RefillsAdd
<1>4. spent + bucket.tokens <= max_tokens + old
  BY DEF Within
<1>5. /\ refill(bucket).last_refill = now
      /\ refill(bucket).tokens = AtMost(max_tokens, bucket.tokens + gain)
  BY DEF refill
<1> HIDE DEF gain, old
<1>6. /\ AtMost(max_tokens, bucket.tokens + gain) \in Int
      /\ AtMost(max_tokens, bucket.tokens + gain) <= max_tokens
      /\ AtMost(max_tokens, bucket.tokens + gain) <= bucket.tokens + gain
  BY <1>1, <1>2 DEF AtMost
<1>7. spent + refill(bucket).tokens <= max_tokens + full
  <2> HIDE DEF full
  <2> QED
    BY <1>1, <1>2, <1>3, <1>4, <1>5, <1>6
<1> QED
  BY <1>1, <1>5, <1>6, <1>7 DEF BucketType, Within

\* The bucket that get_bucket finds or makes, refilled, is within the limit of
\* the account that set_bucket will leave.
LEMMA BucketWithin ==
  ASSUME IInv, NEW t \in Tenants
  PROVE  LET bucket == refill(get_bucket(t))
             since == IF t \in DOMAIN buckets THEN created[t] ELSE now
         IN  /\ BucketType(bucket)
             /\ bucket.last_refill = now
             /\ Within(bucket, allowed[t], since)
<1>1. now \in Int /\ allowed[t] \in Nat /\ created[t] \in Int
  BY DEF IInv, TypeOK
<1>2. CASE t \in DOMAIN buckets
  <2>1. get_bucket(t) = buckets[t]
    BY <1>2 DEF get_bucket
  <2>2. BucketType(buckets[t]) /\ Within(buckets[t], allowed[t], created[t])
    BY <1>2 DEF IInv, TypeOK, RateBounded, BucketType, Within
  <2> QED
    BY <1>1, <1>2, <2>1, <2>2, RefillWithin DEF IInv
<1>3. CASE t \notin DOMAIN buckets
  <2> DEFINE fresh == [tokens |-> max_tokens, last_refill |-> now]
  <2>1. get_bucket(t) = fresh
    BY <1>3 DEF get_bucket
  <2>2. allowed[t] = 0
    BY <1>3 DEF IInv
  <2>3. BucketType(fresh)
    BY <1>1, RateAssumption DEF BucketType
  <2>4. (now - now) * refill_rate = 0
    BY <1>1, RateAssumption
  <2>5. Within(fresh, allowed[t], now)
    BY <2>2, <2>4, RateAssumption DEF Within
  <2> HIDE DEF fresh
  <2> QED
    BY <1>1, <1>3, <2>1, <2>3, <2>5, RefillWithin DEF IInv
<1> QED
  BY <1>2, <1>3

\* Storing a bucket that is within the limit of the new account keeps IInv.
LEMMA StoreKeeps ==
  ASSUME IInv, NEW t \in Tenants, NEW bucket, NEW spent \in Nat,
         BucketType(bucket), set_bucket(t, bucket),
         Within(bucket, spent, IF t \in DOMAIN buckets THEN created[t] ELSE now),
         allowed' = [allowed EXCEPT ![t] = spent],
         now' \in Int, promised' \in [Tenants -> Int]
  PROVE  IInv'
<1>1. /\ allowed' \in [Tenants -> Nat] /\ created' \in [Tenants -> Int]
      /\ allowed'[t] = spent
      /\ created'[t] = IF t \in DOMAIN buckets THEN created[t] ELSE now
      /\ \A u \in Tenants : u # t => allowed'[u] = allowed[u] /\ created'[u] = created[u]
  BY DEF IInv, TypeOK, set_bucket
<1>2. /\ DOMAIN buckets' = DOMAIN buckets \cup {t}
      /\ buckets'[t] = bucket
      /\ \A u \in DOMAIN buckets : u # t => buckets'[u] = buckets[u]
  BY DEF set_bucket
<1>3. DOMAIN buckets \subseteq Tenants
  BY DEF IInv, TypeOK
<1>4. \A u \in DOMAIN buckets' :
        /\ buckets'[u].tokens \in Int
        /\ buckets'[u].tokens <= max_tokens
        /\ buckets'[u].last_refill \in Int
  BY <1>2 DEF IInv, TypeOK, BucketType
<1>5. TypeOK'
  BY <1>1, <1>2, <1>3, <1>4 DEF TypeOK
<1>6. ASSUME NEW u \in DOMAIN buckets'
      PROVE  allowed'[u] + buckets'[u].tokens
               <= max_tokens + (buckets'[u].last_refill - created'[u]) * refill_rate
  <2>1. CASE u = t
    BY <1>1, <1>2, <2>1 DEF Within
  <2>2. CASE u # t
    <3>1. u \in DOMAIN buckets /\ u \in Tenants
      BY <1>2, <1>3, <2>2
    <3>2. buckets'[u] = buckets[u] /\ allowed'[u] = allowed[u] /\ created'[u] = created[u]
      BY <1>1, <1>2, <2>2, <3>1
    <3> QED
      BY <3>1, <3>2 DEF IInv, RateBounded
  <2> QED
    BY <2>1, <2>2
<1>7. \A u \in Tenants \ DOMAIN buckets' : allowed'[u] = 0
  BY <1>1, <1>2 DEF IInv
<1> QED
  BY <1>5, <1>6, <1>7 DEF IInv, RateBounded

LEMMA NeverType == Never \in Int
  BY RateAssumption DEF Never

LEMMA InvInit == Init => IInv
  BY NeverType, RateAssumption DEF Init, IInv, TypeOK, RateBounded

LEMMA InvNext == IInv /\ [Next]_vars => IInv'
<1> SUFFICES ASSUME IInv, [Next]_vars PROVE IInv'
  OBVIOUS
<1>0. /\ now \in Int /\ promised \in [Tenants -> Int]
      /\ allowed \in [Tenants -> Nat] /\ created \in [Tenants -> Int]
  BY DEF IInv, TypeOK
<1>1. ASSUME NEW t \in Tenants, ConsumeAllowed(t)
      PROVE  IInv'
  <2> DEFINE bucket == refill(get_bucket(t))
             left == [bucket EXCEPT !.tokens = bucket.tokens - one]
             since == IF t \in DOMAIN buckets THEN created[t] ELSE now
  <2>1. /\ BucketType(bucket) /\ bucket.last_refill = now
        /\ Within(bucket, allowed[t], since)
    BY BucketWithin
  <2>2. left.tokens = bucket.tokens - one /\ left.last_refill = now
    BY <2>1 DEF refill
  <2>3. /\ one \in Nat /\ max_tokens \in Nat /\ refill_rate \in Nat
        /\ allowed[t] \in Nat /\ since \in Int
    BY <1>0, RateAssumption
  <2>4. /\ set_bucket(t, left)
        /\ allowed' = [allowed EXCEPT ![t] = allowed[t] + one]
        /\ promised' \in [Tenants -> Int]
        /\ now' = now
    BY <1>0, <1>1, NeverType DEF ConsumeAllowed
  <2> HIDE DEF bucket, left, since
  <2>5. BucketType(left)
    BY <1>0, <2>1, <2>2, <2>3 DEF BucketType
  <2>6. (now - since) * refill_rate \in Int
    BY <1>0, <2>3
  <2>7. Within(left, allowed[t] + one, since)
    BY <2>1, <2>2, <2>3, <2>6 DEF Within, BucketType
  <2>8. allowed[t] + one \in Nat /\ now' \in Int
    BY <1>0, <2>3, <2>4
  <2>9. Within(left, allowed[t] + one, IF t \in DOMAIN buckets THEN created[t] ELSE now)
    BY <2>7 DEF since
  <2> QED
    BY <2>4, <2>5, <2>8, <2>9, StoreKeeps
<1>2. ASSUME NEW t \in Tenants, ConsumeLimited(t) \/ retry_after(t)
      PROVE  IInv'
  <2> DEFINE bucket == refill(get_bucket(t))
  <2>1. /\ BucketType(bucket)
        /\ Within(bucket, allowed[t], IF t \in DOMAIN buckets THEN created[t] ELSE now)
    BY BucketWithin
  <2>2. /\ set_bucket(t, bucket)
        /\ allowed' = allowed /\ now' = now
    BY <1>2 DEF ConsumeLimited, retry_after
  <2>3. promised' \in [Tenants -> Int]
    <3>1. CASE ConsumeLimited(t)
      BY <1>0, <3>1 DEF ConsumeLimited
    <3>2. CASE retry_after(t)
      <4>1. one - bucket.tokens \in Int
        BY <2>1, RateAssumption DEF BucketType
      <4> HIDE DEF bucket
      <4>2. \A d \in Int : wait(d) \in Int
        BY RateAssumption DEF wait
      <4>3. promised' = [promised EXCEPT ![t] = IF one - bucket.tokens <= 0 THEN now
                                               ELSE now + wait(one - bucket.tokens)]
        BY <3>2 DEF retry_after, bucket
      <4> QED
        BY <1>0, <4>1, <4>2, <4>3
    <3> QED
      BY <1>2, <3>1, <3>2
  <2>4. allowed' = [allowed EXCEPT ![t] = allowed[t]] /\ allowed[t] \in Nat
    BY <1>0, <2>2
  <2> HIDE DEF bucket
  <2> QED
    BY <1>0, <2>1, <2>2, <2>3, <2>4, StoreKeeps
<1>3. ASSUME NEW t \in Tenants, reset(t)
      PROVE  IInv'
  BY <1>3 DEF reset, IInv, TypeOK, RateBounded
<1>4. CASE Tick
  BY <1>4 DEF Tick, IInv, TypeOK, RateBounded
<1>5. CASE Adjust
  <2>1. now' \in Int /\ promised' \in [Tenants -> Int]
    BY <1>0, <1>5, NeverType, RateAssumption DEF Adjust
  <2> QED
    BY <1>5, <2>1 DEF Adjust, IInv, TypeOK, RateBounded
<1>6. CASE UNCHANGED vars
  BY <1>6 DEF vars, IInv, TypeOK, RateBounded
<1> QED
  BY <1>1, <1>2, <1>3, <1>4, <1>5, <1>6 DEF Next

LEMMA InvHolds == Spec => []IInv
  BY InvInit, InvNext, PTL DEF Spec

\* Buckets keep their types and are never fuller than max_tokens (quotas.py:
\* _refill's min), whatever the clock does.
THEOREM RateTypeCorrect == Spec => []TypeOK
<1>1. IInv => TypeOK
  BY DEF IInv
<1> QED
  BY <1>1, InvHolds, PTL

\* The rate limit: no tenant is ever allowed more than the bucket size plus
\* the refill of the elapsed clock time (quotas.py: consume and _refill).
THEOREM RateBoundedHolds == Spec => []RateBounded
<1>1. IInv => RateBounded
  BY DEF IInv
<1> QED
  BY <1>1, InvHolds, PTL
-----------------------------------------------------------------------------
(* What retry_after tells is enough.                                       *)

\* The refill of the time that was told covers the deficit: wait rounds up.
LEMMA WaitCovers ==
  ASSUME NEW deficit \in Int
  PROVE  wait(deficit) \in Int /\ wait(deficit) * refill_rate >= deficit
<1> DEFINE d == deficit + refill_rate - 1
<1>1. refill_rate \in Int /\ refill_rate > 0 /\ d \in Int
  BY RateAssumption
<1> HIDE DEF d
<1>2. (d \div refill_rate) \in Int /\ (d \div refill_rate) * refill_rate > d - refill_rate
  BY <1>1
<1>3. wait(deficit) = d \div refill_rate
  BY DEF wait, d
<1>4. wait(deficit) * refill_rate > d - refill_rate
  BY <1>2, <1>3
<1>5. wait(deficit) * refill_rate \in Int
  BY <1>1, <1>2, <1>3
<1>6. d - refill_rate = deficit - 1
  BY <1>1 DEF d
<1> QED
  BY <1>2, <1>3, <1>4, <1>5, <1>6

\* The refill of a span of time that is not negative is not negative.
LEMMA RefillGrows ==
  ASSUME NEW a \in Int, NEW b \in Int, a >= b
  PROVE  (a - b) * refill_rate \in Int /\ (a - b) * refill_rate >= 0
<1> DEFINE span == a - b
<1>1. span \in Int /\ span >= 0 /\ refill_rate \in Int /\ refill_rate > 0
  BY RateAssumption
<1> HIDE DEF span
<1>2. span * refill_rate \in Int /\ span * refill_rate >= 0
  BY <1>1, Z3
<1> QED
  BY <1>2 DEF span

\* By the time it was told, the refill of the bucket as it was last touched
\* makes up one token; the clock never reaches Never.
PromiseKept(bucket, told) ==
  told = Never \/ bucket.tokens + (told - bucket.last_refill) * refill_rate >= one

PromiseInv ==
  /\ TypeOK
  /\ now \in 0 .. MaxTime
  /\ \A t \in DOMAIN buckets : PromiseKept(buckets[t], promised[t])

\* A refill that leaves less than one token has lost nothing to the cap, so
\* that it keeps every promise about the bucket.
LEMMA RefillKeepsPromise ==
  ASSUME NEW bucket, BucketType(bucket), now \in Int, NEW told \in Int,
         PromiseKept(bucket, told), refill(bucket).tokens < one
  PROVE  PromiseKept(refill(bucket), told)
<1> DEFINE gain == (now - bucket.last_refill) * refill_rate
           rest == (told - now) * refill_rate
           all == (told - bucket.last_refill) * refill_rate
<1>1. /\ refill_rate \in Int /\ max_tokens \in Int /\ one \in Int /\ one <= max_tokens
      /\ bucket.tokens \in Int /\ bucket.last_refill \in Int
  BY RateAssumption DEF BucketType
<1>2. gain \in Int /\ rest \in Int /\ all \in Int
  BY <1>1
<1>3. rest + gain = all
  BY <1>1, RefillsAdd
<1>4. told = Never \/ bucket.tokens + all >= one
  BY DEF PromiseKept
<1>5. refill(bucket).tokens = AtMost(max_tokens, bucket.tokens + gain)
      /\ refill(bucket).last_refill = now
  BY DEF refill
<1> HIDE DEF gain, rest, all
<1>6. refill(bucket).tokens = bucket.tokens + gain
  BY <1>1, <1>2, <1>5 DEF AtMost
<1>7. told = Never \/ refill(bucket).tokens + rest >= one
  BY <1>1, <1>2, <1>3, <1>4, <1>6
<1> QED
  BY <1>5, <1>7 DEF PromiseKept, rest

\* Storing a bucket that keeps the promise to its tenant keeps them all.
LEMMA StoreKeepsPromises ==
  ASSUME PromiseInv, TypeOK', now' = now, NEW t \in Tenants, NEW bucket, set_bucket(t, bucket),
         NEW told, promised' = [promised EXCEPT ![t] = told], PromiseKept(bucket, told)
  PROVE  PromiseInv'
<1>1. /\ DOMAIN buckets' = DOMAIN buckets \cup {t}
      /\ buckets'[t] = bucket
      /\ \A u \in DOMAIN buckets : u # t => buckets'[u] = buckets[u]
  BY DEF set_bucket
<1>2. /\ DOMAIN buckets \subseteq Tenants
      /\ promised'[t] = told
      /\ \A u \in Tenants : u # t => promised'[u] = promised[u]
  BY DEF PromiseInv, TypeOK
<1>3. \A u \in DOMAIN buckets' : PromiseKept(buckets'[u], promised'[u])
  BY <1>1, <1>2 DEF PromiseInv
<1>4. \A u \in DOMAIN buckets' : PromiseKept(buckets[u], promised[u])'
  BY <1>3 DEF PromiseKept, Never
<1> QED
  BY <1>4 DEF PromiseInv

\* The bucket that a call refills has its type.
LEMMA RefilledType ==
  ASSUME TypeOK, NEW t \in Tenants
  PROVE  /\ BucketType(get_bucket(t))
         /\ BucketType(refill(get_bucket(t)))
         /\ refill(get_bucket(t)).last_refill = now
<1>1. now \in Int /\ max_tokens \in Int /\ refill_rate \in Int
  BY RateAssumption DEF TypeOK
<1>2. BucketType(get_bucket(t))
  BY <1>1 DEF get_bucket, TypeOK, BucketType
<1>3. (now - get_bucket(t).last_refill) * refill_rate \in Int
  BY <1>1, <1>2 DEF BucketType
<1>4. BucketType(refill(get_bucket(t))) /\ refill(get_bucket(t)).last_refill = now
  BY <1>1, <1>2, <1>3 DEF BucketType, refill, AtMost
<1> QED
  BY <1>2, <1>4

\* A bucket that get_bucket makes is full, and stays so in the refill.
LEMMA FreshIsFull ==
  ASSUME now \in Int, NEW t, t \notin DOMAIN buckets
  PROVE  refill(get_bucket(t)).tokens >= one
<1>1. (now - now) * refill_rate = 0
  BY RateAssumption
<1>2. get_bucket(t) = [tokens |-> max_tokens, last_refill |-> now]
  BY DEF get_bucket
<1>3. refill(get_bucket(t)).tokens = AtMost(max_tokens, max_tokens + (now - now) * refill_rate)
  BY <1>2 DEF refill
<1> QED
  BY <1>1, <1>3, RateAssumption DEF AtMost

LEMMA PromiseInit == Init => PromiseInv
  BY InvInit, RateAssumption DEF Init, IInv, PromiseInv

LEMMA PromiseNext == PromiseInv /\ TypeOK' /\ [Next]_vars => PromiseInv'
<1> SUFFICES ASSUME PromiseInv, TypeOK', [Next]_vars PROVE PromiseInv'
  OBVIOUS
<1>0. /\ TypeOK /\ now \in Int /\ promised \in [Tenants -> Int] /\ one \in Int
      /\ refill_rate \in Int
  BY RateAssumption DEF PromiseInv, TypeOK
<1>1. ASSUME NEW t \in Tenants, ConsumeAllowed(t)
      PROVE  PromiseInv'
  <2> DEFINE bucket == refill(get_bucket(t))
             left == [bucket EXCEPT !.tokens = @ - one]
  <2>1. set_bucket(t, left) /\ promised' = [promised EXCEPT ![t] = Never] /\ now' = now
    BY <1>1 DEF ConsumeAllowed
  <2>2. PromiseKept(left, Never)
    BY DEF PromiseKept
  <2> HIDE DEF left
  <2> QED
    BY <2>1, <2>2, StoreKeepsPromises
<1>2. ASSUME NEW t \in Tenants, ConsumeLimited(t)
      PROVE  PromiseInv'
  <2> DEFINE bucket == refill(get_bucket(t))
  <2>1. bucket.tokens < one /\ set_bucket(t, bucket) /\ now' = now /\ promised' = promised
    BY <1>2 DEF ConsumeLimited
  <2>2. BucketType(get_bucket(t)) /\ BucketType(bucket)
    BY <1>0, RefilledType
  <2>3. t \in DOMAIN buckets
    BY <1>0, <2>1, <2>2, FreshIsFull DEF BucketType
  <2>4. PromiseKept(get_bucket(t), promised[t])
    BY <2>3 DEF get_bucket, PromiseInv
  <2>5. PromiseKept(bucket, promised[t])
    BY <1>0, <2>1, <2>2, <2>4, RefillKeepsPromise
  <2>6. promised' = [promised EXCEPT ![t] = promised[t]]
    BY <1>0, <2>1
  <2> HIDE DEF bucket
  <2> QED
    BY <2>1, <2>5, <2>6, StoreKeepsPromises
<1>3. ASSUME NEW t \in Tenants, retry_after(t)
      PROVE  PromiseInv'
  <2> DEFINE bucket == refill(get_bucket(t))
             deficit == one - bucket.tokens
             told == IF deficit <= 0 THEN now ELSE now + wait(deficit)
  <2>1. /\ set_bucket(t, bucket) /\ now' = now
        /\ promised' = [promised EXCEPT ![t] = told]
    BY <1>3 DEF retry_after
  <2>2. BucketType(bucket) /\ bucket.last_refill = now
    BY <1>0, RefilledType
  <2>3. deficit \in Int /\ bucket.tokens \in Int
    BY <1>0, <2>2 DEF BucketType
  <2> HIDE DEF bucket
  <2>4. wait(deficit) \in Int /\ wait(deficit) * refill_rate >= deficit
    BY <2>3, WaitCovers
  <2>5. (now - now) * refill_rate = 0 /\ (now + wait(deficit)) - now = wait(deficit)
    BY <1>0, <2>4
  <2>6. bucket.tokens + (told - now) * refill_rate >= one
    <3>1. CASE deficit <= 0
      BY <1>0, <2>3, <2>5, <3>1
    <3>2. CASE ~(deficit <= 0)
      <4>1. (told - now) * refill_rate = wait(deficit) * refill_rate
        BY <2>5, <3>2
      <4>2. wait(deficit) * refill_rate \in Int
        BY <1>0, <2>4
      <4> QED
        BY <1>0, <2>3, <2>4, <4>1, <4>2
    <3> QED
      BY <3>1, <3>2
  <2>7. PromiseKept(bucket, told)
    BY <2>2, <2>6 DEF PromiseKept
  <2> HIDE DEF told
  <2> QED
    BY <2>1, <2>7, StoreKeepsPromises
<1>4. ASSUME NEW t \in Tenants, reset(t)
      PROVE  PromiseInv'
  BY <1>4 DEF reset, PromiseInv, PromiseKept, Never
<1>5. CASE Tick
  BY <1>5, RateAssumption DEF Tick, PromiseInv, PromiseKept, Never
<1>6. CASE Adjust
  <2>1. now' \in 0 .. MaxTime /\ buckets' = buckets
    BY <1>6 DEF Adjust
  <2>2. promised' = promised \/ promised' = [t \in Tenants |-> Never]
    BY <1>6 DEF Adjust
  <2>3. \A t \in DOMAIN buckets : PromiseKept(buckets[t], promised'[t])
    BY <1>0, <2>2 DEF PromiseInv, PromiseKept, TypeOK
  <2> QED
    BY <2>1, <2>3 DEF PromiseInv, PromiseKept, Never
<1>7. CASE UNCHANGED vars
  BY <1>7 DEF vars, PromiseInv, PromiseKept, Never
<1> QED
  BY <1>1, <1>2, <1>3, <1>4, <1>5, <1>6, <1>7 DEF Next

\* A promise that is kept by the time it names is kept at any later time.
LEMMA KeptMeansAllowed ==
  ASSUME PromiseInv, NEW t \in Tenants, now >= promised[t]
  PROVE  refill(get_bucket(t)).tokens >= one
<1>1. /\ TypeOK /\ now \in Int /\ now <= MaxTime /\ promised[t] \in Int
      /\ refill_rate \in Int /\ max_tokens \in Int /\ one \in Int /\ one <= max_tokens
      /\ MaxTime \in Nat /\ one > 0
  BY RateAssumption DEF PromiseInv, TypeOK
<1>2. CASE t \notin DOMAIN buckets
  BY <1>1, <1>2, FreshIsFull
<1>3. CASE t \in DOMAIN buckets
  <2> DEFINE b == buckets[t]
             gain == (now - b.last_refill) * refill_rate
             rest == (now - promised[t]) * refill_rate
             due == (promised[t] - b.last_refill) * refill_rate
  <2>1. get_bucket(t) = b /\ b.tokens \in Int /\ b.last_refill \in Int
    BY <1>1, <1>3 DEF get_bucket, TypeOK
  <2>2. gain \in Int /\ due \in Int /\ rest \in Int /\ rest >= 0
    BY <1>1, <2>1, RefillGrows
  <2>3. rest + due = gain
    BY <1>1, <2>1, RefillsAdd
  <2>4. promised[t] # Never
    BY <1>1 DEF Never
  <2>5. b.tokens + due >= one
    BY <1>3, <2>4 DEF PromiseInv, PromiseKept
  <2>6. refill(get_bucket(t)).tokens = AtMost(max_tokens, b.tokens + gain)
    BY <2>1 DEF refill
  <2> HIDE DEF b, gain, rest, due
  <2> QED
    BY <1>1, <2>1, <2>2, <2>3, <2>5, <2>6 DEF AtMost
<1> QED
  BY <1>2, <1>3

\* retry_after keeps its word, for any bucket size and refill rate and across
\* ticks, forward jumps, limited calls and resets (quotas.py: retry_after).
THEOREM RetryAfterSufficesHolds == Spec => []RetryAfterSuffices
<1>1. PromiseInv => RetryAfterSuffices
  BY KeptMeansAllowed DEF RetryAfterSuffices
<1> QED
  BY <1>1, PromiseInit, PromiseNext, RateTypeCorrect, PTL DEF Spec
=============================================================================
