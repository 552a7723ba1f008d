---------------------------- MODULE RateLimiter ----------------------------
(***************************************************************************)
(* TokenBucketRateLimiter (api/rest/quotas.py), and QuotaManager's way to  *)
(* it: check_and_consume_rate, retry_after and cleanup.  Time is what      *)
(* time.time() returns, in ticks: it advances, and it may be set back or   *)
(* forward by an adjustment of the system clock.  Token amounts are        *)
(* integers in units of which one token has `one`, so that a refill of a   *)
(* fraction of a token per tick is an integer too.                         *)
(*                                                                         *)
(* Every method holds the limiter's lock from its first to its last line,  *)
(* hence one step per call.                                                *)
(***************************************************************************)
EXTENDS Integers

CONSTANTS
  Tenants,
  one,           \* units of one token
  max_tokens,    \* bucket size, in units
  refill_rate,   \* units per tick
  MaxTime,       \* bound on the clock
  MaxJump        \* bound on how far the clock is set back or forward at once

ASSUME RateAssumption ==
  /\ one \in Nat \ {0}
  /\ max_tokens \in Nat /\ max_tokens >= one
  /\ refill_rate \in Nat \ {0}
  /\ MaxTime \in Nat
  /\ MaxJump \in Nat

VARIABLES
  now,        \* time.time()
  buckets,    \* _buckets: a dict from tenant to bucket
  allowed,    \* history: units consumed from each present bucket
  created,    \* history: when each present bucket was created
  promised    \* history: earliest time the last retry_after told the tenant

vars == <<now, buckets, allowed, created, promised>>

Never == MaxTime + MaxTime + max_tokens + one + 1

TypeOK ==
  /\ now \in Int
  /\ DOMAIN buckets \subseteq Tenants
  /\ \A t \in DOMAIN buckets :
       /\ buckets[t].tokens \in Int
       /\ buckets[t].tokens <= max_tokens
       /\ buckets[t].last_refill \in Int
  /\ allowed \in [Tenants -> Nat]
  /\ created \in [Tenants -> Int]
  /\ promised \in [Tenants -> Int]

Init ==
  /\ now = 0
  /\ buckets = [t \in {} |-> [tokens |-> 0, last_refill |-> 0]]
  /\ allowed = [t \in Tenants |-> 0]
  /\ created = [t \in Tenants |-> 0]
  /\ promised = [t \in Tenants |-> Never]

-----------------------------------------------------------------------------

AtMost(bound, n) == IF n < bound THEN n ELSE bound

\* Mutant: a refill does not note when it happened.
refill_forgets(bucket) ==
  [tokens |-> AtMost(max_tokens, bucket.tokens + (now - bucket.last_refill) * refill_rate),
   last_refill |-> bucket.last_refill]

refill(bucket) ==
  [tokens |-> AtMost(max_tokens, bucket.tokens + (now - bucket.last_refill) * refill_rate),
   last_refill |-> now]

\* A new bucket is full.
get_bucket(t) ==
  IF t \in DOMAIN buckets THEN buckets[t] ELSE [tokens |-> max_tokens, last_refill |-> now]

set_bucket(t, bucket) ==
  /\ buckets' = [u \in DOMAIN buckets \cup {t} |-> IF u = t THEN bucket ELSE buckets[u]]
  /\ created' = [created EXCEPT ![t] = IF t \in DOMAIN buckets THEN @ ELSE now]

\* consume(tenant): allowed ...
ConsumeAllowed(t) ==
  LET bucket == refill(get_bucket(t))
  IN  /\ bucket.tokens >= one
      /\ set_bucket(t, [bucket EXCEPT !.tokens = @ - one])
      /\ allowed' = [allowed EXCEPT ![t] = @ + one]
      /\ promised' = [promised EXCEPT ![t] = Never]
      /\ UNCHANGED now

\* ... or rate limited; the runtime then asks for retry_after.
ConsumeLimited(t) ==
  LET bucket == refill(get_bucket(t))
  IN  /\ bucket.tokens < one
      /\ set_bucket(t, bucket)
      /\ UNCHANGED <<now, allowed, promised>>

\* Mutant: retry_after rounds down.
wait_rounded_down(deficit) == deficit \div refill_rate

\* deficit / refill_rate, in whole ticks.
wait(deficit) == (deficit + refill_rate - 1) \div refill_rate

retry_after(t) ==
  LET bucket == refill(get_bucket(t))
      deficit == one - bucket.tokens
  IN  /\ set_bucket(t, bucket)
      /\ promised' = [promised EXCEPT ![t] = IF deficit <= 0 THEN now ELSE now + wait(deficit)]
      /\ UNCHANGED <<now, allowed>>

\* reset, by QuotaManager.cleanup: the next call starts with a full bucket.
reset(t) ==
  /\ buckets' = [u \in DOMAIN buckets \ {t} |-> buckets[u]]
  /\ allowed' = [allowed EXCEPT ![t] = 0]
  /\ UNCHANGED <<now, created, promised>>

\* The system clock: it ticks, or it is set.
Tick ==
  /\ now < MaxTime
  /\ now' = now + 1
  /\ UNCHANGED <<buckets, allowed, created, promised>>

\* Setting the clock back voids what retry_after has told.
Adjust ==
  /\ \E d \in -MaxJump .. MaxJump :
       /\ now + d \in 0 .. MaxTime
       /\ now' = now + d
       /\ promised' = IF d < 0 THEN [t \in Tenants |-> Never] ELSE promised
  /\ UNCHANGED <<buckets, allowed, created>>

Next ==
  \/ \E t \in Tenants :
       ConsumeAllowed(t) \/ ConsumeLimited(t) \/ retry_after(t) \/ reset(t)
  \/ Tick
  \/ Adjust

Spec == Init /\ [][Next]_vars

-----------------------------------------------------------------------------
(* Properties.                                                             *)

\* The rate limit: what a tenant has been allowed since its bucket was
\* created is at most the bucket size plus the refill of the time that has
\* passed on the clock, and what is still in the bucket comes on top of it.
\* It holds however the clock is set: a jump back takes its refill away.
RateBounded ==
  \A t \in DOMAIN buckets :
    allowed[t] + buckets[t].tokens
      <= max_tokens + (buckets[t].last_refill - created[t]) * refill_rate

\* retry_after keeps its word: a tenant that waits as long as it was told,
\* and has not been allowed anything in between, is allowed (unless the
\* clock was set back meanwhile), even across a reset of its bucket.
RetryAfterSuffices ==
  \A t \in Tenants : now >= promised[t] => refill(get_bucket(t)).tokens >= one
=============================================================================
