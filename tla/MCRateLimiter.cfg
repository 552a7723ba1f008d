SPECIFICATION Spec
CONSTANTS
  t1 = t1
  t2 = t2
  Tenants = {t1, t2}
  one = 3
  max_tokens = 7
  refill_rate = 2
  MaxTime = 3
  MaxJump = 2
SYMMETRY Symmetry
INVARIANTS
  RateBounded
  RetryAfterSuffices
