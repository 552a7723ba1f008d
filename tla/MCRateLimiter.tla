--------------------------- MODULE MCRateLimiter ---------------------------
(* Small instances of RateLimiter for TLC: two tenants, a token of three   *)
(* units refilled at two units per tick, and a bucket that does not hold a *)
(* whole number of tokens.                                                 *)
EXTENDS RateLimiter, TLC

CONSTANTS t1, t2

Symmetry == Permutations(Tenants)
=============================================================================
