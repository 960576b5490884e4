--------------------------- MODULE MCRateLimiter ----------------------------
(***************************************************************************)
(* A minute of 3 ticks, a key's life of 4 (70 s), and at most 1 tick from  *)
(* the look at the clock to the counting: less than the 10 s between the   *)
(* two, as four tries of 2 s are.  The clock sees three minutes.           *)
(***************************************************************************)
EXTENDS RateLimiter, TLC

CONSTANTS q1, q2, q3

RequestSymmetry == Permutations(Requests)
=============================================================================
