---------------------------- MODULE MCRateLimiter ----------------------------
(***************************************************************************)
(* Model checking of RateLimiter.  Keys are interchangeable.               *)
(***************************************************************************)
EXTENDS RateLimiter, TLC

Symmetry == Permutations(Keys)
=============================================================================
