---------------------------- MODULE MCRateLimiter ----------------------------
(* Values of the constants of RateLimiter for TLC. *)
EXTENDS RateLimiter, TLC

CallerSymmetry == Permutations(Callers)
=============================================================================
