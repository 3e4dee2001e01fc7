---------------------------- MODULE MCRateLimiter ----------------------------
(* Instances of RateLimiter for TLC.                                       *)
EXTENDS RateLimiter, TLC

TaskSymmetry == Permutations(Tasks)
=============================================================================
