--------------------------- MODULE MCRateLimiter ---------------------------
(* Symmetry of the small instances of RateLimiter. *)
EXTENDS RateLimiter, TLC

MCSymmetry == Permutations(Calls) \cup Permutations(Gateways)
=============================================================================
