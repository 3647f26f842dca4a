----------------------------- MODULE MCRateLimiter -----------------------------
(* Small instances of RateLimiter: limiters and handlers are alike.         *)
EXTENDS RateLimiter, TLC

MCSymmetry == Permutations(Limiters) \cup Permutations(Handlers)
=============================================================================
