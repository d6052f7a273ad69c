--------------------------- MODULE MCRateLimiter ---------------------------
(* RateLimiter on small instances: see the .cfg files. *)
EXTENDS RateLimiter, TLC

\* Clients are interchangeable.
Symmetry == Permutations(Clients)
=============================================================================
