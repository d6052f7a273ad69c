--------------------------- MODULE MCDidRegistry ---------------------------
(* DidRegistry on small instances: see the .cfg files. *)
EXTENDS DidRegistry, TLC

\* Keys and workers are interchangeable; used where only safety is checked.
Symmetry == Permutations(Keys) \cup Permutations(Workers)
=============================================================================
