-------------------------- MODULE MCAuthChallenge --------------------------
(* AuthChallenge on small instances: see the .cfg files. *)
EXTENDS AuthChallenge, TLC

\* Identifiers are interchangeable; used where only safety is checked.
Symmetry == Permutations(Challenges) \cup Permutations(Services)
            \cup Permutations(Keys) \cup Permutations(Workers)
=============================================================================
