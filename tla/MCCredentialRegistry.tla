------------------------ MODULE MCCredentialRegistry ------------------------
(* CredentialRegistry on small instances: see the .cfg files. *)
EXTENDS CredentialRegistry, TLC

\* Claims that core and the API write the same, and some that they do not.
MCClaims == {[n \in {"plain", "high"} |-> "plain"],
             [n \in {"plain"} |-> "marked"],
             [n \in {"high", "astral"} |-> "plain"]}

\* Every object is written the same exactly when it is portable.
ASSUME Texts == \A o \in Object : Portable(o) <=> CoreText(o) = ApiText(Wire(o))

\* Keys and workers are interchangeable.
Symmetry == Permutations(Keys) \cup Permutations(Workers)
=============================================================================
