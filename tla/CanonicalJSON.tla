--------------------------- MODULE CanonicalJSON ---------------------------
(***************************************************************************)
(* The text a credential's proof is made over is written twice: by the     *)
(* issuer (canonicalize, packages/core/src/vc/index.ts), from its object   *)
(* in memory, and by the API (canonicalizeJSON, handlers/credential.go),   *)
(* from what JSON carried of that object.                                  *)
(*                                                                         *)
(* An object is a function from the kinds of names it has to the kinds of  *)
(* values they have:                                                       *)
(*   plain    a name or value that both sides write the same               *)
(*   marked   one with <, >, &, U+2028 or U+2029, which Go escapes         *)
(*   high     a name that begins in U+E000 .. U+FFFF                       *)
(*   astral   a name that begins beyond U+FFFF                             *)
(*   unset    undefined, which JSON does not carry                         *)
(*   dated    a Date, which has no members of its own; JSON carries text   *)
(***************************************************************************)
EXTENDS Naturals

Names  == {"plain", "marked", "high", "astral"}
Values == {"plain", "marked", "unset", "dated"}
Object == UNION {[S -> Values] : S \in SUBSET Names}

\* What JSON.stringify, and then json.Decode, make of the issuer's object.
Wire(o) == [n \in {m \in DOMAIN o : o[m] # "unset"} |->
              IF o[n] = "dated" THEN "plain" ELSE o[n]]

\* Names are in the order of their UTF-16 units on one side,
Utf16(n) == CASE n = "plain" -> 1 [] n = "marked" -> 2 [] n = "astral" -> 3 [] n = "high" -> 4

\* of their bytes on the other.
Bytes(n) == CASE n = "plain" -> 1 [] n = "marked" -> 2 [] n = "high" -> 3 [] n = "astral" -> 4

Written(v) == CASE v = "unset" -> "undefined" [] v = "dated" -> "{}" [] OTHER -> v

Escaped(x) == IF x = "marked" THEN "escaped" ELSE x

\* A text: its members, and which comes before which.
CoreText(o) ==
    [members |-> {<<n, Written(o[n])>> : n \in DOMAIN o},
     before  |-> {e \in (DOMAIN o) \X (DOMAIN o) : Utf16(e[1]) < Utf16(e[2])}]

ApiText(o) ==
    [members |-> {<<Escaped(n), Escaped(o[n])>> : n \in DOMAIN o},
     before  |-> {e \in (DOMAIN o) \X (DOMAIN o) : Bytes(e[1]) < Bytes(e[2])}]

\* Objects that both sides write the same, whatever else they hold.
Portable(o) == /\ \A n \in DOMAIN o : n # "marked" /\ o[n] = "plain"
               /\ ~({"high", "astral"} \subseteq DOMAIN o)
=============================================================================
