----------------------------- MODULE MCCircuits -----------------------------
(* Circuits on a small instance: see the .cfg file. *)
EXTENDS Circuits

\* Years of birth on both sides of every bound of the circuit: 52 and 2048
\* are where its eleven bits run out, Prime - 1 is minus one.
MCBirths == [birthYear : {51, 52, 1899, 1900, 1987, 2047, 2048, 2099, 2100, 3948, Prime - 1},
             birthMonth : {1, 6, 12}, birthDay : {15}, credentialSecret : {7}]
MCCitizens == [nationalIdHash : {3}, countryCode : {360, 702}, credentialSecret : {7}]
MCAges == {0, 1, 18, 21, 107, 108, 194, 255, 256, 300}
=============================================================================
