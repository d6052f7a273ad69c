---------------------------- MODULE MCUddiClient ----------------------------
(* UddiClient on a small instance: see the .cfg file. *)
EXTENDS UddiClient, TLC

\* Keys and calls are interchangeable.
Symmetry == Permutations(Keys) \cup Permutations(Calls)
=============================================================================
