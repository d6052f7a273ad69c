----------------------------- MODULE MCGateway -----------------------------
(* Gateway on a small instance: see Gateway.cfg. *)
EXTENDS Gateway, TLC

CONSTANTS r1, r2

\* One request that waits and one that reads the counters meanwhile.
MCKinds == r1 :> {"claim", "proof", "store"} @@ r2 :> {"metrics"}
=============================================================================
