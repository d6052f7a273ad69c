---------------------------- MODULE MCApiServer ----------------------------
(* ApiServer on small instances: see the .cfg files. *)
EXTENDS ApiServer
=============================================================================
