------------------------------ MODULE MCServer ------------------------------
(***************************************************************************)
(* Two replicas, two migrations, two tracks and two clients.               *)
(***************************************************************************)
EXTENDS Server
=============================================================================
