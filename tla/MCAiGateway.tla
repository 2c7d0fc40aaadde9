---------------------------- MODULE MCAiGateway ----------------------------
(***************************************************************************)
(* All requests belong to one session: sessions share no bucket.           *)
(***************************************************************************)
EXTENDS AiGateway

MCOwner == [r \in Requests |-> "s"]

=============================================================================
