-------------------------- MODULE MCOffTrackStints --------------------------
(* Every pattern of on and off the track in requests of up to three frames.  *)
EXTENDS OffTrackStints

MCBatches == UNION {[1 .. n -> BOOLEAN] : n \in 1 .. 3}
=============================================================================
