-------------------------------- MODULE MCFiles --------------------------------
(* Files on small sets for TLC. *)
EXTENDS Files, TLC
=============================================================================
