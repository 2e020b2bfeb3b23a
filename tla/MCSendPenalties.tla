-------------------------- MODULE MCSendPenalties --------------------------
(* Small instances of SendPenalties for TLC. *)
EXTENDS SendPenalties, MCSend
=============================================================================
