-------------------------- MODULE MCSendRefinement --------------------------
(* Small instances of SendRefinement for TLC. *)
EXTENDS SendRefinement, MCSend
=============================================================================
