--------------------------- MODULE MCSendOverflow ---------------------------
(* A small instance of SendOverflow for TLC. *)
EXTENDS SendOverflow, MCSend
=============================================================================
