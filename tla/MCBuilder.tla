----------------------------- MODULE MCBuilder -----------------------------
(* A small instance of Builder for TLC. *)
EXTENDS Builder

CONSTANTS v, UA, CT, label, d, e, fiveMinutes  \* header values and names, durations

MCHeaderMaps == {NoHeaders, [NoHeaders EXCEPT ![USER_AGENT] = <<v, v>>]}
=============================================================================
