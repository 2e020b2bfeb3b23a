---------------------------- MODULE SendContract ----------------------------
(***************************************************************************)
(* What RequestBuilder::send promises its caller about one request, with   *)
(* no word of caches, clocks or routes: a request that cannot be replayed  *)
(* is put on the wire at most once; one that can, at most twice over       *)
(* HTTP/3 and once over TCP; a response answers a copy that was sent; no   *)
(* HTTP/3 failure is ever the result; and a finished call sends nothing.   *)
(***************************************************************************)
EXTENDS Naturals

CONSTANT Requests

VARIABLES replayable,  \* whether the request may be sent more than once
          stage,       \* how far the call has come, or its result
          copies       \* how often the request was put on the wire

contractVars == <<replayable, stage, copies>>

\* In order: not begun, trying HTTP/3, on the TCP path with nothing written
\* yet, and waiting for the TCP response.
Underway == {"probing", "connecting", "awaiting"}

Results == {"invalid", "h3_response", "tcp_response", "tcp_error", "timeout",
            "dropped"}

Enter(r, s) == stage' = [stage EXCEPT ![r] = s]

ContractInit ==
  /\ replayable \in [Requests -> BOOLEAN]
  /\ stage = [r \in Requests |-> "new"]
  /\ copies = [r \in Requests |-> 0]

Begin(r) ==
  /\ stage[r] = "new"
  /\ \/ Enter(r, "invalid")
     \/ replayable[r] /\ Enter(r, "probing")
     \/ Enter(r, "connecting")
  /\ UNCHANGED <<replayable, copies>>

TransmitH3(r) ==
  /\ stage[r] = "probing"
  /\ copies[r] < 2
  /\ copies' = [copies EXCEPT ![r] = @ + 1]
  /\ UNCHANGED <<replayable, stage>>

FallBack(r) ==
  /\ stage[r] = "probing"
  /\ Enter(r, "connecting")
  /\ UNCHANGED <<replayable, copies>>

TransmitTcp(r) ==
  /\ stage[r] = "connecting"
  /\ copies' = [copies EXCEPT ![r] = @ + 1]
  /\ Enter(r, "awaiting")
  /\ UNCHANGED replayable

Respond(r) ==
  /\ \/ stage[r] = "probing" /\ copies[r] > 0 /\ Enter(r, "h3_response")
     \/ stage[r] = "awaiting" /\ Enter(r, "tcp_response")
  /\ UNCHANGED <<replayable, copies>>

\* Only the TCP path ends in an error of its own.
Fail(r) ==
  /\ stage[r] \in {"connecting", "awaiting"}
  /\ Enter(r, "tcp_error")
  /\ UNCHANGED <<replayable, copies>>

Interrupt(r) ==
  /\ stage[r] \in Underway
  /\ \E result \in {"timeout", "dropped"} : Enter(r, result)
  /\ UNCHANGED <<replayable, copies>>

ContractNext ==
  \E r \in Requests :
    \/ Begin(r) \/ TransmitH3(r) \/ FallBack(r) \/ TransmitTcp(r)
    \/ Respond(r) \/ Fail(r) \/ Interrupt(r)

ContractSpec == ContractInit /\ [][ContractNext]_contractVars
=============================================================================
