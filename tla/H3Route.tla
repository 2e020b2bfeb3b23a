------------------------------- MODULE H3Route -------------------------------
(***************************************************************************)
(* An HTTP/3 attempt over one route as Send sees it: a request is at       *)
(* "connect" until its head is on a stream of an HTTP/3 connection, which  *)
(* may be retried once, and at "stream" from then on, when nothing may be  *)
(* retried any more.                                                       *)
(***************************************************************************)
EXTENDS Naturals

CONSTANT Requests

VARIABLES at, attempt

routeVars == <<at, attempt>>

RouteInit ==
  /\ at = [r \in Requests |-> "connect"]
  /\ attempt = [r \in Requests |-> 0]

Move(r, to) == at' = [at EXCEPT ![r] = to] /\ UNCHANGED attempt

Retry(r) ==
  /\ at[r] = "connect"
  /\ attempt[r] = 0
  /\ attempt' = [attempt EXCEPT ![r] = 1]
  /\ UNCHANGED at

Open(r) == at[r] = "connect" /\ Move(r, "stream")

Answered(r) == at[r] = "stream" /\ Move(r, "responded")

End(r) ==
  /\ at[r] \in {"connect", "stream"}
  /\ \E result \in {"given_up", "cancelled"} : Move(r, result)

RouteNext ==
  \E r \in Requests : Retry(r) \/ Open(r) \/ Answered(r) \/ End(r)

RouteSteps == RouteInit /\ [][RouteNext]_routeVars

\* The timers of the client end "connect"; nothing but the peer or the
\* request's own timeout ends "stream".
RouteSpec ==
  /\ RouteSteps
  /\ \A r \in Requests :
       WF_routeVars(at[r] = "connect" /\ (Retry(r) \/ Open(r) \/ End(r)))
=============================================================================
