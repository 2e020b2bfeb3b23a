---------------------------- MODULE Http3Attempt ----------------------------
(***************************************************************************)
(* Http3State::request (src/src/http3.rs) under the stale-retry loop of    *)
(* request_http3_with_stale_retry (src/src/request.rs): the phases of one  *)
(* HTTP/3 route and their timers, for requests that share the endpoint.    *)
(*                                                                         *)
(* Time is counted for each request in units all timers are multiples of;  *)
(* a phase ends when its future does or when its timer fires, and a timer  *)
(* that is due fires before time goes on.  Waiting for the response        *)
(* headers has no timer here and is not counted.                           *)
(***************************************************************************)
EXTENDS Naturals

CONSTANTS Requests,
          DnsTimeout,      \* H3_DNS_LOOKUP_TIMEOUT
          ConnectTimeout,  \* H3_CONNECT_TIMEOUT, for the handshake and h3
          OpenTimeout,     \* H3_STREAM_OPEN_TIMEOUT
          UploadTimeout    \* H3_STREAM_UPLOAD_TIMEOUT, for body and finish

ASSUME TimeoutAssumption ==
  /\ DnsTimeout \in Nat \ {0}
  /\ ConnectTimeout \in Nat \ {0}
  /\ OpenTimeout \in Nat \ {0}
  /\ UploadTimeout \in Nat \ {0}

VARIABLES endpoint,  \* whether Http3State::endpoint holds one
          target,    \* what each route offers and the request brings
          phase,     \* the await each request is at, or its outcome
          attempt,   \* the loop counter of request_http3_with_stale_retry
          waited,    \* how long the current phase has lasted
          spent      \* how long all phases so far have lasted

vars == <<endpoint, target, phase, attempt, waited, spent>>
-----------------------------------------------------------------------------
\* Address hints come with an HTTPS RR; a body is Some(Bytes).
Targets == [hints : BOOLEAN, body : BOOLEAN]

Timer == [resolve |-> DnsTimeout, handshake |-> ConnectTimeout,
          setup |-> ConnectTimeout, open |-> OpenTimeout,
          upload |-> UploadTimeout, finish |-> UploadTimeout]

Timed == {"resolve", "handshake", "setup", "open", "upload", "finish"}

Outcomes == {"responded", "given_up", "cancelled"}

\* The request's head is not yet on the wire.
Connecting == {"endpoint", "resolve", "handshake", "setup", "open"}

After(r) ==
  LET next == [endpoint  |-> IF target[r].hints THEN "handshake" ELSE "resolve",
               resolve   |-> "handshake",
               handshake |-> "setup",
               setup     |-> "open",
               open      |-> IF target[r].body THEN "upload" ELSE "finish",
               upload    |-> "finish",
               finish    |-> "headers",
               headers   |-> "responded"]
  IN next[phase[r]]

\* A slip: the loop forgets how often it has been round.
FaultyRetries(r) == phase[r] = "open"

\* A slip: a request that has been started is sent again.
FaultyRetriesStarted(r) ==
  phase[r] \in {"open", "upload", "finish"} /\ attempt[r] = 0

\* Http3AttemptError::Stream with retry_without_h3, met by the first attempt.
Retries(r) == phase[r] = "open" /\ attempt[r] = 0

\* A slip: sending the body is not put under a timer.
FaultyDue(r) ==
  phase[r] \in Timed \ {"upload"} /\ waited[r] >= Timer[phase[r]]

Due(r) == phase[r] \in Timed /\ waited[r] >= Timer[phase[r]]

Init ==
  /\ endpoint = FALSE
  /\ target \in [Requests -> Targets]
  /\ phase = [r \in Requests |-> "endpoint"]
  /\ attempt = [r \in Requests |-> 0]
  /\ waited = [r \in Requests |-> 0]
  /\ spent = [r \in Requests |-> 0]

Enter(r, p) ==
  /\ phase' = [phase EXCEPT ![r] = p]
  /\ waited' = [waited EXCEPT ![r] = 0]

\* A slip: a retry that does not count never ends when no stream opens.
FaultyFail(r) ==
  /\ Enter(r, IF Retries(r) THEN "endpoint" ELSE "given_up")
  /\ UNCHANGED <<target, attempt, spent>>

\* The phase yields an error, or its timer does.
Fail(r) ==
  /\ IF Retries(r) THEN /\ attempt' = [attempt EXCEPT ![r] = @ + 1]
                        /\ Enter(r, "endpoint")
                   ELSE /\ Enter(r, "given_up")
                        /\ UNCHANGED attempt
  /\ UNCHANGED <<target, spent>>

\* Http3State::endpoint, under its mutex: one endpoint is created, and kept.
\* Without address hints connect() comes after the lookup, with them now.
Endpoint(r) ==
  /\ phase[r] = "endpoint"
  /\ \/ /\ endpoint' = TRUE
        /\ Enter(r, After(r))
        /\ UNCHANGED <<target, attempt, spent>>
     \/ /\ ~endpoint
        /\ Fail(r)
        /\ UNCHANGED endpoint
     \/ /\ target[r].hints
        /\ endpoint' = TRUE
        /\ Fail(r)

\* The future of the phase is done.
Succeed(r) ==
  /\ phase[r] \in Timed \cup {"headers"}
  /\ Enter(r, After(r))
  /\ UNCHANGED <<endpoint, target, attempt, spent>>

Break(r) ==
  /\ phase[r] \in Timed \cup {"headers"}
  /\ Fail(r)
  /\ UNCHANGED endpoint

TimerFires(r) == Due(r) /\ Fail(r) /\ UNCHANGED endpoint

\* The caller drops the future, or its own timeout does.
Cancel(r) ==
  /\ phase[r] \in Timed \cup {"headers"}
  /\ Enter(r, "cancelled")
  /\ UNCHANGED <<endpoint, target, attempt, spent>>

Tick ==
  /\ \E r \in Requests : phase[r] \in Timed
  /\ \A r \in Requests : phase[r] # "endpoint" /\ ~Due(r)
  /\ waited' = [r \in Requests |-> IF phase[r] \in Timed THEN waited[r] + 1
                                                         ELSE waited[r]]
  /\ spent' = [r \in Requests |-> IF phase[r] \in Timed THEN spent[r] + 1
                                                        ELSE spent[r]]
  /\ UNCHANGED <<endpoint, target, phase, attempt>>

Terminated == (\A r \in Requests : phase[r] \in Outcomes) /\ UNCHANGED vars

Next ==
  \/ \E r \in Requests : \/ Endpoint(r) \/ Succeed(r) \/ Break(r)
                         \/ TimerFires(r) \/ Cancel(r)
  \/ Tick
  \/ Terminated

Spec == Init /\ [][Next]_vars

\* Tasks are polled, time passes and timers fire; peers promise nothing.
FairSpec ==
  /\ Spec
  /\ \A r \in Requests : WF_vars(Endpoint(r)) /\ WF_vars(TimerFires(r))
  /\ WF_vars(Tick)
-----------------------------------------------------------------------------
(* Properties *)

TypeOK ==
  /\ endpoint \in BOOLEAN
  /\ target \in [Requests -> Targets]
  /\ phase \in [Requests -> Connecting \cup Timed \cup {"headers"} \cup Outcomes]
  /\ attempt \in [Requests -> 0..1]
  /\ waited \in [Requests -> Nat]
  /\ spent \in [Requests -> Nat]

\* What one attempt may take before the head is sent, and the whole route.
ConnectBound(r) ==
  (IF target[r].hints THEN 0 ELSE DnsTimeout)
    + ConnectTimeout + ConnectTimeout + OpenTimeout

RouteBound(r) ==
  ConnectBound(r) + ConnectBound(r) + UploadTimeout + UploadTimeout

\* A route costs a bounded time before TCP/TLS fallback, a stale retry
\* included, however the peer behaves, as long as it has not accepted the
\* whole request: the phases are independently bounded and so is their sum.
RouteBounded == \A r \in Requests : spent[r] <= RouteBound(r)

\* Every request leaves the timed phases, by itself.
PhasesEnd ==
  \A r \in Requests :
    phase[r] \in Connecting \cup Timed ~> phase[r] \in {"headers"} \cup Outcomes

At(p) == IF p \in Connecting THEN "connect"
         ELSE IF p \in {"upload", "finish", "headers"} THEN "stream" ELSE p

Route == INSTANCE H3Route WITH at <- [r \in Requests |-> At(phase[r])]

\* The phases implement the attempt Send is written with, its fairness
\* included: whatever the peer does, a request leaves "connect".
ImplementsRoute == Route!RouteSpec
=============================================================================
