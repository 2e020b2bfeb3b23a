------------------------- MODULE Http3AttemptProofs -------------------------
(***************************************************************************)
(* For any timers and any number of requests, the phases of an HTTP/3      *)
(* attempt are bounded by RouteBound, and they implement H3Route's steps.  *)
(*                                                                         *)
(* RouteBounded is not inductive: that a request is still within its bound *)
(* says nothing of how long the phases ahead of it may last.  TimeInv      *)
(* bounds what is spent at each phase by the timers of the phases behind.  *)
(***************************************************************************)
EXTENDS Http3Attempt, TLAPS

USE TimeoutAssumption

Lookup(r) == IF target[r].hints THEN 0 ELSE DnsTimeout

\* What the first attempt, if it has been retried, has spent at most.
Retried(r) == IF attempt[r] = 0 THEN 0 ELSE ConnectBound(r)

TimerInv == \A r \in Requests : phase[r] \in Timed => waited[r] <= Timer[phase[r]]

SpentAt(r) ==
  LET opened == Retried(r) + ConnectBound(r)
  IN /\ phase[r] = "endpoint" => spent[r] <= Retried(r)
     /\ phase[r] = "resolve" =>
          ~target[r].hints /\ spent[r] <= Retried(r) + waited[r]
     /\ phase[r] = "handshake" =>
          spent[r] <= Retried(r) + Lookup(r) + waited[r]
     /\ phase[r] = "setup" =>
          spent[r] <= Retried(r) + Lookup(r) + ConnectTimeout + waited[r]
     /\ phase[r] = "open" =>
          spent[r] <= Retried(r) + Lookup(r) + ConnectTimeout
                        + ConnectTimeout + waited[r]
     /\ phase[r] = "upload" => spent[r] <= opened + waited[r]
     /\ phase[r] = "finish" => spent[r] <= opened + UploadTimeout + waited[r]
     /\ phase[r] \in {"headers"} \cup Outcomes => spent[r] <= RouteBound(r)

TimeInv == TypeOK /\ TimerInv /\ (\A r \in Requests : SpentAt(r))

LEMMA TimerType == \A p \in Timed : Timer[p] \in Nat
BY DEF Timed, Timer

LEMMA InitType == Init => TypeOK
<1>1. Init => endpoint \in BOOLEAN
  BY Zenon DEF Init
<1>2. Init => attempt \in [Requests -> 0..1]
  BY DEF Init
<1>3. QED
  BY <1>1, <1>2 DEF Init, TypeOK, Connecting

\* The inductive step of the type invariant.
LEMMA TypeStep == TypeOK /\ [Next]_vars => TypeOK'
<1> SUFFICES ASSUME TypeOK, [Next]_vars PROVE TypeOK'
  OBVIOUS
<1> USE DEF TypeOK, Connecting, Timed, Outcomes
<1>1. ASSUME NEW r \in Requests, Endpoint(r) PROVE TypeOK'
  <2>1. CASE endpoint' = TRUE /\ Enter(r, After(r))
                /\ UNCHANGED <<target, attempt, spent>>
    BY <1>1, <2>1 DEF Endpoint, Enter, After
  <2>2. CASE Fail(r) /\ endpoint' \in BOOLEAN
    BY <2>2 DEF Fail, Retries, Enter
  <2>3. QED
    BY <1>1, <2>1, <2>2 DEF Endpoint
<1>2. ASSUME NEW r \in Requests, Succeed(r) PROVE TypeOK'
  BY <1>2 DEF Succeed, Enter, After
<1>3. ASSUME NEW r \in Requests, Fail(r), UNCHANGED endpoint PROVE TypeOK'
  BY <1>3 DEF Fail, Retries, Enter
<1>4. ASSUME NEW r \in Requests, Cancel(r) PROVE TypeOK'
  BY <1>4 DEF Cancel, Enter
<1>5. CASE Tick
  BY <1>5 DEF Tick
<1>6. CASE UNCHANGED vars
  BY <1>6 DEF vars
<1>7. QED
  BY <1>1, <1>2, <1>3, <1>4, <1>5, <1>6 DEF Next, Break, TimerFires, Terminated

\* Every variable always has its type; an attempt is retried at most once.
THEOREM TypeCorrect == Spec => []TypeOK
<1>1. Init => TypeOK
  BY InitType
<1>2. QED
  BY <1>1, TypeStep, PTL DEF Spec
\* Entering a phase, the timer starts again.
LEMMA TimerStep == TypeOK /\ TimerInv /\ [Next]_vars => TimerInv'
<1> SUFFICES ASSUME TypeOK, TimerInv, [Next]_vars,
                    NEW q \in Requests, phase'[q] \in Timed
             PROVE waited'[q] <= Timer[phase'[q]]
  BY DEF TimerInv
<1>1. ASSUME NEW r \in Requests, NEW p, Enter(r, p)
      PROVE waited'[q] <= Timer[phase'[q]]
  <2>1. CASE q = r
    BY <1>1, <2>1, TimerType DEF Enter, TypeOK
  <2>2. CASE q # r
    BY <1>1, <2>2 DEF Enter, TypeOK, TimerInv
  <2>3. QED
    BY <2>1, <2>2
<1>2. CASE Tick
  <2>1. waited[q] < Timer[phase[q]]
    BY <1>2, TimerType DEF Tick, Due, TypeOK
  <2>2. QED
    BY <1>2, <2>1, TimerType DEF Tick, TypeOK
<1>3. CASE UNCHANGED vars
  BY <1>3 DEF vars, TimerInv
<1>4. QED
  BY <1>1, <1>2, <1>3
     DEF Next, Endpoint, Succeed, Break, TimerFires, Cancel, Fail, Terminated

\* How long a request has been under way grows only as its phase does.
LEMMA SpentStep ==
  TimeInv /\ [Next]_vars => \A q \in Requests : SpentAt(q)'
<1> SUFFICES ASSUME TimeInv, [Next]_vars, NEW q \in Requests
             PROVE SpentAt(q)'
  OBVIOUS
<1> USE DEF SpentAt, Retried, ConnectBound, RouteBound, Lookup
<1>t. /\ TypeOK
      /\ SpentAt(q)
      /\ phase[q] \in Timed => waited[q] <= Timer[phase[q]]
      /\ target[q].hints \in BOOLEAN
      /\ waited[q] \in Nat /\ spent[q] \in Nat /\ attempt[q] \in 0..1
  BY DEF TimeInv, TimerInv, TypeOK, Targets
<1>1. ASSUME NEW r \in Requests, r # q,
             \/ Endpoint(r) \/ Succeed(r) \/ Break(r) \/ TimerFires(r)
             \/ Cancel(r)
      PROVE SpentAt(q)'
  <2>1. /\ phase'[q] = phase[q] /\ attempt'[q] = attempt[q]
        /\ waited'[q] = waited[q] /\ spent'[q] = spent[q] /\ target' = target
    BY <1>1, <1>t
       DEF Endpoint, Succeed, Break, TimerFires, Cancel, Fail, Enter, TypeOK
  <2>2. QED
    BY <2>1, <1>t
<1>2. ASSUME Succeed(q) \/ (phase[q] = "endpoint" /\ Enter(q, After(q))
                              /\ UNCHANGED <<target, attempt, spent>>)
      PROVE SpentAt(q)'
  <2>1. /\ phase'[q] = After(q) /\ attempt'[q] = attempt[q]
        /\ waited'[q] = 0 /\ spent'[q] = spent[q] /\ target' = target
    BY <1>2, <1>t DEF Succeed, Enter, TypeOK
  <2>2. phase[q] \in Timed \cup {"endpoint", "headers"}
    BY <1>2 DEF Succeed
  <2>3. QED
    BY <2>1, <2>2, <1>t DEF After, Timed, Timer, Outcomes
<1>3. ASSUME Fail(q), phase[q] \in Timed \cup {"endpoint", "headers"}
      PROVE SpentAt(q)'
  <2>1. /\ waited'[q] = 0 /\ spent'[q] = spent[q] /\ target' = target
        /\ \/ /\ phase[q] = "open" /\ attempt[q] = 0 /\ attempt'[q] = 1
              /\ phase'[q] = "endpoint"
           \/ phase'[q] = "given_up" /\ attempt'[q] = attempt[q]
    BY <1>3, <1>t DEF Fail, Retries, Enter, TypeOK
  <2>2. QED
    BY <2>1, <1>3, <1>t DEF Timed, Timer, Outcomes
<1>4. ASSUME Cancel(q) PROVE SpentAt(q)'
  <2>1. /\ waited'[q] = 0 /\ spent'[q] = spent[q] /\ target' = target
        /\ phase'[q] = "cancelled" /\ attempt'[q] = attempt[q]
        /\ phase[q] \in Timed \cup {"headers"}
    BY <1>4, <1>t DEF Cancel, Enter, TypeOK
  <2>2. QED
    BY <2>1, <1>t DEF Timed, Timer, Outcomes
<1>5. CASE Tick
  <2>1. /\ phase' = phase /\ attempt' = attempt /\ target' = target
        /\ IF phase[q] \in Timed
             THEN waited'[q] = waited[q] + 1 /\ spent'[q] = spent[q] + 1
             ELSE waited'[q] = waited[q] /\ spent'[q] = spent[q]
    BY <1>5, <1>t DEF Tick, TypeOK
  <2>2. QED
    BY <2>1, <1>t DEF Timed, Outcomes
<1>6. CASE UNCHANGED vars
  BY <1>6, <1>t DEF vars
<1>7. QED
  BY <1>1, <1>2, <1>3, <1>4, <1>5, <1>6
     DEF Next, Endpoint, Succeed, Break, TimerFires, Due, Terminated

\* The phases ahead of a request fit into what is left of its bound.
LEMMA TimeInvBounds == TimeInv => RouteBounded
<1> SUFFICES ASSUME TimeInv, NEW r \in Requests
             PROVE spent[r] <= RouteBound(r)
  BY DEF RouteBounded
<1>1. /\ SpentAt(r)
      /\ phase[r] \in Timed => waited[r] <= Timer[phase[r]]
      /\ target[r].hints \in BOOLEAN
      /\ waited[r] \in Nat /\ spent[r] \in Nat /\ attempt[r] \in 0..1
      /\ phase[r] \in Timed \cup {"endpoint", "headers"} \cup Outcomes
  BY DEF TimeInv, TimerInv, TypeOK, Targets, Connecting, Timed
<1>2. QED
  BY <1>1 DEF SpentAt, Retried, ConnectBound, RouteBound, Lookup, Timed, Timer

\* A route costs a bounded time before its request falls back or is all on
\* the wire (the timers of http3.rs under the stale retry of request.rs).
THEOREM RoutesAreBounded == Spec => []RouteBounded
<1>1. Init => TimeInv
  BY InitType DEF Init, TimeInv, TimerInv, Timed, SpentAt, Retried, Outcomes
<1>2. TimeInv /\ [Next]_vars => TimeInv'
  BY TypeStep, TimerStep, SpentStep DEF TimeInv
<1>3. QED
  BY <1>1, <1>2, TimeInvBounds, PTL DEF Spec

-----------------------------------------------------------------------------
\* Every step of a phase is one of the route it belongs to, or none.
LEMMA RouteStep == TypeOK /\ [Next]_vars => [Route!RouteNext]_(Route!routeVars)
<1> SUFFICES ASSUME TypeOK, [Next]_vars
             PROVE [Route!RouteNext]_(Route!routeVars)
  OBVIOUS
<1> DEFINE where == [r \in Requests |-> At(phase[r])]
<1> USE DEF At, Connecting, Timed, Outcomes
<1>1. ASSUME NEW r \in Requests, NEW p, Enter(r, p)
      PROVE where' = [where EXCEPT ![r] = At(p)]
  BY <1>1 DEF Enter, TypeOK
<1>2. ASSUME NEW r \in Requests, NEW p, Enter(r, p), UNCHANGED attempt,
             At(phase[r]) = "connect", At(p) = "stream"
      PROVE Route!Open(r)
  BY <1>1, <1>2 DEF Route!Open, Route!Move
<1>3. ASSUME NEW r \in Requests, NEW p, Enter(r, p), UNCHANGED attempt,
             At(phase[r]) = At(p)
      PROVE UNCHANGED <<where, attempt>>
  <2>1. \A q \in Requests : At(phase'[q]) = At(phase[q])
    BY <1>3 DEF Enter, TypeOK
  <2>2. QED
    BY <2>1, <1>3
<1>4. ASSUME NEW r \in Requests, NEW p \in {"given_up", "cancelled"},
             Enter(r, p), UNCHANGED attempt,
             phase[r] \in Timed \cup {"endpoint", "headers"}
      PROVE Route!End(r)
  <2>1. At(phase[r]) \in {"connect", "stream"} /\ At(p) = p
    BY <1>4
  <2>2. QED
    BY <1>1, <1>4, <2>1 DEF Route!End, Route!Move
<1>5. ASSUME NEW r \in Requests, Fail(r),
             phase[r] \in Timed \cup {"endpoint", "headers"}
      PROVE Route!Retry(r) \/ Route!End(r)
  <2>1. CASE Retries(r)
    <3>1. where' = where
      <4>1. \A q \in Requests : At(phase'[q]) = At(phase[q])
        BY <1>5, <2>1 DEF Fail, Retries, Enter, TypeOK
      <4>2. QED
        BY <4>1
    <3>2. attempt' = [attempt EXCEPT ![r] = 1]
      BY <1>5, <2>1 DEF Fail, Retries, TypeOK
    <3>3. QED
      BY <3>1, <3>2, <2>1 DEF Retries, Route!Retry
  <2>2. CASE ~Retries(r)
    BY <1>4, <1>5, <2>2 DEF Fail
  <2>3. QED
    BY <2>1, <2>2
<1>6. ASSUME NEW r \in Requests, Enter(r, After(r)), UNCHANGED attempt,
             phase[r] \in Timed \cup {"endpoint", "headers"}
      PROVE Route!Open(r) \/ Route!Answered(r) \/ UNCHANGED <<where, attempt>>
  <2>1. CASE phase[r] = "open"
    BY <1>2, <1>6, <2>1 DEF After
  <2>2. CASE phase[r] = "headers"
    BY <1>1, <1>6, <2>2 DEF After, Route!Answered, Route!Move
  <2>3. CASE phase[r] \in {"endpoint", "resolve", "handshake", "setup",
                           "upload", "finish"}
    <3>1. At(phase[r]) = At(After(r))
      BY <2>3 DEF After
    <3>2. QED
      BY <1>3, <1>6, <3>1
  <2>4. QED
    BY <1>6, <2>1, <2>2, <2>3
<1>7. CASE UNCHANGED vars \/ Tick
  BY <1>7 DEF vars, Tick, Route!routeVars
<1>8. ASSUME NEW r \in Requests, Cancel(r) PROVE Route!End(r)
  BY <1>4, <1>8 DEF Cancel
<1>9. QED
  <2>1. ASSUME NEW r \in Requests,
               \/ Route!Retry(r) \/ Route!Open(r) \/ Route!Answered(r)
               \/ Route!End(r) \/ UNCHANGED <<where, attempt>>
        PROVE [Route!RouteNext]_(Route!routeVars)
    BY <2>1 DEF Route!RouteNext, Route!routeVars
  <2>2. QED
    BY <2>1, <1>5, <1>6, <1>7, <1>8
       DEF Next, Endpoint, Succeed, Break, TimerFires, Due, Terminated

\* The timed phases of http3.rs, retried once as request.rs does, are a
\* route as Send has it, for every value of the timers.
THEOREM AttemptFollowsRoute == Spec => Route!RouteSteps
<1>1. Init => Route!RouteInit
  BY DEF Init, Route!RouteInit, At, Connecting
<1>2. QED
  BY <1>1, TypeCorrect, RouteStep, PTL DEF Spec, Route!RouteSteps
=============================================================================
