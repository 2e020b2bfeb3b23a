----------------------------- MODULE SendProofs -----------------------------
(***************************************************************************)
(* Theorems about Send, for any number of origins and requests, any jobs,  *)
(* durations and lifetimes.                                                *)
(***************************************************************************)
EXTENDS SendRefinement, TLAPS

\* The two cache operations and the helpers stay in their types.
LEMMA RemoveType ==
  ASSUME NEW entries, NEW cache \in Caches(entries), NEW o \in Origins
  PROVE  Remove(cache, o) \in Caches(entries)
BY DEF Caches, Remove

LEMMA InsertType ==
  ASSUME NEW entries, NEW cache \in Caches(entries), NEW o \in Origins,
         NEW entry \in entries
  PROVE  Insert(cache, o, entry) \in Caches(entries)
BY DEF Caches, Insert

LEMMA OriginType ==
  ASSUME TypeOK, NEW r \in Requests
  PROVE  /\ job[r] \in JobSpace
         /\ Origin(r) \in Origins
         /\ Timeout(r) \in Timeouts
BY SendAssumption DEF TypeOK, Origin, Timeout, Timeouts, JobSpace

LEMMA DeadlineType ==
  ASSUME TypeOK, NEW r \in Requests
  PROVE  DeadlineFrom(r) \in Timeouts
BY OriginType DEF TypeOK, DeadlineFrom, Timeouts

\* Every step, of any request, keeps every variable in its type.
LEMMA TypeStep == TypeOK /\ [Next]_vars => TypeOK'
<1> SUFFICES ASSUME TypeOK, [Next]_vars PROVE TypeOK'
  OBVIOUS
<1> USE DEF Goto, caches, history
<1>1. ASSUME NEW r \in Requests, Begin(r) PROVE TypeOK'
  BY <1>1, DeadlineType
  DEF Begin, RejectInvalid, StartH3, SkipH3, TypeOK, Steps, Synchronous,
      Returned
<1>2. ASSUME NEW r \in Requests, Run(r) PROVE TypeOK'
  <2>1. CASE NegativeCacheHit(r)
    <3>1. negativeCache' \in Caches(NegativeEntries)
      BY <2>1, OriginType, RemoveType DEF NegativeCacheHit, TypeOK
    <3> QED
      BY <2>1, <3>1 DEF NegativeCacheHit, TypeOK, Steps, Synchronous
  <2>2. CASE AltSvcEntry(r)
    <3>1. Hit(altSvcCache, Origin(r), now[r]) =>
            Probe("alt_svc", altSvcCache[Origin(r)].from) \in Probes
      BY OriginType DEF TypeOK, Hit, Caches, AltSvcEntries, Probe, Probes,
         Routes
    <3>2. altSvcCache' \in Caches(AltSvcEntries)
      BY <2>2, OriginType, RemoveType DEF AltSvcEntry, TypeOK
    <3> QED
      BY <2>2, <3>1, <3>2
      DEF AltSvcEntry, TypeOK, Steps, Synchronous, H3Awaits
  <2>3. CASE HttpsRrEntry(r)
    <3>1. Probe("https_rr", NoEntry) \in Probes
      BY DEF Probe, Probes, Routes
    <3>2. httpsRrCache' \in Caches(HttpsRrEntries)
      BY <2>3, OriginType, RemoveType DEF HttpsRrEntry, TypeOK
    <3> QED
      BY <2>3, <3>1, <3>2
      DEF HttpsRrEntry, UseHttpsRr, TypeOK, Steps, Synchronous, H3Awaits
  <2>4. CASE InsertNegative(r)
    <3>1. [expires |-> cleanup[r].stamp + NegativeDuration]
            \in NegativeEntries
      BY SendAssumption DEF TypeOK, Cleanups, NegativeEntries
    <3> QED
      BY <2>4, <3>1, OriginType, InsertType
      DEF InsertNegative, TypeOK, Steps, Synchronous
  <2>5. CASE EvictAltSvc(r)
    <3>1. {probe[r].advert} \ {NoEntry} \subseteq Requests
      BY DEF TypeOK, Probes
    <3>2. cleanup[r].after \in Steps
      BY DEF TypeOK, Cleanups, Continuations, Steps, Synchronous, Returned
    <3> QED
      BY <2>5, <3>1, <3>2, OriginType, RemoveType DEF EvictAltSvc, TypeOK
  <2>6. CASE H3Timeout(r)
    BY <2>6
    DEF H3Timeout, TypeOK, Cleanups, Continuations, Steps, Synchronous
  <2>7. CASE StartTcp(r)
    BY <2>7, DeadlineType DEF StartTcp, TypeOK, Steps, TcpAwaits
  <2> QED
    BY <1>2, <2>1, <2>2, <2>3, <2>4, <2>5, <2>6, <2>7 DEF Run
<1>3. ASSUME NEW r \in Requests,
             Answer(r) \/ Expire(r) \/ Drop(r)
      PROVE  TypeOK'
  <2>1. CASE LookupAnswered(r)
    <3>1. Probe("https_rr", NoEntry) \in Probes
      BY DEF Probe, Probes, Routes
    <3>2. \A hasH3 \in BOOLEAN, ttl \in Ttls :
            [hasH3 |-> hasH3, expires |-> clock + ttl] \in HttpsRrEntries
      BY SendAssumption DEF TypeOK, HttpsRrEntries
    <3>3. PICK hasH3 \in BOOLEAN, ttl \in Ttls :
            LET entry == [hasH3 |-> hasH3, expires |-> clock + ttl]
            IN  /\ httpsRrCache' = Insert(httpsRrCache, Origin(r), entry)
                /\ UseHttpsRr(r, entry)
      BY <2>1 DEF LookupAnswered
    <3>4. httpsRrCache' \in Caches(HttpsRrEntries)
      BY <3>2, <3>3, OriginType, InsertType DEF TypeOK
    <3> QED
      BY <2>1, <3>1, <3>3, <3>4
      DEF LookupAnswered, UseHttpsRr, TypeOK, Steps, Synchronous, H3Awaits
  <2>2. ASSUME GiveUp(r) PROVE /\ cleanup' \in [Requests -> Cleanups]
                               /\ pc' \in [Requests -> Steps]
                               /\ probe' \in [Requests -> Probes]
    BY <2>2 DEF GiveUp, TypeOK, Cleanups, Continuations, AfterProbe, Steps,
       Synchronous
  <2>3. CASE HandshakeFailed(r)
    BY <2>2, <2>3 DEF HandshakeFailed, TypeOK
  <2>4. CASE StreamFailed(r)
    <3>1. CASE GiveUp(r)
      BY <2>2, <2>4, <3>1 DEF StreamFailed, TypeOK
    <3>2. CASE ~GiveUp(r)
      <4>1. /\ probe[r].attempt = 0
            /\ probe' = [probe EXCEPT ![r].attempt = @ + 1]
            /\ pc' = [pc EXCEPT ![r] = "connect"]
            /\ UNCHANGED <<clock, caches, job, now, deadline, sent, history,
                           cleanup>>
        BY <2>4, <3>2 DEF StreamFailed, H3StreamFailureAction
      <4>2. probe' \in [Requests -> Probes]
        BY <4>1 DEF TypeOK, Probes
      <4> QED
        BY <4>1, <4>2 DEF TypeOK, Steps, H3Awaits
    <3> QED
      BY <3>1, <3>2
  <2>5. ASSUME NEW after \in {"elapsed", "dropped"}, CancelH3(r, after)
        PROVE  cleanup' \in [Requests -> Cleanups] /\ pc' \in [Requests -> Steps]
    BY <2>5 DEF CancelH3, TypeOK, Cleanups, Continuations, Steps, Synchronous,
       Returned
  <2>6. CASE H3Elapsed(r) \/ Drop(r)
    BY <2>5, <2>6 DEF H3Elapsed, Drop, TypeOK
  <2>7. CASE \/ LookupFailed(r) \/ StreamOpened(r) \/ H3Response(r)
             \/ TcpSent(r) \/ TcpFailed(r) \/ TcpElapsed(r)
    BY <2>7
    DEF LookupFailed, StreamOpened, H3Response, TcpSent, TcpFailed,
        TcpElapsed, TypeOK, Steps, Synchronous, H3Awaits, TcpAwaits, Returned
  <2>8. CASE TcpResponse(r)
    <3>1. \A maxAge \in MaxAges :
            [from |-> r, expires |-> clock + maxAge] \in AltSvcEntries
      BY SendAssumption DEF TypeOK, AltSvcEntries
    <3>2. altSvcCache' \in Caches(AltSvcEntries)
      <4>1. CASE altSvcCache' = Remove(altSvcCache, Origin(r))
        BY <4>1, OriginType, RemoveType DEF TypeOK
      <4>2. ASSUME NEW maxAge \in MaxAges,
                   altSvcCache' = Insert(altSvcCache, Origin(r),
                              [from |-> r, expires |-> clock + maxAge])
            PROVE  altSvcCache' \in Caches(AltSvcEntries)
        BY <3>1, <4>2, OriginType, InsertType DEF TypeOK
      <4> QED
        BY <2>8, <4>1, <4>2 DEF TcpResponse, MaybeUpdateAltSvc, TypeOK
    <3> QED
      BY <2>8, <3>2 DEF TcpResponse, TypeOK, Steps, Returned
  <2> QED
    BY <1>3, <2>1, <2>3, <2>4, <2>6, <2>7, <2>8 DEF Answer, Expire
<1>4. CASE Tick
  BY <1>4 DEF Tick, TypeOK
<1>5. CASE UNCHANGED vars
  BY <1>5 DEF vars, TypeOK
<1> QED
  BY <1>1, <1>2, <1>3, <1>4, <1>5 DEF Next, Step, Terminated

LEMMA TypeInit == Init => TypeOK
BY SendAssumption
DEF Init, TypeOK, Caches, EmptyCache, Steps, Timeouts, Probe, Probes, Routes,
    Cleanups, Continuations

\* Every variable always has its type; in particular, no attempt is retried
\* twice, whatever the stale-retry loop meets.
THEOREM TypeCorrect == Spec => []TypeOK
BY TypeInit, TypeStep, PTL DEF Spec
-----------------------------------------------------------------------------
(* The contract.  `sent` is bounded by the routes taken so far, and a new  *)
(* attempt is only started while the route it takes has a copy left.       *)

Copies == [none |-> 0, alt_svc |-> 1, https_rr |-> 2]

PhaseOf(r) ==
  /\ pc[r] = "new" => sent[r] = 0
  /\ pc[r] \in {"new", "negative", "alt_svc"} => probe[r].route = "none"
  /\ pc[r] \in {"https_rr", "lookup"} => probe[r].route # "https_rr"
  /\ /\ pc[r] \in {"insert_negative", "evict_alt_svc"}
     /\ cleanup[r].after = "https_rr"
     => probe[r].route = "alt_svc"
  /\ pc[r] \in H3Steps => /\ UsesH3(job[r])
                          /\ sent[r] <= Copies[probe[r].route]
  /\ pc[r] = "connect" => sent[r] < Copies[probe[r].route]
  /\ pc[r] = "stream" => sent[r] > 0
  /\ pc[r] \in {"start_tcp", "tcp"} =>
       sent[r] <= IF UsesH3(job[r]) THEN 2 ELSE 0
  /\ sent[r] <= IF UsesH3(job[r]) THEN 3 ELSE 1

PhaseInv == \A r \in Requests : PhaseOf(r)

\* A step of one request leaves the state of all others and the clock alone.
LEMMA OthersKept ==
  ASSUME TypeOK, NEW q \in Requests, Step(q)
  PROVE  /\ clock' = clock
         /\ job' = job
         /\ \A r \in Requests \ {q} : /\ pc'[r] = pc[r]
                                      /\ now'[r] = now[r]
                                      /\ deadline'[r] = deadline[r]
                                      /\ probe'[r] = probe[r]
                                      /\ cleanup'[r] = cleanup[r]
                                      /\ sent'[r] = sent[r]
BY DEF TypeOK, Goto, Step, Begin, Run, Answer, Expire, RejectInvalid, StartH3,
       SkipH3, NegativeCacheHit, AltSvcEntry, UseHttpsRr, HttpsRrEntry,
       LookupAnswered, LookupFailed, HandshakeFailed, StreamOpened,
       StreamFailed, H3Response, GiveUp, CancelH3, H3Elapsed, H3Timeout, Drop,
       InsertNegative, EvictAltSvc, StartTcp, TcpSent, TcpResponse, TcpFailed,
       TcpElapsed

LEMMA PhaseStep == TypeOK /\ PhaseInv /\ [Next]_vars => PhaseInv'
<1> SUFFICES ASSUME TypeOK, PhaseInv, [Next]_vars, NEW q \in Requests
             PROVE  PhaseOf(q)'
  BY DEF PhaseInv
<1> USE DEF Goto, caches, history, H3Steps
<1>0. /\ PhaseOf(q)
      /\ sent[q] \in Nat
      /\ probe[q] \in Probes
      /\ pc[q] \in Steps
  BY DEF PhaseInv, TypeOK
<1>1. ASSUME NEW r \in Requests, r # q, Step(r) PROVE PhaseOf(q)'
  <2>1. /\ pc'[q] = pc[q]
        /\ sent'[q] = sent[q]
        /\ probe'[q] = probe[q]
        /\ cleanup'[q] = cleanup[q]
        /\ job' = job
    BY <1>1, OthersKept
  <2> QED
    BY <1>0, <2>1 DEF PhaseOf
<1>2. CASE Begin(q)
  BY <1>0, <1>2
  DEF Begin, RejectInvalid, StartH3, SkipH3, PhaseOf, TypeOK, Copies, UsesH3
<1>3. CASE Run(q)
  <2>1. CASE NegativeCacheHit(q)
    BY <1>0, <2>1 DEF NegativeCacheHit, PhaseOf, TypeOK, Copies, UsesH3
  <2>2. CASE AltSvcEntry(q)
    BY <1>0, <2>2 DEF AltSvcEntry, PhaseOf, TypeOK, Copies, Probe, UsesH3
  <2>3. CASE HttpsRrEntry(q)
    BY <1>0, <2>3
    DEF HttpsRrEntry, UseHttpsRr, PhaseOf, TypeOK, Copies, Probe, Probes,
        Routes, UsesH3
  <2>4. CASE InsertNegative(q)
    BY <1>0, <2>4 DEF InsertNegative, PhaseOf, TypeOK, Copies, UsesH3
  <2>5. CASE EvictAltSvc(q)
    BY <1>0, <2>5
    DEF EvictAltSvc, PhaseOf, TypeOK, Copies, Cleanups, Continuations,
        Probes, Routes, UsesH3
  <2>6. CASE H3Timeout(q)
    BY <1>0, <2>6 DEF H3Timeout, PhaseOf, TypeOK, Copies, UsesH3
  <2>7. CASE StartTcp(q)
    BY <1>0, <2>7 DEF StartTcp, PhaseOf, TypeOK, Copies, UsesH3
  <2> QED
    BY <1>3, <2>1, <2>2, <2>3, <2>4, <2>5, <2>6, <2>7 DEF Run
<1>4. CASE Answer(q) \/ Expire(q) \/ Drop(q)
  <2>1. CASE LookupAnswered(q) \/ LookupFailed(q)
    <3>1. /\ pc[q] = "lookup"
          /\ UNCHANGED <<job, sent, cleanup>>
          /\ \/ /\ pc' = [pc EXCEPT ![q] = "connect"]
                /\ probe' = [probe EXCEPT ![q] = Probe("https_rr", NoEntry)]
             \/ /\ pc' = [pc EXCEPT ![q] = "start_tcp"]
                /\ UNCHANGED probe
      BY <2>1 DEF LookupAnswered, LookupFailed, UseHttpsRr
    <3> QED
      BY <1>0, <3>1
      DEF PhaseOf, TypeOK, Copies, Probe, Probes, Routes, UsesH3
  <2>2. CASE HandshakeFailed(q) \/ StreamFailed(q)
    <3>1. CASE GiveUp(q)
      BY <1>0, <2>2, <3>1
      DEF HandshakeFailed, StreamFailed, GiveUp, AfterProbe, PhaseOf, TypeOK,
          Copies, Probes, Routes, UsesH3
    <3>2. CASE ~GiveUp(q)
      <4>1. /\ pc[q] = "connect"
            /\ pc' = [pc EXCEPT ![q] = "connect"]
            /\ probe' = [probe EXCEPT ![q].attempt = @ + 1]
            /\ UNCHANGED <<clock, caches, job, now, deadline, sent, history,
                           cleanup>>
        BY <2>2, <3>2
        DEF HandshakeFailed, StreamFailed, H3StreamFailureAction
      <4>2. probe'[q].route = probe[q].route /\ pc'[q] = "connect"
        BY <1>0, <4>1 DEF TypeOK, Probes
      <4> QED
        BY <1>0, <4>1, <4>2 DEF PhaseOf, TypeOK
    <3> QED
      BY <3>1, <3>2
  <2>3. CASE StreamOpened(q) \/ H3Response(q)
    BY <1>0, <2>3
    DEF StreamOpened, H3Response, PhaseOf, TypeOK, Copies, Probes, Routes,
        UsesH3
  <2>4. CASE H3Elapsed(q) \/ Drop(q)
    BY <1>0, <2>4
    DEF H3Elapsed, Drop, CancelH3, GuardArmed, H3Awaits, TcpAwaits, PhaseOf,
        TypeOK, Copies, UsesH3
  <2>5. CASE \/ TcpSent(q) \/ TcpResponse(q) \/ TcpFailed(q)
             \/ TcpElapsed(q)
    BY <1>0, <2>5
    DEF TcpSent, TcpResponse, TcpFailed, TcpElapsed, TcpAwaits, PhaseOf,
        TypeOK, Copies, UsesH3
  <2> QED
    BY <1>4, <2>1, <2>2, <2>3, <2>4, <2>5 DEF Answer, Expire
<1>5. CASE Tick \/ UNCHANGED vars
  BY <1>0, <1>5 DEF Tick, vars, PhaseOf
<1> QED
  BY <1>1, <1>2, <1>3, <1>4, <1>5 DEF Next, Step, Terminated

LEMMA PhaseInit == Init => PhaseInv
BY DEF Init, PhaseInv, PhaseOf, Probe, Copies, H3Steps

\* PhaseInv holds in every reachable state.
LEMMA PhaseCorrect == Spec => [](TypeOK /\ PhaseInv)
BY TypeInit, TypeStep, PhaseInit, PhaseStep, PTL DEF Spec

\* No request is put on the wire more often than its kind allows.
THEOREM SendsAreBounded == Spec => []SendsBounded
<1>1. TypeOK /\ PhaseInv => SendsBounded
  BY DEF TypeOK, PhaseInv, PhaseOf, SendsBounded, UsesH3
<1> QED
  BY <1>1, PhaseCorrect, PTL
-----------------------------------------------------------------------------
(* Send implements SendContract: each step is a step of the contract for   *)
(* the same request, or does not change what the contract speaks of.       *)

stages == [r \in Requests |-> StageOf(pc[r])]

\* The moves from one stage to another, other than a transmission, that the
\* contract allows request q.
Allowed(q, from, to) ==
  \/ from = to
  \/ from = "new" /\ to \in {"invalid", "connecting"}
  \/ from = "new" /\ to = "probing" /\ job[q].body # "streaming"
  \/ from = "probing" /\ to = "connecting"
  \/ from = "probing" /\ to = "h3_response" /\ sent[q] > 0
  \/ from = "awaiting" /\ to = "tcp_response"
  \/ from \in {"connecting", "awaiting"} /\ to = "tcp_error"
  \/ /\ from \in {"probing", "connecting", "awaiting"}
     /\ to \in {"timeout", "dropped"}

\* A step that sends nothing and takes q to a stage it may enter is one of
\* the contract's.
LEMMA QuietMove ==
  ASSUME TypeOK, NEW q \in Requests, NEW step,
         UNCHANGED <<job, sent>>,
         pc' = [pc EXCEPT ![q] = step],
         Allowed(q, StageOf(pc[q]), StageOf(step))
  PROVE  [Contract!ContractNext]_(Contract!contractVars)
<1> DEFINE from == StageOf(pc[q])
           to == StageOf(step)
<1>1. stages' = [stages EXCEPT ![q] = to]
  BY DEF stages, TypeOK
<1>2. stages[q] = from
  BY DEF stages
<1>3. CASE from = to
  <2>1. stages' = stages
    BY <1>1, <1>2, <1>3 DEF stages
  <2> QED
    BY <2>1 DEF stages, Contract!contractVars
<1>4. CASE from # to
  <2> HIDE DEF from, to
  <2>1. \/ Contract!Begin(q) \/ Contract!FallBack(q) \/ Contract!Respond(q)
        \/ Contract!Fail(q) \/ Contract!Interrupt(q)
    BY <1>1, <1>2, <1>4
    DEF from, to, stages, Allowed, Contract!Begin, Contract!FallBack,
        Contract!Respond, Contract!Fail, Contract!Interrupt, Contract!Enter,
        Contract!Underway
  <2> QED
    BY <2>1 DEF Contract!ContractNext
<1> QED
  BY <1>3, <1>4

LEMMA ContractInitial == Init => Contract!ContractInit
BY DEF Init, Contract!ContractInit, StageOf, H3Steps

\* Every step, of any request, is a step of the contract or a stutter.
LEMMA ContractStep ==
  TypeOK /\ PhaseInv /\ [Next]_vars
  => [Contract!ContractNext]_(Contract!contractVars)
<1> SUFFICES ASSUME TypeOK, PhaseInv, [Next]_vars
             PROVE  [Contract!ContractNext]_(Contract!contractVars)
  OBVIOUS
<1> USE DEF caches, history, Goto
<1>1. ASSUME NEW q \in Requests, Step(q)
      PROVE  [Contract!ContractNext]_(Contract!contractVars)
  <2> DEFINE Goes(step) == /\ UNCHANGED <<job, sent>>
                           /\ pc' = [pc EXCEPT ![q] = step]
                           /\ Allowed(q, StageOf(pc[q]), StageOf(step))
  <2>1. ASSUME NEW step, Goes(step)
        PROVE  [Contract!ContractNext]_(Contract!contractVars)
    BY <2>1, QuietMove
  <2>2. PhaseOf(q) /\ sent[q] \in Nat
    BY DEF PhaseInv, TypeOK
  <2>3. CASE Begin(q)
    <3>1. Goes("invalid") \/ Goes("negative") \/ Goes("start_tcp")
      BY <2>3
      DEF Begin, RejectInvalid, StartH3, SkipH3, UsesH3, StageOf, H3Steps,
          Allowed
    <3> QED
      BY <2>1, <3>1
  <2>4. CASE Run(q)
    <3>1. \/ \E step \in H3Steps \cup {"start_tcp"} : Goes(step)
          \/ EvictAltSvc(q) \/ StartTcp(q)
      BY <2>4
      DEF Run, NegativeCacheHit, AltSvcEntry, HttpsRrEntry, UseHttpsRr,
          InsertNegative, H3Timeout, StageOf, H3Steps, Allowed
    <3>2. CASE EvictAltSvc(q)
      <4>1. cleanup[q].after \in Continuations
        BY DEF TypeOK, Cleanups
      <4>2. Goes(cleanup[q].after)
        BY <3>2, <4>1
        DEF EvictAltSvc, Continuations, StageOf, H3Steps, Allowed
      <4> QED
        BY <2>1, <4>2
    <3>3. CASE StartTcp(q)
      <4>1. Goes("tcp")
        BY <3>3 DEF StartTcp, StageOf, H3Steps, Allowed
      <4> QED
        BY <2>1, <4>1
    <3> QED
      BY <2>1, <3>1, <3>2, <3>3
  <2>5. CASE Answer(q) \/ Expire(q) \/ Drop(q)
    <3>1. CASE LookupAnswered(q) \/ LookupFailed(q)
      <4>1. Goes("connect") \/ Goes("start_tcp")
        BY <3>1
        DEF LookupAnswered, LookupFailed, UseHttpsRr, StageOf, H3Steps,
            Allowed
      <4> QED
        BY <2>1, <4>1
    <3>2. CASE HandshakeFailed(q) \/ StreamFailed(q)
      <4>1. Goes("connect") \/ Goes("insert_negative")
        BY <3>2
        DEF HandshakeFailed, StreamFailed, GiveUp, StageOf, H3Steps, Allowed
      <4> QED
        BY <2>1, <4>1
    <3>3. CASE H3Elapsed(q) \/ Drop(q)
      <4>1. \/ Goes("insert_negative") \/ Goes("elapsed") \/ Goes("dropped")
        BY <3>3
        DEF H3Elapsed, Drop, CancelH3, H3Awaits, TcpAwaits, StageOf, H3Steps,
            Allowed, GuardArmed
      <4> QED
        BY <2>1, <4>1
    <3>4. CASE \/ H3Response(q) \/ TcpResponse(q) \/ TcpFailed(q)
               \/ TcpElapsed(q)
      <4>1. \/ Goes("h3_response") \/ Goes("tcp_response")
            \/ Goes("tcp_error") \/ Goes("timeout")
        BY <2>2, <3>4
        DEF H3Response, TcpResponse, TcpFailed, TcpElapsed, TcpAwaits,
            StageOf, H3Steps, Allowed, PhaseOf
      <4> QED
        BY <2>1, <4>1
    <3>5. CASE StreamOpened(q)
      <4>1. sent[q] < 2
        BY <2>2, <3>5 DEF StreamOpened, PhaseOf, TypeOK, Probes, Routes, Copies
      <4>2. stages' = stages /\ stages[q] = "probing"
        BY <3>5 DEF StreamOpened, TypeOK, stages, StageOf, H3Steps
      <4>3. Contract!TransmitH3(q)
        BY <3>5, <4>1, <4>2 DEF StreamOpened, stages, Contract!TransmitH3
      <4> QED
        BY <4>3 DEF Contract!ContractNext
    <3>6. CASE TcpSent(q)
      <4>1. /\ stages' = [stages EXCEPT ![q] = "awaiting"]
            /\ stages[q] = "connecting"
        BY <3>6 DEF TcpSent, TypeOK, stages, StageOf, H3Steps
      <4>2. Contract!TransmitTcp(q)
        BY <3>6, <4>1
        DEF TcpSent, stages, Contract!TransmitTcp, Contract!Enter
      <4> QED
        BY <4>2 DEF Contract!ContractNext
    <3> QED
      BY <2>5, <3>1, <3>2, <3>3, <3>4, <3>5, <3>6 DEF Answer, Expire
  <2> QED
    BY <1>1, <2>3, <2>4, <2>5 DEF Step
<1>2. CASE Tick \/ UNCHANGED vars
  BY <1>2 DEF Tick, vars, Contract!contractVars
<1> QED
  BY <1>1, <1>2 DEF Next, Terminated

\* send() keeps its contract: no more copies than the request's kind allows,
\* a response only to a copy that was sent, no HTTP/3 failure as the result
\* and nothing sent by a call that is over.
THEOREM SendKeepsContract == Spec => KeepsContract
BY ContractInitial, ContractStep, PhaseCorrect, PTL
DEF Spec, KeepsContract, Contract!ContractSpec
=============================================================================
