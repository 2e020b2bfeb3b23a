--------------------------- MODULE SendTimedProofs ---------------------------
(***************************************************************************)
(* Theorems about time: under a scheduler that keeps up, a request with a  *)
(* timeout is never out for longer than its budget; and where an instant   *)
(* overflows, one request pays for it and the Alt-Svc cache is kept clean. *)
(***************************************************************************)
EXTENDS SendOverflow, SendCacheProofs

\* The timeout in force bounds each phase; between two awaits no time passes,
\* so what the HTTP/3 phase leaves of the budget covers the TCP phase.
BudgetOf(r) ==
  /\ pc[r] \in H3Steps => /\ UsesH3(job[r])
                          /\ deadline[r] = now[r] + Timeout(r)
                          /\ clock <= deadline[r]
  /\ pc[r] = "start_tcp" => clock + Timeout(r) <= now[r] + Budget(r)
  /\ pc[r] \in TcpAwaits => /\ deadline[r] \in Nat
                            /\ clock <= deadline[r]
                            /\ deadline[r] <= now[r] + Budget(r)

BudgetInv == \A r \in Requests : Timeout(r) # NoTimeout => BudgetOf(r)

\* The timed specification only restricts the steps of Send.
LEMMA TimedIsNext == [TimedNext]_vars => [Next]_vars
BY DEF TimedNext, PromptTick, Next

LEMMA BudgetStep ==
  TypeOK /\ BudgetInv /\ [TimedNext]_vars => BudgetInv'
<1> SUFFICES ASSUME TypeOK, BudgetInv, [TimedNext]_vars,
                    NEW q \in Requests, Timeout(q)' # NoTimeout
             PROVE  BudgetOf(q)'
  BY DEF BudgetInv
<1> USE DEF Goto, caches, history, H3Steps, TcpAwaits
<1>0. /\ job' = job
      /\ Timeout(q)' = Timeout(q)
      /\ Budget(q)' = Budget(q)
  BY TimedIsNext, ResponseStays DEF Timeout, Budget, UsesH3
<1>1. /\ BudgetOf(q)
      /\ Timeout(q) \in Nat
      /\ Budget(q) = IF UsesH3(job[q]) THEN Timeout(q) + Timeout(q)
                                       ELSE Timeout(q)
      /\ Budget(q) \in Nat
      /\ clock \in Nat /\ now[q] \in Nat
      /\ pc[q] \in Steps
  BY <1>0, OriginType DEF BudgetInv, Budget, TypeOK, Timeouts
<1>2. DeadlineFrom(q) = clock + Timeout(q)
  BY <1>0 DEF DeadlineFrom
<1>3. ASSUME NEW r \in Requests, r # q, Step(r) PROVE BudgetOf(q)'
  <2>1. /\ clock' = clock
        /\ pc'[q] = pc[q] /\ now'[q] = now[q] /\ deadline'[q] = deadline[q]
    BY <1>3, OthersKept
  <2> QED
    BY <1>0, <1>1, <2>1 DEF BudgetOf
<1>4. CASE Begin(q)
  BY <1>0, <1>1, <1>2, <1>4
  DEF Begin, RejectInvalid, StartH3, SkipH3, BudgetOf, TypeOK
<1>5. CASE StartTcp(q)
  BY <1>0, <1>1, <1>2, <1>5 DEF StartTcp, BudgetOf, TypeOK
<1>6. CASE Step(q) /\ ~Begin(q) /\ ~StartTcp(q)
  <2>1. /\ UNCHANGED <<clock, now, deadline>>
        /\ \/ pc[q] \in H3Steps
           \/ pc[q] \in TcpAwaits /\ pc'[q] \in TcpAwaits \cup Returned
    BY <1>6
    DEF TypeOK, Step, Run, Answer, Expire, NegativeCacheHit, AltSvcEntry,
        HttpsRrEntry, LookupAnswered, LookupFailed, HandshakeFailed,
        StreamOpened, StreamFailed, H3Response, CancelH3, GuardArmed,
        H3Elapsed, H3Timeout, Drop, H3Awaits, InsertNegative, EvictAltSvc,
        TcpSent, TcpResponse, TcpFailed, TcpElapsed, Returned
  <2>2. pc[q] \in H3Steps => pc'[q] \notin TcpAwaits
    BY <1>6
    DEF TypeOK, Step, Run, Answer, Expire, NegativeCacheHit, AltSvcEntry,
        UseHttpsRr, HttpsRrEntry, LookupAnswered, LookupFailed,
        HandshakeFailed, StreamOpened, StreamFailed, GiveUp, H3Response,
        CancelH3, GuardArmed, H3Elapsed, H3Timeout, Drop, H3Awaits,
        InsertNegative, EvictAltSvc, Cleanups, Continuations, TcpSent,
        TcpResponse, TcpFailed, TcpElapsed
  <2> QED
    BY <1>0, <1>1, <2>1, <2>2 DEF BudgetOf, Returned
<1>7. CASE PromptTick
  <2>1. /\ UNCHANGED <<pc, now, deadline>>
        /\ clock' = clock + 1
        /\ pc[q] \notin Synchronous
        /\ pc[q] \in H3Awaits \cup TcpAwaits => ~Elapsed(q)
    BY <1>7 DEF PromptTick, Tick, Overdue
  <2> QED
    BY <1>0, <1>1, <2>1, SendAssumption
    DEF BudgetOf, Elapsed, Synchronous, H3Awaits
<1>8. CASE UNCHANGED vars
  BY <1>0, <1>1, <1>8 DEF vars, BudgetOf
<1> QED
  BY <1>3, <1>4, <1>5, <1>6, <1>7, <1>8 DEF TimedNext, Terminated, Step

LEMMA BudgetInit == Init => BudgetInv
BY DEF Init, BudgetInv, BudgetOf, H3Steps, TcpAwaits

\* No request with a timeout is out for longer than its budget.
THEOREM BudgetSuffices == TimedSpec => []ReturnsWithinBudget
<1>1. TypeOK /\ BudgetInv => ReturnsWithinBudget
  <2> SUFFICES ASSUME TypeOK, BudgetInv, NEW r \in Requests, Running(r),
                      Timeout(r) # NoTimeout
               PROVE  clock <= now[r] + Budget(r)
    BY DEF ReturnsWithinBudget
  <2>1. /\ Timeout(r) \in Nat /\ clock \in Nat /\ now[r] \in Nat
        /\ pc[r] \in Steps
    BY OriginType DEF TypeOK, Timeouts
  <2> QED
    BY <2>1
    DEF BudgetInv, BudgetOf, Running, Budget, Steps, Synchronous, H3Awaits,
        TcpAwaits, Returned, H3Steps
<1>2. TypeOK /\ [TimedNext]_vars => TypeOK'
  BY TypeStep, TimedIsNext
<1> QED
  BY <1>1, <1>2, TypeInit, BudgetInit, BudgetStep, PTL DEF TimedSpec
-----------------------------------------------------------------------------
(* Overflow, and the lock it poisons.                                      *)

\* Where a request can be, and where a cleanup goes on.
PlaceInv ==
  /\ pc \in [Requests -> Steps \cup Panicked]
  /\ DOMAIN cleanup = Requests
  /\ \A r \in Requests : cleanup[r].after \in Continuations

\* A panic leaves the lock poisoned, and nothing heals it.
PoisonInv ==
  /\ \A r \in Requests : pc[r] = "panic_in_lock" => poisoned
  /\ PanicsOnce

LEMMA PlaceInit == OverflowInit => PlaceInv /\ PoisonInv
BY DEF OverflowInit, Init, PlaceInv, PoisonInv, PanicsOnce, Steps, Continuations

\* A step of Send moves one request on, to a step of Send.
LEMMA StepStays ==
  ASSUME PlaceInv, NEW r \in Requests, Step(r)
  PROVE  /\ PlaceInv'
         /\ pc'[r] \in Steps
         /\ \A q \in Requests \ {r} : pc'[q] = pc[q]
<1> USE DEF Goto, Steps, Synchronous, H3Awaits, TcpAwaits, Returned, history
<1> DEFINE Moved == \E s \in Steps : Goto(r, s)
           Settled == cleanup' = cleanup
           Called(after) == \E stamp : cleanup' =
             [cleanup EXCEPT ![r] = [stamp |-> stamp, after |-> after]]
<1>1. Moved /\ (Settled \/ \E after \in Continuations : Called(after))
  <2>1. CASE Begin(r)
    BY <2>1 DEF Begin, RejectInvalid, StartH3, SkipH3
  <2>2. CASE H3Timeout(r)
    BY <2>2 DEF H3Timeout, Continuations
  <2>3. CASE EvictAltSvc(r)
    BY <2>3 DEF EvictAltSvc, PlaceInv, Continuations
  <2>4. CASE Run(r)
    BY <2>2, <2>3, <2>4
    DEF Run, NegativeCacheHit, AltSvcEntry, HttpsRrEntry, UseHttpsRr,
        InsertNegative, StartTcp
  <2>5. ASSUME GiveUp(r)
        PROVE  Moved /\ \E after \in Continuations : Called(after)
    BY <2>5 DEF GiveUp, AfterProbe, Continuations
  <2>6. CASE StreamFailed(r) \/ HandshakeFailed(r)
    BY <2>5, <2>6 DEF StreamFailed, HandshakeFailed
  <2>7. CASE Answer(r)
    BY <2>6, <2>7
    DEF Answer, LookupAnswered, UseHttpsRr, StreamOpened, H3Response, TcpSent,
        TcpResponse, TcpFailed
  <2>8. ASSUME NEW after \in {"elapsed", "dropped"}, CancelH3(r, after)
        PROVE  Moved /\ (Settled \/ \E a \in Continuations : Called(a))
    BY <2>8 DEF CancelH3, Continuations
  <2>9. CASE Expire(r)
    BY <2>6, <2>8, <2>9 DEF Expire, LookupFailed, H3Elapsed, TcpElapsed
  <2>10. CASE Drop(r)
    BY <2>8, <2>10 DEF Drop
  <2> QED
    BY <2>1, <2>4, <2>7, <2>9, <2>10 DEF Step
<1>2. /\ DOMAIN cleanup' = Requests
      /\ \A q \in Requests : cleanup'[q].after \in Continuations
  BY <1>1 DEF PlaceInv
<1>3. /\ pc' \in [Requests -> Steps \cup Panicked]
      /\ pc'[r] \in Steps
      /\ \A q \in Requests \ {r} : pc'[q] = pc[q]
  BY <1>1 DEF PlaceInv
<1> QED
  BY <1>2, <1>3 DEF PlaceInv

LEMMA PanicStep ==
  PlaceInv /\ PoisonInv /\ [OverflowNext]_overflowVars => PlaceInv' /\ PoisonInv'
<1> SUFFICES ASSUME PlaceInv, PoisonInv, [OverflowNext]_overflowVars
             PROVE  PlaceInv' /\ PoisonInv'
  OBVIOUS
<1> USE DEF PoisonInv, PanicsOnce
<1>1. ASSUME NEW r \in Requests, Step(r), UNCHANGED poisoned
      PROVE  PlaceInv' /\ PoisonInv'
  <2>1. /\ PlaceInv'
        /\ pc'[r] \in Steps
        /\ \A q \in Requests \ {r} : pc'[q] = pc[q]
    BY <1>1, StepStays
  <2>2. \A q \in Requests : pc'[q] = "panic_in_lock" => pc[q] = "panic_in_lock"
    BY <2>1 DEF Steps, Synchronous, H3Awaits, TcpAwaits, Returned
  <2> QED
    BY <1>1, <2>1, <2>2
<1>2. ASSUME NEW r \in Requests, PanicInLock(r)
      PROVE  PlaceInv' /\ PoisonInv'
  <2>1. \A q \in Requests : pc[q] # "panic_in_lock"
    BY <1>2 DEF PanicInLock
  <2>2. /\ pc' = [pc EXCEPT ![r] = "panic_in_lock"]
        /\ UNCHANGED cleanup /\ poisoned' = TRUE
    BY <1>2 DEF PanicInLock, Unwind, Goto
  <2> QED
    BY <2>1, <2>2 DEF PlaceInv, Panicked
<1>3. ASSUME NEW r \in Requests,
             PanicInHeader(r) \/ SkipNegativeCache(r) \/ SkipInsert(r)
      PROVE  PlaceInv' /\ PoisonInv'
  BY <1>3
  DEF PanicInHeader, SkipNegativeCache, SkipInsert, Unwind, Goto, PlaceInv,
      Panicked, Steps, Synchronous
<1>4. CASE PromptTick /\ UNCHANGED poisoned
  BY <1>4 DEF PromptTick, Tick, PlaceInv
<1>5. CASE UNCHANGED overflowVars
  BY <1>5 DEF overflowVars, vars, PlaceInv
<1> QED
  BY <1>1, <1>2, <1>3, <1>4, <1>5
  DEF OverflowNext, OverflowRun, Ordinary, Step, Over

\* At most one request panics under the negative cache's lock, for every
\* duration, however many requests fail together and whatever becomes of them.
THEOREM PanicsAreRare == OverflowSpec => []PanicsOnce
<1>1. PoisonInv => PanicsOnce
  BY DEF PoisonInv
<1> QED
  BY <1>1, PlaceInit, PanicStep, PTL DEF OverflowSpec
-----------------------------------------------------------------------------
(* The Alt-Svc cache, which no panic of the negative cache's lock touches. *)
(* TypeOK fails once a request has panicked: of the types, what is needed  *)
(* is restated.                                                            *)

Attempts == [route : Routes, advert : Requests \cup {NoEntry}, attempt : Nat]

AdvertTypes ==
  /\ clock \in Nat
  /\ job \in [Requests -> Jobs]
  /\ altSvcCache \in Caches(AltSvcEntries)
  /\ probe \in [Requests -> Attempts]

\* No alternative has been tried yet; the one that was has been given up.
Untried == {"new", "negative", "alt_svc"}
Past == {"https_rr", "lookup", "start_tcp"} \cup TcpAwaits
          \cup (Returned \ {"h3_response"})

NothingTried == \A r \in Requests : pc[r] \in Untried => probe[r].advert = NoEntry

\* An attempt's alternative is in the cache of its own origin or nowhere, so
\* evict_alt_svc, the only way past an attempt, takes it out; what is put in
\* later is from a request that had no response before.
GoneInv ==
  /\ AdvertTypes /\ NothingTried
  /\ AdvertProvenance /\ ProbeAdverts /\ FailedAdvertsGone

LEMMA GoneInit == OverflowInit => GoneInv
<1> SUFFICES ASSUME Init PROVE GoneInv
  BY DEF OverflowInit
<1> USE DEF Init, Probe, EmptyCache
<1>1. AdvertTypes
  BY DEF AdvertTypes, Caches, Attempts, Routes
<1>2. NothingTried /\ AdvertProvenance /\ ProbeAdverts /\ FailedAdvertsGone
  BY DEF NothingTried, AdvertProvenance, ProbeAdverts, FailedAdvertsGone
<1> QED
  BY <1>1, <1>2 DEF GoneInv

\* A step that leaves the Alt-Svc cache alone begins no attempt over an
\* alternative, and does not go past one.
LEMMA QuietStep ==
  ASSUME PlaceInv, AdvertTypes, NEW q \in Requests, Step(q),
         ~AltSvcEntry(q), ~EvictAltSvc(q), ~TcpResponse(q)
  PROVE  /\ UNCHANGED <<clock, job, altSvcCache>>
         /\ \/ probe' = probe
            \/ \E p \in Attempts : /\ probe' = [probe EXCEPT ![q] = p]
                                  /\ p.advert \in {probe[q].advert, NoEntry}
         /\ pc'[q] \in Untried => pc[q] \in Untried /\ probe' = probe
         /\ pc'[q] \in Past /\ probe'[q].advert # NoEntry
              => pc[q] \in Past \cup Untried
<1> USE DEF Goto, caches, history, PlaceInv, Untried, Past, TcpAwaits, Returned
<1>1. probe[q] \in Attempts
  BY DEF AdvertTypes
<1>2. CASE Begin(q) \/ Run(q)
  <2>1. CASE HttpsRrEntry(q)
    BY <1>1, <2>1 DEF HttpsRrEntry, UseHttpsRr, Probe, Attempts, Routes, AdvertTypes
  <2> QED
    BY <1>2, <2>1
    DEF Begin, RejectInvalid, StartH3, SkipH3, Run, NegativeCacheHit,
        InsertNegative, H3Timeout, StartTcp
<1>3. CASE StreamFailed(q)
  <2>1. CASE probe' = probe /\ pc'[q] = "insert_negative"
    BY <1>3, <2>1 DEF StreamFailed
  <2>2. CASE pc'[q] = "connect" /\ probe' = [probe EXCEPT ![q].attempt = @ + 1]
    <3>1. [probe[q] EXCEPT !.attempt = @ + 1] \in Attempts
      BY <1>1 DEF Attempts
    <3>2. probe' = [probe EXCEPT ![q] = [probe[q] EXCEPT !.attempt = @ + 1]]
      BY <2>2
    <3>3. [probe[q] EXCEPT !.attempt = @ + 1].advert = probe[q].advert
      BY <1>1 DEF Attempts
    <3> QED
      BY <1>3, <2>2, <3>1, <3>2, <3>3 DEF StreamFailed
  <2> QED
    BY <1>3, <2>1, <2>2 DEF StreamFailed, GiveUp
<1>4. CASE LookupAnswered(q)
  BY <1>1, <1>4
  DEF LookupAnswered, UseHttpsRr, Probe, Attempts, Routes, AdvertTypes
<1>5. CASE /\ Answer(q) \/ Expire(q) \/ Drop(q)
           /\ ~StreamFailed(q) /\ ~LookupAnswered(q)
  BY <1>5
  DEF Answer, Expire, LookupFailed, HandshakeFailed, StreamOpened, GiveUp,
      H3Response, H3Elapsed, Drop, CancelH3, GuardArmed, H3Awaits, TcpSent,
      TcpFailed, TcpElapsed
<1> QED
  BY <1>2, <1>3, <1>4, <1>5 DEF Step

\* A request that has its TCP response keeps it.
LEMMA ResponseKept ==
  ASSUME NEW q \in Requests, Step(q) PROVE pc[q] # "tcp_response"
BY DEF Step, Begin, RejectInvalid, StartH3, SkipH3, Run, NegativeCacheHit,
       AltSvcEntry, HttpsRrEntry, InsertNegative, EvictAltSvc, H3Timeout,
       StartTcp, Answer, LookupAnswered, StreamOpened, StreamFailed,
       H3Response, TcpSent, TcpResponse, TcpFailed, Expire, LookupFailed,
       HandshakeFailed, H3Elapsed, TcpElapsed, Drop, H3Awaits, TcpAwaits

\* A step moves one request, keeps the jobs, and writes an alternative only
\* for the response it is about: then the invariant is kept if that request's
\* own attempt is in order.
LEMMA GoneKept ==
  ASSUME GoneInv, PlaceInv, AdvertTypes', NEW q \in Requests,
         job' = job, pc[q] # "tcp_response",
         \A r \in Requests \ {q} : pc'[r] = pc[r] /\ probe'[r] = probe[r],
         \A o \in Origins : \/ altSvcCache'[o] \in {altSvcCache[o], NoEntry}
                            \/ /\ altSvcCache'[o].from = q
                               /\ pc'[q] = "tcp_response" /\ o = Origin(q)
                               /\ job[q].scheme = "https",
         probe'[q].advert # NoEntry =>
           \/ probe'[q].advert = probe[q].advert
           \/ /\ altSvcCache[Origin(q)] # NoEntry
              /\ probe'[q].advert = altSvcCache[Origin(q)].from,
         pc'[q] \in Untried => probe'[q].advert = NoEntry,
         pc'[q] \in Past /\ probe'[q].advert # NoEntry =>
           \/ pc[q] \in Past /\ probe'[q].advert = probe[q].advert
           \/ altSvcCache'[Origin(q)] = NoEntry
  PROVE  GoneInv'
<1> USE DEF GoneInv, Origin
<1>1. /\ \A o \in Origins : altSvcCache[o] # NoEntry =>
                              altSvcCache[o].from \in Requests
      /\ \A r \in Requests : probe[r].advert # NoEntry =>
                               probe[r].advert \in Requests
      /\ \A r \in Requests : Origin(r) \in Origins
  BY SendAssumption DEF AdvertTypes, Caches, AltSvcEntries, Attempts, JobSpace
<1>2. AdvertProvenance'
  BY <1>1 DEF AdvertProvenance
<1>3. ProbeAdverts'
  BY <1>1 DEF ProbeAdverts, AdvertProvenance
<1>4. NothingTried'
  BY DEF NothingTried
<1>5. FailedAdvertsGone'
  <2> SUFFICES ASSUME NEW r \in Requests, pc'[r] \in Past,
                      probe'[r].advert # NoEntry,
                      NEW o \in Origins, altSvcCache'[o] # NoEntry
               PROVE  altSvcCache'[o].from # probe'[r].advert
    BY DEF FailedAdvertsGone, Past
  <2>1. CASE pc[r] \in Past /\ probe'[r].advert = probe[r].advert
    BY <1>1, <2>1 DEF FailedAdvertsGone, Past, ProbeAdverts
  <2>2. CASE altSvcCache'[Origin(r)] = NoEntry
    BY <1>2, <1>3, <2>2 DEF AdvertProvenance, ProbeAdverts
  <2>3. CASE r = q
    BY <2>1, <2>2, <2>3
  <2> QED
    BY <2>1, <2>3
<1> QED
  BY <1>2, <1>3, <1>4, <1>5

LEMMA GoneStep ==
  PlaceInv /\ GoneInv /\ [OverflowNext]_overflowVars => GoneInv'
<1> SUFFICES ASSUME PlaceInv, GoneInv, [OverflowNext]_overflowVars
             PROVE  GoneInv'
  OBVIOUS
<1> USE DEF Goto, caches
<1>0. \A r \in Requests : Origin(r) \in Origins
  BY SendAssumption DEF GoneInv, AdvertTypes, JobSpace, Origin
<1>1. ASSUME NEW q \in Requests, Step(q) PROVE GoneInv'
  <2>1. /\ pc[q] # "tcp_response"
        /\ \A r \in Requests \ {q} : pc'[r] = pc[r]
    BY <1>1, ResponseKept, StepStays
  <2>2. CASE AltSvcEntry(q)
    <3>1. CASE Hit(altSvcCache, Origin(q), now[q])
      <4>1. /\ altSvcCache[Origin(q)] \in AltSvcEntries
            /\ altSvcCache[Origin(q)] # NoEntry
        BY <1>0, <3>1 DEF GoneInv, AdvertTypes, Caches, Hit
      <4>2. /\ Probe("alt_svc", altSvcCache[Origin(q)].from) \in Attempts
            /\ probe' = [probe EXCEPT
                           ![q] = Probe("alt_svc", altSvcCache[Origin(q)].from)]
        BY <2>2, <3>1, <4>1
        DEF AltSvcEntry, Probe, Attempts, Routes, AltSvcEntries
      <4>3. /\ probe'[q].advert = altSvcCache[Origin(q)].from
            /\ \A r \in Requests \ {q} : probe'[r] = probe[r]
            /\ UNCHANGED <<clock, job, altSvcCache>>
            /\ pc'[q] = "connect"
        BY <2>2, <3>1, <4>2
        DEF AltSvcEntry, GoneInv, AdvertTypes, PlaceInv, Probe
      <4>4. AdvertTypes'
        BY <4>2, <4>3 DEF GoneInv, AdvertTypes
      <4> QED
        BY <2>1, <4>1, <4>3, <4>4, GoneKept
        DEF Untried, Past, TcpAwaits, Returned
    <3>2. CASE ~Hit(altSvcCache, Origin(q), now[q])
      BY <1>0, <2>1, <2>2, <3>2, GoneKept
      DEF AltSvcEntry, GoneInv, AdvertTypes, Remove, Caches, PlaceInv,
          NothingTried, Untried
    <3> QED
      BY <3>1, <3>2
  <2>3. CASE EvictAltSvc(q)
    BY <1>0, <2>1, <2>3, GoneKept
    DEF EvictAltSvc, GoneInv, AdvertTypes, Remove, Caches, PlaceInv, Untried,
        Continuations
  <2>4. CASE TcpResponse(q)
    <3>1. /\ UNCHANGED <<clock, job, probe>>
          /\ pc[q] = "tcp_wait" /\ pc'[q] = "tcp_response"
      BY <2>4 DEF TcpResponse, PlaceInv
    <3>2. /\ altSvcCache' \in Caches(AltSvcEntries)
          /\ \A o \in Origins : \/ altSvcCache'[o] \in {altSvcCache[o], NoEntry}
                                \/ /\ altSvcCache'[o].from = q
                                   /\ o = Origin(q)
                                   /\ job[q].scheme = "https"
      <4>1. CASE altSvcCache' = Remove(altSvcCache, Origin(q))
        BY <4>1 DEF Remove, GoneInv, AdvertTypes, Caches
      <4>2. ASSUME NEW maxAge \in MaxAges, job[q].scheme = "https",
                   altSvcCache' = Insert(altSvcCache, Origin(q),
                                    [from |-> q, expires |-> clock + maxAge])
            PROVE  <3>2!1 /\ <3>2!2
        <5>1. /\ clock + maxAge \in Nat
              /\ altSvcCache \in Caches(AltSvcEntries)
          BY SendAssumption DEF GoneInv, AdvertTypes
        <5> QED
          BY <4>2, <5>1 DEF Insert, Caches, AltSvcEntries
      <4> QED
        BY <2>4, <4>1, <4>2
        DEF TcpResponse, MaybeUpdateAltSvc, GoneInv, AdvertTypes
    <3> QED
      BY <2>1, <3>1, <3>2, GoneKept
      DEF GoneInv, AdvertTypes, Untried, Past, TcpAwaits
  <2>5. CASE ~AltSvcEntry(q) /\ ~EvictAltSvc(q) /\ ~TcpResponse(q)
    BY <1>1, <2>1, <2>5, QuietStep, GoneKept
    DEF GoneInv, AdvertTypes, NothingTried
  <2> QED
    BY <2>2, <2>3, <2>4, <2>5
<1>2. ASSUME NEW q \in Requests,
             \/ PanicInLock(q) \/ PanicInHeader(q)
             \/ SkipNegativeCache(q) \/ SkipInsert(q)
      PROVE  GoneInv'
  BY <1>2, GoneKept
  DEF PanicInLock, PanicInHeader, SkipNegativeCache, SkipInsert, Unwind,
      GoneInv, AdvertTypes, NothingTried, Untried, Past, TcpAwaits, Returned,
      PlaceInv
<1>3. CASE PromptTick \/ UNCHANGED overflowVars
  BY <1>3
  DEF PromptTick, Tick, overflowVars, vars, GoneInv, AdvertTypes, NothingTried,
      AdvertProvenance, ProbeAdverts, FailedAdvertsGone, Origin
<1> QED
  BY <1>1, <1>2, <1>3 DEF OverflowNext, OverflowRun, Ordinary, Step, Over

\* Whether or not the negative cache can still be written, a request goes on
\* only when the alternative it failed with is out of the Alt-Svc cache.
THEOREM FailedAdvertsLeave == OverflowSpec => []FailedAdvertsGone
<1>1. GoneInv => FailedAdvertsGone
  BY DEF GoneInv
<1> QED
  BY <1>1, PlaceInit, PanicStep, GoneInit, GoneStep, PTL DEF OverflowSpec
=============================================================================
