--------------------------- MODULE SendCacheProofs ---------------------------
(***************************************************************************)
(* Theorems about the caches the requests of Send share: where Alt-Svc     *)
(* entries come from and where they go, and how long the negative cache    *)
(* keeps HTTP/3 suppressed.                                                *)
(***************************************************************************)
EXTENDS SendProofs

(* Alt-Svc.  Adverts in the cache and in attempts stem from requests that  *)
(* have their TCP response, and a retired one is not in the cache.         *)

ProbeAdverts ==
  \A r \in Requests :
    probe[r].advert # NoEntry => /\ pc[probe[r].advert] = "tcp_response"
                                 /\ Origin(probe[r].advert) = Origin(r)

RetiredResponses == \A r \in retired : pc[r] = "tcp_response"

AdvertInv ==
  AdvertProvenance /\ RetiredStayOut /\ ProbeAdverts /\ RetiredResponses

\* A request that has its TCP response takes no further step, and no step
\* changes a job.
LEMMA ResponseStays ==
  ASSUME TypeOK, [Next]_vars
  PROVE  /\ job' = job
         /\ \A r \in Requests :
              pc[r] = "tcp_response" => pc'[r] = "tcp_response"
<1> USE DEF Goto, caches, history
<1>1. ASSUME NEW q \in Requests, Begin(q) \/ Run(q)
      PROVE  /\ job' = job
             /\ \A r \in Requests :
                  pc[r] = "tcp_response" => pc'[r] = "tcp_response"
  BY <1>1
  DEF TypeOK, Begin, RejectInvalid, StartH3, SkipH3, Run, NegativeCacheHit,
      AltSvcEntry, HttpsRrEntry, UseHttpsRr, InsertNegative, EvictAltSvc,
      H3Timeout, StartTcp
<1>2. ASSUME NEW q \in Requests, Answer(q) \/ Expire(q) \/ Drop(q)
      PROVE  /\ job' = job
             /\ \A r \in Requests :
                  pc[r] = "tcp_response" => pc'[r] = "tcp_response"
  BY <1>2
  DEF TypeOK, Answer, Expire, LookupAnswered, UseHttpsRr, LookupFailed,
      HandshakeFailed, StreamOpened, StreamFailed, GiveUp, H3Response,
      CancelH3, H3Elapsed, Drop, H3Awaits, TcpAwaits, TcpSent, TcpResponse,
      TcpFailed, TcpElapsed
<1>3. CASE Tick \/ UNCHANGED vars
  BY <1>3 DEF Tick, vars
<1> QED
  BY <1>1, <1>2, <1>3 DEF Next, Step, Terminated

\* The steps that leave the Alt-Svc cache alone begin no attempt over an
\* alternative and retire none.
LEMMA AdvertsKept ==
  ASSUME TypeOK, NEW q \in Requests, Step(q),
         ~AltSvcEntry(q), ~EvictAltSvc(q), ~TcpResponse(q)
  PROVE  /\ UNCHANGED <<altSvcCache, retired>>
         /\ \A r \in Requests :
              probe'[r].advert \in {probe[r].advert, NoEntry}
<1> USE DEF Goto, caches, history
<1>1. CASE Begin(q) \/ Run(q)
  BY <1>1
  DEF TypeOK, Probe, Begin, RejectInvalid, StartH3, SkipH3, Run,
      NegativeCacheHit, HttpsRrEntry, UseHttpsRr, InsertNegative, H3Timeout,
      StartTcp
<1>2. CASE StreamFailed(q)
  BY <1>2 DEF TypeOK, Probes, StreamFailed, GiveUp
<1>3. CASE LookupAnswered(q)
  <2>1. /\ UNCHANGED <<altSvcCache, retired>>
        /\ \/ probe' = probe
           \/ probe' = [probe EXCEPT ![q] = Probe("https_rr", NoEntry)]
    BY <1>3 DEF LookupAnswered, UseHttpsRr
  <2> QED
    BY <2>1 DEF TypeOK, Probe
<1>4. CASE /\ Answer(q) \/ Expire(q) \/ Drop(q)
           /\ ~StreamFailed(q) /\ ~LookupAnswered(q)
  BY <1>4
  DEF Answer, Expire, LookupFailed, HandshakeFailed, StreamOpened, GiveUp,
      H3Response, H3Elapsed, Drop, TcpSent, TcpFailed, TcpElapsed
<1> QED
  BY <1>1, <1>2, <1>3, <1>4 DEF Step

LEMMA AdvertStep == TypeOK /\ AdvertInv /\ [Next]_vars => AdvertInv'
<1> SUFFICES ASSUME TypeOK, AdvertInv, [Next]_vars PROVE AdvertInv'
  OBVIOUS
<1> USE DEF AdvertInv, AdvertProvenance, RetiredStayOut, ProbeAdverts,
            RetiredResponses, Origin
<1>1. /\ job' = job
      /\ \A r \in Requests : pc[r] = "tcp_response" => pc'[r] = "tcp_response"
  BY ResponseStays
<1>2. /\ \A o \in Origins : altSvcCache[o] # NoEntry =>
                              altSvcCache[o].from \in Requests
      /\ \A r \in Requests : probe[r].advert # NoEntry =>
                               probe[r].advert \in Requests
      /\ retired \subseteq Requests
      /\ \A r \in Requests : Origin(r) \in Origins
  BY OriginType DEF TypeOK, Caches, AltSvcEntries, Probes
<1>3. CASE \/ Tick \/ UNCHANGED vars
           \/ \E q \in Requests : /\ Step(q) /\ ~AltSvcEntry(q)
                                  /\ ~EvictAltSvc(q) /\ ~TcpResponse(q)
  <2>1. /\ UNCHANGED <<altSvcCache, retired>>
        /\ \A r \in Requests :
             probe'[r].advert \in {probe[r].advert, NoEntry}
    BY <1>3, AdvertsKept DEF Tick, vars, caches, history
  <2> QED
    BY <1>1, <1>2, <2>1
<1>4. ASSUME NEW q \in Requests, AltSvcEntry(q) PROVE AdvertInv'
  <2>1. retired' = retired
    BY <1>4 DEF AltSvcEntry, history
  <2>2. CASE Hit(altSvcCache, Origin(q), now[q])
    <3>1. /\ altSvcCache' = altSvcCache
          /\ altSvcCache[Origin(q)] # NoEntry
          /\ probe'[q].advert = altSvcCache[Origin(q)].from
          /\ \A r \in Requests \ {q} : probe'[r] = probe[r]
      BY <1>4, <2>2 DEF AltSvcEntry, Hit, TypeOK, Probe
    <3> QED
      BY <1>1, <1>2, <2>1, <3>1
  <2>3. CASE ~Hit(altSvcCache, Origin(q), now[q])
    <3>1. /\ \A o \in Origins : altSvcCache'[o] \in {altSvcCache[o], NoEntry}
          /\ probe' = probe
      BY <1>4, <2>3 DEF AltSvcEntry, TypeOK, Remove, Caches
    <3> QED
      BY <1>1, <1>2, <2>1, <3>1
  <2> QED
    BY <2>2, <2>3
<1>5. ASSUME NEW q \in Requests, EvictAltSvc(q) PROVE AdvertInv'
  <2>1. /\ altSvcCache'[Origin(q)] = NoEntry
        /\ \A o \in Origins : altSvcCache'[o] \in {altSvcCache[o], NoEntry}
        /\ probe' = probe
        /\ retired' = retired \cup ({probe[q].advert} \ {NoEntry})
    BY <1>2, <1>5 DEF EvictAltSvc, TypeOK, Remove, Caches
  <2> QED
    BY <1>1, <1>2, <2>1
<1>6. ASSUME NEW q \in Requests, TcpResponse(q) PROVE AdvertInv'
  <2>1. /\ pc[q] = "tcp_wait"
        /\ pc'[q] = "tcp_response"
        /\ UNCHANGED <<probe, retired>>
    BY <1>6 DEF TcpResponse, TypeOK, Goto, history
  <2>2. \A o \in Origins :
          \/ altSvcCache'[o] \in {altSvcCache[o], NoEntry}
          \/ /\ altSvcCache'[o].from = q
             /\ o = Origin(q)
             /\ job[q].scheme = "https"
    <3>1. CASE altSvcCache' = Remove(altSvcCache, Origin(q))
      BY <3>1 DEF Remove, TypeOK, Caches
    <3>2. ASSUME NEW maxAge \in MaxAges,
                 job[q].scheme = "https",
                 altSvcCache' = Insert(altSvcCache, Origin(q),
                                  [from |-> q, expires |-> clock + maxAge])
          PROVE  \A o \in Origins :
                   \/ altSvcCache'[o] = altSvcCache[o]
                   \/ /\ altSvcCache'[o].from = q
                      /\ o = Origin(q)
                      /\ job[q].scheme = "https"
      BY <3>2 DEF Insert, TypeOK, Caches
    <3> QED
      BY <1>6, <3>1, <3>2 DEF TcpResponse, MaybeUpdateAltSvc
  <2> QED
    BY <1>1, <1>2, <2>1, <2>2
<1> QED
  BY <1>3, <1>4, <1>5, <1>6 DEF Next, Terminated

LEMMA AdvertInit == Init => AdvertInv
BY DEF Init, EmptyCache, Probe, AdvertInv, AdvertProvenance, RetiredStayOut,
       ProbeAdverts, RetiredResponses

LEMMA AdvertCorrect == Spec => []AdvertInv
BY TypeInit, TypeStep, AdvertInit, AdvertStep, PTL DEF Spec

\* Only an https response of the origin itself gets an entry into its slot.
THEOREM AdvertsComeFromTheirOrigin == Spec => []AdvertProvenance
BY AdvertCorrect, PTL DEF AdvertInv

\* An alternative an attempt has failed with is not offered a second time.
THEOREM RetiredAdvertsStayOut == Spec => []RetiredStayOut
BY AdvertCorrect, PTL DEF AdvertInv
-----------------------------------------------------------------------------
(* The instants requests carry.  A request never holds an instant of the   *)
(* future, and it stamps its cleanups no earlier than its start.           *)

Instants(r) ==
  /\ now[r] <= clock
  /\ pc[r] = "insert_negative" => cleanup[r].stamp >= now[r]

\* Only a request that has begun is penalised, so its `now` is final.
PenalisedBegan == \A r \in penalised : pc[r] # "new"

InstantInv == (\A r \in Requests : Instants(r)) /\ PenalisedBegan

\* `now` is read once, when the call begins.
LEMMA NowRead ==
  ASSUME TypeOK, NEW q \in Requests, Step(q)
  PROVE  \/ now'[q] = now[q]
         \/ pc[q] = "new" /\ now'[q] = clock
BY DEF TypeOK, Step, Begin, Run, Answer, Expire, RejectInvalid, StartH3,
       SkipH3, NegativeCacheHit, AltSvcEntry, HttpsRrEntry, LookupAnswered,
       LookupFailed, HandshakeFailed, StreamOpened, StreamFailed, H3Response,
       H3Elapsed, H3Timeout, Drop, InsertNegative, EvictAltSvc, StartTcp,
       TcpSent, TcpResponse, TcpFailed, TcpElapsed

\* A call that has begun does not return to its beginning.
LEMMA Begun ==
  ASSUME TypeOK, NEW q \in Requests, Step(q)
  PROVE  pc'[q] # "new"
BY DEF TypeOK, Goto, Step, Begin, Run, Answer, Expire, RejectInvalid, StartH3,
       SkipH3, NegativeCacheHit, AltSvcEntry, UseHttpsRr, HttpsRrEntry,
       LookupAnswered, LookupFailed, HandshakeFailed, StreamOpened,
       StreamFailed, H3Response, GiveUp, CancelH3, H3Elapsed, H3Timeout, Drop,
       InsertNegative, EvictAltSvc, StartTcp, TcpSent, TcpResponse, TcpFailed,
       TcpElapsed, Cleanups, Continuations

\* Who enters insert_negative brings the `now` it began with or the clock.
LEMMA StampTaken ==
  ASSUME TypeOK, NEW q \in Requests, Step(q), pc'[q] = "insert_negative"
  PROVE  now'[q] = now[q] /\ cleanup'[q].stamp \in {now[q], clock}
<1> USE DEF TypeOK, Goto
<1>1. ~Begin(q)
  BY DEF Begin, RejectInvalid, StartH3, SkipH3
<1>2. CASE Run(q)
  <2>1. ~EvictAltSvc(q)
    BY DEF EvictAltSvc, Cleanups, Continuations
  <2>2. H3Timeout(q)
    BY <1>2, <2>1
    DEF Run, NegativeCacheHit, AltSvcEntry, UseHttpsRr, HttpsRrEntry,
        InsertNegative, StartTcp
  <2> QED
    BY <2>2 DEF H3Timeout
<1>3. CASE Answer(q) \/ Expire(q) \/ Drop(q)
  <2>1. CASE GiveUp(q)
    <3>1. now' = now
      BY <1>3
      DEF Answer, Expire, LookupAnswered, LookupFailed, HandshakeFailed,
          StreamOpened, StreamFailed, H3Response, H3Elapsed, Drop, TcpSent,
          TcpResponse, TcpFailed, TcpElapsed
    <3> QED
      BY <2>1, <3>1 DEF GiveUp
  <2>2. CASE H3Elapsed(q) \/ Drop(q)
    BY <2>2 DEF H3Elapsed, Drop, CancelH3, Cleanups
  <2>3. CASE ~GiveUp(q) /\ ~H3Elapsed(q) /\ ~Drop(q)
    BY <1>3, <2>3
    DEF Answer, Expire, LookupAnswered, UseHttpsRr, LookupFailed,
        HandshakeFailed, StreamOpened, StreamFailed, H3StreamFailureAction,
        H3Response, TcpSent, TcpResponse, TcpFailed, TcpElapsed
  <2> QED
    BY <2>1, <2>2, <2>3
<1> QED
  BY <1>1, <1>2, <1>3 DEF Step

\* insert_negative is what penalises.
LEMMA PenaltyKept ==
  ASSUME NEW q \in Requests, Step(q), ~InsertNegative(q)
  PROVE  penalised' = penalised
BY DEF history, caches, Step, Begin, Run, Answer, Expire, RejectInvalid,
       StartH3, SkipH3, NegativeCacheHit, AltSvcEntry, HttpsRrEntry,
       LookupAnswered, LookupFailed, HandshakeFailed, StreamOpened,
       StreamFailed, H3Response, H3Elapsed, H3Timeout, Drop, EvictAltSvc,
       StartTcp, TcpSent, TcpResponse, TcpFailed, TcpElapsed

LEMMA InstantStep == TypeOK /\ InstantInv /\ [Next]_vars => InstantInv'
<1> SUFFICES ASSUME TypeOK, InstantInv, [Next]_vars PROVE InstantInv'
  OBVIOUS
<1> USE DEF InstantInv, Instants, PenalisedBegan
<1>1. ASSUME NEW q \in Requests, Step(q) PROVE InstantInv'
  <2>1. \A r \in Requests : Instants(r)'
    BY <1>1, OthersKept, NowRead, StampTaken DEF TypeOK
  <2>2. penalised' \subseteq penalised \cup {q}
    BY <1>1, PenaltyKept DEF InsertNegative
  <2>3. PenalisedBegan'
    BY <1>1, <2>2, Begun, OthersKept DEF TypeOK
  <2> QED
    BY <2>1, <2>3
<1>2. CASE Tick \/ UNCHANGED vars
  BY <1>2 DEF Tick, vars, TypeOK, history
<1> QED
  BY <1>1, <1>2 DEF Next, Terminated

LEMMA InstantInit == Init => InstantInv
BY DEF Init, InstantInv, Instants, PenalisedBegan

LEMMA InstantCorrect == Spec => [](TypeOK /\ InstantInv)
BY TypeInit, TypeStep, InstantInit, InstantStep, PTL DEF Spec
-----------------------------------------------------------------------------
(* What is still in force is not removed.  A lookup removes an entry that  *)
(* had expired by the `now` of its request, hence by now.                  *)

\* The only removals are those of the two lookups.
LEMMA NegativeKept ==
  ASSUME NEW q \in Requests, Step(q),
         ~NegativeCacheHit(q), ~InsertNegative(q)
  PROVE  negativeCache' = negativeCache
BY DEF caches, Step, Begin, Run, Answer, Expire, RejectInvalid, StartH3,
       SkipH3, AltSvcEntry, HttpsRrEntry, LookupAnswered, LookupFailed,
       HandshakeFailed, StreamOpened, StreamFailed, H3Response, H3Elapsed,
       H3Timeout, Drop, EvictAltSvc, StartTcp, TcpSent, TcpResponse,
       TcpFailed, TcpElapsed

LEMMA HttpsRrKept ==
  ASSUME NEW q \in Requests, Step(q),
         ~HttpsRrEntry(q), ~LookupAnswered(q)
  PROVE  httpsRrCache' = httpsRrCache
BY DEF caches, Step, Begin, Run, Answer, Expire, RejectInvalid, StartH3,
       SkipH3, NegativeCacheHit, AltSvcEntry, InsertNegative, LookupFailed,
       HandshakeFailed, StreamOpened, StreamFailed, H3Response, H3Elapsed,
       H3Timeout, Drop, EvictAltSvc, StartTcp, TcpSent, TcpResponse,
       TcpFailed, TcpElapsed

\* What insert_negative writes.
LEMMA NegativeWritten ==
  ASSUME TypeOK, NEW q \in Requests, InsertNegative(q)
  PROVE  /\ negativeCache'[Origin(q)] # NoEntry
         /\ negativeCache'[Origin(q)].expires
              = cleanup[q].stamp + NegativeDuration
         /\ \A o \in Origins \ {Origin(q)} :
              negativeCache'[o] = negativeCache[o]
<1> DEFINE entry == [expires |-> cleanup[q].stamp + NegativeDuration]
<1>1. entry \in NegativeEntries
  BY SendAssumption DEF TypeOK, Cleanups, NegativeEntries
<1>2. entry # NoEntry
  BY <1>1, NoEntryAssumption
<1>3. negativeCache' = [negativeCache EXCEPT ![Origin(q)] = entry]
  BY DEF InsertNegative, Insert
<1> QED
  BY <1>2, <1>3, OriginType DEF TypeOK, Caches

\* A lookup takes out the entry of its own origin, if it has expired.
LEMMA NegativeLookedUp ==
  ASSUME TypeOK, InstantInv, NEW q \in Requests, NegativeCacheHit(q),
         NEW o \in Origins
  PROVE  \/ negativeCache'[o] = negativeCache[o]
         \/ /\ negativeCache'[o] = NoEntry
            /\ ~Hit(negativeCache, o, clock)
<1>1. CASE o # Origin(q)
  BY <1>1 DEF NegativeCacheHit, Remove, TypeOK, Caches
<1>2. CASE o = Origin(q) /\ Hit(negativeCache, o, now[q])
  BY <1>2 DEF NegativeCacheHit
<1>3. CASE o = Origin(q) /\ ~Hit(negativeCache, o, now[q])
  <2>1. negativeCache'[o] = NoEntry
    BY <1>3 DEF NegativeCacheHit, Remove, TypeOK, Caches
  <2>2. ~Hit(negativeCache, o, clock)
    <3>1. now[q] <= clock /\ now[q] \in Nat /\ clock \in Nat
      BY DEF InstantInv, Instants, TypeOK
    <3>2. negativeCache[o] # NoEntry => negativeCache[o].expires \in Nat
      BY DEF TypeOK, Caches, NegativeEntries
    <3> QED
      BY <1>3, <3>1, <3>2 DEF Hit, Fresh
  <2> QED
    BY <2>1, <2>2
<1> QED
  BY <1>1, <1>2, <1>3

FreshKept ==
  \A o \in Origins :
    /\ Hit(negativeCache, o, clock) => negativeCache'[o] # NoEntry
    /\ Hit(httpsRrCache, o, clock) => httpsRrCache'[o] # NoEntry

LEMMA FreshStep == TypeOK /\ InstantInv /\ [Next]_vars => FreshKept
<1> SUFFICES ASSUME TypeOK, InstantInv, [Next]_vars, NEW o \in Origins
             PROVE  /\ Hit(negativeCache, o, clock) =>
                         negativeCache'[o] # NoEntry
                    /\ Hit(httpsRrCache, o, clock) =>
                         httpsRrCache'[o] # NoEntry
  BY DEF FreshKept
<1>1. ASSUME NEW q \in Requests, Step(q), Hit(negativeCache, o, clock)
      PROVE  negativeCache'[o] # NoEntry
  <2>1. CASE NegativeCacheHit(q)
    BY <1>1, <2>1, NegativeLookedUp DEF Hit
  <2>2. CASE InsertNegative(q)
    BY <1>1, <2>2, NegativeWritten DEF Hit
  <2> QED
    BY <1>1, <2>1, <2>2, NegativeKept DEF Hit
<1>2. ASSUME NEW q \in Requests, Step(q), Hit(httpsRrCache, o, clock)
      PROVE  httpsRrCache'[o] # NoEntry
  <2>1. CASE HttpsRrEntry(q)
    <3>1. /\ now[q] <= clock /\ now[q] \in Nat /\ clock \in Nat
          /\ httpsRrCache[o].expires \in Nat
      BY <1>2 DEF InstantInv, Instants, TypeOK, Hit, Caches, HttpsRrEntries
    <3>2. Hit(httpsRrCache, o, now[q])
      BY <1>2, <3>1 DEF Hit, Fresh
    <3>3. CASE o = Origin(q)
      BY <1>2, <2>1, <3>2, <3>3 DEF HttpsRrEntry, Hit
    <3>4. CASE o # Origin(q)
      <4>1. httpsRrCache'[o] = httpsRrCache[o]
        BY <2>1, <3>4 DEF HttpsRrEntry, Remove, TypeOK, Caches
      <4> QED
        BY <1>2, <4>1 DEF Hit
    <3> QED
      BY <3>3, <3>4
  <2>2. CASE LookupAnswered(q)
    <3>1. PICK hasH3 \in BOOLEAN, ttl \in Ttls :
            httpsRrCache' = Insert(httpsRrCache, Origin(q),
                              [hasH3 |-> hasH3, expires |-> clock + ttl])
      BY <2>2 DEF LookupAnswered
    <3>2. [hasH3 |-> hasH3, expires |-> clock + ttl] \in HttpsRrEntries
      BY SendAssumption DEF TypeOK, HttpsRrEntries
    <3>3. [hasH3 |-> hasH3, expires |-> clock + ttl] # NoEntry
      BY <3>2, NoEntryAssumption
    <3> QED
      BY <1>2, <3>1, <3>3 DEF Insert, Hit, TypeOK, Caches
  <2> QED
    BY <1>2, <2>1, <2>2, HttpsRrKept DEF Hit
<1>3. CASE Tick \/ UNCHANGED vars
  BY <1>3 DEF Tick, vars, caches, Hit
<1> QED
  BY <1>1, <1>2, <1>3 DEF Next, Terminated

\* No step removes a negative or HTTPS-RR entry that is still in force.
THEOREM FreshEntriesAreKept == Spec => FreshEntriesKept
<1>1. TypeOK /\ InstantInv /\ [Next]_vars => [FreshKept]_vars
  BY FreshStep
<1> QED
  BY <1>1, InstantCorrect, PTL DEF Spec, FreshEntriesKept, FreshKept
-----------------------------------------------------------------------------
(* The shared window.  While all penalised requests of an origin are in    *)
(* their windows, its entry lasts at least to the end of one of them: every *)
(* overwrite is stamped no earlier than its own request began.             *)

Covered(o, q) ==
  negativeCache[o] # NoEntry
    /\ negativeCache[o].expires >= now[q] + NegativeDuration

WindowOf(o) ==
  /\ PenalisedAt(o) # {}
  /\ \A r \in PenalisedAt(o) : WindowOpen(r)
  => \E q \in PenalisedAt(o) : Covered(o, q)

WindowInv == \A o \in Origins : WindowOf(o)

LEMMA WindowStep ==
  TypeOK /\ InstantInv /\ WindowInv /\ [Next]_vars => WindowInv'
<1> SUFFICES ASSUME TypeOK, InstantInv, WindowInv, [Next]_vars,
                    NEW o \in Origins
             PROVE  WindowOf(o)'
  BY DEF WindowInv
<1>0. /\ WindowOf(o)
      /\ clock \in Nat /\ NegativeDuration \in Nat
      /\ \A r \in Requests : now[r] \in Nat
      /\ PenalisedAt(o) \subseteq Requests
  BY SendAssumption DEF WindowInv, TypeOK, PenalisedAt
<1>1. ASSUME NEW q \in Requests, Step(q) PROVE WindowOf(o)'
  <2>1. /\ clock' = clock /\ job' = job
        /\ \A r \in penalised : now'[r] = now[r]
    BY <1>1, OthersKept, NowRead DEF InstantInv, PenalisedBegan, TypeOK
  <2>2. CASE InsertNegative(q)
    <3>1. /\ penalised' = penalised \cup {q}
          /\ now' = now
          /\ cleanup[q].stamp >= now[q]
          /\ cleanup[q].stamp \in Nat
      BY <2>2 DEF InsertNegative, InstantInv, Instants, TypeOK, Cleanups
    <3>2. CASE o = Origin(q)
      <4>1. q \in PenalisedAt(o)'
        BY <2>1, <3>1, <3>2 DEF PenalisedAt, Origin
      <4>2. Covered(o, q)'
        BY <1>0, <2>2, <3>1, <3>2, NegativeWritten DEF Covered
      <4> QED
        BY <4>1, <4>2 DEF WindowOf
    <3>3. CASE o # Origin(q)
      <4>1. PenalisedAt(o)' = PenalisedAt(o)
        BY <2>1, <3>1, <3>3 DEF PenalisedAt, Origin
      <4>2. negativeCache'[o] = negativeCache[o]
        BY <2>2, <3>3, NegativeWritten
      <4> QED
        BY <1>0, <2>1, <3>1, <4>1, <4>2
        DEF WindowOf, WindowOpen, Covered
    <3> QED
      BY <3>2, <3>3
  <2>3. CASE ~InsertNegative(q)
    <3>1. penalised' = penalised
      BY <1>1, <2>3, PenaltyKept
    <3>2. PenalisedAt(o)' = PenalisedAt(o)
      BY <2>1, <3>1 DEF PenalisedAt, Origin
    <3>3. \A r \in PenalisedAt(o) : now'[r] = now[r]
      BY <2>1 DEF PenalisedAt
    <3>4. CASE negativeCache'[o] = negativeCache[o]
      <4>1. \A r \in PenalisedAt(o) : /\ WindowOpen(r)' = WindowOpen(r)
                                     /\ Covered(o, r)' = Covered(o, r)
        BY <2>1, <3>3, <3>4 DEF WindowOpen, Covered
      <4> QED
        BY <1>0, <3>2, <4>1 DEF WindowOf
    <3>5. CASE ~Hit(negativeCache, o, clock)
      <4>1. ASSUME NEW p \in PenalisedAt(o), Covered(o, p)
            PROVE  ~WindowOpen(p)
        <5>1. negativeCache[o].expires \in Nat
          BY <4>1 DEF Covered, TypeOK, Caches, NegativeEntries
        <5> QED
          BY <1>0, <3>5, <4>1, <5>1 DEF Covered, Hit, Fresh, WindowOpen
      <4>2. \A r \in PenalisedAt(o) : WindowOpen(r)' = WindowOpen(r)
        BY <2>1, <3>3 DEF WindowOpen
      <4> QED
        BY <1>0, <3>2, <4>1, <4>2 DEF WindowOf
    <3> QED
      BY <1>1, <2>3, <3>4, <3>5, NegativeKept, NegativeLookedUp
  <2> QED
    BY <2>2, <2>3
<1>2. CASE Tick
  <2>1. /\ UNCHANGED <<negativeCache, job, now, penalised>>
        /\ clock' = clock + 1
    BY <1>2 DEF Tick, caches, history
  <2>2. PenalisedAt(o)' = PenalisedAt(o)
    BY <2>1 DEF PenalisedAt, Origin
  <2>3. \A r \in PenalisedAt(o) : WindowOpen(r)' => WindowOpen(r)
    BY <1>0, <2>1 DEF WindowOpen
  <2> QED
    BY <1>0, <2>1, <2>2, <2>3 DEF WindowOf, Covered
<1>3. CASE UNCHANGED vars
  BY <1>0, <1>3 DEF vars, WindowOf, WindowOpen, Covered, PenalisedAt, Origin
<1> QED
  BY <1>1, <1>2, <1>3 DEF Next, Terminated

LEMMA WindowInit == Init => WindowInv
BY DEF Init, WindowInv, WindowOf, PenalisedAt

\* HTTP/3 stays suppressed for an origin as long as the windows of all the
\* requests that failed with it are open.
THEOREM SharedWindowSuppresses == Spec => []SuppressedInSharedWindow
<1>1. TypeOK /\ InstantInv /\ WindowInv => SuppressedInSharedWindow
  <2> SUFFICES ASSUME TypeOK, InstantInv, WindowInv, NEW o \in Origins,
                      PenalisedAt(o) # {},
                      \A r \in PenalisedAt(o) : WindowOpen(r)
               PROVE  Hit(negativeCache, o, clock)
    BY DEF SuppressedInSharedWindow
  <2>1. PICK q \in PenalisedAt(o) : Covered(o, q)
    BY DEF WindowInv, WindowOf
  <2>2. now[q] \in Nat /\ clock \in Nat /\ NegativeDuration \in Nat
    BY SendAssumption DEF TypeOK, PenalisedAt
  <2>3. negativeCache[o].expires \in Nat
    BY <2>1 DEF Covered, TypeOK, Caches, NegativeEntries
  <2> QED
    BY <2>1, <2>2, <2>3 DEF Covered, WindowOpen, Hit, Fresh
<1> QED
  BY <1>1, InstantCorrect, WindowInit, WindowStep, PTL DEF Spec
-----------------------------------------------------------------------------
(* Attempts that yielded no response: besides the steps of the property,   *)
(* the two at which insert_negative has already written the entry.         *)

Blamed(r) ==
  /\ probe[r].route # "none"
  /\ pc[r] \in {"https_rr", "lookup", "start_tcp", "evict_alt_svc", "elapsed"}
               \cup TcpAwaits \cup (Returned \ {"h3_response"})
  => r \in penalised

BlameInv == \A r \in Requests : Blamed(r)

LEMMA BlameStep ==
  TypeOK /\ PhaseInv /\ BlameInv /\ [Next]_vars => BlameInv'
<1> SUFFICES ASSUME TypeOK, PhaseInv, BlameInv, [Next]_vars,
                    NEW q \in Requests
             PROVE  Blamed(q)'
  BY DEF BlameInv
<1> USE DEF Goto, TcpAwaits, Returned
<1>0. /\ Blamed(q)
      /\ PhaseOf(q)
      /\ pc[q] \in Steps
  BY DEF BlameInv, PhaseInv, TypeOK
<1>1. ASSUME NEW r \in Requests, Step(r) PROVE penalised \subseteq penalised'
  BY <1>1, PenaltyKept DEF InsertNegative
<1>2. ASSUME NEW r \in Requests, r # q, Step(r) PROVE Blamed(q)'
  BY <1>0, <1>1, <1>2, OthersKept DEF Blamed
<1>3. ASSUME Step(q) PROVE Blamed(q)'
  <2>1. CASE Begin(q)
    BY <1>0, <1>1, <2>1
    DEF Begin, RejectInvalid, StartH3, SkipH3, Blamed, PhaseOf, TypeOK, Step
  <2>2. CASE \/ NegativeCacheHit(q) \/ H3Timeout(q) \/ StartTcp(q)
    BY <1>0, <1>1, <1>3, <2>2
    DEF NegativeCacheHit, H3Timeout, StartTcp, Blamed, PhaseOf, TypeOK
  <2>3. CASE InsertNegative(q)
    BY <2>3 DEF InsertNegative, Blamed
  <2>4. CASE EvictAltSvc(q)
    <3>1. probe' = probe /\ pc[q] = "evict_alt_svc"
      BY <2>4 DEF EvictAltSvc
    <3> QED
      BY <1>0, <1>1, <1>3, <3>1 DEF Blamed
  <2>5. CASE AltSvcEntry(q)
    BY <1>0, <2>5 DEF AltSvcEntry, Blamed, PhaseOf, TypeOK
  <2>6. CASE HttpsRrEntry(q) \/ LookupAnswered(q) \/ LookupFailed(q)
    <3>1. /\ pc[q] \in {"https_rr", "lookup"}
          /\ \/ pc' = [pc EXCEPT ![q] = "connect"]
             \/ probe' = probe
      BY <2>6 DEF HttpsRrEntry, LookupAnswered, LookupFailed, UseHttpsRr
    <3> QED
      BY <1>0, <1>1, <1>3, <3>1 DEF Blamed, TypeOK
  <2>7. CASE \/ HandshakeFailed(q) \/ StreamOpened(q) \/ StreamFailed(q)
             \/ H3Response(q)
    <3>1. \/ pc' = [pc EXCEPT ![q] = "insert_negative"]
          \/ pc' = [pc EXCEPT ![q] = "connect"]
          \/ pc' = [pc EXCEPT ![q] = "stream"]
          \/ pc' = [pc EXCEPT ![q] = "h3_response"]
      BY <2>7
      DEF HandshakeFailed, StreamOpened, StreamFailed, H3Response, GiveUp
    <3> QED
      BY <3>1 DEF Blamed, TypeOK
  <2>8. CASE H3Elapsed(q) \/ Drop(q)
    <3>1. /\ probe' = probe
          /\ \/ pc[q] \in {"lookup"} \cup TcpAwaits
             \/ pc' = [pc EXCEPT ![q] = "insert_negative"]
      BY <2>8 DEF H3Elapsed, Drop, CancelH3, GuardArmed, H3Awaits
    <3> QED
      BY <1>0, <1>1, <1>3, <3>1 DEF Blamed, TypeOK
  <2>9. CASE \/ TcpSent(q) \/ TcpResponse(q) \/ TcpFailed(q)
             \/ TcpElapsed(q)
    <3>1. probe' = probe /\ pc[q] \in TcpAwaits
      BY <2>9 DEF TcpSent, TcpResponse, TcpFailed, TcpElapsed
    <3> QED
      BY <1>0, <1>1, <1>3, <3>1 DEF Blamed
  <2> QED
    BY <1>3, <2>1, <2>2, <2>3, <2>4, <2>5, <2>6, <2>7, <2>8, <2>9
    DEF Step, Run, Answer, Expire
<1>4. CASE Tick \/ UNCHANGED vars
  BY <1>0, <1>4 DEF Tick, vars, history, Blamed
<1> QED
  BY <1>2, <1>3, <1>4 DEF Next, Terminated

LEMMA BlameInit == Init => BlameInv
BY DEF Init, BlameInv, Blamed, Probe

\* Whatever ends an attempt without a response, its origin is penalised by
\* the time the request goes on or is over.
THEOREM FailedAttemptsArePenalised == Spec => []AttemptsPenalised
<1>1. BlameInv => AttemptsPenalised
  BY DEF BlameInv, Blamed, AttemptsPenalised
<1> QED
  BY <1>1, PhaseCorrect, BlameInit, BlameStep, PTL DEF Spec
=============================================================================
