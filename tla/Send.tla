-------------------------------- MODULE Send --------------------------------
(***************************************************************************)
(* RequestBuilder::send (src/src/request.rs): the concurrent requests of   *)
(* one Client, each deciding between opportunistic HTTP/3 and the TCP/TLS  *)
(* path with the help of the caches they share.                            *)
(*                                                                         *)
(* An action is a maximal piece of a handler that other tasks cannot       *)
(* interleave with: it ends at an `.await` or where a cache lock is        *)
(* released.  What the network does to an HTTP/3 attempt or to hyper's     *)
(* request future is a choice among the results those futures can have.    *)
(* Lock poisoning and the overflow of Instant + Duration: SendOverflow.    *)
(***************************************************************************)
EXTENDS OriginCaches

CONSTANTS NoTimeout,        \* Option::<Duration>::None
          Http3Enabled,     \* ClientInner::http3_enabled
          DefaultTimeout,   \* ClientInner::default_timeout
          NegativeDuration, \* ClientInner::http3_negative_cache_duration
          Jobs,             \* the configured builders send() is called on
          MaxAges,          \* the `ma` values servers advertise
          Ttls,             \* the lifetimes HTTPS RRs are answered with
          MaxTime           \* bound on the clock

Timeouts == Nat \cup {NoTimeout}

Bodies == {"empty", "replayable", "streaming"}

\* What the chain of builder calls leaves behind: whether a deferred error
\* or an invalid URL is stored, the URL's scheme and origin, the kind of the
\* RequestPayload and the per-request timeout.
JobSpace == [valid : BOOLEAN, scheme : {"http", "https"}, origin : Origins,
             body : Bodies, timeout : Timeouts]

ASSUME SendAssumption ==
  /\ NoTimeout \notin Nat
  /\ Http3Enabled \in BOOLEAN
  /\ DefaultTimeout \in Timeouts
  /\ NegativeDuration \in Nat
  /\ Jobs \subseteq JobSpace
  /\ MaxAges \subseteq Nat
  /\ Ttls \subseteq Nat
  /\ MaxTime \in Nat

VARIABLES
  clock,          \* the monotonic clock Instant::now() reads
  negativeCache,  \* ClientInner::negative_cache
  altSvcCache,    \* ClientInner::alt_svc_cache
  httpsRrCache,   \* ClientInner::https_rr_cache
  job,            \* the builder each request was configured with
  pc,             \* where each call of send() is
  now,            \* the instant send() began: `now` of try_http3
  deadline,       \* when the tokio::time::timeout in force fires
  probe,          \* the HTTP/3 attempt of request_http3_with_stale_retry
  cleanup,        \* the insert_negative call in progress
  sent,           \* how often request bytes were put on the wire
  penalised,      \* history: requests that inserted a negative entry
  retired         \* history: Alt-Svc alternatives an attempt failed with

caches == <<negativeCache, altSvcCache, httpsRrCache>>
history == <<penalised, retired>>
vars == <<clock, negativeCache, altSvcCache, httpsRrCache, job, pc, now,
          deadline, probe, cleanup, sent, penalised, retired>>
-----------------------------------------------------------------------------
\* The awaits at which a request can be timed out or dropped.
H3Awaits == {"connect", "stream", "lookup"}
TcpAwaits == {"tcp", "tcp_wait"}

\* send() has returned, or its future has been dropped.
Returned == {"invalid", "h3_response", "tcp_response", "tcp_error",
             "timeout", "dropped"}

\* Between two awaits: nothing but the task itself makes progress here.
Synchronous == {"negative", "alt_svc", "https_rr", "insert_negative",
                "evict_alt_svc", "elapsed", "start_tcp"}

Steps == {"new"} \cup Synchronous \cup H3Awaits \cup TcpAwaits \cup Returned

Routes == {"none", "alt_svc", "https_rr"}

Probes == [route : Routes, advert : Requests \cup {NoEntry}, attempt : 0..1]

Probe(route, advert) == [route |-> route, advert |-> advert, attempt |-> 0]

Continuations == {"https_rr", "start_tcp", "elapsed", "timeout", "dropped"}

Cleanups == [stamp : Nat, after : Continuations]

Origin(r) == job[r].origin

Timeout(r) ==
  IF job[r].timeout # NoTimeout THEN job[r].timeout ELSE DefaultTimeout

\* tokio::time::timeout(d, ..) started now; None never fires.
DeadlineFrom(r) ==
  IF Timeout(r) = NoTimeout THEN NoTimeout ELSE clock + Timeout(r)

Elapsed(r) == deadline[r] # NoTimeout /\ clock >= deadline[r]

\* A slip: a streaming body may go over HTTP/3 too.
FaultyUsesH3(j) == Http3Enabled /\ j.scheme = "https"

\* http3_enabled, Origin::from_uri and replayable_for_h3 together.
UsesH3(j) == Http3Enabled /\ j.scheme = "https" /\ j.body # "streaming"

\* A slip: the first failure is retried whatever it was.
FaultyH3StreamFailureAction(retryWithoutH3, attempt) ==
  IF attempt = 0 THEN "RetryFreshH3" ELSE "UseTcp"

\* A slip: the attempt budget is ignored.
FaultyH3StreamFailureBudget(retryWithoutH3, attempt) ==
  IF retryWithoutH3 THEN "RetryFreshH3" ELSE "UseTcp"

H3StreamFailureAction(retryWithoutH3, attempt) ==
  IF retryWithoutH3 /\ attempt = 0 THEN "RetryFreshH3" ELSE "UseTcp"

\* A slip: try_http3 starts over instead of going on.
FaultyAfterProbe(route) == "https_rr"

\* Where try_http3 goes on when a route yielded no response.
AfterProbe(route) == IF route = "alt_svc" THEN "https_rr" ELSE "start_tcp"

Goto(r, step) == pc' = [pc EXCEPT ![r] = step]
-----------------------------------------------------------------------------
Init ==
  /\ clock = 0
  /\ negativeCache = EmptyCache
  /\ altSvcCache = EmptyCache
  /\ httpsRrCache = EmptyCache
  /\ job \in [Requests -> Jobs]
  /\ pc = [r \in Requests |-> "new"]
  /\ now = [r \in Requests |-> 0]
  /\ deadline = [r \in Requests |-> NoTimeout]
  /\ probe = [r \in Requests |-> Probe("none", NoEntry)]
  /\ cleanup = [r \in Requests |-> [stamp |-> 0, after |-> "start_tcp"]]
  /\ sent = [r \in Requests |-> 0]
  /\ penalised = {}
  /\ retired = {}

\* A deferred builder error or an invalid URL returns before any I/O.
RejectInvalid(r) ==
  /\ pc[r] = "new"
  /\ ~job[r].valid
  /\ Goto(r, "invalid")
  /\ UNCHANGED <<clock, caches, job, now, deadline, probe, cleanup, sent,
                 history>>

\* A slip: the attempt is not put under the timeout.
FaultyStartH3(r) ==
  /\ pc[r] = "new"
  /\ job[r].valid
  /\ UsesH3(job[r])
  /\ now' = [now EXCEPT ![r] = clock]
  /\ Goto(r, "negative")
  /\ UNCHANGED <<clock, caches, job, deadline, probe, cleanup, sent, history>>

\* The timeout around try_http3 starts, and try_http3 reads the clock.
StartH3(r) ==
  /\ pc[r] = "new"
  /\ job[r].valid
  /\ UsesH3(job[r])
  /\ now' = [now EXCEPT ![r] = clock]
  /\ deadline' = [deadline EXCEPT ![r] = DeadlineFrom(r)]
  /\ Goto(r, "negative")
  /\ UNCHANGED <<clock, caches, job, probe, cleanup, sent, history>>

SkipH3(r) ==
  /\ pc[r] = "new"
  /\ job[r].valid
  /\ ~UsesH3(job[r])
  /\ now' = [now EXCEPT ![r] = clock]
  /\ Goto(r, "start_tcp")
  /\ UNCHANGED <<clock, caches, job, deadline, probe, cleanup, sent, history>>
-----------------------------------------------------------------------------
(* try_http3: the cache lookups, each under its lock, all against `now`.   *)

\* A slip: the entry is taken out even when it is still in force.
FaultyNegativeCacheHit(r) ==
  /\ pc[r] = "negative"
  /\ \/ /\ Hit(negativeCache, Origin(r), now[r])
        /\ Goto(r, "start_tcp")
     \/ /\ ~Hit(negativeCache, Origin(r), now[r])
        /\ Goto(r, "alt_svc")
  /\ negativeCache' = Remove(negativeCache, Origin(r))
  /\ UNCHANGED <<clock, altSvcCache, httpsRrCache, job, now, deadline, probe,
                 cleanup, sent, history>>

\* negative_cache_hit
NegativeCacheHit(r) ==
  /\ pc[r] = "negative"
  /\ \/ /\ Hit(negativeCache, Origin(r), now[r])
        /\ Goto(r, "start_tcp")
        /\ UNCHANGED negativeCache
     \/ /\ ~Hit(negativeCache, Origin(r), now[r])
        /\ negativeCache' = Remove(negativeCache, Origin(r))
        /\ Goto(r, "alt_svc")
  /\ UNCHANGED <<clock, altSvcCache, httpsRrCache, job, now, deadline, probe,
                 cleanup, sent, history>>

\* alt_svc_entry; a fresh entry is cloned and the first attempt begins.
AltSvcEntry(r) ==
  /\ pc[r] = "alt_svc"
  /\ \/ /\ Hit(altSvcCache, Origin(r), now[r])
        /\ probe' = [probe EXCEPT
                       ![r] = Probe("alt_svc", altSvcCache[Origin(r)].from)]
        /\ Goto(r, "connect")
        /\ UNCHANGED altSvcCache
     \/ /\ ~Hit(altSvcCache, Origin(r), now[r])
        /\ altSvcCache' = Remove(altSvcCache, Origin(r))
        /\ Goto(r, "https_rr")
        /\ UNCHANGED probe
  /\ UNCHANGED <<clock, negativeCache, httpsRrCache, job, now, deadline,
                 cleanup, sent, history>>

\* What try_http3 does with an HTTPS-RR entry, cached or just looked up.
UseHttpsRr(r, entry) ==
  \/ /\ entry.hasH3
     /\ probe' = [probe EXCEPT ![r] = Probe("https_rr", NoEntry)]
     /\ Goto(r, "connect")
  \/ /\ ~entry.hasH3
     /\ Goto(r, "start_tcp")
     /\ UNCHANGED probe

\* A slip: the entry is removed before its freshness is looked at.
FaultyHttpsRrEntry(r) ==
  /\ pc[r] = "https_rr"
  /\ httpsRrCache' = Remove(httpsRrCache, Origin(r))
  /\ \/ /\ Hit(httpsRrCache, Origin(r), now[r])
        /\ UseHttpsRr(r, httpsRrCache[Origin(r)])
     \/ /\ ~Hit(httpsRrCache, Origin(r), now[r])
        /\ Goto(r, "lookup")
        /\ UNCHANGED probe
  /\ UNCHANGED <<clock, negativeCache, altSvcCache, job, now, deadline,
                 cleanup, sent, history>>

\* https_rr_entry up to the DNS query
HttpsRrEntry(r) ==
  /\ pc[r] = "https_rr"
  /\ \/ /\ Hit(httpsRrCache, Origin(r), now[r])
        /\ UseHttpsRr(r, httpsRrCache[Origin(r)])
        /\ UNCHANGED httpsRrCache
     \/ /\ ~Hit(httpsRrCache, Origin(r), now[r])
        /\ httpsRrCache' = Remove(httpsRrCache, Origin(r))
        /\ Goto(r, "lookup")
        /\ UNCHANGED probe
  /\ UNCHANGED <<clock, negativeCache, altSvcCache, job, now, deadline,
                 cleanup, sent, history>>

\* https_rr::lookup found a record: it is cached and used as it is, with no
\* freshness test, whether or not it advertises h3.
LookupAnswered(r) ==
  /\ pc[r] = "lookup"
  /\ \E hasH3 \in BOOLEAN, ttl \in Ttls :
       LET entry == [hasH3 |-> hasH3, expires |-> clock + ttl]
       IN  /\ httpsRrCache' = Insert(httpsRrCache, Origin(r), entry)
           /\ UseHttpsRr(r, entry)
  /\ UNCHANGED <<clock, negativeCache, altSvcCache, job, now, deadline,
                 cleanup, sent, history>>

\* No record, a DNS error, or H3_HTTPS_RR_LOOKUP_TIMEOUT: nothing is cached.
LookupFailed(r) ==
  /\ pc[r] = "lookup"
  /\ Goto(r, "start_tcp")
  /\ UNCHANGED <<clock, caches, job, now, deadline, probe, cleanup, sent,
                 history>>
-----------------------------------------------------------------------------
(* request_http3_with_stale_retry: one attempt is Http3State::request.  It *)
(* is at "connect" until the request stream is open and at "stream" from   *)
(* then on; the cancellation guard is armed in both.                       *)

\* A slip: the guard is disarmed as soon as the stream is open.
FaultyGuardArmed(r) == pc[r] = "connect"

GuardArmed(r) == pc[r] \in {"connect", "stream"}

\* insert_negative(.., now) with the instant read before the attempt began.
GiveUp(r) ==
  /\ cleanup' = [cleanup EXCEPT ![r] =
                   [stamp |-> now[r], after |-> AfterProbe(probe[r].route)]]
  /\ Goto(r, "insert_negative")
  /\ UNCHANGED probe

\* Endpoint, address lookup, QUIC handshake or h3 setup failed or timed out.
HandshakeFailed(r) ==
  /\ pc[r] = "connect"
  /\ GiveUp(r)
  /\ UNCHANGED <<clock, caches, job, now, deadline, sent, history>>

\* send_request succeeded within H3_STREAM_OPEN_TIMEOUT.
StreamOpened(r) ==
  /\ pc[r] = "connect"
  /\ sent' = [sent EXCEPT ![r] = @ + 1]
  /\ Goto(r, "stream")
  /\ UNCHANGED <<clock, caches, job, now, deadline, probe, cleanup, history>>

\* Http3AttemptError::Stream: send_request failed before the request was on
\* the wire (retry_without_h3), or upload, finish or recv_response after.
StreamFailed(r) ==
  /\ pc[r] \in {"connect", "stream"}
  /\ LET retryWithoutH3 == pc[r] = "connect"
         action == H3StreamFailureAction(retryWithoutH3, probe[r].attempt)
     IN  \/ /\ action = "RetryFreshH3"
            /\ probe' = [probe EXCEPT ![r].attempt = @ + 1]
            /\ Goto(r, "connect")
            /\ UNCHANGED cleanup
         \/ /\ action = "UseTcp"
            /\ GiveUp(r)
  /\ UNCHANGED <<clock, caches, job, now, deadline, sent, history>>

\* recv_response succeeded: the guard is disarmed and send() returns.
H3Response(r) ==
  /\ pc[r] = "stream"
  /\ Goto(r, "h3_response")
  /\ UNCHANGED <<clock, caches, job, now, deadline, probe, cleanup, sent,
                 history>>
-----------------------------------------------------------------------------
(* The HTTP/3 future is cancelled: by send()'s own timeout or because the  *)
(* caller dropped send().  An armed guard then calls insert_negative with  *)
(* the instant of the cancellation.                                        *)

CancelH3(r, after) ==
  \/ /\ GuardArmed(r)
     /\ cleanup' = [cleanup EXCEPT ![r] = [stamp |-> clock, after |-> after]]
     /\ Goto(r, "insert_negative")
  \/ /\ ~GuardArmed(r)
     /\ Goto(r, after)
     /\ UNCHANGED cleanup

H3Elapsed(r) ==
  /\ pc[r] \in H3Awaits
  /\ Elapsed(r)
  /\ CancelH3(r, "elapsed")
  /\ UNCHANGED <<clock, caches, job, now, deadline, probe, sent, history>>

\* The Err(_) arm around try_http3: a second insert_negative, then Timeout.
H3Timeout(r) ==
  /\ pc[r] = "elapsed"
  /\ cleanup' = [cleanup EXCEPT
                   ![r] = [stamp |-> clock, after |-> "timeout"]]
  /\ Goto(r, "insert_negative")
  /\ UNCHANGED <<clock, caches, job, now, deadline, probe, sent, history>>

\* The caller drops the future of send() at an await.
Drop(r) ==
  /\ pc[r] \in H3Awaits \cup TcpAwaits
  /\ CancelH3(r, "dropped")
  /\ UNCHANGED <<clock, caches, job, now, deadline, probe, sent, history>>

\* insert_negative, its first lock: the map entry is overwritten.
InsertNegative(r) ==
  /\ pc[r] = "insert_negative"
  /\ negativeCache' = Insert(negativeCache, Origin(r),
                        [expires |-> cleanup[r].stamp + NegativeDuration])
  /\ penalised' = penalised \cup {r}
  /\ Goto(r, "evict_alt_svc")
  /\ UNCHANGED <<clock, altSvcCache, httpsRrCache, job, now, deadline, probe,
                 cleanup, sent, retired>>

\* A slip: insert_negative forgets the Alt-Svc cache.
FaultyEvictAltSvc(r) ==
  /\ pc[r] = "evict_alt_svc"
  /\ retired' = retired \cup ({probe[r].advert} \ {NoEntry})
  /\ Goto(r, cleanup[r].after)
  /\ UNCHANGED <<clock, caches, job, now, deadline, probe, cleanup, sent,
                 penalised>>

\* insert_negative, its second lock: whatever Alt-Svc entry is there goes.
EvictAltSvc(r) ==
  /\ pc[r] = "evict_alt_svc"
  /\ altSvcCache' = Remove(altSvcCache, Origin(r))
  /\ retired' = retired \cup ({probe[r].advert} \ {NoEntry})
  /\ Goto(r, cleanup[r].after)
  /\ UNCHANGED <<clock, negativeCache, httpsRrCache, job, now, deadline,
                 probe, cleanup, sent, penalised>>
-----------------------------------------------------------------------------
(* The TCP/TLS path: hyper's request future under a timeout of its own.    *)

\* A slip: only the HTTP/3 phase is put under the timeout.
FaultyStartTcp(r) ==
  /\ pc[r] = "start_tcp"
  /\ deadline' = [deadline EXCEPT ![r] = NoTimeout]
  /\ Goto(r, "tcp")
  /\ UNCHANGED <<clock, caches, job, now, probe, cleanup, sent, history>>

StartTcp(r) ==
  /\ pc[r] = "start_tcp"
  /\ deadline' = [deadline EXCEPT ![r] = DeadlineFrom(r)]
  /\ Goto(r, "tcp")
  /\ UNCHANGED <<clock, caches, job, now, probe, cleanup, sent, history>>

\* A connection is there and the request is written to it.
TcpSent(r) ==
  /\ pc[r] = "tcp"
  /\ sent' = [sent EXCEPT ![r] = @ + 1]
  /\ Goto(r, "tcp_wait")
  /\ UNCHANGED <<clock, caches, job, now, deadline, probe, cleanup, history>>

\* A slip: the header of a plain http response is believed.
FaultyMaybeUpdateAltSvc(r) ==
  \/ UNCHANGED altSvcCache
  \/ altSvcCache' = Remove(altSvcCache, Origin(r))
  \/ \E maxAge \in MaxAges :
       altSvcCache' = Insert(altSvcCache, Origin(r),
                             [from |-> r, expires |-> clock + maxAge])

\* maybe_update_alt_svc: no header or no h3 alternative in it, `clear`, or
\* an alternative; an http URL has no origin and updates nothing.
MaybeUpdateAltSvc(r) ==
  \/ UNCHANGED altSvcCache
  \/ /\ job[r].scheme = "https"
     /\ altSvcCache' = Remove(altSvcCache, Origin(r))
  \/ /\ job[r].scheme = "https"
     /\ \E maxAge \in MaxAges :
          altSvcCache' = Insert(altSvcCache, Origin(r),
                                [from |-> r, expires |-> clock + maxAge])

TcpResponse(r) ==
  /\ pc[r] = "tcp_wait"
  /\ MaybeUpdateAltSvc(r)
  /\ Goto(r, "tcp_response")
  /\ UNCHANGED <<clock, negativeCache, httpsRrCache, job, now, deadline,
                 probe, cleanup, sent, history>>

\* map_legacy_error
TcpFailed(r) ==
  /\ pc[r] \in TcpAwaits
  /\ Goto(r, "tcp_error")
  /\ UNCHANGED <<clock, caches, job, now, deadline, probe, cleanup, sent,
                 history>>

TcpElapsed(r) ==
  /\ pc[r] \in TcpAwaits
  /\ Elapsed(r)
  /\ Goto(r, "timeout")
  /\ UNCHANGED <<clock, caches, job, now, deadline, probe, cleanup, sent,
                 history>>
-----------------------------------------------------------------------------
Tick ==
  /\ clock < MaxTime
  /\ clock' = clock + 1
  /\ UNCHANGED <<caches, job, pc, now, deadline, probe, cleanup, sent,
                 history>>

\* Every send() has returned; nothing is left to run.
Terminated == (\A r \in Requests : pc[r] \in Returned) /\ UNCHANGED vars

\* What a task does once its executor runs it.
Run(r) ==
  \/ NegativeCacheHit(r) \/ AltSvcEntry(r) \/ HttpsRrEntry(r)
  \/ InsertNegative(r) \/ EvictAltSvc(r) \/ H3Timeout(r) \/ StartTcp(r)

\* The calls of send(), the answers of the network and the caller's drops.
Begin(r) == RejectInvalid(r) \/ StartH3(r) \/ SkipH3(r)

Answer(r) ==
  \/ LookupAnswered(r) \/ StreamOpened(r) \/ StreamFailed(r) \/ H3Response(r)
  \/ TcpSent(r) \/ TcpResponse(r) \/ TcpFailed(r)

\* The awaits a timer of the client ends: H3_HTTPS_RR_LOOKUP_TIMEOUT, the
\* timers of Http3State::connection, H3_STREAM_OPEN_TIMEOUT and the request's
\* timeout.
Expire(r) ==
  \/ LookupFailed(r) \/ HandshakeFailed(r)
  \/ pc[r] = "connect" /\ StreamFailed(r)
  \/ H3Elapsed(r) \/ TcpElapsed(r)

Step(r) == Begin(r) \/ Run(r) \/ Answer(r) \/ Expire(r) \/ Drop(r)

Next == (\E r \in Requests : Step(r)) \/ Tick \/ Terminated

Spec == Init /\ [][Next]_vars
-----------------------------------------------------------------------------
(* Properties *)

\* Every variable has its type.  With Probes it says that the stale-retry
\* loop of request_http3_with_stale_retry ends after its second attempt.
TypeOK ==
  /\ clock \in Nat
  /\ negativeCache \in Caches(NegativeEntries)
  /\ altSvcCache \in Caches(AltSvcEntries)
  /\ httpsRrCache \in Caches(HttpsRrEntries)
  /\ job \in [Requests -> Jobs]
  /\ pc \in [Requests -> Steps]
  /\ now \in [Requests -> Nat]
  /\ deadline \in [Requests -> Timeouts]
  /\ probe \in [Requests -> Probes]
  /\ cleanup \in [Requests -> Cleanups]
  /\ sent \in [Requests -> Nat]
  /\ penalised \subseteq Requests
  /\ retired \subseteq Requests

\* A request is put on the wire at most once per transport it may try, three
\* times in all (the Alt-Svc route, the HTTPS-RR route, TCP), and only once
\* when its body cannot be replayed or its URL is not https.
SendsBounded ==
  \A r \in Requests :
    /\ sent[r] <= 3
    /\ job[r].body = "streaming" \/ job[r].scheme = "http" => sent[r] <= 1

\* An Alt-Svc alternative an attempt has failed with (or was cancelled on)
\* is never offered again: the cache can only hold newer advertisements.
RetiredStayOut ==
  \A o \in Origins :
    altSvcCache[o] # NoEntry => altSvcCache[o].from \notin retired

\* Every cached alternative was advertised by an https response of the very
\* origin it is cached for, received on the TCP/TLS path.
AdvertProvenance ==
  \A o \in Origins :
    altSvcCache[o] # NoEntry =>
      LET r == altSvcCache[o].from
      IN  /\ pc[r] = "tcp_response"
          /\ Origin(r) = o
          /\ job[r].scheme = "https"

WindowOpen(r) == clock < now[r] + NegativeDuration

\* The requests that have put origin o into the negative cache.
PenalisedAt(o) == {r \in penalised : Origin(r) = o}

\* After a failure HTTP/3 stays suppressed at least as long as the windows
\* of all the requests that failed are open, each counted from its start:
\* neither a concurrent lookup nor an overwrite reopens the origin earlier.
SuppressedInSharedWindow ==
  \A o \in Origins :
    /\ PenalisedAt(o) # {}
    /\ \A r \in PenalisedAt(o) : WindowOpen(r)
    => Hit(negativeCache, o, clock)

\* An attempt that yields no response is always held against the origin:
\* whichever way the request goes on or ends, and also when the attempt was
\* cancelled half-way, insert_negative has run for it by then.
AttemptsPenalised ==
  \A r \in Requests :
    /\ probe[r].route # "none"
    /\ pc[r] \in {"https_rr", "lookup", "start_tcp"} \cup TcpAwaits
                 \cup (Returned \ {"h3_response"})
    => r \in penalised

\* A lookup never throws away what is still in force: with the `now` it read
\* long ago, a request may take an expired entry for fresh, never the other
\* way round, so no other task loses a live negative or HTTPS-RR entry.
FreshEntriesKept ==
  [][\A o \in Origins :
       /\ Hit(negativeCache, o, clock) => negativeCache'[o] # NoEntry
       /\ Hit(httpsRrCache, o, clock) => httpsRrCache'[o] # NoEntry]_vars
=============================================================================
