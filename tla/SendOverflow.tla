---------------------------- MODULE SendOverflow ----------------------------
(***************************************************************************)
(* SendTimed where an Instant has a last value.  `now + duration` panics   *)
(* beyond it: in insert_negative (src/src/request.rs) while the negative   *)
(* cache's lock is held, which poisons the lock, and every function that   *)
(* takes it skips the cache from then on; and in the parser of a           *)
(* response's Alt-Svc header (src/src/alt_svc.rs), where none is held.  A  *)
(* panic unwinds the task it happens in, and that task only.  The TTLs of  *)
(* DNS have 32 bits and always fit.                                        *)
(***************************************************************************)
EXTENDS SendTimed

CONSTANT LastInstants  \* what the last Instant can be, on one platform or another

ASSUME InstantAssumption == \A last \in LastInstants : last \in Nat /\ MaxTime <= last

VARIABLES poisoned,    \* the lock of the negative cache
          lastInstant  \* the last Instant there is

overflowVars == <<vars, poisoned, lastInstant>>

Panicked == {"panic_in_lock", "panic_in_header"}

Fits(instant) == instant <= lastInstant

Penalty(r) == cleanup[r].stamp + NegativeDuration

\* A step of Send in which neither the lock nor an overflow plays a part.
Ordinary(r, step) ==
  /\ step
  /\ pc[r] \in {"negative", "insert_negative"} => ~poisoned
  /\ pc[r] = "insert_negative" => Fits(Penalty(r))
  /\ \A o \in Origins : altSvcCache'[o] # NoEntry => Fits(altSvcCache'[o].expires)
  /\ UNCHANGED <<poisoned, lastInstant>>

Unwind(r, how) ==
  /\ Goto(r, how)
  /\ UNCHANGED <<clock, caches, job, now, deadline, probe, cleanup, sent, history>>

\* A slip: the sum is computed before the lock is taken.
FaultyPanicInLock(r) ==
  /\ pc[r] = "insert_negative" /\ ~Fits(Penalty(r))
  /\ Unwind(r, "panic_in_lock")
  /\ UNCHANGED <<poisoned, lastInstant>>

\* insert_negative: neither entry is touched.
PanicInLock(r) ==
  /\ pc[r] = "insert_negative" /\ ~poisoned /\ ~Fits(Penalty(r))
  /\ Unwind(r, "panic_in_lock")
  /\ poisoned' = TRUE
  /\ UNCHANGED lastInstant

\* parse_alternative: a server's `ma` reaches beyond the last Instant.
PanicInHeader(r) ==
  /\ pc[r] = "tcp_wait" /\ job[r].scheme = "https"
  /\ \E maxAge \in MaxAges : ~Fits(clock + maxAge)
  /\ Unwind(r, "panic_in_header")
  /\ UNCHANGED <<poisoned, lastInstant>>

\* negative_cache_hit with a poisoned lock: false, and nothing is removed.
SkipNegativeCache(r) ==
  /\ pc[r] = "negative" /\ poisoned
  /\ Unwind(r, "alt_svc")
  /\ UNCHANGED <<poisoned, lastInstant>>

\* A slip: a poisoned lock ends insert_negative.
FaultySkipInsert(r) ==
  /\ pc[r] = "insert_negative" /\ poisoned
  /\ Unwind(r, cleanup[r].after)
  /\ UNCHANGED <<poisoned, lastInstant>>

\* insert_negative with a poisoned lock goes on to the other one.
SkipInsert(r) ==
  /\ pc[r] = "insert_negative" /\ poisoned
  /\ Unwind(r, "evict_alt_svc")
  /\ UNCHANGED <<poisoned, lastInstant>>

\* An earlier request may have poisoned the lock, if no penalty fits.
OverflowInit ==
  /\ Init
  /\ lastInstant \in LastInstants
  /\ poisoned \in {FALSE, ~Fits(NegativeDuration)}

OverflowRun(r) ==
  \/ Ordinary(r, Run(r))
  \/ PanicInLock(r) \/ SkipNegativeCache(r) \/ SkipInsert(r)

Over == (\A r \in Requests : pc[r] \in Returned \cup Panicked) /\ UNCHANGED overflowVars

OverflowNext ==
  \/ \E r \in Requests :
       \/ Ordinary(r, Begin(r) \/ Answer(r) \/ Expire(r) \/ Drop(r))
       \/ OverflowRun(r)
       \/ PanicInHeader(r)
  \/ PromptTick /\ UNCHANGED <<poisoned, lastInstant>>
  \/ Over

\* The fairness of SendTimed.
OverflowSpec ==
  /\ OverflowInit /\ [][OverflowNext]_overflowVars
  /\ \A r \in Requests :
       WF_overflowVars(OverflowRun(r)) /\ WF_overflowVars(Ordinary(r, Expire(r)))
  /\ WF_overflowVars(PromptTick /\ UNCHANGED <<poisoned, lastInstant>>)
-----------------------------------------------------------------------------
(* Properties *)

\* A negative-cache duration that is too long costs one request its life, not
\* every one that fails after it: the others find the lock poisoned and do
\* without the cache (request.rs:498).
PanicsOnce ==
  \A r, q \in Requests :
    pc[r] = "panic_in_lock" /\ pc[q] = "panic_in_lock" => r = q

\* Whether the negative cache could be written or not, the alternative a
\* request has failed with is out of the Alt-Svc cache when it goes on: the two
\* locks of insert_negative fail separately.
FailedAdvertsGone ==
  \A r \in Requests :
    /\ pc[r] \in {"https_rr", "lookup", "start_tcp"} \cup TcpAwaits
                 \cup (Returned \ {"h3_response"})
    /\ probe[r].advert # NoEntry
    => \A o \in Origins :
         altSvcCache[o] # NoEntry => altSvcCache[o].from # probe[r].advert

\* A request whose HTTP/3 attempt was given up is not stranded between the
\* routes, whatever state the caches and their locks are in and whatever other
\* requests do to them: unless its own penalty panics it comes to the TCP path.
\* Only the other route can come in between, and there a response, the timeout,
\* the caller or, without a timeout, a peer that stays silent on an open stream
\* (recv_response, src/src/http3.rs:81, has no timer); a panic then only takes
\* a request that was over, timed out or dropped.
FallbackReached ==
  \A r \in Requests :
    /\ pc[r] = "insert_negative" /\ cleanup[r].after \in {"https_rr", "start_tcp"}
    /\ poisoned \/ Fits(Penalty(r))
    /\ Timeout(r) # NoTimeout => now[r] + Timeout(r) <= MaxTime
    ~> \/ pc[r] \in {"tcp", "h3_response", "timeout", "dropped"}
       \/ pc[r] = "stream" /\ Timeout(r) = NoTimeout
       \/ pc[r] = "panic_in_lock" /\ cleanup[r].after \in {"elapsed", "timeout", "dropped"}
=============================================================================
