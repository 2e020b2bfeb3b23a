# A TLA+ model of mechanics-http-client

`mechanics-http-client` is an HTTP client library with opportunistic HTTP/3: a
request whose body can be replayed first tries HTTP/3 over what the client has
learned of the origin (an `Alt-Svc` header, an HTTPS DNS record), and whatever
goes wrong there it falls back to hyper's TCP/TLS stack. These modules model
that decision, the caches it depends on and what they are filled with, the phases
of an HTTP/3 attempt, the reading of a response body and the builders a request
comes from. TLC checks them on small instances; TLAPS proves the main results
for every instance. Paths below are relative to the
repository (`request.rs` is `src/src/request.rs`).

## 1. The system

| Component | State it keeps | Operations |
|---|---|---|
| `RequestBuilder::send` (request.rs) | per call: `now`, the timeout in force, the attempt counter, the cancellation guard | `send`, `try_http3`, `request_http3_with_stale_retry`, `insert_negative`, `maybe_update_alt_svc` |
| Caches (client.rs, alt_svc.rs, https_rr.rs) | three maps from origin to entry with an expiry instant, each behind its own `RwLock` | lookup with a freshness test, insert, remove |
| HTTP/3 attempt (http3.rs) | one lazily created QUIC endpoint; a new connection per attempt | `request`, `connection`, `endpoint` |
| HTTP/3 response body (http3.rs) | `Ready(stream)`, `Reading(future)` or `Done`, and the `SendRequest` owner | `poll_frame`, `Drop` |
| Response reading (response.rs) | the buffer and the cap | `into_body`, `bytes_with_cap`, `text`, `json`, decoding |
| `Alt-Svc` parser (alt_svc.rs), HTTPS RR lookup (https_rr.rs) | none | `parse_header`, `lookup` |
| Builders (client.rs, request.rs) | configuration, the first deferred error | setters, `build`, `send` up to its first await |
| Error classification (error.rs, request.rs, response.rs) | none | `map_legacy_error`, `map_hyper_body_error` |
| TLS configuration, DNS adapter, request bodies (tls.rs, dns.rs, body.rs) | none | a constructor, a stateless service, adapters of types |

How they interact. `send()` is a future: everything a call does happens between
its awaits, on whichever thread polls it, and any number of calls share one
`ClientInner`. They communicate only through the three caches and the endpoint.
Nothing is held over an await: a call reads the clock once, looks into the
caches, waits for the network, and acts on what it read, while other calls change
the caches. A tokio timeout or the caller can drop the future at any await; the
guard `H3AttemptCancellationGuard` then runs `insert_negative` from `drop`. The
TCP path is hyper's pooled client, one future to this code. A response over
HTTP/3 owns its stream and the connection's last `SendRequest`. A panic unwinds
the task it happens in; if that task held a cache's lock, every other one finds
the lock poisoned and goes on without the cache.

Behaviours that are hard to test: the order of cache reads and writes of
concurrent calls against instants read long before; cancellation at every await;
two timeouts in a row; a retry of a request that may already be on the wire; two
routes for one request; a peer that goes silent in any phase; the drop order of a
body; a body cut short between two polls; a panic under a lock; headers whose
quotes hide separators; chains of builder calls in every order.

What makes each part correct:

- *send*: a request is not put on the wire more often than its body allows; it
  comes back; an HTTP/3 failure is never the caller's result; it is not stranded
  between the routes.
- *caches*: a failed or cancelled attempt suppresses HTTP/3; a retired alternative
  does not come back; an alternative is what this origin said over https; a
  lookup does not destroy what is in force.
- *attempt*: every phase is bounded and so is their sum; only a request that is not
  on the wire is retried, once.
- *body*: whole, or its reader knows; never cut off by the client's own connection
  close; capped exactly; released in the end.
- *discovery*: the client learns from a header or a DNS answer what it means.
- *builders*: the first mistake surfaces and nothing is sent; the last call about a
  setting counts; every header a request was given is sent.

The hazards behind these, each at its line, are listed in `PROJECT.json`.

## 2. The modules

```
OriginCaches <- Send <- SendTimed <- SendPenalties
                 ^          ^------- SendOverflow
                 ^------ SendRefinement ---INSTANCE--> SendContract
Http3Attempt ---INSTANCE--> H3Route         ResponseBody
AltSvc <- Discovery                         Builder
```

| Module | Models | Correspondence |
|---|---|---|
| `OriginCaches` | the caches | a function from origins to an entry or `NoEntry`; an operation is what happens under one lock |
| `Send` | concurrent calls of `send()` | see below |
| `SendTimed` | `Send` under a scheduler that keeps up | restricts only `Tick`, and states the fairness |
| `SendOverflow` | `SendTimed` where an `Instant` has a last value | adds the panics, and the lock one of them poisons |
| `SendPenalties` | `SendTimed` with a history of the penalties | to compare with what the documents say of them |
| `SendContract` | the promise to the caller | no caches, clocks or routes |
| `SendRefinement` | `Send` implements `SendContract` | refinement mapping: stage by step, copies by `sent` |
| `Http3Attempt` | the phases and timers of `Http3State::request` under the stale retry | one value of `phase` per await, `waited` its timer |
| `H3Route` | the attempt as `Send` sees it | "connect" and "stream" |
| `ResponseBody` | a response's body over either transport, and its reader | a poll is a step, a drop one step per thing dropped |
| `AltSvc` | the parser of `Alt-Svc` | one operator per function, on sequences of tokens |
| `Discovery` | what one origin's headers and HTTPS records leave in the caches | a response or an answer is a step |
| `Builder` | `ClientBuilder` and `RequestBuilder` up to the request that is sent | a builder call is a step |
| `SendProofs`, `SendCacheProofs`, `SendTimedProofs` (with `SendOverflow`'s), `Http3AttemptProofs`, `ResponseBodyProofs`, `DiscoveryProofs`, `BuilderProofs` | the theorems | section 5 |
| `FoldProofs` | lemmas about the folds of the community modules | used by `ResponseBodyProofs` and `DiscoveryProofs` |
| `MCSend`, `MCSendTimed`, `MCSendPenalties`, `MCSendOverflow`, `MCSendRefinement`, `MCDiscovery`, `MCBuilder` | instances for TLC | kinds of request, symmetry, headers and records |

**Send.** One action is a maximal piece of code other tasks cannot interleave
with: it ends at an await, or where a cache lock is released. `pc[r]` names the
place: `negative`, `alt_svc` and `https_rr` are the three cache lookups of
`try_http3`; `lookup`, `connect`, `stream`, `tcp` and `tcp_wait` are awaits;
`insert_negative` and `evict_alt_svc` are the two locks `insert_negative` takes
in turn; `elapsed` is the `Err(_)` arm around `try_http3`, which inserts a second
time after the guard has. `now[r]` is the instant `try_http3` reads once and uses
for the lookups and for `insert_negative` after a failure; a cancellation uses the
clock instead, as the guard's `drop` does. `cleanup[r]` is the call of
`insert_negative` in progress: its instant, and where the code goes on. What a
network future yields is a choice among its possible results. `sent` counts the
copies on the wire; `penalised` and `retired` are history. Host names, ports and
addresses choose the peer only and are left out; an `Alt-Svc` entry is identified
by the request whose response brought it. A `Job` is what a chain of builder calls
leaves behind.

**Http3Attempt.** `Endpoint` is the synchronous start of an attempt under the
endpoint's mutex; with address hints it includes `connect()`. `Succeed`, `Break`
and `TimerFires` end a phase; `Fail` is what the retry loop makes of it. Waiting
for the response headers has no timer in the code and is not counted.

**SendOverflow.** `Ordinary` is a step of `Send` in which every sum fits and the
lock is as it was. `PanicInLock` is `insert_negative` where `now + duration` does
not fit, with the negative cache's lock held; from then on `SkipNegativeCache` and
`SkipInsert` are the `else` branches of the two functions that take it. The
entries already in the cache are no longer honoured either: HTTP/3 is attempted
again for origins that had been given up. `PanicInHeader` is the sum in
`parse_alternative`, where no lock is held, so no other lock is ever poisoned. DNS
lifetimes have 32 bits and fit.

**ResponseBody.** `Send`, `Finish` and `Break` are the peer. `PollFrame`, `PollEnd`,
`PollError`, `PollPending` and `PollDone` are the ways one call of `poll_frame`
can go, with what the collecting loops do next; a body of hyper's has the one state
"incoming". `cap = NoCap` is `into_body`, whose caller polls as often as it likes,
and the cap `Unlimited` is what `bytes`, `text` and `json` read with. `DropBody` is
`Drop::drop`; `DropState` and `DropSender` drop the fields in declaration order;
`Decode` is what comes after the loop, a choice among what `decompress`,
`from_utf8` and `from_slice` can answer. What `recv_data` can yield (`HasFrame`,
`HasEnd`, `HasError`) is taken from how this code and its two tests (http3.rs:303,
333) use it. A connection lost under an HTTP/3 body is `Error::Cancelled`, under a
body of hyper's `Error::Unreachable` (`Failures`), so `Error::is_unreachable`
(error.rs:105-108) speaks of mid-flight drops over TCP only.

**AltSvc and Discovery.** A header is a sequence of tokens: separators, quotes,
numbers, words. White space, which the code trims around every part, is no token,
and letter case, of which only `clear` and `ma` are forgiving, is left out. The
model of the parser follows the code function by function. `Render` spells what a
server means in tokens, an address with colons in brackets and a parameter's value
in quotes or not, and `HeaderMeans` says what the client should keep of it, without
looking at the tokens; the two meet in `AltSvcAsMeant`. What a server can mean at
all is `WellFormed`: no quote inside quotes, no separator outside them, no bracket
in a host. In the same way
`Lookup` is the loop of `https_rr::lookup` and `AnswerMeans` what it is for. An
entry's age is a token: freshness is the business of `Send`.

**Builder.** `client` and `request` are the fields of the two builders and `calls`
the chain that led to them, which is history. `Invalid` is what `TryInto`, the URL
parser or serde rejects. `bearer_auth` is a call of `header`, and the HTTP methods
are one call, `Start`. What a chain ends with is one of the `Jobs` of `Send`:
`valid` there is the absence of an error here, `body` and `timeout` are the fields
of the result.

Operators with a name `Faulty...` are never part of a specification. Each is a
slip of the definition below it that one of the properties must detect.

## 3. The runs

`tlc -config <cfg> <module>`. Passing runs:

| Run | Instance | What it shows |
|---|---|---|
| `send_core` (MCSend.cfg) | 2 requests, 1 origin, with and without timeout, clock to 3; 3.3 million states | `TypeOK`: types, at most one retry. `SuppressedInSharedWindow`: the negative cache covers the window shared by all failed requests. `RetiredStayOut`: an alternative that failed is not offered again. `AttemptsPenalised`: no attempt without a response escapes the cache. `FreshEntriesKept`: a lookup with an old `now` never removes an entry in force (`insert_negative` may overwrite one, see `cancellation_window`) |
| `send_contract` (MCSendRefinement.cfg) | 2 requests of 5 kinds, 2 origins, default timeout; 2.3 million states | `KeepsContract`: the refinement. `SendsBounded`: at most 3 copies, 1 if it cannot be replayed. `AdvertProvenance`: who may write an Alt-Svc entry |
| `send_timed` (MCSendTimed.cfg) | 2 requests with timeouts 1 and 2, fair; 0.75 million states | `ReturnsWithinBudget`, `TimedRequestsReturn`: back within the sum of the two timeouts, with every peer silent |
| `send_overflow` (MCSendOverflow.cfg) | 2 requests with timeout 1 or none, clock to 1, a negative-cache duration of 2 before a last instant of 1 (never fits, the lock poisoned or not at the start) or of 2 (fits at instant 0 only), fair; 0.5 million states | `PanicsOnce`: one request panics under the lock, not all that fail. `FailedAdvertsGone`: a request that goes on has evicted its alternative, also when the negative entry could not be written (the one that panics does not go on, and evicts nothing). `FallbackReached`: a given-up attempt leads on to TCP, whether its entry is written or the lock was poisoned, unless its own penalty is what panics |
| `http3_attempt` (MCHttp3Attempt.cfg) | 2 requests sharing the endpoint, timers 1/2/1/1; 0.4 million states | `TypeOK`; `RouteBounded`; `PhasesEnd`; `ImplementsRoute`: refinement of `H3Route` with its fairness |
| `response_body` (MCBody.cfg) | up to 3 frames of 1 or 2 bytes over either transport, caps 0, 2, 3, unlimited and none; 14 thousand states | `TypeOK`; `CompleteIsWhole`: no body is cut short in silence, or decoded half; `OwnerOutlivesStream`; `CapIsExact`; `CollectedIsReleased` |
| `discovery` (MCDiscovery.cfg) | headers of 1 or 2 alternatives over 2 protocols, 4 hosts (the origin's own, a name, one with a comma, one with colons), 4 ports, 7 parameter lists; answers of up to 3 records; 225 states, each reached from every other | `AltSvcAsMeant`, `HttpsRrAsMeant` |
| `builder` (MCBuilder.cfg) | every chain of up to 4 calls from the client to `send()`, 2 header names, 2 values, 2 durations; 1.2 million states | `TypeOK`; `FirstMistakeSurfaces`; `LastCallCounts`; `OwnValuesAreSent` |

Why the bounds are enough for these questions. Two requests suffice for one to
act on what the other changed behind its back. `RetiredStayOut` has more to it with
three (one advertises, two use the alternative and fail with it at different
times); there the theorem speaks for every number. One origin puts all requests
into one slot; two show what crosses over. `NegativeDuration` and the lifetimes are
1 or 2 and the clock goes a step or two beyond (but for the penalties of
`send_overflow`, which outlast it), so entries are seen fresh, at their expiry and
after it, and old instants meet younger entries. `MaxAges = {0, 2}` has
an entry that is born expired. Timers of 1 and 2 let a phase end before its timer,
with it and by it; the real 150/500/150/500 ms are covered by the theorem. Three
frames and caps of 0, 2 and 3 put the cap before, at and between frame boundaries.
In `send_overflow` one last instant lets no penalty fit, so every failure meets the
panic or the poisoned lock; the other lets early ones fit, so entries are written and
honoured, a request cancelled at instant 1 poisons the lock, and the other one gives
up before or after that. Two alternatives and three records show one that counts
before, behind and between those that do not; the parameter lists have the quoted,
the repeated, the unreadable `ma` and separators inside quotes. Four builder calls put two mistakes,
or two calls about one header, in every order around `build()`.
Symmetry is over requests, in runs without liveness only.

Runs that find the code at odds with what its documents say of it:

| Run | The document | What TLC shows |
|---|---|---|
| `cancellation_window` | later requests "skip H3 for the negative-cache window" (CHANGELOG.md:29-34) | an older request that fails afterwards overwrites the cancellation's expiry by an earlier one (request.rs:496) |
| `timeout_phases` | "Default per-request timeout" (client.rs:208) | each of the two phases has the whole timeout (request.rs:214, 238) |
| `body_timeout` | "before the response (or one of its body frames) arrived" (error.rs:21-22) | reading a body has no timeout (response.rs:174) |
| `header_override` | "Per-request headers override these on a name-by-name basis" (client.rs:244-245), "overrides this" (client.rs:230-231) | defaults and the request's own headers are appended to one map (request.rs:189-196): both are sent |

`SuppressedInSharedWindow`, `ReturnsWithinBudget` and `OwnValuesAreSent` are what
does hold instead of the first two and the last.

Two more observations need no run of their own. The window of a failed attempt
counts from the start of its request, since request.rs:365 passes the `now` of
request.rs:283: a late failure may leave an entry that has already expired. And a
request whose Alt-Svc attempt has failed still tries the HTTPS-RR route
(request.rs:308) before TCP; `SendsBounded` has the copy that costs.

## 4. Fairness

- `SendTimed`, and `SendOverflow` after it: weak fairness on `Run(r)` (the executor polls a task
  that is ready), on `Expire(r)` (a tokio timer that is due wakes its task; the
  lookup, handshake and stream-open timers of http3.rs and request.rs are among
  them) and on `PromptTick` (time passes). Nothing on `Begin`, `Answer` or `Drop`:
  no caller has to call or to cancel, no peer to answer. Time does not pass while a
  task is ready or a timer is due: an executor that keeps up. Safety properties are
  checked under `Spec`, without that assumption, except the two that speak of
  durations (`ReturnsWithinBudget`, and the violated ones above).
- `Http3Attempt`: the same, per phase. `H3Route` has weak fairness on leaving
  "connect" only; that it holds of the phases is what `ImplementsRoute` shows, and
  it justifies the connect timers `Expire` stands for in `SendTimed`.
- `ResponseBody`: a collecting task is polled when it can go on and decodes what it
  has collected, and a drop runs to its end. The peer owes nothing: `CollectedIsReleased` is conditional on it, and
  `BodyReadEnds`, which is not, fails.

## 5. What is proved

All proofs are checked by tlapm, for any sets of origins and requests, any jobs,
durations and lifetimes satisfying the named assumptions on the constants
(`NoEntryAssumption`, `SendAssumption`, `InstantAssumption`, `TimeoutAssumption`,
`SizeAssumption`, `TokenAssumption`, `HeadersAssumption`, `RecordsAssumption`,
`BuilderAssumption`; TLC evaluates them in the runs). They say that durations and
lifetimes are naturals, that a DNS answer is a sequence, that the headers servers
mean are well formed and separators are no numbers, and that the markers for "none"
are no values.

| Theorem | Says | Argument |
|---|---|---|
| `SendProofs!TypeCorrect` | `TypeOK` | inductive as it stands |
| `SendsAreBounded` | `SendsBounded` | `PhaseInv`: at each step, a bound on the copies by route and attempt; a request off the HTTP/3 steps is replayable only if it entered them |
| `SendKeepsContract` | `KeepsContract` | step simulation under `TypeOK` and `PhaseInv` |
| `AdvertsComeFromTheirOrigin`, `RetiredAdvertsStayOut` | `AdvertProvenance`, `RetiredStayOut` | `AdvertInv`: both together, with the adverts requests hold (`ProbeAdverts`) and the retired ones having come from finished calls, so no call can write them again |
| `FreshEntriesAreKept` | `FreshEntriesKept` | `InstantInv`: no request's `now` is ahead of the clock |
| `SharedWindowSuppresses` | `SuppressedInSharedWindow` | `WindowInv`: while a penalised origin has an entry it is not older than some penalised request's window; a lookup that removes it proves a window closed |
| `FailedAttemptsArePenalised` | `AttemptsPenalised` | `BlameInv` adds the steps between the failure and its entry |
| `BudgetSuffices` | `TimedSpec => []ReturnsWithinBudget` | `BudgetInv`: the deadline in force, per phase, from `now` |
| `RoutesAreBounded` | `RouteBounded` | `TimeInv`: what is spent at a phase is at most the timers of the phases behind it and `waited` |
| `AttemptFollowsRoute` | the safety part of `ImplementsRoute` | step simulation |
| `FailedAdvertsLeave` | `OverflowSpec => []FailedAdvertsGone` | `GoneInv`: `AdvertInv`'s facts about who may write an entry and which alternative a request holds, and that a request before its first attempt (`Untried`) holds none; so what a removal has taken out no call can put back, and no step goes past an attempt but through the removal |
| `PanicsAreRare` | `OverflowSpec => []PanicsOnce` | `PlaceInv`: where a request and its cleanup can be; `PoisonInv`: a panic leaves the lock poisoned, and a panic needs it whole |
| `Http3AttemptProofs!TypeCorrect` | `TypeOK` of the attempt | inductive as it stands |
| `ResponseBodyProofs!TypeCorrect`, `BodiesAreWhole`, `ConnectionOutlivesReads` | `TypeOK`, `CompleteIsWhole`, `OwnerOutlivesStream` | `BodyInv`: the frames read are a prefix of those sent, and the state agrees with the result and the drop |
| `CapsAreExact` | `CapIsExact` | `CapInv` and `BodyInv`: a frame more adds its size to `Bytes`, and a prefix has no more bytes than the whole, so what did not fit was beyond the cap |
| `AnswersAreUsedAsMeant` | `HttpsRrAsMeant`, for answers of any length | `LookupIsMeaning`: over each prefix of an answer the loop has kept its first record with h3 or, without one, its first |
| `HeadersAreUsedAsMeant` | `AltSvcAsMeant`, for headers of any length | `HeaderParsed`: each function of the parser undoes a part of `Render`. `SplitOfJoin`: splitting undoes joining where the parts are `Calm`, that is, a scan that meets one outside quotes adds all of it to the part begun and is outside quotes again; `AuthorityParsed`, `MaxAgeParsed`, `AlternativeParsed` and `OffersParsed` do the rest by where each part stands |
| `BuilderProofs!TypeCorrect`, `MistakesSurface` | `TypeOK`, `FirstMistakeSurfaces`, for chains of any length | `ChainInv`: the error a builder holds is the first mistake among the calls made to it so far, and there is none where it holds none |
| `LastCallsCount` | `LastCallCounts`, for chains of any length | `LatestInv`: before `build()` too, each field is what the latest accepted call about it said or, without one, its default; `Effects` says what one call changes |
| `OwnValuesReachTheWire` | `OwnValuesAreSent`, for chains of any length | `HeadersInv`: before `send()` too, a header is the label, if it is meant, and the values of its calls in order. A call is found by its rank among those of its header (`Ranked`), and a new one takes the next rank and moves none (`RanksGrow`) |

None of the safety properties but the type invariants is inductive: each depends
on where the other requests, or the other half of the state, can be. The
strengthenings of this list were checked by TLC on the instances of section 3 before
they were proved.

The arguments about bodies, answers and headers rest on what a fold computes. The community modules define a
fold over a sequence by a choice among the functions on the subsets of its indices
that satisfy a recursive equation, so nothing is known of it before such a function
is known to exist and to be the only one. `FoldProofs` shows both for sets of the
numbers up to n (`SubsetsExist`, `SubsetsAgree`), by a least counterexample instead
of the library's induction rules, which take an operator as a parameter. From there
on (`FoldExists`, `FoldAppends`) `Bytes`, `Lookup`, `Join` and the scan of
`SplitQuoted` are reasoned about one element at a time, and `Climb` carries what
holds of one element more to the whole sequence.

Model-checked only: everything about liveness (`TimedRequestsReturn`,
`FallbackReached`, `PhasesEnd`, `CollectedIsReleased`, the fairness part of
`ImplementsRoute`), which is beyond the prover, and the violations, which are
counterexamples. Every safety property of a passing run has a theorem.

## 6. What is not modelled

- hyper's pool, h3, quinn and the resolver: external; their futures' results are
  choices. Their own progress is assumed of none.
- TLS configuration (tls.rs), the DNS adapter (dns.rs) and the request bodies
  (body.rs) keep no state and have no order of calls to get wrong: a constructor, a
  service that forwards one call, three adapters of types. `build()` failing in one
  of them returns before there is a client.
- The words by which `map_legacy_error` and `map_hyper_body_error` tell errors apart:
  the messages are hyper's, and no text of this repository says what they contain.
  That a failure becomes an error, and which ones it can become, is modelled.
- Trailers, which the collecting loop passes over; the contents of decoded bodies;
  the accessors of `Response`; method, path and the values of headers, which are
  carried along; the spelling of host names and addresses, which choose the peer.
- The endpoint's mutex being poisoned: nothing under it panics by itself.

## 7. State of the plan

Done, in this order: the caches and `Send`; its contract; its timed version; the
phases of the attempt; the response body, over HTTP/3 and then over both
transports; the parsers; the builders; overflow and poisoning; the theorems.

Left: one specification of `Send` composed with `Http3Attempt`, `Discovery` and
`Builder` in place of the interfaces they agree on (`H3Route`, the three results of
a header, `Jobs`), which TLC cannot exhaust with two requests but the refinements
could carry over.
