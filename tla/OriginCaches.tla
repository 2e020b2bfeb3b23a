---------------------------- MODULE OriginCaches ----------------------------
(***************************************************************************)
(* The three per-origin caches of `ClientInner` (src/src/client.rs): the   *)
(* negative cache, the Alt-Svc cache and the HTTPS-RR cache.  Each is a    *)
(* HashMap<Origin, _> behind its own RwLock, so one operation below is     *)
(* what happens while that lock is held.  A cache is a function from       *)
(* origins to an entry or to NoEntry; an entry keeps the instant at which  *)
(* it expires and what the client's decisions depend on.  Host names,      *)
(* ports and addresses only choose the peer and are left out.              *)
(***************************************************************************)
EXTENDS Naturals

CONSTANTS Origins,   \* the https origins (host, port) requests are sent to
          Requests,  \* the calls of RequestBuilder::send
          NoEntry    \* "the map has no such key"

\* An instant of the negative cache; an Alt-Svc alternative, identified by
\* the request whose response advertised it; the data of an HTTPS RR.
NegativeEntries == [expires : Nat]
AltSvcEntries == [from : Requests, expires : Nat]
HttpsRrEntries == [hasH3 : BOOLEAN, expires : Nat]

ASSUME NoEntryAssumption ==
  /\ NoEntry \notin NegativeEntries \cup AltSvcEntries \cup HttpsRrEntries
  /\ NoEntry \notin Requests

Caches(entries) == [Origins -> entries \cup {NoEntry}]

EmptyCache == [o \in Origins |-> NoEntry]

\* alt_svc::fresh, https_rr::fresh and the comparison in negative_cache_hit:
\* an entry counts only strictly before the instant it expires.
Fresh(entry, now) == entry.expires > now

\* cache.get(origin) with its freshness guard.
Hit(cache, o, now) == cache[o] # NoEntry /\ Fresh(cache[o], now)

Insert(cache, o, entry) == [cache EXCEPT ![o] = entry]

Remove(cache, o) == [cache EXCEPT ![o] = NoEntry]
=============================================================================
