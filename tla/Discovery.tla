------------------------------ MODULE Discovery ------------------------------
(***************************************************************************)
(* What a client learns of one origin's HTTP/3 service: the headers its    *)
(* responses carry (maybe_update_alt_svc, src/src/request.rs) and the      *)
(* answers to HTTPS-RR queries (src/src/https_rr.rs, https_rr_entry).      *)
(* Send leaves open what is in a header or an answer; here it is given.    *)
(* Freshness and the instants entries expire at are Send's.                *)
(***************************************************************************)
EXTENDS AltSvc

CONSTANTS Headers,  \* what servers mean to say, see Render
          Records   \* the answers of DNS: sequences of HTTPS records

\* What can stand between quotes, and what can stand without them.
Text(tokens) == tokens \in Seq(Tokens \ {Quote})
Word(tokens) == tokens \in Seq(Tokens \ {Quote, ",", ";"})

WellFormed(a) ==
  /\ Word(<<a.protocol>>) /\ a.protocol # "="
  /\ Text(a.host) /\ ~Contains(a.host, "[") /\ ~Contains(a.host, "]")
  /\ Text(<<a.port>>) /\ a.port # ":"
  /\ a.params \in Seq(Range(a.params))
  /\ \A p \in Range(a.params) :
       /\ Word(<<p.name>>) /\ p.name # "="
       /\ p.quoted \in BOOLEAN
       /\ IF p.quoted THEN Text(p.value) ELSE Word(p.value)

ASSUME HeadersAssumption ==
  \A h \in Headers :
    /\ h.kind \in {"clear", "offers", "opaque"}
    /\ h.offers \in Seq(Range(h.offers))
    /\ \A a \in Range(h.offers) : WellFormed(a)

ASSUME RecordsAssumption == \A rs \in Records : rs \in Seq(Range(rs))

VARIABLES altSvc,    \* the origin's slot in the Alt-Svc cache,
          httpsRr,   \*   and in the HTTPS-RR cache
          meant      \* history: what was meant to end up in them

vars == <<altSvc, httpsRr, meant>>
-----------------------------------------------------------------------------
(* The code *)

\* What a response's header does to the slot.
Updated(slot, raw) ==
  IF Clears(raw) THEN {}
  ELSE IF ParseHeader(raw) # {} THEN ParseHeader(raw)
  ELSE slot

ParseHttpsRecord(record) ==
  [port |-> IF record.port = {} THEN OriginPort ELSE CHOOSE p \in record.port : TRUE,
   addresses |-> record.hints,
   hasH3 |-> "h3" \in record.alpns]

\* A slip: a record with h3 behind one without it is not looked at.
FaultyLookup(records) ==
  IF records = <<>> THEN {} ELSE {ParseHttpsRecord(records[1])}

\* The loop returns the first record with h3, and else has kept the first.
Lookup(records) ==
  FoldLeft(LAMBDA best, r :
             IF best = {} THEN {ParseHttpsRecord(r)}
             ELSE IF "h3" \in r.alpns /\ \A b \in best : ~b.hasH3
               THEN {ParseHttpsRecord(r)}
             ELSE best,
           {}, records)
-----------------------------------------------------------------------------
(* What a header means: `clear`, an unreadable value, or alternatives with *)
(* a protocol, an authority and parameters.  Render spells it in tokens.   *)

Protected(tokens) == <<Quote>> \o tokens \o <<Quote>>

Join(parts, separator) ==
  FoldLeft(LAMBDA s, p : IF s = <<>> THEN p ELSE s \o <<separator>> \o p,
           <<>>, parts)

\* An address with colons of its own stands in brackets.
Spelled(host) ==
  IF Contains(host, ":") THEN <<"[">> \o host \o <<"]">> ELSE host

RenderParam(p) ==
  <<p.name, "=">> \o (IF p.quoted THEN Protected(p.value) ELSE p.value)

RenderAlternative(a) ==
  Join(<<<<a.protocol, "=">> \o Protected(Spelled(a.host) \o <<":", a.port>>)>>
         \o [i \in DOMAIN a.params |-> RenderParam(a.params[i])], ";")

Render(header) ==
  IF header.kind = "clear" THEN <<"clear">>
  ELSE Join([i \in DOMAIN header.offers |-> RenderAlternative(header.offers[i])], ",")
         \o (IF header.kind = "opaque" THEN <<Opaque>> ELSE <<>>)

\* An alternative the client can use: for h3, with a port that can be read or
\* a host of its own, for which the origin's port will do.
Usable(a) == a.protocol = "h3" /\ (a.port \in U16 \/ a.host # <<>>)

\* The last `ma` with a number.
AgeMeant(a) ==
  LET given == {i \in DOMAIN a.params : /\ a.params[i].name = "ma"
                                        /\ \E n \in U64 : a.params[i].value = <<n>>}
  IN  IF given = {} THEN DefaultAge ELSE a.params[Max(given)].value[1]

Meaning(a) == [host |-> a.host,
               port |-> IF a.port \in U16 THEN a.port ELSE OriginPort,
               age |-> AgeMeant(a)]

HeaderMeans(header, before) ==
  LET usable == {i \in DOMAIN header.offers : Usable(header.offers[i])}
  IN  IF header.kind = "clear" THEN {}
      ELSE IF header.kind = "opaque" \/ usable = {} THEN before
      ELSE {Meaning(header.offers[i]) : i \in {j \in usable : \A k \in usable : j <= k}}

\* The records among which the client should choose: those with h3, if any.
Candidates(records) ==
  LET all == DOMAIN records
      h3 == {i \in all : "h3" \in records[i].alpns}
  IN  IF h3 = {} THEN all ELSE h3

AnswerMeans(records) ==
  LET c == Candidates(records)
  IN  {ParseHttpsRecord(records[i]) : i \in {j \in c : \A k \in c : j <= k}}
-----------------------------------------------------------------------------
Init == altSvc = {} /\ httpsRr = {} /\ meant = [altSvc |-> {}, httpsRr |-> {}]

\* A response over TCP brings a header.
Receive(header) ==
  /\ altSvc' = Updated(altSvc, Render(header))
  /\ meant' = [meant EXCEPT !.altSvc = HeaderMeans(header, @)]
  /\ UNCHANGED httpsRr

\* A query is made when the slot holds nothing fresh, and was emptied for it.
\* An answer without records, an error and a timeout leave it empty.
Query(records) ==
  /\ httpsRr' = Lookup(records)
  /\ meant' = [meant EXCEPT !.httpsRr = AnswerMeans(records)]
  /\ UNCHANGED altSvc

Next == (\E h \in Headers : Receive(h)) \/ (\E rs \in Records : Query(rs))

Spec == Init /\ [][Next]_vars
-----------------------------------------------------------------------------
(* Properties *)

\* The parser recovers what the servers meant from the tokens they wrote, over
\* any number of responses: the first usable h3 alternative of the last header
\* that had one or said `clear`, with separators protected by quotes, a port
\* that cannot be read, repeated and unreadable `ma`s, drafts of h3 and values
\* that are no text (parse_header).
AltSvcAsMeant == altSvc = meant.altSvc

\* An answer is used for the first of its records with h3, wherever that is,
\* and never for one without while there is one with it (https_rr::lookup).
HttpsRrAsMeant == httpsRr = meant.httpsRr
=============================================================================
