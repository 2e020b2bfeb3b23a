------------------------------ MODULE Builder ------------------------------
(***************************************************************************)
(* ClientBuilder (src/src/client.rs) and RequestBuilder up to the point    *)
(* where send() has the request that goes on the wire                      *)
(* (src/src/request.rs): a chain of calls, none of which can fail, whose   *)
(* first mistake surfaces at build() or send().  An error is identified    *)
(* with the call it stems from; an Option of one is a set.  Names and      *)
(* values are abstract, and Invalid is what TryInto, the URL's parser or   *)
(* serde rejects.  What a chain ends with is one of the Jobs of Send.      *)
(***************************************************************************)
EXTENDS Naturals, Sequences, FiniteSets

CONSTANTS Names,        \* header names, among them
          USER_AGENT,
          CONTENT_TYPE,
          Values,       \* header values, among them
          JsonLabel,    \*   "application/json"
          HeaderMaps,   \* the maps passed to default_headers
          Durations,    \* what the settings but http3 are given
          FiveMinutes,  \* the default negative-cache duration
          Invalid,
          None,
          MaxCalls      \* bound: no builder is called after so many calls

Headers == [Names -> Seq(Values)]

Settings == {"timeout", "pool_max_idle_per_host", "pool_idle_timeout",
             "http3_enabled", "http3_negative_cache_duration"}

ClientOps == {"set", "user_agent", "default_headers", "default_header"}
RequestOps == {"header", "timeout", "body", "json"}

Texts == Settings \cup {"valid", "value", "replayable", "streaming"}

CallSpace ==
  [op : {"set"}, name : Settings, value : Durations \cup BOOLEAN]
  \cup [op : {"default_headers"}, name : {None}, value : HeaderMaps]
  \cup [op : {"user_agent", "default_header", "request"} \cup RequestOps,
        name : Names \cup {None, Invalid},
        value : Values \cup Durations \cup Texts \cup {Invalid}]

ASSUME BuilderAssumption ==
  /\ {USER_AGENT, CONTENT_TYPE} \subseteq Names
  /\ JsonLabel \in Values
  /\ \A map \in HeaderMaps : map \in Headers
  /\ \A x \in {Invalid, None} :
       x \notin Names /\ x \notin Values /\ x \notin HeaderMaps
       /\ x \notin Durations /\ x \notin BOOLEAN
  /\ Invalid \notin Texts /\ None # Invalid
  /\ MaxCalls \in Nat

VARIABLES client,   \* ClientBuilder, then what Client keeps of it
          request,  \* RequestBuilder
          stage,    \* whose turn it is, or how the chain has ended
          result,   \* the error, or what is sent
          calls     \* history: the calls of the chain

vars == <<client, request, stage, result, calls>>
-----------------------------------------------------------------------------
Inputs(setting) == IF setting = "http3_enabled" THEN BOOLEAN ELSE Durations

NoHeaders == [n \in Names |-> <<>>]

\* ClientBuilder::default
DefaultSettings == [s \in Settings |-> IF s = "http3_enabled" THEN TRUE ELSE None]

NewRequest(url) == [uri |-> url, headers |-> NoHeaders, body |-> "empty",
                    timeout |-> None, error |-> {}]

Init ==
  /\ client = [settings |-> DefaultSettings, defaults |-> NoHeaders,
               userAgent |-> None, error |-> {}]
  /\ request = NewRequest(None)
  /\ stage = "client" /\ result = None /\ calls = <<>>

Call(op, name, value) == [op |-> op, name |-> name, value |-> value]

\* One more call, while it is the turn of the builder it belongs to.
Made(at, call) ==
  /\ stage = at
  /\ calls' = Append(calls, call)
  /\ UNCHANGED result

Bounded == Len(calls) < MaxCalls

OnClient(call) == Bounded /\ Made("client", call) /\ UNCHANGED <<request, stage>>
OnRequest(call) == Bounded /\ Made("request", call) /\ UNCHANGED <<client, stage>>

\* A slip: the latest error is kept.
FaultyReject(builder, call) == [builder EXCEPT !.error = {call}]

\* get_or_insert_with
Reject(builder, call) ==
  [builder EXCEPT !.error = IF @ = {} THEN {call} ELSE @]
-----------------------------------------------------------------------------
(* ClientBuilder *)

\* timeout, pool_max_idle_per_host, pool_idle_timeout, http3 and
\* http3_negative_cache_duration
Set(setting, value) ==
  /\ OnClient(Call("set", setting, value))
  /\ client' = [client EXCEPT !.settings[setting] = value]

UserAgent(value) ==
  LET call == Call("user_agent", USER_AGENT, value)
  IN  /\ OnClient(call)
      /\ client' = IF value = Invalid THEN Reject(client, call)
                   ELSE [client EXCEPT !.userAgent = value]

DefaultHeaders(map) ==
  /\ OnClient(Call("default_headers", None, map))
  /\ client' = [client EXCEPT !.defaults = map]

DefaultHeader(name, value) ==
  LET call == Call("default_header", name, value)
  IN  /\ OnClient(call)
      /\ client' = IF Invalid \in {name, value} THEN Reject(client, call)
                   ELSE [client EXCEPT !.defaults[name] = <<value>>]

\* A slip: it is taken for granted that there is one.
FaultyInsertNoUserAgent(defaults) ==
  [defaults EXCEPT ![USER_AGENT] = <<client.userAgent>>]

\* A slip: a default header that is there already is left alone.
FaultyInsertUserAgent(defaults) ==
  IF client.userAgent = None \/ defaults[USER_AGENT] # <<>> THEN defaults
  ELSE [defaults EXCEPT ![USER_AGENT] = <<client.userAgent>>]

InsertUserAgent(defaults) ==
  IF client.userAgent = None THEN defaults
  ELSE [defaults EXCEPT ![USER_AGENT] = <<client.userAgent>>]

Build ==
  /\ stage = "client"
  /\ \/ /\ result' \in client.error
        /\ stage' = "client_error"
        /\ UNCHANGED client
     \/ /\ client.error = {}
        /\ stage' = "built"
        /\ client' = [client EXCEPT
             !.defaults = InsertUserAgent(@),
             !.settings["http3_negative_cache_duration"] =
               IF @ = None THEN FiveMinutes ELSE @]
        /\ UNCHANGED result
  /\ UNCHANGED <<request, calls>>
-----------------------------------------------------------------------------
(* RequestBuilder *)

\* get, post, put, patch, delete, head and request.  A URL that does not
\* parse, or whose scheme is neither http nor https, is kept as an error.
Start(url) ==
  /\ Made("built", Call("request", None, url))
  /\ stage' = "request"
  /\ request' = NewRequest(url)
  /\ UNCHANGED client

\* header; bearer_auth is a header call.
Header(name, value) ==
  LET call == Call("header", name, value)
  IN  /\ OnRequest(call)
      /\ request' = IF Invalid \in {name, value} THEN Reject(request, call)
                    ELSE [request EXCEPT !.headers[name] = Append(@, value)]

Timeout(duration) ==
  /\ OnRequest(Call("timeout", None, duration))
  /\ request' = [request EXCEPT !.timeout = duration]

Body ==
  /\ OnRequest(Call("body", None, "replayable"))
  /\ request' = [request EXCEPT !.body = "replayable"]

BodyStreaming ==
  /\ OnRequest(Call("body", None, "streaming"))
  /\ request' = [request EXCEPT !.body = "streaming"]

\* A slip: the label takes the place of what the caller supplied.
FaultyLabelled(headers) == [headers EXCEPT ![CONTENT_TYPE] = <<JsonLabel>>]

Labelled(headers) ==
  IF headers[CONTENT_TYPE] # <<>> THEN headers
  ELSE [headers EXCEPT ![CONTENT_TYPE] = <<JsonLabel>>]

Json(value) ==
  LET call == Call("json", None, value)
  IN  /\ OnRequest(call)
      /\ request' = IF value = Invalid THEN Reject(request, call)
                    ELSE [request EXCEPT !.body = "replayable",
                                         !.headers = Labelled(@)]

\* The default headers of the client, and behind them the request's own.
Merged == [n \in Names |-> client.defaults[n] \o request.headers[n]]

TimeoutInForce ==
  IF request.timeout # None THEN request.timeout ELSE client.settings["timeout"]

\* send() before its first await: a deferred error comes before the URL's.
Send ==
  /\ stage = "request"
  /\ \/ /\ result' \in request.error
        /\ stage' = "request_error"
     \/ /\ request.error = {} /\ request.uri = Invalid
        /\ stage' = "request_error" /\ result' = Call("request", None, Invalid)
     \/ /\ request.error = {} /\ request.uri # Invalid
        /\ stage' = "sent"
        /\ result' = [headers |-> Merged, body |-> request.body,
                      timeout |-> TimeoutInForce]
  /\ UNCHANGED <<client, request, calls>>

Ended == stage \in {"client_error", "request_error", "sent"} /\ UNCHANGED vars

Next ==
  \/ \E s \in Settings : \E v \in Inputs(s) : Set(s, v)
  \/ \E v \in Values \cup {Invalid} : UserAgent(v)
  \/ \E map \in HeaderMaps : DefaultHeaders(map)
  \/ \E n \in Names \cup {Invalid}, v \in Values \cup {Invalid} :
       DefaultHeader(n, v) \/ Header(n, v)
  \/ Build
  \/ \E url \in {"valid", Invalid} : Start(url)
  \/ \E d \in Durations : Timeout(d)
  \/ Body \/ BodyStreaming
  \/ \E v \in {"value", Invalid} : Json(v)
  \/ Send
  \/ Ended

Spec == Init /\ [][Next]_vars
-----------------------------------------------------------------------------
(* Properties, which compare the outcome with the calls that led to it *)

Mistake(call) == call.name = Invalid \/ call.value = Invalid

Mistakes(ops) == {i \in DOMAIN calls : calls[i].op \in ops /\ Mistake(calls[i])}

Accepted(ops) == {i \in DOMAIN calls : calls[i].op \in ops /\ ~Mistake(calls[i])}

About(ops, name) == {i \in Accepted(ops) : calls[i].name = name}

First(is, i) == i \in is /\ \A j \in is : i <= j
Latest(is, i) == i \in is /\ \A j \in is : j <= i

TypeOK ==
  /\ client \in [settings : [Settings -> Durations \cup BOOLEAN \cup {FiveMinutes, None}],
                 defaults : Headers, userAgent : Values \cup {None},
                 error : SUBSET CallSpace]
  /\ request \in [uri : {"valid", Invalid, None}, headers : Headers,
                  body : {"empty", "replayable", "streaming"},
                  timeout : Durations \cup {None},
                  error : SUBSET CallSpace]
  /\ stage \in {"client", "built", "request", "client_error", "request_error", "sent"}

\* "Configuration errors are stored on the builder and surfaced at send": a
\* chain with a mistake never gets a client or sends anything, and the error is
\* that of the first call that was wrong, whatever came after it; the URL's,
\* although it is the first of its chain, is kept for last.
FirstMistakeSurfaces ==
  /\ stage \notin {"client", "client_error"} => Mistakes(ClientOps) = {}
  /\ stage = "client_error" =>
       \E i \in DOMAIN calls : First(Mistakes(ClientOps), i) /\ result = calls[i]
  /\ stage = "sent" => \A i \in DOMAIN calls : ~Mistake(calls[i])
  /\ stage = "request_error" =>
       \E i \in DOMAIN calls :
         /\ result = calls[i]
         /\ \/ First(Mistakes(RequestOps), i)
            \/ Mistakes(RequestOps) = {} /\ First(Mistakes({"request"}), i)

BodyAsCalled ==
  LET is == Accepted({"body", "json"})
  IN  IF is = {} THEN request.body = "empty"
      ELSE \E i \in DOMAIN calls :
             /\ Latest(is, i)
             /\ request.body = IF calls[i].op = "json" THEN "replayable" ELSE calls[i].value

DefaultAsCalled(n) ==
  LET ua == IF n = USER_AGENT THEN Accepted({"user_agent"}) ELSE {}
      is == IF ua # {} THEN ua
            ELSE Accepted({"default_headers"}) \cup About({"default_header"}, n)
  IN  IF is = {} THEN client.defaults[n] = <<>>
      ELSE \E i \in DOMAIN calls :
             /\ Latest(is, i)
             /\ client.defaults[n] = IF calls[i].op = "default_headers"
                                     THEN calls[i].value[n] ELSE <<calls[i].value>>

SettingAsCalled(s) ==
  LET is == About({"set"}, s)
  IN  IF is = {}
      THEN client.settings[s] = IF s = "http3_negative_cache_duration" THEN FiveMinutes
                                                                       ELSE DefaultSettings[s]
      ELSE \E i \in DOMAIN calls : Latest(is, i) /\ client.settings[s] = calls[i].value

TimeoutAsCalled ==
  LET own == Accepted({"timeout"})
  IN  IF own = {} THEN result.timeout = client.settings["timeout"]
      ELSE \E i \in DOMAIN calls : Latest(own, i) /\ result.timeout = calls[i].value

\* What is sent is what the last call about it said, however the calls were
\* ordered: the body, the timeout, of which the request's comes before the
\* client's, the client's settings, and each default header, of which that of
\* user_agent wins wherever in the chain it stands (client.rs:293).
LastCallCounts ==
  stage = "sent" =>
    /\ BodyAsCalled
    /\ TimeoutAsCalled
    /\ \A s \in Settings : SettingAsCalled(s)
    /\ \A n \in Names : DefaultAsCalled(n)

Rank(is, i) == Cardinality({j \in is : j <= i})
Nth(is, k) == CHOOSE i \in is : Rank(is, i) = k

\* The values the calls of header gave to n, in order.
Own(n) ==
  LET is == About({"header"}, n)
  IN  [k \in 1..Cardinality(is) |-> calls[Nth(is, k)].value]

\* json() put its label in front of them, unless it came behind one.
LabelMeant ==
  \E i \in Accepted({"json"}) : \A j \in About({"header"}, CONTENT_TYPE) : i < j

\* Whatever the order of header, body and json calls: every value a request
\* was given goes on the wire, in order and behind the defaults, and JSON's
\* label exactly when the caller had not supplied one before.
OwnValuesAreSent ==
  stage = "sent" =>
    \A n \in Names :
      result.headers[n] = client.defaults[n]
        \o (IF n = CONTENT_TYPE /\ LabelMeant THEN <<JsonLabel>> ELSE <<>>)
        \o Own(n)

\* client.rs:229-231 and 244-245 say that "Per-request headers override these on
\* a name-by-name basis": a header of the request is sent with its values only.
RequestHeadersOverride ==
  stage = "sent" =>
    \A n \in Names : Own(n) # <<>> => result.headers[n] = request.headers[n]
=============================================================================
