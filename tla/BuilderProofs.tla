---------------------------- MODULE BuilderProofs ----------------------------
(***************************************************************************)
(* For chains of calls of any length:                                      *)
(*  - no mistake gets past build() and send(), and the first one is        *)
(*    reported: MistakeInv relates what each builder has kept to all the   *)
(*    calls so far, and says whose turn it was when a call was made;       *)
(*  - what is sent is what the last call about it said: Effects says what  *)
(*    one call does to the fields, and LatestInv that the fields are those *)
(*    the calls so far have left;                                          *)
(*  - every value given to header() is sent, in order: HeadersInv does the *)
(*    same for the headers, whose values the ranks of their calls number.  *)
(***************************************************************************)
EXTENDS Builder, FiniteSetTheorems, SequenceTheorems, TLAPS

\* An error kept by a builder is the first of the mistakes of its calls.
KeptFirst(cs, ops, error) ==
  LET wrong == {i \in DOMAIN cs : cs[i].op \in ops /\ Mistake(cs[i])}
  IN  \/ error = {} /\ wrong = {}
      \/ \E i \in DOMAIN cs : First(wrong, i) /\ error = {cs[i]}

UrlInv ==
  IF stage \in {"client", "client_error", "built"}
  THEN \A i \in DOMAIN calls : calls[i].op # "request"
  ELSE \E i \in DOMAIN calls :
         /\ calls[i] = Call("request", None, request.uri)
         /\ \A j \in DOMAIN calls : calls[j].op = "request" => j = i

MistakeInv ==
  /\ calls \in Seq(CallSpace)
  /\ KeptFirst(calls, ClientOps, client.error)
  /\ KeptFirst(calls, RequestOps, request.error)
  /\ stage \notin {"client", "client_error"} => client.error = {}
  /\ stage \in {"client", "client_error", "built"} =>
       \A i \in DOMAIN calls : calls[i].op \notin RequestOps
  /\ UrlInv
  /\ stage = "client_error" => client.error = {result}
  /\ stage = "request_error" =>
       \/ request.error = {result}
       \/ request.error = {} /\ request.uri = Invalid
          /\ result = Call("request", None, Invalid)
  /\ stage = "sent" => request.error = {} /\ request.uri # Invalid

ChainInv == TypeOK /\ MistakeInv

USE BuilderAssumption

\* A call that is no mistake of the builder leaves the first one as it was.
LEMMA AcceptKeeps ==
  ASSUME NEW cs \in Seq(CallSpace), NEW call \in CallSpace, NEW ops, NEW error,
         KeptFirst(cs, ops, error), ~(call.op \in ops /\ Mistake(call))
  PROVE  KeptFirst(Append(cs, call), ops, error)
<1>1. /\ Len(Append(cs, call)) = Len(cs) + 1
      /\ \A i \in 1..Len(cs) : Append(cs, call)[i] = cs[i]
      /\ Append(cs, call)[Len(cs) + 1] = call
      /\ Append(cs, call) \in Seq(CallSpace)
  OBVIOUS
<1>2. DOMAIN cs = 1..Len(cs) /\ DOMAIN Append(cs, call) = 1..(Len(cs) + 1) /\ Len(cs) \in Nat
  BY <1>1
<1> DEFINE wrong == {i \in DOMAIN cs : cs[i].op \in ops /\ Mistake(cs[i])}
           after == {i \in DOMAIN Append(cs, call) :
                       Append(cs, call)[i].op \in ops /\ Mistake(Append(cs, call)[i])}
<1>3. after = wrong
  BY <1>1, <1>2
<1> HIDE DEF wrong, after
<1>4. \/ error = {} /\ wrong = {}
      \/ \E i \in DOMAIN cs : First(wrong, i) /\ error = {cs[i]}
  BY DEF KeptFirst, wrong
<1>5. \/ error = {} /\ after = {}
      \/ \E i \in DOMAIN Append(cs, call) : First(after, i) /\ error = {Append(cs, call)[i]}
  BY <1>1, <1>2, <1>3, <1>4
<1>6. QED
  BY <1>5 DEF KeptFirst, after

\* Reject keeps the first one.
LEMMA RejectKeeps ==
  ASSUME NEW cs \in Seq(CallSpace), NEW call \in CallSpace, NEW ops, NEW error,
         KeptFirst(cs, ops, error), call.op \in ops, Mistake(call)
  PROVE  KeptFirst(Append(cs, call), ops, IF error = {} THEN {call} ELSE error)
<1>1. /\ Len(Append(cs, call)) = Len(cs) + 1
      /\ \A i \in 1..Len(cs) : Append(cs, call)[i] = cs[i]
      /\ Append(cs, call)[Len(cs) + 1] = call
      /\ Append(cs, call) \in Seq(CallSpace)
  OBVIOUS
<1>2. DOMAIN cs = 1..Len(cs) /\ DOMAIN Append(cs, call) = 1..(Len(cs) + 1) /\ Len(cs) \in Nat
  BY <1>1
<1> DEFINE wrong == {i \in DOMAIN cs : cs[i].op \in ops /\ Mistake(cs[i])}
           after == {i \in DOMAIN Append(cs, call) :
                       Append(cs, call)[i].op \in ops /\ Mistake(Append(cs, call)[i])}
<1>3. after = wrong \cup {Len(cs) + 1} /\ wrong \subseteq 1..Len(cs)
  BY <1>1, <1>2
<1> HIDE DEF wrong, after
<1>4. \/ error = {} /\ wrong = {}
      \/ \E i \in DOMAIN cs : First(wrong, i) /\ error = {cs[i]}
  BY DEF KeptFirst, wrong
<1>5. CASE error = {} /\ wrong = {}
  <2>1. First(after, Len(cs) + 1)
    BY <1>2, <1>3, <1>5 DEF First
  <2>2. \E i \in DOMAIN Append(cs, call) :
          First(after, i) /\ {call} = {Append(cs, call)[i]}
    BY <1>1, <1>2, <2>1
  <2>3. QED
    BY <1>5, <2>2 DEF KeptFirst, after
<1>6. ASSUME NEW i \in DOMAIN cs, First(wrong, i), error = {cs[i]}
      PROVE KeptFirst(Append(cs, call), ops, error) /\ error # {}
  <2>1. First(after, i)
    BY <1>2, <1>3, <1>6 DEF First
  <2>2. \E j \in DOMAIN Append(cs, call) :
          First(after, j) /\ error = {Append(cs, call)[j]}
    BY <1>1, <1>2, <1>6, <2>1
  <2>3. error # {}
    BY <1>6
  <2>4. QED
    BY <2>2, <2>3 DEF KeptFirst, after
<1>7. QED
  BY <1>4, <1>5, <1>6

LEMMA CallsTyped ==
  /\ \A s \in Settings : \A v \in Inputs(s) : Call("set", s, v) \in CallSpace
  /\ \A v \in Values \cup {Invalid} : Call("user_agent", USER_AGENT, v) \in CallSpace
  /\ \A map \in HeaderMaps : Call("default_headers", None, map) \in CallSpace
  /\ \A n \in Names \cup {Invalid}, v \in Values \cup {Invalid} :
       /\ Call("default_header", n, v) \in CallSpace
       /\ Call("header", n, v) \in CallSpace
  /\ \A url \in {"valid", Invalid} : Call("request", None, url) \in CallSpace
  /\ \A d \in Durations : Call("timeout", None, d) \in CallSpace
  /\ \A b \in {"replayable", "streaming"} : Call("body", None, b) \in CallSpace
  /\ \A v \in {"value", Invalid} : Call("json", None, v) \in CallSpace
  BY DEF Call, CallSpace, Inputs, RequestOps, Texts

LEMMA TypeInit == Init => TypeOK
  BY DEF Init, TypeOK, NewRequest, NoHeaders, DefaultSettings, Headers

LEMMA TypeStep == TypeOK /\ [Next]_vars => TypeOK'
<1> SUFFICES ASSUME TypeOK, [Next]_vars PROVE TypeOK'
  OBVIOUS
<1> USE DEF TypeOK, OnClient, OnRequest, Made, Headers
<1>1. ASSUME NEW s \in Settings, NEW v \in Inputs(s), Set(s, v) PROVE TypeOK'
  BY <1>1 DEF Set, Inputs
<1>2. ASSUME NEW v \in Values \cup {Invalid}, UserAgent(v) PROVE TypeOK'
  BY <1>2, CallsTyped DEF UserAgent, Reject
<1>3. ASSUME NEW map \in HeaderMaps, DefaultHeaders(map) PROVE TypeOK'
  BY <1>3 DEF DefaultHeaders
<1>4. ASSUME NEW n \in Names \cup {Invalid}, NEW v \in Values \cup {Invalid},
             DefaultHeader(n, v)
      PROVE TypeOK'
  <2>1. CASE Invalid \in {n, v}
    <3>1. Call("default_header", n, v) \in CallSpace
      BY CallsTyped
    <3> QED
      BY <1>4, <2>1, <3>1 DEF DefaultHeader, Reject
  <2>2. CASE Invalid \notin {n, v}
    <3>1. n \in Names /\ <<v>> \in Seq(Values)
      BY <2>2
    <3>2. [client.defaults EXCEPT ![n] = <<v>>] \in Headers
      BY <3>1
    <3>3. client' = [client EXCEPT !.defaults = [client.defaults EXCEPT ![n] = <<v>>]]
      BY <1>4, <2>2 DEF DefaultHeader
    <3>4. QED
      BY <1>4, <3>2, <3>3 DEF DefaultHeader
  <2>3. QED
    BY <2>1, <2>2
<1>5. CASE Build
  <2>1. InsertUserAgent(client.defaults) \in Headers
    BY DEF InsertUserAgent
  <2>2. CASE UNCHANGED client
    BY <1>5, <2>2 DEF Build
  <2>3. CASE ~UNCHANGED client
    <3>1. PICK d \in Durations \cup BOOLEAN \cup {FiveMinutes, None} :
            client' = [client EXCEPT
              !.defaults = InsertUserAgent(client.defaults),
              !.settings["http3_negative_cache_duration"] = d]
      BY <1>5, <2>3 DEF Build, Settings
    <3>2. [client.settings EXCEPT !["http3_negative_cache_duration"] = d]
            \in [Settings -> Durations \cup BOOLEAN \cup {FiveMinutes, None}]
      OBVIOUS
    <3>3. client' = [client EXCEPT
            !.defaults = InsertUserAgent(client.defaults),
            !.settings = [client.settings EXCEPT !["http3_negative_cache_duration"] = d]]
      BY <3>1
    <3>4. QED
      BY <1>5, <2>1, <3>2, <3>3 DEF Build
  <2>4. QED
    BY <2>2, <2>3
<1>6. ASSUME NEW url \in {"valid", Invalid}, Start(url) PROVE TypeOK'
  BY <1>6 DEF Start, NewRequest, NoHeaders
<1>7. ASSUME NEW n \in Names \cup {Invalid}, NEW v \in Values \cup {Invalid}, Header(n, v)
      PROVE TypeOK'
  <2>1. CASE Invalid \in {n, v}
    <3>1. Call("header", n, v) \in CallSpace
      BY CallsTyped
    <3> QED
      BY <1>7, <2>1, <3>1 DEF Header, Reject
  <2>2. CASE Invalid \notin {n, v}
    <3>1. n \in Names /\ Append(request.headers[n], v) \in Seq(Values)
      BY <2>2
    <3>2. [request.headers EXCEPT ![n] = Append(request.headers[n], v)] \in Headers
      BY <3>1
    <3>3. request' = [request EXCEPT
            !.headers = [request.headers EXCEPT ![n] = Append(request.headers[n], v)]]
      BY <1>7, <2>2 DEF Header
    <3>4. QED
      BY <1>7, <3>2, <3>3 DEF Header
  <2>3. QED
    BY <2>1, <2>2
<1>8. ASSUME NEW d \in Durations, Timeout(d) PROVE TypeOK'
  BY <1>8 DEF Timeout
<1>9. CASE Body
  BY <1>9 DEF Body
<1>10. CASE BodyStreaming
  BY <1>10 DEF BodyStreaming
<1>11. ASSUME NEW v \in {"value", Invalid}, Json(v) PROVE TypeOK'
  <2>1. Labelled(request.headers) \in Headers
    BY DEF Labelled
  <2>2. QED
    BY <1>11, <2>1, CallsTyped DEF Json, Reject
<1>12. CASE Send
  BY <1>12 DEF Send
<1>13. CASE UNCHANGED vars
  BY <1>13 DEF vars
<1>14. QED
  BY <1>1, <1>2, <1>3, <1>4, <1>5, <1>6, <1>7, <1>8, <1>9, <1>10, <1>11, <1>12, <1>13
     DEF Next, Ended

\* A call on the client's builder, once it is known what error that has kept.
LEMMA ClientCall ==
  ASSUME MistakeInv, NEW call \in CallSpace, call.op \in ClientOps, OnClient(call),
         KeptFirst(calls', ClientOps, client'.error)
  PROVE  MistakeInv'
<1>1. /\ calls' = Append(calls, call) /\ calls \in Seq(CallSpace)
      /\ stage = "client" /\ stage' = "client" /\ request' = request
  BY DEF MistakeInv, OnClient, Made
<1>2. call.op \notin RequestOps /\ call.op # "request"
  BY DEF ClientOps, RequestOps
<1>3. KeptFirst(calls', RequestOps, request'.error)
  BY <1>1, <1>2, AcceptKeeps DEF MistakeInv
<1>4. /\ calls' \in Seq(CallSpace)
      /\ \A i \in DOMAIN calls' : (i \in DOMAIN calls /\ calls'[i] = calls[i]) \/ calls'[i] = call
  BY <1>1
<1>5. QED
  BY <1>1, <1>2, <1>3, <1>4 DEF MistakeInv, UrlInv

\* The same for a call on the request's builder.
LEMMA RequestCall ==
  ASSUME MistakeInv, NEW call \in CallSpace, call.op \in RequestOps, OnRequest(call),
         KeptFirst(calls', RequestOps, request'.error), request'.uri = request.uri
  PROVE  MistakeInv'
<1>1. /\ calls' = Append(calls, call) /\ calls \in Seq(CallSpace)
      /\ stage = "request" /\ stage' = "request" /\ client' = client
  BY DEF MistakeInv, OnRequest, Made
<1>2. call.op \notin ClientOps /\ call.op # "request"
  BY DEF ClientOps, RequestOps
<1>3. KeptFirst(calls', ClientOps, client'.error)
  BY <1>1, <1>2, AcceptKeeps DEF MistakeInv
<1>4. /\ calls' \in Seq(CallSpace)
      /\ \A i \in DOMAIN calls : i \in DOMAIN calls' /\ calls'[i] = calls[i]
      /\ \A i \in DOMAIN calls' : i \in DOMAIN calls \/ calls'[i] = call
  BY <1>1
<1>5. UrlInv'
  BY <1>1, <1>2, <1>4 DEF MistakeInv, UrlInv
<1>6. QED
  BY <1>1, <1>3, <1>4, <1>5 DEF MistakeInv

LEMMA MistakeStep == ChainInv /\ [Next]_vars => MistakeInv'
<1> SUFFICES ASSUME ChainInv, [Next]_vars PROVE MistakeInv'
  OBVIOUS
<1> USE DEF ChainInv
<1>1. ASSUME NEW s \in Settings, NEW v \in Inputs(s), Set(s, v) PROVE MistakeInv'
  <2> DEFINE call == Call("set", s, v)
  <2>1. call \in CallSpace /\ call.op \in ClientOps /\ ~Mistake(call)
    <3>1. v # Invalid /\ s # Invalid
      BY DEF Inputs, Texts, Settings
    <3>2. QED
      BY <3>1, CallsTyped DEF Call, Mistake, ClientOps
  <2>2. OnClient(call) /\ client'.error = client.error
    BY <1>1 DEF Set, TypeOK
  <2>3. KeptFirst(calls', ClientOps, client'.error)
    BY <2>1, <2>2, AcceptKeeps DEF MistakeInv, OnClient, Made
  <2>4. QED
    BY <2>1, <2>2, <2>3, ClientCall
<1>2. ASSUME NEW v \in Values \cup {Invalid}, UserAgent(v) PROVE MistakeInv'
  <2> DEFINE call == Call("user_agent", USER_AGENT, v)
  <2>1. call \in CallSpace /\ call.op \in ClientOps
    BY CallsTyped DEF Call, ClientOps
  <2>2. Mistake(call) <=> v = Invalid
    BY DEF Call, Mistake
  <2>3. OnClient(call)
    BY <1>2 DEF UserAgent
  <2>4. client'.error = IF v # Invalid THEN client.error
                        ELSE IF client.error = {} THEN {call} ELSE client.error
    BY <1>2 DEF UserAgent, Reject, TypeOK
  <2>5. KeptFirst(calls', ClientOps, client'.error)
    BY <2>1, <2>2, <2>3, <2>4, AcceptKeeps, RejectKeeps DEF MistakeInv, OnClient, Made
  <2>6. QED
    BY <2>1, <2>3, <2>5, ClientCall
<1>3. ASSUME NEW map \in HeaderMaps, DefaultHeaders(map) PROVE MistakeInv'
  <2> DEFINE call == Call("default_headers", None, map)
  <2>1. call \in CallSpace /\ call.op \in ClientOps /\ ~Mistake(call)
    BY CallsTyped DEF Call, Mistake, ClientOps
  <2>2. OnClient(call) /\ client'.error = client.error
    BY <1>3 DEF DefaultHeaders, TypeOK
  <2>3. KeptFirst(calls', ClientOps, client'.error)
    BY <2>1, <2>2, AcceptKeeps DEF MistakeInv, OnClient, Made
  <2>4. QED
    BY <2>1, <2>2, <2>3, ClientCall
<1>4. ASSUME NEW n \in Names \cup {Invalid}, NEW v \in Values \cup {Invalid},
             DefaultHeader(n, v)
      PROVE MistakeInv'
  <2> DEFINE call == Call("default_header", n, v)
  <2>1. call \in CallSpace /\ call.op \in ClientOps
    BY CallsTyped DEF Call, ClientOps
  <2>2. Mistake(call) <=> Invalid \in {n, v}
    BY DEF Call, Mistake
  <2>3. OnClient(call)
    BY <1>4 DEF DefaultHeader
  <2>4. client'.error = IF Invalid \notin {n, v} THEN client.error
                        ELSE IF client.error = {} THEN {call} ELSE client.error
    BY <1>4 DEF DefaultHeader, Reject, TypeOK
  <2>5. KeptFirst(calls', ClientOps, client'.error)
    BY <2>1, <2>2, <2>3, <2>4, AcceptKeeps, RejectKeeps DEF MistakeInv, OnClient, Made
  <2>6. QED
    BY <2>1, <2>3, <2>5, ClientCall
<1>5. CASE Build
  <2>1. stage = "client" /\ UNCHANGED <<request, calls>>
    BY <1>5 DEF Build
  <2>2. CASE stage' = "client_error" /\ client' = client /\ result' \in client.error
    <3>1. client.error = {result'}
      BY <2>2 DEF MistakeInv, KeptFirst
    <3>2. QED
      BY <2>1, <2>2, <3>1 DEF MistakeInv, UrlInv
  <2>3. CASE stage' = "built" /\ client.error = {} /\ client'.error = client.error
    BY <2>1, <2>3 DEF MistakeInv, UrlInv
  <2>4. QED
    BY <1>5, <2>2, <2>3 DEF Build, TypeOK
<1>6. ASSUME NEW url \in {"valid", Invalid}, Start(url) PROVE MistakeInv'
  <2> DEFINE call == Call("request", None, url)
  <2>1. /\ call \in CallSpace /\ call.op = "request" /\ calls \in Seq(CallSpace)
        /\ calls' = Append(calls, call) /\ stage = "built" /\ stage' = "request"
        /\ client' = client /\ request' = NewRequest(url)
    BY <1>6, CallsTyped DEF Start, Made, Call, MistakeInv
  <2>2. call.op \notin ClientOps /\ call.op \notin RequestOps
    BY <2>1 DEF ClientOps, RequestOps
  <2>3. KeptFirst(calls', ClientOps, client'.error)
    BY <2>1, <2>2, AcceptKeeps DEF MistakeInv
  <2>4. KeptFirst(calls, RequestOps, {})
    BY <2>1 DEF MistakeInv, KeptFirst
  <2>5. KeptFirst(calls', RequestOps, request'.error)
    BY <2>1, <2>2, <2>4, AcceptKeeps DEF NewRequest
  <2>6. /\ calls' \in Seq(CallSpace) /\ Len(calls') \in DOMAIN calls'
        /\ calls'[Len(calls')] = call
        /\ \A i \in DOMAIN calls' : i = Len(calls') \/ (i \in DOMAIN calls /\ calls'[i] = calls[i])
    BY <2>1
  <2>7. UrlInv'
    BY <2>1, <2>6 DEF MistakeInv, UrlInv, NewRequest
  <2>8. QED
    BY <2>1, <2>3, <2>5, <2>6, <2>7 DEF MistakeInv
<1>7. ASSUME NEW n \in Names \cup {Invalid}, NEW v \in Values \cup {Invalid}, Header(n, v)
      PROVE MistakeInv'
  <2> DEFINE call == Call("header", n, v)
  <2>1. call \in CallSpace /\ call.op \in RequestOps
    BY CallsTyped DEF Call, RequestOps
  <2>2. Mistake(call) <=> Invalid \in {n, v}
    BY DEF Call, Mistake
  <2>3. OnRequest(call)
    BY <1>7 DEF Header
  <2>4. /\ request'.uri = request.uri
        /\ request'.error = IF Invalid \notin {n, v} THEN request.error
                            ELSE IF request.error = {} THEN {call} ELSE request.error
    BY <1>7 DEF Header, Reject, TypeOK
  <2>5. KeptFirst(calls', RequestOps, request'.error)
    BY <2>1, <2>2, <2>3, <2>4, AcceptKeeps, RejectKeeps DEF MistakeInv, OnRequest, Made
  <2>6. QED
    BY <2>1, <2>3, <2>4, <2>5, RequestCall
<1>8. ASSUME NEW call \in CallSpace, call.op \in RequestOps, ~Mistake(call), OnRequest(call),
             request'.uri = request.uri, request'.error = request.error
      PROVE MistakeInv'
  <2>1. KeptFirst(calls', RequestOps, request'.error)
    BY <1>8, AcceptKeeps DEF MistakeInv, OnRequest, Made
  <2>2. QED
    BY <1>8, <2>1, RequestCall
<1>9. ASSUME NEW d \in Durations, Timeout(d) PROVE MistakeInv'
  <2> DEFINE call == Call("timeout", None, d)
  <2>1. call \in CallSpace /\ call.op \in RequestOps /\ ~Mistake(call)
    BY CallsTyped DEF Call, Mistake, RequestOps
  <2>2. OnRequest(call) /\ request'.uri = request.uri /\ request'.error = request.error
    BY <1>9 DEF Timeout, TypeOK
  <2>3. QED
    BY <1>8, <2>1, <2>2
<1>10. ASSUME NEW b \in {"replayable", "streaming"}, OnRequest(Call("body", None, b)),
              request' = [request EXCEPT !.body = b]
       PROVE MistakeInv'
  <2> DEFINE call == Call("body", None, b)
  <2>1. call \in CallSpace /\ call.op \in RequestOps /\ ~Mistake(call)
    BY CallsTyped DEF Call, Mistake, RequestOps, Texts
  <2>2. request'.uri = request.uri /\ request'.error = request.error
    BY <1>10 DEF TypeOK
  <2>3. QED
    BY <1>8, <1>10, <2>1, <2>2
<1>11. ASSUME NEW v \in {"value", Invalid}, Json(v) PROVE MistakeInv'
  <2> DEFINE call == Call("json", None, v)
  <2>1. call \in CallSpace /\ call.op \in RequestOps
    BY CallsTyped DEF Call, RequestOps
  <2>2. Mistake(call) <=> v = Invalid
    BY DEF Call, Mistake
  <2>3. OnRequest(call)
    BY <1>11 DEF Json
  <2>4. /\ request'.uri = request.uri
        /\ request'.error = IF v # Invalid THEN request.error
                            ELSE IF request.error = {} THEN {call} ELSE request.error
    BY <1>11 DEF Json, Reject, TypeOK
  <2>5. KeptFirst(calls', RequestOps, request'.error)
    BY <2>1, <2>2, <2>3, <2>4, AcceptKeeps, RejectKeeps DEF MistakeInv, OnRequest, Made
  <2>6. QED
    BY <2>1, <2>3, <2>4, <2>5, RequestCall
<1>12. CASE Send
  <2>1. stage = "request" /\ UNCHANGED <<client, request, calls>>
    BY <1>12 DEF Send
  <2>2. CASE stage' = "request_error" /\ result' \in request.error
    <3>1. request.error = {result'}
      BY <2>2 DEF MistakeInv, KeptFirst
    <3>2. QED
      BY <2>1, <2>2, <3>1 DEF MistakeInv, UrlInv
  <2>3. CASE /\ stage' = "request_error" /\ request.error = {} /\ request.uri = Invalid
             /\ result' = Call("request", None, Invalid)
    BY <2>1, <2>3 DEF MistakeInv, UrlInv
  <2>4. CASE stage' = "sent" /\ request.error = {} /\ request.uri # Invalid
    BY <2>1, <2>4 DEF MistakeInv, UrlInv
  <2>5. QED
    BY <1>12, <2>2, <2>3, <2>4 DEF Send
<1>13. CASE UNCHANGED vars
  BY <1>13 DEF vars, MistakeInv, UrlInv
<1>14. QED
  BY <1>1, <1>2, <1>3, <1>4, <1>5, <1>6, <1>7, <1>9, <1>10, <1>11, <1>12, <1>13
     DEF Next, Ended, Body, BodyStreaming

LEMMA ChainInvariant == Spec => []ChainInv
<1>1. Init => ChainInv
  <2>1. Init => MistakeInv
    BY DEF Init, MistakeInv, KeptFirst, UrlInv, NewRequest
  <2>2. QED
    BY <2>1, TypeInit DEF ChainInv
<1>2. ChainInv /\ [Next]_vars => ChainInv'
  BY TypeStep, MistakeStep DEF ChainInv
<1>3. QED
  BY <1>1, <1>2, PTL DEF Spec

\* Every variable of a chain always has its type (client.rs, request.rs).
THEOREM TypeCorrect == Spec => []TypeOK
  BY ChainInvariant, PTL DEF ChainInv

\* A chain with a mistake, however long, ends in the error of its first one
\* (build, send).
THEOREM MistakesSurface == Spec => []FirstMistakeSurfaces
<1>1. ChainInv => FirstMistakeSurfaces
  <2> SUFFICES ASSUME ChainInv PROVE FirstMistakeSurfaces
    OBVIOUS
  <2> USE DEF ChainInv, MistakeInv
  <2>1. stage \notin {"client", "client_error"} => Mistakes(ClientOps) = {}
    BY DEF KeptFirst, Mistakes
  <2>2. stage = "client_error" =>
          \E i \in DOMAIN calls : First(Mistakes(ClientOps), i) /\ result = calls[i]
    BY DEF KeptFirst, Mistakes
  <2>3. ASSUME stage = "sent" PROVE \A i \in DOMAIN calls : ~Mistake(calls[i])
    <3> SUFFICES ASSUME NEW i \in DOMAIN calls, Mistake(calls[i]) PROVE FALSE
      OBVIOUS
    <3>1. calls[i] \in CallSpace
      OBVIOUS
    <3>2. calls[i].op \in ClientOps \cup RequestOps \cup {"request"}
      BY <3>1 DEF CallSpace, ClientOps
    <3>3. calls[i].op \notin ClientOps \cup RequestOps
      BY <2>3 DEF KeptFirst
    <3>4. calls[i] = Call("request", None, request.uri)
      BY <2>3, <3>2, <3>3 DEF UrlInv
    <3>5. QED
      BY <2>3, <3>4 DEF Mistake, Call
  <2>4. ASSUME stage = "request_error"
        PROVE \E i \in DOMAIN calls :
                /\ result = calls[i]
                /\ \/ First(Mistakes(RequestOps), i)
                   \/ Mistakes(RequestOps) = {} /\ First(Mistakes({"request"}), i)
    <3>1. CASE request.error = {result}
      BY <3>1 DEF KeptFirst, Mistakes
    <3>2. CASE /\ request.error = {} /\ request.uri = Invalid
               /\ result = Call("request", None, Invalid)
      <4>1. Mistakes(RequestOps) = {}
        BY <3>2 DEF KeptFirst, Mistakes
      <4>2. PICK i \in DOMAIN calls :
              /\ calls[i] = Call("request", None, Invalid)
              /\ \A j \in DOMAIN calls : calls[j].op = "request" => j = i
        BY <2>4, <3>2 DEF UrlInv
      <4>3. Mistakes({"request"}) = {i}
        BY <4>2 DEF Mistakes, Mistake, Call
      <4>4. i \in Nat
        OBVIOUS
      <4>5. QED
        BY <3>2, <4>1, <4>2, <4>3, <4>4 DEF First
    <3>3. QED
      BY <2>4, <3>1, <3>2
  <2>5. QED
    BY <2>1, <2>2, <2>3, <2>4 DEF FirstMistakeSurfaces
<1>2. QED
  BY <1>1, ChainInvariant, PTL
-----------------------------------------------------------------------------
(* The last call about each thing counts *)

TimeoutKept ==
  LET own == Accepted({"timeout"})
  IN  IF own = {} THEN request.timeout = None
      ELSE \E i \in DOMAIN calls :
             Latest(own, i) /\ request.timeout = calls[i].value /\ calls[i].value # None

UserAgentKept ==
  LET ua == Accepted({"user_agent"})
  IN  IF ua = {} THEN client.userAgent = None
      ELSE \E i \in DOMAIN calls :
             Latest(ua, i) /\ client.userAgent = calls[i].value /\ calls[i].value # None

\* The default of the negative-cache duration is put in by build().
Default(s) ==
  IF s = "http3_negative_cache_duration" /\ stage \notin {"client", "client_error"}
  THEN FiveMinutes ELSE DefaultSettings[s]

SettingKept(s) ==
  LET is == About({"set"}, s)
  IN  IF is = {} THEN client.settings[s] = Default(s)
      ELSE \E i \in DOMAIN calls :
             Latest(is, i) /\ client.settings[s] = calls[i].value /\ calls[i].value # None

DefaultCalls(n) == Accepted({"default_headers"}) \cup About({"default_header"}, n)

\* A default header before that of user_agent is put in by build().
DefaultKept(n) ==
  IF DefaultCalls(n) = {} THEN client.defaults[n] = <<>>
  ELSE \E i \in DOMAIN calls :
         /\ Latest(DefaultCalls(n), i)
         /\ client.defaults[n] = IF calls[i].op = "default_headers"
                                 THEN calls[i].value[n] ELSE <<calls[i].value>>

LatestInv ==
  /\ BodyAsCalled
  /\ TimeoutKept
  /\ UserAgentKept
  /\ \A s \in Settings : SettingKept(s)
  /\ IF stage \in {"client", "client_error"}
     THEN \A n \in Names : DefaultKept(n) ELSE \A n \in Names : DefaultAsCalled(n)
  /\ stage = "sent" => TimeoutAsCalled

Counts(call, op) == call.op = op /\ ~Mistake(call)

\* What a call does to the fields: the one it is about has its value.
Effects(call) ==
  /\ request'.body = IF Counts(call, "json") THEN "replayable"
                     ELSE IF Counts(call, "body") THEN call.value ELSE request.body
  /\ request'.timeout = IF Counts(call, "timeout") THEN call.value ELSE request.timeout
  /\ client'.userAgent = IF Counts(call, "user_agent") THEN call.value
                                                       ELSE client.userAgent
  /\ \A s \in Settings :
       client'.settings[s] = IF Counts(call, "set") /\ call.name = s
                             THEN call.value ELSE client.settings[s]
  /\ \A n \in Names :
       client'.defaults[n] =
         IF Counts(call, "default_headers") THEN call.value[n]
         ELSE IF Counts(call, "default_header") /\ call.name = n THEN <<call.value>>
         ELSE client.defaults[n]
  /\ call.op \in {"timeout", "user_agent", "set"} => call.value # None

LEMMA CallsGrow ==
  ASSUME calls \in Seq(CallSpace), NEW call \in CallSpace, calls' = Append(calls, call)
  PROVE  /\ Len(calls) \in Nat
         /\ DOMAIN calls' = DOMAIN calls \cup {Len(calls) + 1}
         /\ \A i \in DOMAIN calls : /\ i \in Nat /\ i < Len(calls) + 1
                                    /\ calls'[i] = calls[i]
         /\ calls'[Len(calls) + 1] = call
<1>1. DOMAIN calls = 1..Len(calls) /\ Len(calls) \in Nat
  OBVIOUS
<1>2. /\ DOMAIN calls' = 1..(Len(calls) + 1)
      /\ \A i \in 1..Len(calls) : calls'[i] = calls[i]
      /\ calls'[Len(calls) + 1] = call
  OBVIOUS
<1> QED
  BY <1>1, <1>2

\* The accepted calls are those from before, and the new one if it counts.
LEMMA AcceptedGrow ==
  ASSUME calls \in Seq(CallSpace), NEW call \in CallSpace, calls' = Append(calls, call),
         NEW ops
  PROVE  /\ Accepted(ops) \subseteq DOMAIN calls
         /\ Accepted(ops)' = IF call.op \in ops /\ ~Mistake(call)
                             THEN Accepted(ops) \cup {Len(calls) + 1} ELSE Accepted(ops)
         /\ \A name : About(ops, name)' =
              IF call.op \in ops /\ ~Mistake(call) /\ call.name = name
              THEN About(ops, name) \cup {Len(calls) + 1} ELSE About(ops, name)
<1>1. Accepted(ops) \subseteq DOMAIN calls
  BY DEF Accepted
<1>2. Accepted(ops)' = IF call.op \in ops /\ ~Mistake(call)
                       THEN Accepted(ops) \cup {Len(calls) + 1} ELSE Accepted(ops)
  BY CallsGrow DEF Accepted, Mistake
<1>3. ASSUME NEW name
      PROVE  About(ops, name)' =
               IF call.op \in ops /\ ~Mistake(call) /\ call.name = name
               THEN About(ops, name) \cup {Len(calls) + 1} ELSE About(ops, name)
  BY <1>1, <1>2, CallsGrow DEF About
<1> QED
  BY <1>1, <1>2, <1>3

\* A new call is the latest of any calls it joins.
LEMMA NewestIsLatest ==
  ASSUME calls \in Seq(CallSpace), NEW call \in CallSpace, calls' = Append(calls, call),
         NEW is, is \subseteq DOMAIN calls
  PROVE  Latest(is \cup {Len(calls) + 1}, Len(calls) + 1)
BY CallsGrow DEF Latest

\* One more call, with the effects it should have, keeps each field in step.
LEMMA BodyStep ==
  ASSUME calls \in Seq(CallSpace), NEW call \in CallSpace, calls' = Append(calls, call),
         Effects(call), BodyAsCalled
  PROVE  BodyAsCalled'
<1> DEFINE is == Accepted({"body", "json"})
<1>1. /\ is \subseteq DOMAIN calls
      /\ is' = IF Counts(call, "body") \/ Counts(call, "json")
               THEN is \cup {Len(calls) + 1} ELSE is
  BY AcceptedGrow DEF Counts
<1>2. Latest(is \cup {Len(calls) + 1}, Len(calls) + 1)
  BY <1>1, NewestIsLatest
<1>3. IF is = {} THEN request.body = "empty"
      ELSE \E i \in DOMAIN calls :
             /\ Latest(is, i)
             /\ request.body = IF calls[i].op = "json" THEN "replayable" ELSE calls[i].value
  BY DEF BodyAsCalled
<1> HIDE DEF is
<1>4. IF is' = {} THEN request'.body = "empty"
      ELSE \E i \in DOMAIN calls' :
             /\ Latest(is', i)
             /\ request'.body = IF calls'[i].op = "json" THEN "replayable" ELSE calls'[i].value
  <2>1. CASE Counts(call, "body") \/ Counts(call, "json")
    <3>1. /\ is' # {} /\ Len(calls) + 1 \in DOMAIN calls'
          /\ Latest(is', Len(calls) + 1) /\ calls'[Len(calls) + 1] = call
      BY <1>1, <1>2, <2>1, CallsGrow
    <3>2. request'.body = IF call.op = "json" THEN "replayable" ELSE call.value
      BY <2>1 DEF Effects, Counts
    <3> QED
      BY <3>1, <3>2
  <2>2. CASE ~Counts(call, "body") /\ ~Counts(call, "json")
    BY <1>1, <1>3, <2>2, CallsGrow DEF Effects
  <2> QED
    BY <2>1, <2>2
<1> QED
  BY <1>4 DEF BodyAsCalled, is, Latest

LEMMA TimeoutStep ==
  ASSUME calls \in Seq(CallSpace), NEW call \in CallSpace, calls' = Append(calls, call),
         Effects(call), TimeoutKept
  PROVE  TimeoutKept'
<1> DEFINE is == Accepted({"timeout"})
<1>1. /\ is \subseteq DOMAIN calls
      /\ is' = IF Counts(call, "timeout") THEN is \cup {Len(calls) + 1} ELSE is
  BY AcceptedGrow DEF Counts
<1>2. Latest(is \cup {Len(calls) + 1}, Len(calls) + 1)
  BY <1>1, NewestIsLatest
<1>3. IF is = {} THEN request.timeout = None
      ELSE \E i \in DOMAIN calls :
             Latest(is, i) /\ request.timeout = calls[i].value /\ calls[i].value # None
  BY DEF TimeoutKept
<1> HIDE DEF is
<1>4. IF is' = {} THEN request'.timeout = None
      ELSE \E i \in DOMAIN calls' :
             Latest(is', i) /\ request'.timeout = calls'[i].value /\ calls'[i].value # None
  <2>1. CASE Counts(call, "timeout")
    BY <1>1, <1>2, <2>1, CallsGrow DEF Effects, Counts
  <2>2. CASE ~Counts(call, "timeout")
    BY <1>1, <1>3, <2>2, CallsGrow DEF Effects
  <2> QED
    BY <2>1, <2>2
<1> QED
  BY <1>4 DEF TimeoutKept, is, Latest

LEMMA UserAgentStep ==
  ASSUME calls \in Seq(CallSpace), NEW call \in CallSpace, calls' = Append(calls, call),
         Effects(call), UserAgentKept
  PROVE  UserAgentKept'
<1> DEFINE is == Accepted({"user_agent"})
<1>1. /\ is \subseteq DOMAIN calls
      /\ is' = IF Counts(call, "user_agent") THEN is \cup {Len(calls) + 1} ELSE is
  BY AcceptedGrow DEF Counts
<1>2. Latest(is \cup {Len(calls) + 1}, Len(calls) + 1)
  BY <1>1, NewestIsLatest
<1>3. IF is = {} THEN client.userAgent = None
      ELSE \E i \in DOMAIN calls :
             Latest(is, i) /\ client.userAgent = calls[i].value /\ calls[i].value # None
  BY DEF UserAgentKept
<1> HIDE DEF is
<1>4. IF is' = {} THEN client'.userAgent = None
      ELSE \E i \in DOMAIN calls' :
             Latest(is', i) /\ client'.userAgent = calls'[i].value /\ calls'[i].value # None
  <2>1. CASE Counts(call, "user_agent")
    BY <1>1, <1>2, <2>1, CallsGrow DEF Effects, Counts
  <2>2. CASE ~Counts(call, "user_agent")
    BY <1>1, <1>3, <2>2, CallsGrow DEF Effects
  <2> QED
    BY <2>1, <2>2
<1> QED
  BY <1>4 DEF UserAgentKept, is, Latest

LEMMA SettingStep ==
  ASSUME calls \in Seq(CallSpace), NEW call \in CallSpace, calls' = Append(calls, call),
         Effects(call), NEW s \in Settings, SettingKept(s), Default(s)' = Default(s)
  PROVE  SettingKept(s)'
<1> DEFINE is == About({"set"}, s)
           counts == Counts(call, "set") /\ call.name = s
<1>1. /\ is \subseteq DOMAIN calls
      /\ is' = IF counts THEN is \cup {Len(calls) + 1} ELSE is
  BY AcceptedGrow DEF Counts, About
<1>2. Latest(is \cup {Len(calls) + 1}, Len(calls) + 1)
  BY <1>1, NewestIsLatest
<1>3. IF is = {} THEN client.settings[s] = Default(s)
      ELSE \E i \in DOMAIN calls :
             Latest(is, i) /\ client.settings[s] = calls[i].value /\ calls[i].value # None
  BY DEF SettingKept
<1>4. /\ client'.settings[s] = IF counts THEN call.value ELSE client.settings[s]
      /\ counts => call.value # None
  BY DEF Effects, Counts
<1> HIDE DEF is, counts
<1>5. IF is' = {} THEN client'.settings[s] = Default(s)'
      ELSE \E i \in DOMAIN calls' :
             Latest(is', i) /\ client'.settings[s] = calls'[i].value /\ calls'[i].value # None
  <2>1. CASE counts
    BY <1>1, <1>2, <1>4, <2>1, CallsGrow
  <2>2. CASE ~counts
    BY <1>1, <1>3, <1>4, <2>2, CallsGrow
  <2> QED
    BY <2>1, <2>2
<1> QED
  BY <1>5 DEF SettingKept, is, Latest

LEMMA DefaultStep ==
  ASSUME calls \in Seq(CallSpace), NEW call \in CallSpace, calls' = Append(calls, call),
         Effects(call), NEW n \in Names, DefaultKept(n)
  PROVE  DefaultKept(n)'
<1> DEFINE is == DefaultCalls(n)
           all == Counts(call, "default_headers")
           one == Counts(call, "default_header") /\ call.name = n
<1>1. /\ is \subseteq DOMAIN calls
      /\ is' = IF all \/ one THEN is \cup {Len(calls) + 1} ELSE is
  <2>1. Accepted({"default_headers"}) \subseteq DOMAIN calls
    BY AcceptedGrow
  <2>2. About({"default_header"}, n) \subseteq DOMAIN calls
    BY AcceptedGrow DEF About
  <2>3. Accepted({"default_headers"})' =
          IF all THEN Accepted({"default_headers"}) \cup {Len(calls) + 1}
                 ELSE Accepted({"default_headers"})
    BY AcceptedGrow DEF Counts
  <2>4. About({"default_header"}, n)' =
          IF one THEN About({"default_header"}, n) \cup {Len(calls) + 1}
                 ELSE About({"default_header"}, n)
    <3>1. /\ Accepted({"default_header"}) \subseteq DOMAIN calls
          /\ Accepted({"default_header"})' =
               IF Counts(call, "default_header")
               THEN Accepted({"default_header"}) \cup {Len(calls) + 1}
               ELSE Accepted({"default_header"})
      BY AcceptedGrow DEF Counts
    <3>2. QED
      BY <3>1, CallsGrow DEF About
  <2>5. is' = Accepted({"default_headers"})' \cup About({"default_header"}, n)'
    BY DEF DefaultCalls
  <2> HIDE DEF all, one
  <2> QED
    BY <2>1, <2>2, <2>3, <2>4, <2>5 DEF DefaultCalls
<1>2. Latest(is \cup {Len(calls) + 1}, Len(calls) + 1)
  BY <1>1, NewestIsLatest
<1>3. IF is = {} THEN client.defaults[n] = <<>>
      ELSE \E i \in DOMAIN calls :
             /\ Latest(is, i)
             /\ client.defaults[n] = IF calls[i].op = "default_headers"
                                     THEN calls[i].value[n] ELSE <<calls[i].value>>
  BY DEF DefaultKept
<1>4. client'.defaults[n] = IF all THEN call.value[n]
                            ELSE IF one THEN <<call.value>> ELSE client.defaults[n]
  BY DEF Effects
<1>5. /\ all => call.op = "default_headers"
      /\ one => call.op = "default_header"
  BY DEF Counts
<1> HIDE DEF is, all, one
<1>6. IF is' = {} THEN client'.defaults[n] = <<>>
      ELSE \E i \in DOMAIN calls' :
             /\ Latest(is', i)
             /\ client'.defaults[n] = IF calls'[i].op = "default_headers"
                                      THEN calls'[i].value[n] ELSE <<calls'[i].value>>
  <2>1. CASE all \/ one
    BY <1>1, <1>2, <1>4, <1>5, <2>1, CallsGrow
  <2>2. CASE ~all /\ ~one
    BY <1>1, <1>3, <1>4, <2>2, CallsGrow
  <2> QED
    BY <2>1, <2>2
<1> QED
  BY <1>6 DEF DefaultKept, DefaultCalls, is, Latest

\* A call on the request changes nothing of what was said to the client.
LEMMA DefaultStays ==
  ASSUME calls \in Seq(CallSpace), NEW call \in CallSpace, calls' = Append(calls, call),
         call.op \in RequestOps \cup {"request"}, client' = client,
         NEW n \in Names, DefaultAsCalled(n)
  PROVE  DefaultAsCalled(n)'
<1>1. /\ Accepted({"user_agent"})' = Accepted({"user_agent"})
      /\ Accepted({"default_headers"})' = Accepted({"default_headers"})
      /\ Accepted({"default_header"})' = Accepted({"default_header"})
  BY AcceptedGrow DEF RequestOps
<1>2. /\ Accepted({"default_header"}) \subseteq DOMAIN calls
      /\ \A i \in DOMAIN calls : i \in DOMAIN calls' /\ calls'[i] = calls[i]
  BY CallsGrow DEF Accepted
<1>3. About({"default_header"}, n)' = About({"default_header"}, n)
  BY <1>1, <1>2 DEF About
<1> QED
  BY <1>1, <1>2, <1>3 DEF DefaultAsCalled, Latest

\* The calls of either builder, and the one that starts a request.
OnBuilder(call) ==
  /\ calls' = Append(calls, call)
  /\ \/ stage = "client" /\ stage' = "client"
     \/ /\ stage \in {"built", "request"} /\ stage' = "request"
        /\ call.op \in RequestOps \cup {"request"}
        /\ client' = client

LEMMA CallStep ==
  ASSUME ChainInv, LatestInv, NEW call \in CallSpace, OnBuilder(call), Effects(call)
  PROVE  LatestInv'
<1>1. calls \in Seq(CallSpace) /\ calls' = Append(calls, call)
  BY DEF ChainInv, MistakeInv, OnBuilder
<1>2. BodyAsCalled' /\ TimeoutKept' /\ UserAgentKept'
  BY <1>1, BodyStep, TimeoutStep, UserAgentStep DEF LatestInv
<1>3. ASSUME NEW s \in Settings PROVE SettingKept(s)'
  <2>1. Default(s)' = Default(s)
    BY DEF Default, OnBuilder
  <2>2. SettingKept(s)
    BY DEF LatestInv
  <2> QED
    BY <1>1, <2>1, <2>2, SettingStep
<1>4. CASE stage = "client" /\ stage' = "client"
  <2>1. ASSUME NEW n \in Names PROVE DefaultKept(n)'
    BY <1>1, <1>4, DefaultStep DEF LatestInv
  <2> QED
    BY <1>2, <1>3, <1>4, <2>1 DEF LatestInv
<1>5. CASE /\ stage \in {"built", "request"} /\ stage' = "request"
           /\ call.op \in RequestOps \cup {"request"} /\ client' = client
  <2>1. ASSUME NEW n \in Names PROVE DefaultAsCalled(n)'
    BY <1>1, <1>5, DefaultStays DEF LatestInv
  <2> QED
    BY <1>2, <1>3, <1>5, <2>1 DEF LatestInv
<1> QED
  BY <1>4, <1>5 DEF OnBuilder

LEMMA ClientEffects ==
  ASSUME ChainInv
  PROVE  /\ \A s \in Settings : \A v \in Inputs(s) :
              Set(s, v) => Effects(Call("set", s, v)) /\ OnBuilder(Call("set", s, v))
         /\ \A v \in Values \cup {Invalid} :
              UserAgent(v) => /\ Effects(Call("user_agent", USER_AGENT, v))
                              /\ OnBuilder(Call("user_agent", USER_AGENT, v))
         /\ \A map \in HeaderMaps :
              DefaultHeaders(map) => /\ Effects(Call("default_headers", None, map))
                                     /\ OnBuilder(Call("default_headers", None, map))
         /\ \A n \in Names \cup {Invalid}, v \in Values \cup {Invalid} :
              DefaultHeader(n, v) => /\ Effects(Call("default_header", n, v))
                                     /\ OnBuilder(Call("default_header", n, v))
<1> USE DEF ChainInv, TypeOK, Headers
<1>1. ASSUME NEW s \in Settings, NEW v \in Inputs(s), Set(s, v)
      PROVE  Effects(Call("set", s, v)) /\ OnBuilder(Call("set", s, v))
  <2>1. v # None /\ v # Invalid /\ s # Invalid
    BY DEF Inputs, Texts, Settings
  <2>2. /\ client' = [client EXCEPT !.settings[s] = v]
        /\ UNCHANGED request /\ OnBuilder(Call("set", s, v))
    BY <1>1 DEF Set, OnClient, Made, OnBuilder
  <2>3. client'.settings = [client.settings EXCEPT ![s] = v]
        /\ client'.defaults = client.defaults /\ client'.userAgent = client.userAgent
    BY <2>2
  <2> QED
    BY <2>1, <2>2, <2>3 DEF Effects, Counts, Mistake, Call
<1>2. ASSUME NEW v \in Values \cup {Invalid}, UserAgent(v)
      PROVE  /\ Effects(Call("user_agent", USER_AGENT, v))
             /\ OnBuilder(Call("user_agent", USER_AGENT, v))
  <2>1. v # None /\ UNCHANGED request /\ OnBuilder(Call("user_agent", USER_AGENT, v))
    BY <1>2 DEF UserAgent, OnClient, Made, OnBuilder
  <2>2. /\ client'.settings = client.settings /\ client'.defaults = client.defaults
        /\ client'.userAgent = IF v = Invalid THEN client.userAgent ELSE v
    BY <1>2 DEF UserAgent, Reject
  <2> QED
    BY <2>1, <2>2 DEF Effects, Counts, Mistake, Call
<1>3. ASSUME NEW map \in HeaderMaps, DefaultHeaders(map)
      PROVE  /\ Effects(Call("default_headers", None, map))
             /\ OnBuilder(Call("default_headers", None, map))
  <2>1. map # Invalid /\ UNCHANGED request /\ OnBuilder(Call("default_headers", None, map))
    BY <1>3 DEF DefaultHeaders, OnClient, Made, OnBuilder
  <2>2. /\ client'.settings = client.settings /\ client'.defaults = map
        /\ client'.userAgent = client.userAgent
    BY <1>3 DEF DefaultHeaders
  <2> QED
    BY <2>1, <2>2 DEF Effects, Counts, Mistake, Call
<1>4. ASSUME NEW n \in Names \cup {Invalid}, NEW v \in Values \cup {Invalid},
             DefaultHeader(n, v)
      PROVE  /\ Effects(Call("default_header", n, v))
             /\ OnBuilder(Call("default_header", n, v))
  <2>1. UNCHANGED request /\ OnBuilder(Call("default_header", n, v))
    BY <1>4 DEF DefaultHeader, OnClient, Made, OnBuilder
  <2>2. CASE Invalid \in {n, v}
    <3>1. /\ client'.settings = client.settings /\ client'.defaults = client.defaults
          /\ client'.userAgent = client.userAgent
      BY <1>4, <2>2 DEF DefaultHeader, Reject
    <3> QED
      BY <2>1, <2>2, <3>1 DEF Effects, Counts, Mistake, Call
  <2>3. CASE Invalid \notin {n, v}
    <3>1. client' = [client EXCEPT !.defaults[n] = <<v>>]
      BY <1>4, <2>3 DEF DefaultHeader
    <3>2. /\ client'.settings = client.settings
          /\ client'.defaults = [client.defaults EXCEPT ![n] = <<v>>]
          /\ client'.userAgent = client.userAgent
      BY <3>1
    <3> QED
      BY <2>1, <2>3, <3>2 DEF Effects, Counts, Mistake, Call
  <2> QED
    BY <2>2, <2>3
<1> QED
  BY <1>1, <1>2, <1>3, <1>4

LEMMA RequestEffects ==
  ASSUME ChainInv
  PROVE  /\ \A n \in Names \cup {Invalid}, v \in Values \cup {Invalid} :
              Header(n, v) => /\ Effects(Call("header", n, v))
                              /\ OnBuilder(Call("header", n, v))
         /\ \A t \in Durations :
              Timeout(t) => /\ Effects(Call("timeout", None, t))
                            /\ OnBuilder(Call("timeout", None, t))
         /\ Body => /\ Effects(Call("body", None, "replayable"))
                    /\ OnBuilder(Call("body", None, "replayable"))
         /\ BodyStreaming => /\ Effects(Call("body", None, "streaming"))
                             /\ OnBuilder(Call("body", None, "streaming"))
         /\ \A v \in {"value", Invalid} :
              Json(v) => /\ Effects(Call("json", None, v))
                         /\ OnBuilder(Call("json", None, v))
<1> USE DEF ChainInv, TypeOK, OnRequest, Made, OnBuilder, RequestOps
<1>1. ASSUME NEW n \in Names \cup {Invalid}, NEW v \in Values \cup {Invalid}, Header(n, v)
      PROVE  Effects(Call("header", n, v)) /\ OnBuilder(Call("header", n, v))
  <2>1. /\ request'.body = request.body /\ request'.timeout = request.timeout
        /\ client' = client /\ OnBuilder(Call("header", n, v))
    BY <1>1 DEF Header, Reject, Call
  <2> QED
    BY <2>1 DEF Effects, Counts, Call
<1>2. ASSUME NEW t \in Durations, Timeout(t)
      PROVE  Effects(Call("timeout", None, t)) /\ OnBuilder(Call("timeout", None, t))
  BY <1>2 DEF Timeout, Effects, Counts, Mistake, Call
<1>3. ASSUME NEW b \in {"replayable", "streaming"}, OnRequest(Call("body", None, b)),
             request' = [request EXCEPT !.body = b]
      PROVE  Effects(Call("body", None, b)) /\ OnBuilder(Call("body", None, b))
  BY <1>3 DEF Effects, Counts, Mistake, Call, Texts
<1>4. ASSUME NEW v \in {"value", Invalid}, Json(v)
      PROVE  Effects(Call("json", None, v)) /\ OnBuilder(Call("json", None, v))
  <2>1. /\ request'.body = IF v = Invalid THEN request.body ELSE "replayable"
        /\ request'.timeout = request.timeout
        /\ client' = client /\ OnBuilder(Call("json", None, v))
    BY <1>4 DEF Json, Reject, Call
  <2> QED
    BY <2>1 DEF Effects, Counts, Mistake, Call
<1> QED
  BY <1>1, <1>2, <1>3, <1>4 DEF Body, BodyStreaming

\* A request starts with an empty body and no timeout, as it has had no calls.
LEMMA StartEffects ==
  ASSUME ChainInv, LatestInv, NEW url \in {"valid", Invalid}, Start(url)
  PROVE  Effects(Call("request", None, url)) /\ OnBuilder(Call("request", None, url))
<1>1. Accepted({"body", "json"}) = {} /\ Accepted({"timeout"}) = {}
  BY DEF ChainInv, MistakeInv, Start, Made, Accepted, RequestOps
<1>2. request.body = "empty" /\ request.timeout = None
  BY <1>1 DEF LatestInv, BodyAsCalled, TimeoutKept
<1>3. /\ request'.body = "empty" /\ request'.timeout = None /\ client' = client
      /\ OnBuilder(Call("request", None, url))
  BY DEF Start, Made, NewRequest, OnBuilder, Call
<1> QED
  BY <1>2, <1>3 DEF Effects, Counts, Call

\* What says nothing and changes no field keeps them in step.
LEMMA FieldsKept ==
  ASSUME LatestInv, UNCHANGED <<client, request, calls>>,
         \A s \in Settings : Default(s)' = Default(s)
  PROVE  /\ BodyAsCalled' /\ TimeoutKept' /\ UserAgentKept'
         /\ \A s \in Settings : SettingKept(s)'
         /\ \A n \in Names : /\ DefaultKept(n) => DefaultKept(n)'
                             /\ DefaultAsCalled(n) => DefaultAsCalled(n)'
<1>1. BodyAsCalled' /\ TimeoutKept' /\ UserAgentKept'
  BY DEF LatestInv, BodyAsCalled, TimeoutKept, UserAgentKept, Accepted, Latest
<1>2. ASSUME NEW s \in Settings PROVE SettingKept(s)'
  <2>1. SettingKept(s) /\ Default(s)' = Default(s)
    BY DEF LatestInv
  <2> QED
    BY <2>1 DEF SettingKept, About, Accepted, Latest
<1>3. ASSUME NEW n \in Names PROVE DefaultKept(n) => DefaultKept(n)'
  BY DEF DefaultKept, DefaultCalls, About, Accepted, Latest
<1>4. ASSUME NEW n \in Names PROVE DefaultAsCalled(n) => DefaultAsCalled(n)'
  BY DEF DefaultAsCalled, About, Accepted, Latest
<1> QED
  BY <1>1, <1>2, <1>3, <1>4

\* build() puts in the two defaults that are left.
LEMMA BuildKeeps ==
  ASSUME ChainInv, LatestInv, Build
  PROVE  LatestInv'
<1> USE DEF ChainInv, TypeOK, Headers
<1>1. stage = "client" /\ UNCHANGED <<request, calls>>
  BY DEF Build
<1>2. BodyAsCalled' /\ TimeoutKept'
  BY <1>1 DEF LatestInv, BodyAsCalled, TimeoutKept, Accepted, Latest
<1>3. CASE stage' = "client_error" /\ UNCHANGED client
  <2>1. \A s \in Settings : Default(s)' = Default(s)
    BY <1>1, <1>3 DEF Default
  <2> QED
    BY <1>1, <1>3, <2>1, FieldsKept DEF LatestInv
<1>4. CASE /\ stage' = "built"
           /\ client' = [client EXCEPT
                !.defaults = InsertUserAgent(@),
                !.settings["http3_negative_cache_duration"] =
                  IF @ = None THEN FiveMinutes ELSE @]
  <2> DEFINE duration == client.settings["http3_negative_cache_duration"]
             put == IF duration = None THEN FiveMinutes ELSE duration
  <2>1. /\ client'.settings = [client.settings EXCEPT !["http3_negative_cache_duration"] = put]
        /\ client'.defaults = InsertUserAgent(client.defaults)
        /\ client'.userAgent = client.userAgent
    BY <1>4 DEF Build
  <2>2. UserAgentKept'
    BY <1>1, <2>1 DEF LatestInv, UserAgentKept, Accepted, Latest
  <2>3. ASSUME NEW s \in Settings PROVE SettingKept(s)'
    <3>1. About({"set"}, s)' = About({"set"}, s)
      BY <1>1 DEF About, Accepted
    <3>2. SettingKept(s) /\ Default(s) = DefaultSettings[s]
      BY <1>1 DEF LatestInv, Default
    <3>3. CASE s = "http3_negative_cache_duration"
      <4>1. client'.settings[s] = IF client.settings[s] = None THEN FiveMinutes
                                                               ELSE client.settings[s]
        BY <2>1, <3>3
      <4>2. Default(s) = None /\ Default(s)' = FiveMinutes
        BY <1>4, <3>2, <3>3 DEF Default, DefaultSettings, Settings
      <4> QED
        BY <1>1, <3>1, <3>2, <4>1, <4>2 DEF SettingKept, Latest
    <3>4. CASE s # "http3_negative_cache_duration"
      <4>1. client'.settings[s] = client.settings[s] /\ Default(s)' = Default(s)
        BY <2>1, <3>2, <3>4 DEF Default
      <4> QED
        BY <1>1, <3>1, <3>2, <4>1 DEF SettingKept, Latest
    <3> QED
      BY <3>3, <3>4
  <2>4. ASSUME NEW n \in Names PROVE DefaultAsCalled(n)'
    <3>1. DefaultKept(n) /\ UserAgentKept
      BY <1>1 DEF LatestInv
    <3>2. CASE n = USER_AGENT /\ Accepted({"user_agent"}) # {}
      <4>1. PICK i \in DOMAIN calls : /\ Latest(Accepted({"user_agent"}), i)
                                      /\ client.userAgent = calls[i].value
                                      /\ calls[i].value # None
        BY <3>1, <3>2 DEF UserAgentKept
      <4>2. client'.defaults[n] = <<calls[i].value>> /\ calls[i].op = "user_agent"
        BY <2>1, <3>2, <4>1 DEF InsertUserAgent, Latest, Accepted
      <4> QED
        BY <1>1, <3>2, <4>1, <4>2 DEF DefaultAsCalled, Accepted, Latest
    <3>3. CASE n # USER_AGENT \/ Accepted({"user_agent"}) = {}
      <4>1. client'.defaults[n] = client.defaults[n]
        BY <2>1, <3>1, <3>3 DEF InsertUserAgent, UserAgentKept
      <4> QED
        BY <1>1, <3>1, <3>3, <4>1 DEF DefaultKept, DefaultCalls, DefaultAsCalled,
                                      About, Accepted, Latest
    <3> QED
      BY <3>2, <3>3
  <2> QED
    BY <1>2, <1>4, <2>2, <2>3, <2>4 DEF LatestInv
<1> QED
  BY <1>3, <1>4 DEF Build

\* send() takes the client's timeout when the request has none of its own.
LEMMA SendKeeps ==
  ASSUME ChainInv, LatestInv, Send
  PROVE  LatestInv'
<1>1. stage = "request" /\ stage' \in {"request_error", "sent"}
      /\ UNCHANGED <<client, request, calls>>
  BY DEF Send
<1>2. ASSUME stage' = "sent" PROVE TimeoutAsCalled'
  <2>1. result'.timeout = TimeoutInForce
    BY <1>2 DEF Send
  <2> QED
    BY <1>1, <2>1 DEF LatestInv, TimeoutKept, TimeoutInForce, TimeoutAsCalled,
                      Accepted, Latest
<1>3. \A s \in Settings : Default(s)' = Default(s)
  BY <1>1 DEF Default
<1> QED
  BY <1>1, <1>2, <1>3, FieldsKept DEF LatestInv

LEMMA LatestStep == ChainInv /\ LatestInv /\ [Next]_vars => LatestInv'
<1> SUFFICES ASSUME ChainInv, LatestInv, [Next]_vars PROVE LatestInv'
  OBVIOUS
<1>1. ASSUME NEW s \in Settings, NEW v \in Inputs(s), Set(s, v) PROVE LatestInv'
  BY <1>1, CallsTyped, ClientEffects, CallStep
<1>2. ASSUME NEW v \in Values \cup {Invalid}, UserAgent(v) PROVE LatestInv'
  BY <1>2, CallsTyped, ClientEffects, CallStep
<1>3. ASSUME NEW map \in HeaderMaps, DefaultHeaders(map) PROVE LatestInv'
  BY <1>3, CallsTyped, ClientEffects, CallStep
<1>4. ASSUME NEW n \in Names \cup {Invalid}, NEW v \in Values \cup {Invalid},
             DefaultHeader(n, v)
      PROVE  LatestInv'
  BY <1>4, CallsTyped, ClientEffects, CallStep
<1>5. ASSUME NEW n \in Names \cup {Invalid}, NEW v \in Values \cup {Invalid}, Header(n, v)
      PROVE  LatestInv'
  BY <1>5, CallsTyped, RequestEffects, CallStep
<1>6. CASE Build
  BY <1>6, BuildKeeps
<1>7. ASSUME NEW url \in {"valid", Invalid}, Start(url) PROVE LatestInv'
  BY <1>7, CallsTyped, StartEffects, CallStep
<1>8. ASSUME NEW t \in Durations, Timeout(t) PROVE LatestInv'
  BY <1>8, CallsTyped, RequestEffects, CallStep
<1>9. CASE Body \/ BodyStreaming
  BY <1>9, CallsTyped, RequestEffects, CallStep
<1>10. ASSUME NEW v \in {"value", Invalid}, Json(v) PROVE LatestInv'
  BY <1>10, CallsTyped, RequestEffects, CallStep
<1>11. CASE Send
  BY <1>11, SendKeeps
<1>12. CASE UNCHANGED vars
  <2>1. UNCHANGED <<client, request, stage, result, calls>>
    BY <1>12 DEF vars
  <2>2. \A s \in Settings : Default(s)' = Default(s)
    BY <2>1 DEF Default
  <2>3. TimeoutAsCalled => TimeoutAsCalled'
    BY <2>1 DEF TimeoutAsCalled, Accepted, Latest
  <2> QED
    BY <2>1, <2>2, <2>3, FieldsKept DEF LatestInv
<1> QED
  BY <1>1, <1>2, <1>3, <1>4, <1>5, <1>6, <1>7, <1>8, <1>9, <1>10, <1>11, <1>12
     DEF Next, Ended

LEMMA LatestInit == Init => LatestInv
<1> SUFFICES ASSUME Init PROVE LatestInv
  OBVIOUS
<1>1. \A ops : Accepted(ops) = {} /\ \A name : About(ops, name) = {}
  BY DEF Init, Accepted, About
<1>2. BodyAsCalled /\ TimeoutKept /\ UserAgentKept
  BY <1>1 DEF Init, NewRequest, BodyAsCalled, TimeoutKept, UserAgentKept
<1>3. \A s \in Settings : SettingKept(s)
  BY <1>1 DEF Init, SettingKept, Default
<1>4. \A n \in Names : DefaultKept(n)
  BY <1>1 DEF Init, DefaultKept, DefaultCalls, NoHeaders
<1> QED
  BY <1>2, <1>3, <1>4 DEF Init, LatestInv

\* What is sent is what the last call about it said, for chains of any length
\* (ClientBuilder::build and RequestBuilder::send).
THEOREM LastCallsCount == Spec => []LastCallCounts
<1>1. LatestInv => LastCallCounts
  <2> SUFFICES ASSUME LatestInv, stage = "sent"
               PROVE  /\ BodyAsCalled
                      /\ TimeoutAsCalled
                      /\ \A s \in Settings : SettingAsCalled(s)
                      /\ \A n \in Names : DefaultAsCalled(n)
    BY DEF LastCallCounts
  <2>1. \A s \in Settings : SettingAsCalled(s)
    BY DEF LatestInv, SettingKept, Default, SettingAsCalled
  <2> QED
    BY <2>1 DEF LatestInv
<1>2. QED
  BY <1>1, LatestInit, LatestStep, ChainInvariant, PTL DEF Spec
-----------------------------------------------------------------------------
(* The values given to header() *)

\* The members of a set have the ranks from one to its size, each of them one.
Ranked(is) ==
  /\ IsFiniteSet(is)
  /\ \A i \in is : Rank(is, i) \in 1..Cardinality(is)
  /\ \A k \in 1..Cardinality(is) : \E i \in is : Rank(is, i) = k
  /\ \A i, j \in is : Rank(is, i) = Rank(is, j) => i = j

\* A member above all others has the rank behind theirs, which keep their own.
LEMMA RanksGrow ==
  ASSUME NEW is, is \subseteq Nat, Ranked(is), NEW m \in Nat, \A i \in is : i < m
  PROVE  /\ Ranked(is \cup {m})
         /\ Cardinality(is) \in Nat /\ Cardinality(is \cup {m}) = Cardinality(is) + 1
         /\ \A k \in 1..Cardinality(is) : Nth(is, k) \in is /\ Nth(is \cup {m}, k) = Nth(is, k)
         /\ Nth(is \cup {m}, Cardinality(is) + 1) = m
<1> DEFINE more == is \cup {m}
           size == Cardinality(is)
<1>1. size \in Nat /\ m \notin is /\ IsFiniteSet(more) /\ Cardinality(more) = size + 1
  <2>1. m \notin is
    OBVIOUS
  <2> QED
    BY <2>1, FS_AddElement, FS_CardinalityType DEF Ranked
<1>2. ASSUME NEW i \in is PROVE Rank(more, i) = Rank(is, i)
  <2>1. {j \in more : j <= i} = {j \in is : j <= i}
    OBVIOUS
  <2> QED
    BY <2>1 DEF Rank
<1>3. Rank(more, m) = size + 1
  <2>1. \A j \in more : j <= m
    OBVIOUS
  <2>2. {j \in more : j <= m} = more
    BY <2>1
  <2> QED
    BY <1>1, <2>2 DEF Rank
<1>4. /\ \A i \in is : Rank(is, i) \in 1..size
      /\ \A k \in 1..size : \E i \in is : Rank(is, i) = k
      /\ \A i, j \in is : Rank(is, i) = Rank(is, j) => i = j
  BY DEF Ranked
<1>5. \A i : i \in more <=> i \in is \/ i = m
  OBVIOUS
<1>6. \A i \in is : Rank(is, i) # size + 1
  BY <1>1, <1>4
<1> HIDE DEF size, more
<1>7. Ranked(more)
  <2>1. ASSUME NEW i \in more PROVE Rank(more, i) \in 1..(size + 1)
    <3>1. CASE i = m
      BY <1>1, <1>3, <3>1
    <3>2. CASE i # m
      <4>1. i \in is /\ Rank(more, i) = Rank(is, i) /\ Rank(is, i) \in 1..size
        BY <1>2, <1>4, <1>5, <3>2
      <4> QED
        BY <1>1, <4>1
    <3> QED
      BY <3>1, <3>2
  <2>2. ASSUME NEW k \in 1..(size + 1) PROVE \E i \in more : Rank(more, i) = k
    <3>1. CASE k = size + 1
      BY <1>3, <1>5, <3>1
    <3>2. CASE k # size + 1
      <4>1. k \in 1..size
        BY <1>1, <3>2
      <4>2. PICK i \in is : Rank(is, i) = k
        BY <1>4, <4>1
      <4> QED
        BY <1>2, <1>5, <4>2
    <3> QED
      BY <3>1, <3>2
  <2>3. ASSUME NEW i \in more, NEW j \in more, Rank(more, i) = Rank(more, j) PROVE i = j
    <3>1. CASE i = m \/ j = m
      BY <1>2, <1>3, <1>5, <1>6, <2>3, <3>1
    <3>2. CASE i # m /\ j # m
      BY <1>2, <1>4, <1>5, <2>3, <3>2
    <3> QED
      BY <3>1, <3>2
  <2> QED
    BY <1>1, <2>1, <2>2, <2>3 DEF Ranked
<1>8. ASSUME NEW k \in 1..size PROVE Nth(is, k) \in is /\ Nth(more, k) = Nth(is, k)
  <2>1. Nth(is, k) \in is /\ Rank(is, Nth(is, k)) = k
    BY <1>4 DEF Nth
  <2>2. Nth(more, k) \in more /\ Rank(more, Nth(more, k)) = k
    BY <1>2, <1>5, <2>1 DEF Nth
  <2>3. Nth(more, k) # m
    BY <1>1, <1>3, <2>2
  <2>4. Nth(more, k) \in is /\ Rank(is, Nth(more, k)) = k
    BY <1>2, <1>5, <2>2, <2>3
  <2> QED
    BY <1>4, <2>1, <2>4
<1>9. Nth(more, size + 1) = m
  <2>1. Nth(more, size + 1) \in more /\ Rank(more, Nth(more, size + 1)) = size + 1
    BY <1>3, <1>5 DEF Nth
  <2> QED
    BY <1>2, <1>5, <1>6, <2>1
<1> QED
  BY <1>1, <1>7, <1>8, <1>9 DEF size, more

\* The values of the calls at some places of a chain, in their order.
ValuesAt(cs, is) == [k \in 1..Cardinality(is) |-> cs[Nth(is, k)].value]

LEMMA ValuesGrow ==
  ASSUME NEW cs \in Seq(CallSpace), NEW call \in CallSpace,
         NEW is, is \subseteq DOMAIN cs, Ranked(is)
  PROVE  /\ Ranked(is \cup {Len(cs) + 1})
         /\ ValuesAt(Append(cs, call), is) = ValuesAt(cs, is)
         /\ ValuesAt(Append(cs, call), is \cup {Len(cs) + 1}) =
              Append(ValuesAt(cs, is), call.value)
<1> DEFINE m == Len(cs) + 1
           size == Cardinality(is)
           longer == Append(cs, call)
<1>1. m \in Nat /\ is \subseteq Nat /\ \A i \in is : i < m
  OBVIOUS
<1>2. /\ Ranked(is \cup {m}) /\ size \in Nat /\ Cardinality(is \cup {m}) = size + 1
      /\ \A k \in 1..size : Nth(is, k) \in is /\ Nth(is \cup {m}, k) = Nth(is, k)
      /\ Nth(is \cup {m}, size + 1) = m
  BY <1>1, RanksGrow
<1>3. (\A i \in is : longer[i] = cs[i]) /\ longer[m] = call
  OBVIOUS
<1> HIDE DEF m, size, longer
<1>4. ValuesAt(longer, is) = ValuesAt(cs, is)
  BY <1>2, <1>3 DEF ValuesAt, size
<1>5. ValuesAt(longer, is \cup {m}) = Append(ValuesAt(cs, is), call.value)
  <2>1. ValuesAt(longer, is \cup {m}) = [k \in 1..(size + 1) |-> longer[Nth(is \cup {m}, k)].value]
    BY <1>2 DEF ValuesAt
  <2>2. ValuesAt(cs, is) = [k \in 1..size |-> cs[Nth(is, k)].value]
    BY DEF ValuesAt, size
  <2>3. Len(ValuesAt(cs, is)) = size /\ DOMAIN ValuesAt(cs, is) = 1..size
    BY <1>2, <2>2
  <2>4. Append(ValuesAt(cs, is), call.value) =
          [k \in 1..(size + 1) |-> IF k = size + 1 THEN call.value ELSE ValuesAt(cs, is)[k]]
    BY <2>3
  <2>5. ASSUME NEW k \in 1..(size + 1)
        PROVE  longer[Nth(is \cup {m}, k)].value =
                 IF k = size + 1 THEN call.value ELSE ValuesAt(cs, is)[k]
    <3>1. CASE k = size + 1
      BY <1>2, <1>3, <3>1
    <3>2. CASE k # size + 1
      <4>1. k \in 1..size
        BY <1>2, <3>2
      <4>2. Nth(is, k) \in is /\ Nth(is \cup {m}, k) = Nth(is, k)
        BY <1>2, <4>1
      <4> QED
        BY <1>3, <2>2, <3>2, <4>1, <4>2
    <3> QED
      BY <3>1, <3>2
  <2> QED
    BY <2>1, <2>4, <2>5
<1> QED
  BY <1>2, <1>4, <1>5 DEF m, longer

\* json()'s label, in front of the values of header().
Label(n) == IF n = CONTENT_TYPE /\ LabelMeant THEN <<JsonLabel>> ELSE <<>>

HeadersInv ==
  /\ \A n \in Names : /\ Ranked(About({"header"}, n))
                      /\ request.headers[n] = Label(n) \o Own(n)
  /\ stage = "sent" => result.headers = Merged

\* What a call does to the headers of the request.
HeaderEffects(call) ==
  \A n \in Names :
    request'.headers[n] =
      IF Counts(call, "header") /\ call.name = n THEN Append(request.headers[n], call.value)
      ELSE IF Counts(call, "json") /\ n = CONTENT_TYPE /\ request.headers[n] = <<>>
      THEN <<JsonLabel>> ELSE request.headers[n]

LEMMA OwnIsValuesAt ==
  ASSUME NEW n
  PROVE  /\ Own(n) = ValuesAt(calls, About({"header"}, n))
         /\ Own(n)' = ValuesAt(calls', About({"header"}, n)')
<1>1. Own(n) = ValuesAt(calls, About({"header"}, n))
  BY DEF Own, ValuesAt
<1>2. Own(n)' = ValuesAt(calls', About({"header"}, n)')
  BY DEF Own, ValuesAt, Nth, Rank
<1> QED
  BY <1>1, <1>2

\* Everything a header can hold.
Held == Values \cup {calls[i].value : i \in DOMAIN calls}

LEMMA OwnType ==
  ASSUME NEW n, Ranked(About({"header"}, n))
  PROVE  /\ Own(n) \in Seq(Held) /\ Label(n) \in Seq(Held)
         /\ Own(n) = <<>> <=> About({"header"}, n) = {}
<1> DEFINE is == About({"header"}, n)
           size == Cardinality(is)
<1>1. is \subseteq DOMAIN calls
  BY DEF About, Accepted
<1>2. size \in Nat /\ (size = 0 <=> is = {})
  BY FS_CardinalityType, FS_EmptySet DEF Ranked
<1>3. \A k \in 1..size : Nth(is, k) \in is
  BY DEF Ranked, Nth
<1>4. Own(n) = [k \in 1..size |-> calls[Nth(is, k)].value]
  BY DEF Own
<1>5. Own(n) \in [1..size -> Held]
  BY <1>1, <1>3, <1>4 DEF Held
<1>6. Own(n) \in Seq(Held) /\ Len(Own(n)) = size
  BY <1>2, <1>5
<1>7. Own(n) = <<>> <=> is = {}
  BY <1>2, <1>6
<1>8. Label(n) \in Seq(Held)
  <2>1. JsonLabel \in Held
    BY DEF Held
  <2>2. <<>> \in Seq(Held) /\ <<JsonLabel>> \in Seq(Held)
    BY <2>1
  <2> QED
    BY <2>2 DEF Label
<1> QED
  BY <1>6, <1>7, <1>8

LEMMA OwnGrows ==
  ASSUME calls \in Seq(CallSpace), NEW call \in CallSpace, calls' = Append(calls, call),
         NEW n, Ranked(About({"header"}, n))
  PROVE  /\ Ranked(About({"header"}, n))'
         /\ Own(n)' = IF Counts(call, "header") /\ call.name = n
                      THEN Append(Own(n), call.value) ELSE Own(n)
<1> DEFINE is == About({"header"}, n)
           counts == Counts(call, "header") /\ call.name = n
<1>1. /\ is \subseteq DOMAIN calls
      /\ is' = IF counts THEN is \cup {Len(calls) + 1} ELSE is
  BY AcceptedGrow DEF Counts, About
<1>2. /\ Ranked(is \cup {Len(calls) + 1})
      /\ ValuesAt(calls', is) = ValuesAt(calls, is)
      /\ ValuesAt(calls', is \cup {Len(calls) + 1}) = Append(ValuesAt(calls, is), call.value)
  BY <1>1, ValuesGrow
<1>3. Own(n) = ValuesAt(calls, is) /\ Own(n)' = ValuesAt(calls', is')
  BY OwnIsValuesAt
<1> HIDE DEF is, counts
<1>4. Ranked(is')
  BY <1>1, <1>2 DEF is
<1>5. Own(n)' = IF counts THEN Append(Own(n), call.value) ELSE Own(n)
  BY <1>1, <1>2, <1>3
<1>6. Ranked(is)'
  BY <1>4 DEF Ranked, Rank
<1> QED
  BY <1>5, <1>6 DEF is, counts

LEMMA LabelGrows ==
  ASSUME calls \in Seq(CallSpace), NEW call \in CallSpace, calls' = Append(calls, call)
  PROVE  LabelMeant' <=> \/ LabelMeant
                         \/ Counts(call, "json") /\ About({"header"}, CONTENT_TYPE) = {}
<1> DEFINE json == Accepted({"json"})
           is == About({"header"}, CONTENT_TYPE)
           m == Len(calls) + 1
<1>1. json \subseteq DOMAIN calls /\ is \subseteq DOMAIN calls
  BY DEF About, Accepted
<1>2. json' = IF Counts(call, "json") THEN json \cup {m} ELSE json
  BY AcceptedGrow DEF Counts
<1>3. \/ is' = is
      \/ is' = is \cup {m} /\ ~Counts(call, "json")
  <2>1. is' = IF call.op \in {"header"} /\ ~Mistake(call) /\ call.name = CONTENT_TYPE
              THEN is \cup {m} ELSE is
    BY AcceptedGrow, Zenon
  <2>2. call.op \in {"header"} => ~Counts(call, "json")
    BY DEF Counts
  <2> HIDE DEF is, m
  <2> QED
    BY <2>1, <2>2
<1>4. m \in Nat /\ \A i \in json \cup is : i \in Nat /\ i < m
  <2>1. m \in Nat /\ \A i \in DOMAIN calls : i \in Nat /\ i < m
    BY CallsGrow
  <2> HIDE DEF json, is, m
  <2> QED
    BY <1>1, <2>1
<1>5. /\ LabelMeant <=> \E i \in json : \A j \in is : i < j
      /\ LabelMeant' <=> \E i \in json' : \A j \in is' : i < j
  BY DEF LabelMeant
<1> HIDE DEF json, is, m
<1>6. LabelMeant' <=> LabelMeant \/ (Counts(call, "json") /\ is = {})
  <2>1. CASE Counts(call, "json")
    <3>1. json' = json \cup {m} /\ is' = is
      BY <1>2, <1>3, <2>1
    <3>2. \A j \in is : ~(m < j)
      BY <1>4
    <3> QED
      BY <1>5, <2>1, <3>1, <3>2
  <2>2. CASE ~Counts(call, "json")
    <3>1. json' = json
      BY <1>2, <2>2
    <3> QED
      BY <1>3, <1>4, <1>5, <2>2, <3>1
  <2> QED
    BY <2>1, <2>2
<1> QED
  BY <1>6 DEF is

\* One more call, with the effect it should have, keeps a header in step.
LEMMA HeadersStep ==
  ASSUME calls \in Seq(CallSpace), NEW call \in CallSpace, calls' = Append(calls, call),
         HeadersInv, HeaderEffects(call), stage' # "sent"
  PROVE  HeadersInv'
<1>1. ASSUME NEW n \in Names
      PROVE  Ranked(About({"header"}, n))' /\ request'.headers[n] = Label(n)' \o Own(n)'
  <2> DEFINE own == Own(n)
             lab == Label(n)
             header == Counts(call, "header") /\ call.name = n
             json == Counts(call, "json") /\ n = CONTENT_TYPE
  <2>1. Ranked(About({"header"}, n)) /\ request.headers[n] = lab \o own
    BY DEF HeadersInv
  <2>2. Ranked(About({"header"}, n))' /\ own' = IF header THEN Append(own, call.value) ELSE own
    BY <2>1, OwnGrows
  <2>3. own \in Seq(Held) /\ lab \in Seq(Held) /\ (own = <<>> <=> About({"header"}, n) = {})
    BY <2>1, OwnType
  <2>4. lab' = IF json /\ own = <<>> THEN <<JsonLabel>> ELSE lab
    BY <2>3, LabelGrows DEF Label
  <2>5. request'.headers[n] = IF header THEN Append(request.headers[n], call.value)
                              ELSE IF json /\ request.headers[n] = <<>> THEN <<JsonLabel>>
                              ELSE request.headers[n]
    BY DEF HeaderEffects
  <2>6. ~(header /\ json) /\ (json /\ lab # <<>> => lab = <<JsonLabel>>)
    BY DEF Counts, Label
  <2> HIDE DEF own, lab, header, json
  <2>7. CASE header
    <3>1. Append(lab \o own, call.value) = lab \o Append(own, call.value)
      <4> DEFINE S == Held \cup {call.value}
      <4>1. own \in Seq(S) /\ lab \in Seq(S) /\ call.value \in S
        BY <2>3
      <4>2. lab \o own \in Seq(S) /\ <<call.value>> \in Seq(S)
        BY <4>1
      <4> HIDE DEF S
      <4>3. /\ Append(lab \o own, call.value) = (lab \o own) \o <<call.value>>
            /\ Append(own, call.value) = own \o <<call.value>>
        BY <4>1, <4>2, AppendIsConcat
      <4>4. (lab \o own) \o <<call.value>> = lab \o (own \o <<call.value>>)
        BY <4>1, <4>2, ConcatAssociative
      <4> QED
        BY <4>3, <4>4
    <3> QED
      BY <2>1, <2>2, <2>4, <2>5, <2>6, <2>7, <3>1 DEF own, lab
  <2>8. CASE json
    <3>1. lab \o own = <<>> <=> lab = <<>> /\ own = <<>>
      BY <2>3
    <3>2. CASE own = <<>>
      <4>1. lab \o own = lab /\ <<JsonLabel>> \o own = <<JsonLabel>>
        BY <2>3, <3>2
      <4> QED
        BY <2>1, <2>2, <2>4, <2>5, <2>6, <2>8, <3>2, <4>1 DEF own, lab
    <3>3. CASE own # <<>>
      BY <2>1, <2>2, <2>4, <2>5, <2>6, <2>8, <3>1, <3>3 DEF own, lab
    <3> QED
      BY <3>2, <3>3
  <2>9. CASE ~header /\ ~json
    BY <2>1, <2>2, <2>4, <2>5, <2>9 DEF own, lab
  <2> QED
    BY <2>2, <2>7, <2>8, <2>9
<1> QED
  BY <1>1 DEF HeadersInv

\* What is no call leaves the headers as they are, unless it sends them.
LEMMA HeadersKept ==
  ASSUME HeadersInv, UNCHANGED <<request, calls>>, stage' = "sent" => result'.headers = Merged'
  PROVE  HeadersInv'
<1>1. ASSUME NEW n \in Names
      PROVE  Ranked(About({"header"}, n))' /\ request'.headers[n] = Label(n)' \o Own(n)'
  <2>1. Ranked(About({"header"}, n)) /\ request.headers[n] = Label(n) \o Own(n)
    BY DEF HeadersInv
  <2>2. Own(n)' = Own(n)
    BY DEF Own, About, Accepted, Nth, Rank
  <2>3. Label(n)' = Label(n)
    BY DEF Label, LabelMeant, About, Accepted
  <2>4. Ranked(About({"header"}, n))'
    BY <2>1 DEF Ranked, Rank, About, Accepted
  <2> QED
    BY <2>1, <2>2, <2>3, <2>4
<1> QED
  BY <1>1 DEF HeadersInv

\* A call of another kind that leaves the headers alone.
LEMMA OtherEffects ==
  ASSUME NEW call, request'.headers = request.headers,
         ~Counts(call, "header"), ~Counts(call, "json")
  PROVE  HeaderEffects(call)
  BY DEF HeaderEffects

LEMMA HeaderCallEffects ==
  ASSUME ChainInv
  PROVE  /\ \A n \in Names \cup {Invalid}, v \in Values \cup {Invalid} :
              Header(n, v) => HeaderEffects(Call("header", n, v))
         /\ \A v \in {"value", Invalid} : Json(v) => HeaderEffects(Call("json", None, v))
<1> USE DEF ChainInv, TypeOK, Headers
<1>1. ASSUME NEW n \in Names \cup {Invalid}, NEW v \in Values \cup {Invalid}, Header(n, v)
      PROVE  HeaderEffects(Call("header", n, v))
  <2>1. CASE Invalid \in {n, v}
    <3>1. request'.headers = request.headers
      BY <1>1, <2>1 DEF Header, Reject
    <3> QED
      BY <2>1, <3>1 DEF HeaderEffects, Counts, Mistake, Call
  <2>2. CASE Invalid \notin {n, v}
    <3>1. request' = [request EXCEPT !.headers[n] = Append(@, v)]
      BY <1>1, <2>2 DEF Header
    <3>2. request'.headers = [request.headers EXCEPT ![n] = Append(@, v)]
      BY <3>1
    <3> QED
      BY <2>2, <3>2 DEF HeaderEffects, Counts, Mistake, Call
  <2> QED
    BY <2>1, <2>2
<1>2. ASSUME NEW v \in {"value", Invalid}, Json(v)
      PROVE  HeaderEffects(Call("json", None, v))
  <2>1. request'.headers = IF v = Invalid THEN request.headers ELSE Labelled(request.headers)
    BY <1>2 DEF Json, Reject
  <2>2. Invalid # "value" /\ None # Invalid
    BY DEF Texts
  <2> QED
    BY <2>1, <2>2 DEF Labelled, HeaderEffects, Counts, Mistake, Call
<1> QED
  BY <1>1, <1>2

\* A new request has the headers of the one before, none, as it has had no calls.
LEMMA StartHeaders ==
  ASSUME ChainInv, HeadersInv, NEW url \in {"valid", Invalid}, Start(url)
  PROVE  HeaderEffects(Call("request", None, url))
<1>1. ASSUME NEW n \in Names PROVE request.headers[n] = <<>>
  <2>1. About({"header"}, n) = {} /\ Accepted({"json"}) = {}
    BY DEF ChainInv, MistakeInv, Start, Made, About, Accepted, RequestOps
  <2>2. Label(n) = <<>> /\ Own(n) = <<>>
    BY <2>1, OwnType DEF HeadersInv, Label, LabelMeant
  <2> QED
    BY <2>2 DEF HeadersInv
<1>2. \A n \in Names : request'.headers[n] = <<>>
  BY DEF Start, NewRequest, NoHeaders
<1> QED
  BY <1>1, <1>2 DEF HeaderEffects, Counts, Call

LEMMA HeadersInvStep == ChainInv /\ HeadersInv /\ [Next]_vars => HeadersInv'
<1> SUFFICES ASSUME ChainInv, HeadersInv, [Next]_vars PROVE HeadersInv'
  OBVIOUS
<1>1. ASSUME NEW call \in CallSpace, OnClient(call), call.op \notin {"header", "json"}
      PROVE  HeadersInv'
  BY <1>1, OtherEffects, HeadersStep DEF ChainInv, MistakeInv, OnClient, Made, Counts
<1>2. ASSUME NEW call \in CallSpace, OnRequest(call), HeaderEffects(call) PROVE HeadersInv'
  BY <1>2, HeadersStep DEF ChainInv, MistakeInv, OnRequest, Made
<1>3. ASSUME NEW s \in Settings, NEW v \in Inputs(s), Set(s, v) PROVE HeadersInv'
  BY <1>1, <1>3, CallsTyped DEF Set, Call
<1>4. ASSUME NEW v \in Values \cup {Invalid}, UserAgent(v) PROVE HeadersInv'
  BY <1>1, <1>4, CallsTyped DEF UserAgent, Call
<1>5. ASSUME NEW map \in HeaderMaps, DefaultHeaders(map) PROVE HeadersInv'
  BY <1>1, <1>5, CallsTyped DEF DefaultHeaders, Call
<1>6. ASSUME NEW n \in Names \cup {Invalid}, NEW v \in Values \cup {Invalid},
             DefaultHeader(n, v)
      PROVE  HeadersInv'
  BY <1>1, <1>6, CallsTyped DEF DefaultHeader, Call
<1>7. ASSUME NEW n \in Names \cup {Invalid}, NEW v \in Values \cup {Invalid}, Header(n, v)
      PROVE  HeadersInv'
  BY <1>2, <1>7, CallsTyped, HeaderCallEffects DEF Header
<1>8. CASE Build
  BY <1>8, HeadersKept DEF Build
<1>9. ASSUME NEW url \in {"valid", Invalid}, Start(url) PROVE HeadersInv'
  BY <1>9, CallsTyped, StartHeaders, HeadersStep DEF ChainInv, MistakeInv, Start, Made
<1>10. ASSUME NEW t \in Durations, Timeout(t) PROVE HeadersInv'
  <2>1. HeaderEffects(Call("timeout", None, t))
    BY <1>10, OtherEffects DEF Timeout, ChainInv, TypeOK, Counts, Call
  <2> QED
    BY <1>2, <1>10, <2>1, CallsTyped DEF Timeout
<1>11. ASSUME NEW b \in {"replayable", "streaming"}, OnRequest(Call("body", None, b)),
              request' = [request EXCEPT !.body = b]
       PROVE  HeadersInv'
  <2>1. HeaderEffects(Call("body", None, b))
    BY <1>11, OtherEffects DEF ChainInv, TypeOK, Counts, Call
  <2> QED
    BY <1>2, <1>11, <2>1, CallsTyped
<1>12. ASSUME NEW v \in {"value", Invalid}, Json(v) PROVE HeadersInv'
  BY <1>2, <1>12, CallsTyped, HeaderCallEffects DEF Json
<1>13. CASE Send
  <2>1. UNCHANGED <<client, request, calls>> /\ (stage' = "sent" => result'.headers = Merged)
    BY <1>13 DEF Send
  <2> QED
    BY <2>1, HeadersKept DEF Merged
<1>14. CASE UNCHANGED vars
  BY <1>14, HeadersKept DEF vars, HeadersInv, Merged
<1> QED
  BY <1>3, <1>4, <1>5, <1>6, <1>7, <1>8, <1>9, <1>10, <1>11, <1>12, <1>13, <1>14
     DEF Next, Ended, Body, BodyStreaming

LEMMA HeadersInit == Init => HeadersInv
<1> SUFFICES ASSUME Init PROVE HeadersInv
  OBVIOUS
<1>1. ASSUME NEW n \in Names PROVE About({"header"}, n) = {} /\ Accepted({"json"}) = {}
  BY DEF Init, About, Accepted
<1>2. Cardinality({}) = 0 /\ IsFiniteSet({})
  BY FS_EmptySet
<1>3. Ranked({})
  BY <1>2 DEF Ranked
<1>4. ASSUME NEW n \in Names PROVE request.headers[n] = Label(n) \o Own(n)
  <2>1. Ranked(About({"header"}, n))
    BY <1>1, <1>3
  <2>2. Label(n) = <<>> /\ Own(n) = <<>>
    BY <1>1, <2>1, OwnType DEF Label, LabelMeant
  <2> QED
    BY <2>2 DEF Init, NewRequest, NoHeaders
<1> QED
  BY <1>1, <1>3, <1>4 DEF HeadersInv, Init

\* A chain of any length is sent with the defaults, JSON's label where it was
\* meant, and every value header() was given, in order (header, json, send).
THEOREM OwnValuesReachTheWire == Spec => []OwnValuesAreSent
<1>1. ChainInv /\ HeadersInv => OwnValuesAreSent
  <2> SUFFICES ASSUME ChainInv, HeadersInv, stage = "sent", NEW n \in Names
               PROVE  result.headers[n] =
                        client.defaults[n]
                          \o (IF n = CONTENT_TYPE /\ LabelMeant THEN <<JsonLabel>> ELSE <<>>)
                          \o Own(n)
    BY DEF OwnValuesAreSent
  <2>1. result.headers[n] = client.defaults[n] \o (Label(n) \o Own(n))
    BY DEF HeadersInv, Merged
  <2>2. client.defaults[n] \in Seq(Held)
    <3>1. client.defaults[n] \in Seq(Values)
      BY DEF ChainInv, TypeOK, Headers
    <3> QED
      BY <3>1 DEF Held
  <2>3. Label(n) \in Seq(Held) /\ Own(n) \in Seq(Held)
    BY OwnType DEF HeadersInv
  <2>4. client.defaults[n] \o (Label(n) \o Own(n)) = client.defaults[n] \o Label(n) \o Own(n)
    <3> DEFINE defaults == client.defaults[n]
               lab == Label(n)
               own == Own(n)
    <3>1. defaults \in Seq(Held) /\ lab \in Seq(Held) /\ own \in Seq(Held)
      BY <2>2, <2>3
    <3> HIDE DEF defaults, lab, own
    <3>2. defaults \o (lab \o own) = (defaults \o lab) \o own
      BY <3>1, ConcatAssociative
    <3> QED
      BY <3>2 DEF defaults, lab, own
  <2> QED
    BY <2>1, <2>4 DEF Label
<1>2. QED
  BY <1>1, HeadersInit, HeadersInvStep, ChainInvariant, PTL DEF Spec
=============================================================================
