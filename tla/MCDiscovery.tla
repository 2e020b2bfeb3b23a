---------------------------- MODULE MCDiscovery ----------------------------
(* A small instance of Discovery for TLC. *)
EXTENDS Discovery

Param(name, value, quoted) == [name |-> name, value |-> value, quoted |-> quoted]

\* Lists of parameters: none, one that counts, quoted, two, an unreadable one
\* behind it, and others whose quotes hold separators.
Params ==
  {<<>>,
   <<Param("ma", <<"60">>, FALSE)>>,
   <<Param("ma", <<"60">>, TRUE)>>,
   <<Param("ma", <<"60">>, FALSE), Param("ma", <<"0">>, FALSE)>>,
   <<Param("ma", <<"60">>, FALSE), Param("ma", <<"soon">>, FALSE)>>,
   <<Param("p", <<"x", ";", "ma", "=", "0">>, TRUE)>>,
   <<Param("p", <<"x", ",", "y">>, TRUE), Param("ma", <<"60">>, FALSE)>>}

Alternatives(protocols, hosts, ports, params) ==
  [protocol : protocols, host : hosts, port : ports, params : params]

Every == Alternatives({"h3", "h3-29"}, {<<>>, <<"alt">>, <<"a", ",", "b">>, <<":", ":", "x">>},
                      {"443", "8443", "65536", "x"}, Params)

Some == Alternatives({"h3", "h2"}, {<<>>, <<"alt">>}, {"8443", "x"},
                     {<<>>, <<Param("ma", <<"60">>, FALSE)>>})

Header(offers) == [kind |-> "offers", offers |-> offers]

MCHeaders ==
  {Header(<<a>>) : a \in Every} \cup {Header(<<a, b>>) : a, b \in Some}
  \cup {[kind |-> "opaque", offers |-> <<a>>] : a \in Some}
  \cup {[kind |-> "clear", offers |-> <<>>]}

Record == [alpns : {{"h2"}, {"h2", "h3"}}, port : {{}, {"8443"}},
           hints : {<<>>, <<"addr">>}]

MCRecords == BoundedSeq(Record, 3)
=============================================================================
