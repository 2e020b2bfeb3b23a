------------------------------- MODULE AltSvc -------------------------------
(***************************************************************************)
(* The parser of `Alt-Svc` headers (src/src/alt_svc.rs).  A header is a    *)
(* sequence of tokens: each separator, quote, number and word is one, and  *)
(* the white space every part is trimmed of is none.  An Option is a set   *)
(* of at most one value, so a pattern that does not match is an empty set. *)
(***************************************************************************)
EXTENDS Naturals, FiniteSets, SequencesExt

CONSTANTS Tokens,      \* what the text of a header is made of, among them
          U16,         \*   the tokens that parse as u16,
          U64,         \*   and as u64
          OriginPort,  \* the port of the origin that sent the header
          DefaultAge,  \* 24 hours
          Opaque       \* a byte HeaderValue::to_str rejects

Quote == "quote"

\* The tokens that separate others.
Marks == {Quote, ",", ";", ":", "=", "[", "]"}

ASSUME TokenAssumption ==
  /\ Marks \cup {"h3", "ma", "clear"} \subseteq Tokens
  /\ U16 \subseteq U64 /\ U64 \subseteq Tokens \ Marks
  /\ OriginPort \in U16 /\ DefaultAge \in U64
  /\ Opaque \notin Tokens

Before(s, i) == SubSeq(s, 1, i - 1)
Behind(s, i) == SubSeq(s, i + 1, Len(s))

Number(s, type) == {n \in type : s = <<n>>}

OrElse(option, default) == IF option = {} THEN {default} ELSE option

\* A slip: quotes are not looked at.
FaultyScan(split, token, separator) ==
  IF token = separator
  THEN [parts |-> Append(split.parts, split.part), part |-> <<>>, quoted |-> FALSE]
  ELSE [split EXCEPT !.part = Append(@, token)]

\* One token further: the parts so far, the one begun, and whether a quote is
\* open, which nothing closes at the end.
Scan(split, token, separator) ==
  IF token = separator /\ ~split.quoted
  THEN [parts |-> Append(split.parts, split.part), part |-> <<>>, quoted |-> FALSE]
  ELSE [split EXCEPT !.part = Append(@, token),
                     !.quoted = IF token = Quote THEN ~@ ELSE @]

Scanned(s, separator) ==
  FoldLeft(LAMBDA split, t : Scan(split, t, separator),
           [parts |-> <<>>, part |-> <<>>, quoted |-> FALSE], s)

\* The parts of s between the separators that are not quoted.
SplitQuoted(s, separator) ==
  LET end == Scanned(s, separator) IN Append(end.parts, end.part)

\* trim_matches
Trimmed(s, tokens) ==
  LET kept == {i \in DOMAIN s : s[i] \notin tokens}
  IN  IF kept = {} THEN <<>> ELSE SubSeq(s, Min(kept), Max(kept))

\* "host:port": the origin's port stands in for one that does not parse.
OtherHost(host, port) ==
  {[host |-> host, port |-> p] :
     p \in IF host = <<>> THEN {} ELSE OrElse(Number(port, U16), OriginPort)}

\* ":port" is the origin's own host, and needs a port that parses.
ParseAuthority(raw) ==
  LET inner == SubSeq(raw, 2, Len(raw) - 1)
      colon == SelectLastInSeq(inner, LAMBDA t : t = ":")
  IN  IF Len(raw) < 2 \/ raw[1] # Quote \/ Last(raw) # Quote \/ colon = 0 THEN {}
      ELSE IF inner[1] = ":"
        THEN {[host |-> <<>>, port |-> p] : p \in Number(Tail(inner), U16)}
        ELSE OtherHost(Trimmed(Before(inner, colon), {"[", "]"}),
                       Behind(inner, colon))

\* The value of an `ma` parameter, quoted or not.
Age(part) ==
  IF IsPrefix(<<"ma", "=">>, part)
    THEN Number(Trimmed(Behind(part, 2), {Quote}), U64) ELSE {}

\* The last `ma` that parses wins; one that does not is passed over.
MaxAge(parts) ==
  LET last == SelectLastInSeq(parts, LAMBDA p : Age(p) # {})
  IN  IF last = 0 THEN {DefaultAge} ELSE Age(parts[last])

ParseAlternative(raw) ==
  LET parts == SplitQuoted(Behind(raw, 2), ";")
  IN  IF ~IsPrefix(<<"h3", "=">>, raw) THEN {}
      ELSE {[host |-> a.host, port |-> a.port, age |-> age] :
              a \in ParseAuthority(parts[1]), age \in MaxAge(Tail(parts))}

\* The first alternative that can be used.
ParseStr(raw) ==
  LET alternatives == SplitQuoted(raw, ",")
      first == SelectInSeq(alternatives, LAMBDA a : ParseAlternative(a) # {})
  IN  IF first = 0 THEN {} ELSE ParseAlternative(alternatives[first])

\* AltSvcUpdate::Clear, for a header that says nothing else.
Clears(raw) == raw = <<"clear">>

\* AltSvcUpdate::Entry, or AltSvcUpdate::None.
ParseHeader(raw) == IF Contains(raw, Opaque) THEN {} ELSE ParseStr(raw)
=============================================================================
