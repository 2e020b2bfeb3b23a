--------------------------- MODULE DiscoveryProofs ---------------------------
(***************************************************************************)
(* What a client learns is what was meant.  For DNS answers of any length: *)
(* the record https_rr::lookup settles on is the first with h3, or the     *)
(* first of all where none has it.  The loop is a fold over the records,   *)
(* AnswerMeans a choice among all of them: the two are compared prefix by  *)
(* prefix.                                                                 *)
(* For Alt-Svc headers of any length: what parse_header makes of one is    *)
(* what it means.  Join and SplitQuoted are folds over parts and tokens;   *)
(* splitting undoes joining (SplitOfJoin) where the parts are calm: a scan *)
(* that meets one outside quotes adds it to the part it has begun, and is  *)
(* outside quotes again.  That the parts servers write are calm follows    *)
(* from the grammar (HeadersAssumption), and what is left of a part is     *)
(* recognised by its place.                                                *)
(***************************************************************************)
EXTENDS Discovery, FoldProofs

\* The step of the loop in https_rr::lookup.
Chosen(best, r) ==
  IF best = {} THEN {ParseHttpsRecord(r)}
  ELSE IF "h3" \in r.alpns /\ \A b \in best : ~b.hasH3
    THEN {ParseHttpsRecord(r)}
  ELSE best

\* The loop has gone over the records in S.
Looks(g, records, S) ==
  IF S = {} THEN {} ELSE Chosen(g[S \ {Max(S)}], records[Max(S)])

\* Lookup is what such a function gives for all of the records.
LEMMA LookupFold ==
  ASSUME NEW n \in Nat, NEW records, DOMAIN records = 1..n
  PROVE  \E g : /\ Lookup(records) = g[1..n]
                /\ \A S \in UpTo(n) : g[S] = Looks(g, records, S)
<1> DEFINE It(g) == g = [S \in UpTo(n) |-> Looks(g, records, S)]
           it == CHOOSE g : It(g)
<1>1. Lookup(records) = it[1..n]
  BY DEF Lookup, FoldLeft, MapThenFoldSet, UpTo, Looks, Chosen
<1>2. \E g : It(g)
  <2> DEFINE V == {{}} \cup {{ParseHttpsRecord(records[i])} : i \in 1..n}
             step == [w \in V \X (1..n) |-> Chosen(w[1], records[w[2]])]
  <2>1. step \in [V \X (1..n) -> V]
    BY DEF Chosen
  <2>2. {} \in V
    OBVIOUS
  <2> HIDE DEF step, V
  <2>3. PICK g \in [UpTo(n) -> V] : FoldsBy(g, n, {}, step)
    BY <2>1, <2>2, SubsetsExist
  <2>4. ASSUME NEW S \in UpTo(n) PROVE g[S] = Looks(g, records, S)
    <3>1. CASE S = {}
      BY <2>3, <3>1 DEF FoldsBy, Looks
    <3>2. CASE S # {}
      <4>1. g[S] = step[<<g[S \ {Max(S)}], Max(S)>>]
        BY <2>3, <3>2 DEF FoldsBy
      <4>2. Max(S) \in 1..n /\ S \ {Max(S)} \in UpTo(n)
        BY <3>2, MaxIn DEF UpTo
      <4> QED
        BY <3>2, <4>1, <4>2 DEF Looks, step
    <3> QED
      BY <3>1, <3>2
  <2> QED
    BY <2>4
<1>3. It(it)
  BY <1>2
<1> HIDE DEF it
<1> QED
  BY <1>1, <1>3


\* Candidates and AnswerMeans for the first k records.
WithH3(records, k) == {i \in 1..k : "h3" \in records[i].alpns}
Among(records, k) ==
  IF WithH3(records, k) = {} THEN 1..k ELSE WithH3(records, k)
IsFirst(records, k, i) ==
  i \in Among(records, k) /\ \A j \in Among(records, k) : i <= j

\* Among one record or more there is a first candidate.
LEMMA FirstExists ==
  ASSUME NEW records, NEW k \in Nat \ {0}
  PROVE  \E i \in 1..k : IsFirst(records, k, i)
<1>1. Among(records, k) \subseteq 1..k /\ Among(records, k) # {}
  BY DEF Among, WithH3
<1>2. Among(records, k) \subseteq Nat
  BY <1>1
<1>3. PICK i \in Among(records, k) : \A j \in Among(records, k) : i <= j
  BY <1>1, <1>2, NatMin
<1> QED
  BY <1>1, <1>3 DEF IsFirst

\* The loop keeps the first of the candidates seen so far.
LEMMA FirstStays ==
  ASSUME NEW records, NEW k \in Nat \ {0}, NEW i \in 1..k,
         IsFirst(records, k, i)
  PROVE  LET stays == ~("h3" \in records[k + 1].alpns /\ WithH3(records, k) = {})
         IN  IsFirst(records, k + 1, IF stays THEN i ELSE k + 1)
<1>1. WithH3(records, k + 1) =
        WithH3(records, k) \cup
          (IF "h3" \in records[k + 1].alpns THEN {k + 1} ELSE {})
  BY DEF WithH3
<1>2. WithH3(records, k) \subseteq 1..k
  BY DEF WithH3
<1>3. CASE WithH3(records, k) = {} /\ "h3" \in records[k + 1].alpns
  BY <1>1, <1>3 DEF IsFirst, Among
<1>4. CASE WithH3(records, k) = {} /\ "h3" \notin records[k + 1].alpns
  BY <1>1, <1>4 DEF IsFirst, Among
<1>5. CASE WithH3(records, k) # {}
  <2>1. WithH3(records, k + 1) # {}
    BY <1>1, <1>5
  <2>2. /\ i \in WithH3(records, k)
        /\ \A j \in WithH3(records, k) : i <= j
    BY <1>5 DEF IsFirst, Among
  <2>3. /\ i \in WithH3(records, k + 1)
        /\ \A j \in WithH3(records, k + 1) : i <= j
    BY <1>1, <1>2, <2>2
  <2> QED
    BY <1>5, <2>1, <2>3 DEF IsFirst, Among
<1> QED
  BY <1>3, <1>4, <1>5

\* What the loop returns is what the answer means.
LEMMA LookupIsMeaning ==
  ASSUME NEW n \in Nat, NEW records, DOMAIN records = 1..n
  PROVE  Lookup(records) = AnswerMeans(records)
<1>1. PICK g : /\ Lookup(records) = g[1..n]
               /\ \A S \in UpTo(n) : g[S] = Looks(g, records, S)
  BY LookupFold
<1> DEFINE Kept(k) == \A i \in 1..k :
             IsFirst(records, k, i) => g[1..k] = {ParseHttpsRecord(records[i])}
           Wrong == {k \in 1..n : ~Kept(k)}
<1>2. \A k \in 1..n : g[1..k] = Chosen(g[1..(k - 1)], records[k])
  <2> TAKE k \in 1..n
  <2>1. k \in Nat /\ 1..k \in UpTo(k) /\ k \in 1..k
    BY DEF UpTo
  <2>2. Max(1..k) = k
    BY <2>1, MaxUpTo
  <2>3. (1..k) \ {k} = 1..(k - 1) /\ 1..k \in UpTo(n) /\ 1..k # {}
    BY DEF UpTo
  <2> QED
    BY <1>1, <2>2, <2>3 DEF Looks
<1>3. g[1..0] = {}
  <2>1. 1..0 = {} /\ {} \in UpTo(n)
    BY DEF UpTo
  <2> QED
    BY <1>1, <2>1 DEF Looks
<1>4. 1 \in 1..n => Kept(1)
  <2>1. ASSUME 1 \in 1..n PROVE g[1..1] = {ParseHttpsRecord(records[1])}
    <3>1. g[1..1] = Chosen(g[1..(1 - 1)], records[1])
      BY <1>2, <2>1
    <3>2. 1 - 1 = 0
      OBVIOUS
    <3> QED
      BY <1>3, <3>1, <3>2 DEF Chosen
  <2>2. \A i \in 1..1 : i = 1
    OBVIOUS
  <2> QED
    BY <2>1, <2>2
<1>5. ASSUME NEW k \in 1..n, k + 1 \in 1..n, Kept(k) PROVE Kept(k + 1)
  <2>0. k \in Nat \ {0}
    OBVIOUS
  <2>1. PICK i \in 1..k : IsFirst(records, k, i)
    BY <2>0, FirstExists
  <2>2. g[1..k] = {ParseHttpsRecord(records[i])}
    BY <1>5, <2>1
  <2>3. g[1..(k + 1)] = Chosen(g[1..k], records[k + 1])
    <3>1. (k + 1) - 1 = k
      OBVIOUS
    <3> QED
      BY <1>2, <1>5, <3>1
  <2>4. ParseHttpsRecord(records[i]).hasH3 <=> WithH3(records, k) # {}
    BY <2>1 DEF ParseHttpsRecord, IsFirst, Among, WithH3
  <2>5. \E j \in 1..(k + 1) : /\ IsFirst(records, k + 1, j)
                             /\ g[1..(k + 1)] = {ParseHttpsRecord(records[j])}
    <3>1. i \in 1..(k + 1) /\ k + 1 \in 1..(k + 1)
      OBVIOUS
    <3>2. CASE "h3" \in records[k + 1].alpns /\ WithH3(records, k) = {}
      BY <2>0, <2>1, <2>2, <2>3, <2>4, <3>1, <3>2, FirstStays DEF Chosen
    <3>3. CASE ~("h3" \in records[k + 1].alpns /\ WithH3(records, k) = {})
      BY <2>0, <2>1, <2>2, <2>3, <2>4, <3>1, <3>3, FirstStays DEF Chosen
    <3> QED
      BY <3>2, <3>3
  <2>6. \A i1, i2 \in 1..(k + 1) :
          IsFirst(records, k + 1, i1) /\ IsFirst(records, k + 1, i2) => i1 = i2
    BY DEF IsFirst
  <2> QED
    BY <2>5, <2>6
<1>6. \A k \in 1..n : Kept(k)
  <2> SUFFICES ASSUME Wrong # {} PROVE FALSE
    OBVIOUS
  <2>1. PICK m \in Wrong : \A k \in Wrong : m <= k
    <3>1. Wrong \subseteq Nat
      OBVIOUS
    <3> HIDE DEF Wrong
    <3> QED
      BY <3>1, NatMin
  <2> HIDE DEF Kept
  <2>2. m \in 1..n /\ ~Kept(m)
    OBVIOUS
  <2>3. m # 1
    BY <1>4, <2>2
  <2>4. m - 1 \in 1..n /\ (m - 1) + 1 = m
    BY <2>2, <2>3
  <2>5. Kept(m - 1)
    BY <2>1, <2>2, <2>4
  <2> QED
    BY <1>5, <2>2, <2>4, <2>5
<1>7. CASE n = 0
  BY <1>1, <1>3, <1>7 DEF AnswerMeans, Candidates
<1>8. CASE n # 0
  <2>1. PICK i \in 1..n : IsFirst(records, n, i)
    BY <1>8, FirstExists
  <2>2. Lookup(records) = {ParseHttpsRecord(records[i])}
    BY <1>1, <1>6, <1>8, <2>1
  <2>3. Candidates(records) = Among(records, n)
    BY DEF Candidates, Among, WithH3
  <2>4. {j \in Among(records, n) : \A k \in Among(records, n) : j <= k} = {i}
    BY <2>1 DEF IsFirst, Among, WithH3
  <2>5. AnswerMeans(records) = {ParseHttpsRecord(records[j]) : j \in {i}}
    BY <2>3, <2>4 DEF AnswerMeans
  <2> QED
    BY <2>2, <2>5
<1> QED
  BY <1>7, <1>8
-----------------------------------------------------------------------------
HttpsRrInv == HttpsRrAsMeant /\ DOMAIN meant = {"altSvc", "httpsRr"}

\* For every answer DNS may give, over any number of queries, an HTTPS RR is
\* used as it is meant (https_rr::lookup).
THEOREM AnswersAreUsedAsMeant == Spec => []HttpsRrAsMeant
<1> USE DEF HttpsRrInv, HttpsRrAsMeant
<1>1. Init => HttpsRrInv
  BY DEF Init
<1>2. ASSUME HttpsRrInv, [Next]_vars PROVE HttpsRrInv'
  <2>1. ASSUME NEW h \in Headers, Receive(h) PROVE HttpsRrInv'
    BY <1>2, <2>1 DEF Receive
  <2>2. ASSUME NEW rs \in Records, Query(rs) PROVE HttpsRrInv'
    <3>1. Len(rs) \in Nat /\ DOMAIN rs = 1..Len(rs)
      BY RecordsAssumption
    <3>2. Lookup(rs) = AnswerMeans(rs)
      BY <3>1, LookupIsMeaning
    <3> QED
      BY <1>2, <2>2, <3>2 DEF Query
  <2> QED
    BY <1>2, <2>1, <2>2 DEF Next, vars
<1>3. HttpsRrInv => HttpsRrAsMeant
  OBVIOUS
<1> QED
  BY <1>1, <1>2, <1>3, PTL DEF Spec
-----------------------------------------------------------------------------
(* Splitting a header and joining its parts *)
USE TokenAssumption

\* The states of a scan, and the first of them.
Splits == [parts : Seq(Seq(Tokens)), part : Seq(Tokens), quoted : BOOLEAN]

Nothing == [parts |-> <<>>, part |-> <<>>, quoted |-> FALSE]

\* A scan stays among its states.
LEMMA ScanType ==
  ASSUME NEW x \in Splits, NEW t \in Tokens, NEW separator
  PROVE  Scan(x, t, separator) \in Splits
<1>1. Append(x.parts, x.part) \in Seq(Seq(Tokens)) /\ Append(x.part, t) \in Seq(Tokens)
  BY DEF Splits
<1>2. CASE t = separator /\ ~x.quoted
  BY <1>1, <1>2 DEF Splits, Scan
<1>3. CASE ~(t = separator /\ ~x.quoted)
  BY <1>1, <1>3 DEF Splits, Scan
<1> QED
  BY <1>2, <1>3

ScanStep(separator) == [w \in Splits \X Tokens |-> Scan(w[1], w[2], separator)]

\* The scan of a sequence is such a fold.
LEMMA ScanFold ==
  ASSUME NEW s \in Seq(Tokens), NEW separator
  PROVE  \E g : /\ Follows(g, s, Nothing, ScanStep(separator))
                /\ Scanned(s, separator) = g[1..Len(s)]
                /\ g[1..Len(s)] \in Splits
<1> DEFINE Next1(g, S) == IF S = {} THEN Nothing
                          ELSE Scan(g[S \ {Max(S)}], s[Max(S)], separator)
           It(g) == g = [S \in UpTo(Len(s)) |-> Next1(g, S)]
           it == CHOOSE g : It(g)
<1>1. Len(s) \in Nat /\ DOMAIN s = 1..Len(s) /\ \A i \in 1..Len(s) : s[i] \in Tokens
  OBVIOUS
<1>2. Scanned(s, separator) = it[1..Len(s)]
  BY <1>1 DEF Scanned, FoldLeft, MapThenFoldSet, UpTo, Nothing
<1>3. PICK g \in [UpTo(Len(s)) -> Splits] : Follows(g, s, Nothing, ScanStep(separator))
  <2>1. Nothing \in Splits
    BY DEF Nothing, Splits
  <2>2. ScanStep(separator) \in [Splits \X Tokens -> Splits]
    BY ScanType DEF ScanStep
  <2> QED
    BY <2>1, <2>2, FoldExists
<1>4. It(g)
  <2>1. ASSUME NEW S \in UpTo(Len(s)) PROVE g[S] = Next1(g, S)
    <3>1. CASE S = {}
      BY <1>3, <3>1 DEF Follows
    <3>2. CASE S # {}
      <4>1. g[S] = ScanStep(separator)[<<g[S \ {Max(S)}], s[Max(S)]>>]
        BY <1>3, <3>2 DEF Follows
      <4>2. Max(S) \in 1..Len(s) /\ S \ {Max(S)} \in UpTo(Len(s))
        BY <1>1, <3>2, MaxIn DEF UpTo
      <4> QED
        BY <1>1, <3>2, <4>1, <4>2 DEF ScanStep
    <3> QED
      BY <3>1, <3>2
  <2> QED
    BY <2>1
<1>5. It(it)
  BY <1>4
<1>6. \A S \in UpTo(Len(s)) : it[S] = Next1(it, S) /\ g[S] = Next1(g, S)
  BY <1>4, <1>5
<1> HIDE DEF it
<1>7. \A S \in UpTo(Len(s)) : it[S] = g[S]
  <2>1. Alike(it, g, Len(s))
    BY <1>6 DEF Alike, UpTo
  <2> QED
    BY <1>1, <2>1, SubsetsAgree
<1> QED
  BY <1>2, <1>3, <1>7 DEF UpTo

\* Before the first token.
LEMMA ScanEmpty ==
  ASSUME NEW separator PROVE Scanned(<<>>, separator) = Nothing
<1>1. <<>> \in Seq(Tokens) /\ 1..Len(<<>>) = {}
  OBVIOUS
<1> QED
  BY <1>1, ScanFold DEF Follows

\* A token more is a step more.
LEMMA ScanAppend ==
  ASSUME NEW s \in Seq(Tokens), NEW t \in Tokens, NEW separator
  PROVE  /\ Scanned(s, separator) \in Splits
         /\ Scanned(Append(s, t), separator) = Scan(Scanned(s, separator), t, separator)
<1>1. PICK f : /\ Follows(f, s, Nothing, ScanStep(separator))
               /\ Scanned(s, separator) = f[1..Len(s)] /\ f[1..Len(s)] \in Splits
  BY ScanFold
<1>2. Append(s, t) \in Seq(Tokens)
  OBVIOUS
<1>3. PICK g : /\ Follows(g, Append(s, t), Nothing, ScanStep(separator))
               /\ Scanned(Append(s, t), separator) = g[1..Len(Append(s, t))]
  BY <1>2, ScanFold
<1>4. g[1..Len(Append(s, t))] = ScanStep(separator)[<<f[1..Len(s)], t>>]
  BY <1>1, <1>3, FoldAppends
<1> QED
  BY <1>1, <1>3, <1>4 DEF ScanStep

\* A stretch without quotes, and without separators unless a quote is open.
LEMMA ScanStretch ==
  ASSUME NEW s \in Seq(Tokens), NEW p \in Seq(Tokens), NEW separator,
         \A i \in 1..Len(p) : p[i] # Quote,
         \/ Scanned(s, separator).quoted
         \/ \A i \in 1..Len(p) : p[i] # separator
  PROVE  Scanned(s \o p, separator) = [Scanned(s, separator) EXCEPT !.part = @ \o p]
<1> DEFINE x == Scanned(s, separator)
           At(i) == [x EXCEPT !.part = @ \o SubSeq(p, 1, i)]
           G == {i \in 0..Len(p) : Scanned(s \o SubSeq(p, 1, i), separator) = At(i)}
<1>1. x \in Splits /\ Len(p) \in Nat
  BY ScanFold
<1>2. 0 \in G
  <2>1. s \o SubSeq(p, 1, 0) = s /\ x.part \o SubSeq(p, 1, 0) = x.part
    BY <1>1, PrefixEnds DEF Splits
  <2>2. At(0) = x
    BY <1>1, <2>1 DEF Splits
  <2>3. Scanned(s \o SubSeq(p, 1, 0), separator) = At(0)
    BY <2>1, <2>2
  <2> HIDE DEF At
  <2> QED
    BY <1>1, <2>3
<1>3. ASSUME NEW i \in 1..Len(p), i - 1 \in G PROVE i \in G
  <2> DEFINE before == s \o SubSeq(p, 1, i - 1)
  <2>1. before \in Seq(Tokens) /\ s \o SubSeq(p, 1, i) = Append(before, p[i]) /\ p[i] \in Tokens
    BY PrefixGrows
  <2>2. Scanned(before, separator) = At(i - 1)
    BY <1>3
  <2>3. Scanned(Append(before, p[i]), separator) = Scan(At(i - 1), p[i], separator)
    BY <2>1, <2>2, ScanAppend
  <2>4. Scan(At(i - 1), p[i], separator) = [At(i - 1) EXCEPT !.part = Append(@, p[i])]
    BY <1>1, <2>1 DEF Scan, Splits
  <2>5. x.part \o SubSeq(p, 1, i) = Append(x.part \o SubSeq(p, 1, i - 1), p[i])
    <3> DEFINE part == x.part
    <3>1. part \in Seq(Tokens)
      BY <1>1 DEF Splits
    <3> HIDE DEF part
    <3>2. part \o SubSeq(p, 1, i) = Append(part \o SubSeq(p, 1, i - 1), p[i])
      BY <3>1, PrefixGrows
    <3> QED
      BY <3>2 DEF part
  <2>6. [At(i - 1) EXCEPT !.part = Append(@, p[i])] = At(i)
    BY <1>1, <2>5 DEF Splits
  <2>7. Scanned(s \o SubSeq(p, 1, i), separator) = At(i)
    BY <2>1, <2>3, <2>4, <2>6
  <2> HIDE DEF At
  <2> QED
    BY <1>1, <2>7
<1>4. Len(p) \in G
  <2> HIDE DEF G
  <2> QED
    BY <1>1, <1>2, <1>3, Climb
<1> QED
  BY <1>4, PrefixEnds

\* What stays within the part begun, wherever no quote is open.
Calm(p, separator) ==
  \A s \in Seq(Tokens) :
    ~Scanned(s, separator).quoted =>
      Scanned(s \o p, separator) = [Scanned(s, separator) EXCEPT !.part = @ \o p]

\* Words are calm.
LEMMA WordIsCalm ==
  ASSUME NEW p \in Seq(Tokens), NEW separator,
         \A i \in 1..Len(p) : p[i] # Quote /\ p[i] # separator
  PROVE  Calm(p, separator)
  BY ScanStretch DEF Calm

\* Calm stretches one after the other.
LEMMA CalmConcat ==
  ASSUME NEW p \in Seq(Tokens), NEW q \in Seq(Tokens), NEW separator,
         Calm(p, separator), Calm(q, separator)
  PROVE  Calm(p \o q, separator)
<1> SUFFICES ASSUME NEW s \in Seq(Tokens), ~Scanned(s, separator).quoted
             PROVE  Scanned(s \o (p \o q), separator) =
                      [Scanned(s, separator) EXCEPT !.part = @ \o (p \o q)]
  BY DEF Calm
<1> DEFINE x == Scanned(s, separator)
           y == Scanned(s \o p, separator)
<1>1. x \in Splits
  BY ScanFold
<1>2. y = [x EXCEPT !.part = @ \o p] /\ ~y.quoted
  BY <1>1 DEF Calm, Splits
<1>3. s \o p \in Seq(Tokens)
  BY ConcatProperties
<1>4. Scanned((s \o p) \o q, separator) = [y EXCEPT !.part = @ \o q]
  BY <1>2, <1>3 DEF Calm
<1>5. (s \o p) \o q = s \o (p \o q)
  BY ConcatAssociative
<1>6. (x.part \o p) \o q = x.part \o (p \o q)
  <2> DEFINE part == x.part
  <2>1. part \in Seq(Tokens)
    BY <1>1 DEF Splits
  <2> HIDE DEF part
  <2>2. (part \o p) \o q = part \o (p \o q)
    BY <2>1, ConcatAssociative
  <2> QED
    BY <2>2 DEF part
<1> HIDE DEF x, y
<1>7. [y EXCEPT !.part = @ \o q] = [x EXCEPT !.part = @ \o (p \o q)]
  BY <1>1, <1>2, <1>6 DEF Splits
<1> QED
  BY <1>4, <1>5, <1>7 DEF x

\* Quotes are calm, whatever stands between them.
LEMMA ProtectedIsCalm ==
  ASSUME NEW p \in Seq(Tokens), NEW separator, separator # Quote,
         \A i \in 1..Len(p) : p[i] # Quote
  PROVE  Protected(p) \in Seq(Tokens) /\ Calm(Protected(p), separator)
<1>1. Quote \in Tokens /\ <<Quote>> \in Seq(Tokens)
  <2>1. Quote \in Tokens
    BY DEF Marks
  <2> QED
    BY <2>1
<1>2. Protected(p) \in Seq(Tokens)
  BY <1>1, ConcatProperties DEF Protected
<1>3. ASSUME NEW s \in Seq(Tokens), ~Scanned(s, separator).quoted
      PROVE  Scanned(s \o Protected(p), separator) =
               [Scanned(s, separator) EXCEPT !.part = @ \o Protected(p)]
  <2> DEFINE x == Scanned(s, separator)
             open == Append(s, Quote)
             inside == open \o p
  <2>1. x \in Splits /\ open \in Seq(Tokens) /\ inside \in Seq(Tokens)
    BY <1>1, ScanFold, ConcatProperties
  <2>2. s \o Protected(p) = Append(inside, Quote)
    BY <1>1 DEF Protected
  <2>3. x.part \o Protected(p) = Append(Append(x.part, Quote) \o p, Quote)
    <3> DEFINE part == x.part
    <3>1. part \in Seq(Tokens)
      BY <2>1 DEF Splits
    <3> HIDE DEF part
    <3>2. part \o Protected(p) = Append(Append(part, Quote) \o p, Quote)
      BY <1>1, <3>1, BetweenQuotes DEF Protected
    <3> QED
      BY <3>2 DEF part
  <2>4. Scanned(open, separator) = Scan(x, Quote, separator)
    BY <1>1, ScanAppend
  <2>5. Scan(x, Quote, separator) = [x EXCEPT !.part = Append(@, Quote), !.quoted = TRUE]
    BY <1>3, <2>1 DEF Scan, Splits
  <2>6. Scanned(inside, separator) =
          [x EXCEPT !.part = Append(@, Quote) \o p, !.quoted = TRUE]
    <3>1. Scanned(open, separator).quoted
      BY <2>1, <2>4, <2>5 DEF Splits
    <3>2. Scanned(inside, separator) = [Scanned(open, separator) EXCEPT !.part = @ \o p]
      BY <2>1, <3>1, ScanStretch
    <3> QED
      BY <2>1, <2>4, <2>5, <3>2 DEF Splits
  <2>7. Scanned(Append(inside, Quote), separator) =
          Scan(Scanned(inside, separator), Quote, separator)
    BY <1>1, <2>1, ScanAppend
  <2>8. Scan([x EXCEPT !.part = Append(@, Quote) \o p, !.quoted = TRUE], Quote, separator) =
          [x EXCEPT !.part = Append(Append(@, Quote) \o p, Quote)]
    BY <1>3, <2>1 DEF Scan, Splits
  <2> HIDE DEF x, open, inside
  <2> QED
    BY <2>2, <2>3, <2>6, <2>7, <2>8 DEF x
<1> QED
  BY <1>2, <1>3 DEF Calm

\* What a part joined to others adds.
Adjoined(s, p, separator) == IF s = <<>> THEN p ELSE s \o <<separator>> \o p

\* Joining is such a fold, too.
JoinStep(T, separator) ==
  [w \in Seq(T) \X Seq(T) |-> Adjoined(w[1], w[2], separator)]

\* Join is such a fold.
LEMMA JoinFold ==
  ASSUME NEW T, NEW parts \in Seq(Seq(T)), NEW separator \in T
  PROVE  \E g : /\ Follows(g, parts, <<>>, JoinStep(T, separator))
                /\ Join(parts, separator) = g[1..Len(parts)]
                /\ g[1..Len(parts)] \in Seq(T)
<1> DEFINE Value(g, S) == IF S = {} THEN <<>>
                          ELSE Adjoined(g[S \ {Max(S)}], parts[Max(S)], separator)
           It(g) == g = [S \in UpTo(Len(parts)) |-> Value(g, S)]
           it == CHOOSE g : It(g)
<1>1. /\ Len(parts) \in Nat /\ DOMAIN parts = 1..Len(parts)
      /\ \A i \in 1..Len(parts) : parts[i] \in Seq(T)
  OBVIOUS
<1>2. Join(parts, separator) = it[1..Len(parts)]
  BY <1>1 DEF Join, FoldLeft, MapThenFoldSet, UpTo, Adjoined
<1>3. PICK g \in [UpTo(Len(parts)) -> Seq(T)] :
        Follows(g, parts, <<>>, JoinStep(T, separator))
  <2>1. JoinStep(T, separator) \in [Seq(T) \X Seq(T) -> Seq(T)]
    BY DEF JoinStep, Adjoined
  <2>2. <<>> \in Seq(T)
    OBVIOUS
  <2> QED
    BY <2>1, <2>2, FoldExists
<1>4. It(g)
  <2>1. ASSUME NEW S \in UpTo(Len(parts)) PROVE g[S] = Value(g, S)
    <3>1. CASE S = {}
      BY <1>3, <3>1 DEF Follows
    <3>2. CASE S # {}
      <4>1. g[S] = JoinStep(T, separator)[<<g[S \ {Max(S)}], parts[Max(S)]>>]
        BY <1>3, <3>2 DEF Follows
      <4>2. Max(S) \in 1..Len(parts) /\ S \ {Max(S)} \in UpTo(Len(parts))
        BY <1>1, <3>2, MaxIn DEF UpTo
      <4> QED
        BY <1>1, <3>2, <4>1, <4>2 DEF JoinStep
    <3> QED
      BY <3>1, <3>2
  <2> QED
    BY <2>1
<1>5. It(it)
  BY <1>4
<1>6. \A S \in UpTo(Len(parts)) : it[S] = Value(it, S) /\ g[S] = Value(g, S)
  BY <1>4, <1>5
<1> HIDE DEF it
<1>7. \A S \in UpTo(Len(parts)) : it[S] = g[S]
  <2>1. Alike(it, g, Len(parts))
    BY <1>6 DEF Alike, UpTo
  <2> QED
    BY <1>1, <2>1, SubsetsAgree
<1> QED
  BY <1>2, <1>3, <1>7 DEF UpTo

\* Nothing is joined to nothing.
LEMMA JoinEmpty ==
  ASSUME NEW separator PROVE Join(<<>>, separator) = <<>>
<1> DEFINE T == {separator}
<1>1. <<>> \in Seq(Seq(T)) /\ 1..Len(<<>>) = {} /\ separator \in T
  OBVIOUS
<1> HIDE DEF T
<1>2. PICK g : /\ Follows(g, <<>>, <<>>, JoinStep(T, separator))
               /\ Join(<<>>, separator) = g[1..Len(<<>>)]
  BY <1>1, JoinFold
<1> QED
  BY <1>1, <1>2 DEF Follows

\* A part more is a step more.
LEMMA JoinAppend ==
  ASSUME NEW T, NEW parts \in Seq(Seq(T)), NEW p \in Seq(T), NEW separator \in T
  PROVE  /\ Join(parts, separator) \in Seq(T)
         /\ Join(Append(parts, p), separator) = Adjoined(Join(parts, separator), p, separator)
<1>1. PICK f : /\ Follows(f, parts, <<>>, JoinStep(T, separator))
               /\ Join(parts, separator) = f[1..Len(parts)]
               /\ f[1..Len(parts)] \in Seq(T)
  BY JoinFold
<1>2. Append(parts, p) \in Seq(Seq(T))
  OBVIOUS
<1>3. PICK g : /\ Follows(g, Append(parts, p), <<>>, JoinStep(T, separator))
               /\ Join(Append(parts, p), separator) = g[1..Len(Append(parts, p))]
  BY <1>2, JoinFold
<1>4. g[1..Len(Append(parts, p))] = JoinStep(T, separator)[<<f[1..Len(parts)], p>>]
  <2> DEFINE S == Seq(T)
  <2>1. parts \in Seq(S) /\ p \in S
    OBVIOUS
  <2> HIDE DEF S
  <2> QED
    BY <1>1, <1>3, <2>1, FoldAppends
<1> QED
  BY <1>1, <1>3, <1>4 DEF JoinStep

\* The same for the prefixes of a sequence of parts.
LEMMA JoinPrefix ==
  ASSUME NEW T, NEW parts \in Seq(Seq(T)), NEW separator \in T, NEW i \in 1..Len(parts)
  PROVE  /\ parts[i] \in Seq(T) /\ Join(SubSeq(parts, 1, i - 1), separator) \in Seq(T)
         /\ Join(SubSeq(parts, 1, i), separator) \in Seq(T)
         /\ Join(SubSeq(parts, 1, i), separator) =
              Adjoined(Join(SubSeq(parts, 1, i - 1), separator), parts[i], separator)
<1> DEFINE S == Seq(T)
           before == SubSeq(parts, 1, i - 1)
           p == parts[i]
<1>1. /\ p \in S /\ before \in Seq(S)
      /\ SubSeq(parts, 1, i) = Append(before, p)
  <2>1. parts \in Seq(S) /\ p \in S
    OBVIOUS
  <2> HIDE DEF S, p
  <2>2. before \in Seq(S) /\ SubSeq(parts, 1, i) = Append(before, parts[i])
    BY <2>1, PrefixGrows
  <2> QED
    BY <2>1, <2>2 DEF p
<1>2. before \in Seq(Seq(T)) /\ p \in Seq(T)
  BY <1>1
<1> HIDE DEF before, p
<1>3. /\ Join(before, separator) \in Seq(T)
      /\ Join(Append(before, p), separator) = Adjoined(Join(before, separator), p, separator)
  BY <1>2, JoinAppend
<1>4. Join(Append(before, p), separator) \in Seq(T)
  <2>1. Append(before, p) \in Seq(Seq(T))
    BY <1>2
  <2> QED
    BY <2>1, JoinFold
<1> QED
  BY <1>1, <1>2, <1>3, <1>4 DEF before, p

\* x is y with h in front.
Headed(x, h, y) == x = h \o y /\ y # <<>>

\* What is added comes behind what stands in front.
LEMMA AdjoinedBehind ==
  ASSUME NEW T, NEW h \in Seq(T), NEW y \in Seq(T), NEW p \in Seq(T), NEW separator,
         NEW x, Headed(x, h, y), NEW u, u = Adjoined(y, p, separator)
  PROVE  Headed(Adjoined(x, p, separator), h, u)
<1> DEFINE S == T \cup {separator}
           w == <<separator>>
<1>1. h \in Seq(S) /\ y \in Seq(S) /\ p \in Seq(S) /\ w \in Seq(S)
  <2>1. T \subseteq S /\ separator \in S
    OBVIOUS
  <2> HIDE DEF S
  <2> QED
    BY <2>1, SeqMonotonic
<1>2. u = y \o w \o p
  BY DEF Adjoined, Headed
<1> HIDE DEF S, w
<1>3. u # <<>>
  BY <1>1, <1>2, ConcatThree DEF Headed
<1>4. (h \o y) \o w \o p = h \o u
  <2>1. Beside(Beside(Beside(h, y), w), p) = Beside(h, Beside(Beside(y, w), p))
    BY <1>1, ConcatFour
  <2> QED
    BY <1>2, <2>1, Zenon DEF Beside
<1>5. h \o y # <<>>
  BY ConcatEqualIffEmpty DEF Headed
<1> QED
  BY <1>3, <1>4, <1>5 DEF Adjoined, Headed, w

\* A token that is no quote and no separator.
LEMMA OneIsCalm ==
  ASSUME NEW t \in Tokens \ {Quote}, NEW separator, t # separator
  PROVE  <<t>> \in Seq(Tokens) /\ Calm(<<t>>, separator)
<1>1. <<t>> \in Seq(Tokens) /\ \A i \in 1..Len(<<t>>) : <<t>>[i] = t
  OBVIOUS
<1> QED
  BY <1>1, WordIsCalm

\* Calm parts and another separator are calm together.
LEMMA JoinIsCalm ==
  ASSUME NEW parts \in Seq(Seq(Tokens)), NEW separator \in Tokens \ {Quote},
         NEW other, other # separator,
         \A i \in 1..Len(parts) : Calm(parts[i], other)
  PROVE  Calm(Join(parts, separator), other)
<1> DEFINE J(i) == Join(SubSeq(parts, 1, i), separator)
           G == {i \in 0..Len(parts) : Calm(J(i), other)}
<1>1. Len(parts) \in Nat
  OBVIOUS
<1>2. 0 \in G
  <2>1. J(0) = <<>>
    BY JoinEmpty, PrefixEnds
  <2>2. Calm(<<>>, other)
    <3>1. <<>> \in Seq(Tokens) /\ 1..Len(<<>>) = {}
      OBVIOUS
    <3> QED
      BY <3>1, WordIsCalm
  <2> QED
    BY <1>1, <2>1, <2>2
<1>3. ASSUME NEW i \in 1..Len(parts), i - 1 \in G PROVE i \in G
  <2> DEFINE p == parts[i]
             s == J(i - 1)
  <2>1. p \in Seq(Tokens) /\ Calm(p, other) /\ Calm(s, other)
    BY <1>3
  <2>2. s \in Seq(Tokens) /\ J(i) = Adjoined(s, p, separator)
    BY JoinPrefix
  <2> HIDE DEF p, s
  <2>3. Calm(s \o <<separator>> \o p, other)
    <3>1. <<separator>> \in Seq(Tokens) /\ Calm(<<separator>>, other)
      BY OneIsCalm
    <3>2. s \o <<separator>> \in Seq(Tokens) /\ Calm(s \o <<separator>>, other)
      BY <2>1, <2>2, <3>1, CalmConcat, ConcatProperties
    <3> QED
      BY <2>1, <3>2, CalmConcat
  <2>4. Calm(J(i), other)
    BY <2>1, <2>2, <2>3 DEF Adjoined
  <2> HIDE DEF J
  <2> QED
    BY <2>4
<1>4. Len(parts) \in G
  <2> HIDE DEF G
  <2> QED
    BY <1>1, <1>2, <1>3, Climb
<1> QED
  BY <1>4, PrefixEnds

\* What a stretch of tokens does to a split that has begun no part.
LEMMA FirstPart ==
  ASSUME NEW ps \in Seq(Seq(Tokens)), NEW p \in Seq(Tokens), NEW x,
         x = [parts |-> ps, part |-> <<>>, quoted |-> FALSE]
  PROVE  [x EXCEPT !.part = @ \o p] = [parts |-> ps, part |-> p, quoted |-> FALSE]
<1> DEFINE y == [x EXCEPT !.part = p]
           z == [parts |-> ps, part |-> p, quoted |-> FALSE]
<1>1. x \in Splits
  <2>1. <<>> \in Seq(Tokens)
    OBVIOUS
  <2>2. x.parts = ps /\ x.part = <<>> /\ x.quoted = FALSE
    OBVIOUS
  <2> QED
    BY <2>1 DEF Splits
<1>2. z \in Splits
  BY DEF Splits
<1>3. y \in Splits
  BY <1>1 DEF Splits
<1>4. x.part \o p = p
  OBVIOUS
<1>5. y.parts = z.parts /\ y.part = z.part /\ y.quoted = z.quoted
  BY <1>1 DEF Splits
<1>6. y = z
  <2> HIDE DEF y, z
  <2> QED
    BY <1>2, <1>3, <1>5 DEF Splits
<1> QED
  BY <1>4, <1>6

\* What the first part begins with, the whole begins with.
LEMMA JoinBehind ==
  ASSUME NEW T, NEW h \in Seq(T), NEW separator \in T,
         NEW parts \in Seq(Seq(T)), NEW others \in Seq(Seq(T)),
         parts # <<>>, Len(others) = Len(parts), Headed(parts[1], h, others[1]),
         \A i \in 2..Len(parts) : parts[i] = others[i]
  PROVE  /\ Join(others, separator) \in Seq(T)
         /\ Headed(Join(parts, separator), h, Join(others, separator))
<1> DEFINE J(ps, i) == Join(SubSeq(ps, 1, i), separator)
           G == {i \in 0..Len(parts) : i # 0 => Headed(J(parts, i), h, J(others, i))}
<1>1. Len(parts) \in Nat \ {0}
  OBVIOUS
<1>2. 0 \in G
  BY <1>1
<1>3. ASSUME NEW ps \in Seq(Seq(T)), NEW i \in 1..Len(ps)
      PROVE  /\ ps[i] \in Seq(T) /\ J(ps, i - 1) \in Seq(T) /\ J(ps, i) \in Seq(T)
             /\ J(ps, i) = Adjoined(J(ps, i - 1), ps[i], separator)
             /\ i = 1 => J(ps, i) = ps[i]
  <2>1. /\ ps[i] \in Seq(T) /\ J(ps, i - 1) \in Seq(T) /\ J(ps, i) \in Seq(T)
        /\ J(ps, i) = Adjoined(J(ps, i - 1), ps[i], separator)
    <3>1. ps[i] \in Seq(T)
      BY JoinPrefix
    <3>2. J(ps, i - 1) \in Seq(T) /\ J(ps, i) \in Seq(T)
      BY JoinPrefix
    <3>3. J(ps, i) = Adjoined(J(ps, i - 1), ps[i], separator)
      BY JoinPrefix
    <3> QED
      BY <3>1, <3>2, <3>3
  <2>2. i = 1 => J(ps, i - 1) = <<>>
    <3>1. i = 1 => SubSeq(ps, 1, i - 1) = <<>>
      OBVIOUS
    <3> QED
      BY <3>1, JoinEmpty
  <2> QED
    BY <2>1, <2>2 DEF Adjoined
<1>4. ASSUME NEW i \in 1..Len(parts), i - 1 \in G PROVE i \in G
  <2>1. /\ others[i] \in Seq(T) /\ J(others, i - 1) \in Seq(T)
        /\ J(others, i) = Adjoined(J(others, i - 1), others[i], separator)
        /\ i = 1 => J(others, i) = others[i]
    BY <1>3
  <2>2. /\ J(parts, i) = Adjoined(J(parts, i - 1), parts[i], separator)
        /\ i = 1 => J(parts, i) = parts[i]
    BY <1>3
  <2>3. CASE i = 1
    BY <2>1, <2>2, <2>3
  <2>4. CASE i # 1
    <3>1. i - 1 \in G /\ i - 1 # 0 /\ parts[i] = others[i]
      BY <1>4, <2>4
    <3>2. Headed(J(parts, i - 1), h, J(others, i - 1))
      BY <3>1
    <3> HIDE DEF J
    <3>3. Headed(J(parts, i), h, J(others, i))
      BY <2>1, <2>2, <3>1, <3>2, AdjoinedBehind
    <3> QED
      BY <3>3
  <2> QED
    BY <2>3, <2>4
<1>5. Len(parts) \in G
  <2> HIDE DEF G
  <2> QED
    BY <1>1, <1>2, <1>4, Climb
<1>6. J(parts, Len(parts)) = Join(parts, separator) /\ J(others, Len(parts)) = Join(others, separator)
  BY PrefixEnds
<1>7. J(others, Len(parts)) \in Seq(T)
  BY <1>1, <1>3
<1> QED
  BY <1>1, <1>5, <1>6, <1>7

\* Splitting undoes joining.
LEMMA SplitOfJoin ==
  ASSUME NEW parts \in Seq(Seq(Tokens)), parts # <<>>, NEW separator \in Tokens \ {Quote},
         \A i \in 1..Len(parts) : parts[i] # <<>> /\ Calm(parts[i], separator)
  PROVE  SplitQuoted(Join(parts, separator), separator) = parts
<1> DEFINE J(i) == Join(SubSeq(parts, 1, i), separator)
           Done(i) == [parts |-> SubSeq(parts, 1, i - 1), part |-> parts[i], quoted |-> FALSE]
           Good(i) == i # 0 => J(i) # <<>> /\ Scanned(J(i), separator) = Done(i)
           G == {i \in 0..Len(parts) : Good(i)}
<1>1. Len(parts) \in Nat \ {0}
  OBVIOUS
<1>2. 0 \in G
  BY <1>1
<1>3. ASSUME NEW i \in 1..Len(parts), i - 1 \in G PROVE i \in G
  <2> DEFINE p == parts[i]
             s == J(i - 1)
  <2>1. p \in Seq(Tokens) /\ p # <<>> /\ Calm(p, separator)
    OBVIOUS
  <2>2. s \in Seq(Tokens) /\ J(i) = Adjoined(s, p, separator)
    BY JoinPrefix
  <2>3. CASE i = 1
    <3>1. s = <<>> /\ J(i) = p
      <4>1. s = <<>>
        <5>1. SubSeq(parts, 1, i - 1) = <<>>
          BY <2>3
        <5> QED
          BY <5>1, JoinEmpty
      <4> QED
        BY <2>2, <4>1 DEF Adjoined
    <3>2. Scanned(<<>> \o p, separator) = [Nothing EXCEPT !.part = <<>> \o p]
      <4>1. <<>> \in Seq(Tokens) /\ Scanned(<<>>, separator) = Nothing /\ ~Nothing.quoted
        BY ScanEmpty DEF Nothing
      <4>2. Scanned(<<>> \o p, separator) = [Nothing EXCEPT !.part = @ \o p]
        BY <2>1, <4>1 DEF Calm
      <4> QED
        BY <4>2 DEF Nothing
    <3>3. <<>> \o p = p
      BY <2>1
    <3>4. [Nothing EXCEPT !.part = <<>> \o p] = Done(i)
      <4>1. SubSeq(parts, 1, i - 1) = <<>>
        BY <2>3
      <4>2. /\ <<>> \in Seq(Seq(Tokens)) /\ p \in Seq(Tokens)
            /\ Nothing = [parts |-> <<>>, part |-> <<>>, quoted |-> FALSE]
            /\ [Nothing EXCEPT !.part = @ \o p] = [Nothing EXCEPT !.part = <<>> \o p]
        BY <2>1 DEF Nothing
      <4>3. [Nothing EXCEPT !.part = @ \o p] = [parts |-> <<>>, part |-> p, quoted |-> FALSE]
        <5> HIDE DEF p
        <5> QED
          BY <4>2, FirstPart
      <4> QED
        BY <4>1, <4>2, <4>3
    <3>5. J(i) # <<>> /\ Scanned(J(i), separator) = Done(i)
      BY <2>1, <3>1, <3>2, <3>3, <3>4
    <3> HIDE DEF J, Done
    <3> QED
      BY <3>5
  <2>4. CASE i # 1
    <3> DEFINE q == parts[i - 1]
               behind == Append(s, separator)
    <3>1. s # <<>> /\ Scanned(s, separator) = Done(i - 1)
      <4>1. i - 1 \in G /\ i - 1 # 0
        BY <1>3, <2>4
      <4> QED
        BY <4>1
    <3>2. behind \in Seq(Tokens) /\ J(i) = behind \o p /\ J(i) # <<>>
      <4>1. s \o <<separator>> = Append(s, separator)
        BY <2>2
      <4>2. behind \in Seq(Tokens) /\ behind \o p # <<>>
        BY <2>1, <2>2
      <4> QED
        BY <2>2, <3>1, <4>1, <4>2 DEF Adjoined
    <3>3. Scanned(behind, separator) = Scan(Done(i - 1), separator, separator)
      BY <2>2, <3>1, ScanAppend
    <3>4. Scan(Done(i - 1), separator, separator) =
            [parts |-> SubSeq(parts, 1, i - 1), part |-> <<>>, quoted |-> FALSE]
      <4>1. Append(SubSeq(parts, 1, (i - 1) - 1), parts[i - 1]) = SubSeq(parts, 1, i - 1)
        BY <2>4
      <4> QED
        BY <4>1 DEF Scan
    <3>5. Scanned(behind \o p, separator) = [Scanned(behind, separator) EXCEPT !.part = @ \o p]
      <4>1. ~Scanned(behind, separator).quoted
        BY <3>3, <3>4
      <4> QED
        BY <2>1, <3>2, <4>1 DEF Calm
    <3>6. <<>> \o p = p
      BY <2>1
    <3>7. Scanned(behind \o p, separator) = Done(i)
      <4> DEFINE ps == SubSeq(parts, 1, i - 1)
                 x == [parts |-> ps, part |-> <<>>, quoted |-> FALSE]
      <4>0. x = [parts |-> ps, part |-> <<>>, quoted |-> FALSE]
        OBVIOUS
      <4>1. Scanned(behind \o p, separator) = [x EXCEPT !.part = @ \o p]
        BY <3>3, <3>4, <3>5
      <4>2. [x EXCEPT !.part = @ \o p] = [parts |-> ps, part |-> p, quoted |-> FALSE]
        <5>1. ps \in Seq(Seq(Tokens)) /\ p \in Seq(Tokens)
          OBVIOUS
        <5> HIDE DEF p, ps, x
        <5> QED
          BY <5>1, <4>0, FirstPart
      <4> QED
        BY <4>1, <4>2
    <3>8. J(i) # <<>> /\ Scanned(J(i), separator) = Done(i)
      BY <3>2, <3>7
    <3> HIDE DEF J, Done
    <3> QED
      BY <3>8
  <2> QED
    BY <2>3, <2>4
<1>4. Len(parts) \in G
  <2> HIDE DEF G
  <2> QED
    BY <1>1, <1>2, <1>3, Climb
<1>5. Scanned(Join(parts, separator), separator) = Done(Len(parts))
  <2>1. J(Len(parts)) = Join(parts, separator)
    BY PrefixEnds
  <2> QED
    BY <1>1, <1>4, <2>1
<1>6. Append(SubSeq(parts, 1, Len(parts) - 1), parts[Len(parts)]) = parts
  OBVIOUS
<1> QED
  BY <1>5, <1>6 DEF SplitQuoted

-----------------------------------------------------------------------------
(* The tokens of an alternative *)

\* The characters with a meaning of their own.
LEMMA MarksAreTokens == Marks \subseteq Tokens
  BY DEF Marks

\* What neither commas nor semicolons split.
Tame(p) == p \in Seq(Tokens) /\ Calm(p, ";") /\ Calm(p, ",")

\* Words are tame, and texts between quotes, and what they make up.
LEMMA WordIsTame ==
  ASSUME NEW p, Word(p)
  PROVE  Tame(p)
<1> DEFINE W == Tokens \ {Quote, ",", ";"}
<1>1. p \in Seq(W) /\ W \subseteq Tokens
  BY DEF Word
<1>2. p \in Seq(Tokens) /\ \A i \in 1..Len(p) : p[i] \in W
  <2> HIDE DEF W
  <2> QED
    BY <1>1, SeqMonotonic, ElementOfSeq
<1> QED
  BY <1>2, WordIsCalm DEF Tame

LEMMA TextIsTame ==
  ASSUME NEW p, Text(p)
  PROVE  Tame(Protected(p)) /\ p \in Seq(Tokens)
<1>1. p \in Seq(Tokens)
  BY SeqMonotonic DEF Text
<1>2. \A i \in 1..Len(p) : p[i] \in Tokens \ {Quote}
  BY ElementOfSeq DEF Text
<1>3. ";" # Quote /\ "," # Quote
  BY DEF Quote
<1> QED
  BY <1>1, <1>2, <1>3, ProtectedIsCalm DEF Tame

LEMMA PairIsTame ==
  ASSUME NEW name, Word(<<name>>)
  PROVE  Tame(<<name, "=">>)
<1>1. name \in Tokens \ {Quote, ",", ";"}
  BY OnlyElement DEF Word
<1>2. "=" \in Tokens \ {Quote, ",", ";"}
  BY MarksAreTokens DEF Marks, Quote
<1>3. <<name, "=">> \in Seq(Tokens \ {Quote, ",", ";"})
  BY <1>1, <1>2, PairProperties
<1> QED
  BY <1>3, WordIsTame DEF Word

LEMMA TameConcat ==
  ASSUME NEW p, NEW q, Tame(p), Tame(q)
  PROVE  Tame(p \o q)
<1>1. p \in Seq(Tokens) /\ q \in Seq(Tokens)
  BY DEF Tame
<1>2. p \o q \in Seq(Tokens)
  BY <1>1, ConcatProperties
<1>3. Calm(p \o q, ";") /\ Calm(p \o q, ",")
  BY <1>1, CalmConcat DEF Tame
<1> QED
  BY <1>2, <1>3 DEF Tame

\* A host in brackets, a port behind a colon.
LEMMA SpelledIsText ==
  ASSUME NEW host, Text(host)
  PROVE  Text(Spelled(host))
<1> DEFINE T == Tokens \ {Quote}
<1>1. host \in Seq(T) /\ "[" \in T /\ "]" \in T
  BY MarksAreTokens DEF Text, Marks, Quote
<1> HIDE DEF T
<1>2. <<"[">> \in Seq(T) /\ <<"]">> \in Seq(T)
  BY <1>1
<1>3. <<"[">> \o host \o <<"]">> \in Seq(T)
  BY <1>1, <1>2, ConcatProperties
<1> QED
  BY <1>1, <1>3 DEF Spelled, Text, T

\* What stands between the quotes of an alternative.
Address(a) == Spelled(a.host) \o <<":", a.port>>

\* An alternative's address needs quotes, a parameter has them where needed.
LEMMA AddressIsText ==
  ASSUME NEW a, WellFormed(a)
  PROVE  Text(Address(a))
<1> DEFINE T == Tokens \ {Quote}
           s == Spelled(a.host)
           w == <<":", a.port>>
<1>1. s \in Seq(T)
  BY SpelledIsText DEF WellFormed, Text
<1>2. a.port \in T /\ ":" \in T
  BY OnlyElement, MarksAreTokens DEF WellFormed, Text, Marks, Quote
<1>3. w \in Seq(T)
  BY <1>2, PairProperties
<1> HIDE DEF T, s, w
<1>4. s \o w \in Seq(T)
  BY <1>1, <1>3, ConcatProperties
<1> QED
  BY <1>4 DEF Address, Text, T, s, w

LEMMA ParamIsTame ==
  ASSUME NEW a, WellFormed(a), NEW i \in 1..Len(a.params)
  PROVE  Tame(RenderParam(a.params[i])) /\ RenderParam(a.params[i]) # <<>>
<1> DEFINE p == a.params[i]
           v == IF p.quoted THEN Protected(p.value) ELSE p.value
           n == <<p.name, "=">>
<1>1. /\ Word(<<p.name>>) /\ p.quoted \in BOOLEAN
      /\ IF p.quoted THEN Text(p.value) ELSE Word(p.value)
  <2>1. p \in Range(a.params)
    BY DEF WellFormed, Range
  <2> QED
    BY <2>1 DEF WellFormed
<1>2. Tame(v)
  BY <1>1, WordIsTame, TextIsTame
<1>3. Tame(n) /\ n # <<>>
  BY <1>1, PairIsTame
<1> HIDE DEF v, n
<1>4. Tame(n \o v)
  BY <1>2, <1>3, TameConcat
<1>5. n \o v # <<>>
  <2>1. n \in Seq(Tokens) /\ v \in Seq(Tokens)
    BY <1>2, <1>3 DEF Tame
  <2> QED
    BY <1>3, <2>1, ConcatEqualIffEmpty
<1> QED
  BY <1>4, <1>5 DEF RenderParam, v, n

\* The parts of an alternative; `head` is the first of them.
Segments(head, a) ==
  <<head>> \o [i \in DOMAIN a.params |-> RenderParam(a.params[i])]

\* What the parts are, and that each is tame.
LEMMA SegmentsAreTame ==
  ASSUME NEW head, Tame(head), head # <<>>, NEW a, WellFormed(a)
  PROVE  LET ps == Segments(head, a)
         IN  /\ ps \in Seq(Seq(Tokens)) /\ ps # <<>>
             /\ Len(a.params) \in Nat /\ Len(ps) = Len(a.params) + 1
             /\ ps[1] = head
             /\ \A i \in 1..Len(a.params) : ps[i + 1] = RenderParam(a.params[i])
             /\ \A i \in 1..Len(ps) : Tame(ps[i]) /\ ps[i] # <<>>
<1> DEFINE rs == [i \in DOMAIN a.params |-> RenderParam(a.params[i])]
           T == Seq(Tokens)
           n == Len(a.params)
           ps == <<head>> \o rs
<1>1. n \in Nat /\ DOMAIN a.params = 1..n
  BY LenProperties DEF WellFormed
<1>2. \A i \in 1..n : rs[i] = RenderParam(a.params[i]) /\ rs[i] \in T
  BY <1>1, ParamIsTame DEF Tame
<1>3. rs \in Seq(T) /\ Len(rs) = n
  <2>1. rs \in [1..n -> T]
    BY <1>1, <1>2
  <2> HIDE DEF rs, T
  <2> QED
    BY <1>1, <2>1
<1>0. head \in T
  BY DEF Tame
<1> HIDE DEF rs, T
<1>4. /\ ps \in Seq(T) /\ ps # <<>> /\ Len(ps) = Len(rs) + 1 /\ ps[1] = head
      /\ \A i \in 1..Len(rs) : ps[i + 1] = rs[i]
  BY <1>0, <1>3, InFront
<1> HIDE DEF ps
<1>7. \A i \in 1..n : ps[i + 1] = RenderParam(a.params[i])
  BY <1>1, <1>2, <1>3, <1>4
<1>8. \A i \in 1..Len(ps) : Tame(ps[i]) /\ ps[i] # <<>>
  <2> TAKE i \in 1..Len(ps)
  <2>1. CASE i = 1
    BY <1>4, <2>1
  <2>2. CASE i # 1
    <3>1. i - 1 \in 1..n /\ (i - 1) + 1 = i
      BY <1>1, <1>3, <1>4, <2>2
    <3>2. ps[i] = RenderParam(a.params[i - 1])
      BY <1>7, <3>1
    <3> QED
      BY <3>1, <3>2, ParamIsTame
  <2> QED
    BY <2>1, <2>2
<1>9. Segments(head, a) = ps
  BY DEF Segments, ps, rs
<1> QED
  BY <1>1, <1>3, <1>4, <1>7, <1>8, <1>9 DEF T

\* "name=value"
Setting(s, a, b, x) == s = <<a, b>> \o x

\* A name is told by its place, and the rest is the value.
LEMMA PairInFront ==
  ASSUME NEW T, NEW a \in T, NEW b \in T, NEW x \in Seq(T), NEW s, Setting(s, a, b, x)
  PROVE  /\ s \in Seq(T) /\ Len(s) = Len(x) + 2 /\ s[2] = b
         /\ Behind(s, 2) = x
         /\ \A c : IsPrefix(<<c, b>>, s) <=> c = a
<1>1. /\ s \in Seq(T) /\ Len(s) = Len(x) + 2 /\ s[1] = a /\ s[2] = b
      /\ Len(x) \in Nat
  BY DEF Setting
<1>2. Behind(s, 2) = x
  BY DEF Behind, Setting
<1>3. ASSUME NEW c PROVE IsPrefix(<<c, b>>, s) <=> c = a
  <2> DEFINE w == <<c, b>>
             v == <<a, b>>
             u == SubSeq(s, 1, 2)
             U == {b, c}
  <2>1. w \in Seq(U) /\ Len(w) = 2
    <3>1. b \in U /\ c \in U
      OBVIOUS
    <3> HIDE DEF U
    <3> QED
      BY <3>1, PairProperties
  <2>2. SubSeq(w, 1, 2) = w
    <3> HIDE DEF w
    <3> QED
      BY <2>1, SubSeqFull
  <2>3. u = v
    <3>1. u \in Seq(T) /\ Len(u) = 2 /\ u[1] = a /\ u[2] = b
      BY <1>1
    <3>2. v \in Seq(T) /\ Len(v) = 2 /\ v[1] = a /\ v[2] = b
      BY PairProperties
    <3> HIDE DEF u, v
    <3>3. \A i \in 1..Len(u) : u[i] = v[i]
      BY <3>1, <3>2
    <3> QED
      BY <3>1, <3>2, <3>3, SeqEqual
  <2>4. w = v <=> c = a
    OBVIOUS
  <2> HIDE DEF w, v, u
  <2>5. IsPrefix(w, s) <=> w = u
    BY <1>1, <2>1, <2>2 DEF IsPrefix, u
  <2> QED
    BY <2>3, <2>4, <2>5 DEF w
<1> QED
  BY <1>1, <1>2, <1>3

\* The first part behind "h3=", and all of them.
Authority(a) == Protected(Address(a))
Parameters(a) == Join(Segments(Authority(a), a), ";")

\* An alternative is its protocol and tame parts.
LEMMA AlternativeParts ==
  ASSUME NEW a, WellFormed(a)
  PROVE  /\ Tame(Authority(a)) /\ Authority(a) # <<>>
         /\ Parameters(a) \in Seq(Tokens)
         /\ RenderAlternative(a) = <<a.protocol, "=">> \o Parameters(a)
         /\ a.protocol \in Tokens /\ "=" \in Tokens
         /\ RenderAlternative(a) \in Seq(Tokens) /\ RenderAlternative(a) # <<>>
         /\ Calm(RenderAlternative(a), ",")
         /\ SplitQuoted(Parameters(a), ";") = Segments(Authority(a), a)
<1> DEFINE h == <<a.protocol, "=">>
           inner == Authority(a)
           T == Seq(Tokens)
<1>1. Text(Address(a))
  BY AddressIsText
<1>2. Tame(inner) /\ inner # <<>> /\ inner \in T
  <2>1. Tame(Protected(Address(a))) /\ Address(a) \in Seq(Tokens)
    BY <1>1, TextIsTame
  <2>2. Protected(Address(a)) # <<>>
    <3> DEFINE s == Address(a)
    <3>1. s \in Seq(Tokens) /\ Quote \in Tokens
      BY <2>1, MarksAreTokens DEF Marks
    <3> HIDE DEF s
    <3>2. Protected(s) # <<>>
      BY <3>1 DEF Protected
    <3> QED
      BY <3>2 DEF s
  <2> QED
    BY <2>1, <2>2 DEF Authority, Tame
<1>3. Tame(h) /\ h # <<>> /\ h \in T
  BY PairIsTame DEF WellFormed, Tame
<1>4. a.protocol \in Tokens /\ "=" \in Tokens
  <2>1. a.protocol \in Tokens \ {Quote, ",", ";"}
    BY OnlyElement DEF WellFormed, Word
  <2> QED
    BY <2>1, MarksAreTokens DEF Marks
<1> HIDE DEF h, inner
<1>5. Tame(h \o inner) /\ h \o inner # <<>>
  BY <1>2, <1>3, TameConcat, ConcatEqualIffEmpty DEF T
<1> DEFINE ps == Segments(h \o inner, a)
           qs == Segments(inner, a)
<1>6. /\ ps \in Seq(Seq(Tokens)) /\ ps # <<>>
      /\ Len(a.params) \in Nat /\ Len(ps) = Len(a.params) + 1
      /\ ps[1] = h \o inner
      /\ \A i \in 1..Len(a.params) : ps[i + 1] = RenderParam(a.params[i])
      /\ \A i \in 1..Len(ps) : Tame(ps[i]) /\ ps[i] # <<>>
  BY <1>5, SegmentsAreTame
<1>7. /\ qs \in Seq(Seq(Tokens)) /\ qs # <<>>
      /\ Len(qs) = Len(a.params) + 1
      /\ qs[1] = inner
      /\ \A i \in 1..Len(a.params) : qs[i + 1] = RenderParam(a.params[i])
      /\ \A i \in 1..Len(qs) : Tame(qs[i]) /\ qs[i] # <<>>
  BY <1>2, SegmentsAreTame
<1>8. RenderAlternative(a) = Join(ps, ";")
  BY DEF RenderAlternative, Segments, h, inner, Authority, Address
<1>9. ";" \in Tokens \ {Quote} /\ "," # ";"
  BY MarksAreTokens DEF Marks, Quote
<1> HIDE DEF ps, qs
<1>10. /\ Join(qs, ";") \in T
       /\ Headed(Join(ps, ";"), h, Join(qs, ";"))
  <2>1. Headed(ps[1], h, qs[1])
    BY <1>2, <1>6, <1>7 DEF Headed
  <2>2. Len(qs) = Len(ps)
    BY <1>6, <1>7
  <2>3. \A i \in 2..Len(ps) : ps[i] = qs[i]
    <3> TAKE i \in 2..Len(ps)
    <3>1. i - 1 \in 1..Len(a.params) /\ (i - 1) + 1 = i
      BY <1>6
    <3> QED
      BY <1>6, <1>7, <3>1
  <2> QED
    BY <1>3, <1>6, <1>7, <1>9, <2>1, <2>2, <2>3, JoinBehind
<1>11. Join(ps, ";") \in T /\ Join(ps, ";") # <<>>
  <2>1. Join(ps, ";") = h \o Join(qs, ";") /\ Join(qs, ";") # <<>>
    BY <1>10 DEF Headed
  <2> HIDE DEF T
  <2> DEFINE x == Join(qs, ";")
  <2>2. x \in Seq(Tokens) /\ h \in Seq(Tokens)
    BY <1>3, <1>10 DEF T
  <2> HIDE DEF x
  <2>3. h \o x \in Seq(Tokens) /\ h \o x # <<>>
    BY <1>3, <2>2, ConcatProperties, ConcatEqualIffEmpty
  <2> QED
    BY <2>1, <2>3 DEF x, T
<1>12. Calm(Join(ps, ";"), ",")
  BY <1>6, <1>9, JoinIsCalm DEF Tame
<1>13. SplitQuoted(Join(qs, ";"), ";") = qs
  BY <1>7, <1>9, SplitOfJoin DEF Tame
<1>14. Parameters(a) = Join(qs, ";") /\ Segments(Authority(a), a) = qs
  BY DEF Parameters, qs, inner
<1> QED
  BY <1>2, <1>4, <1>8, <1>10, <1>11, <1>12, <1>13, <1>14 DEF Headed, h, inner

\* What parse_h3_alternative splits an alternative into.
LEMMA Rendered ==
  ASSUME NEW a, WellFormed(a)
  PROVE  /\ Len(RenderAlternative(a)) > 1
         /\ IsPrefix(<<"h3", "=">>, RenderAlternative(a)) <=> a.protocol = "h3"
         /\ SplitQuoted(Behind(RenderAlternative(a), 2), ";") = Segments(Authority(a), a)
<1> DEFINE x == Parameters(a)
           s == RenderAlternative(a)
           p == a.protocol
<1>1. x \in Seq(Tokens) /\ Setting(s, p, "=", x) /\ p \in Tokens /\ "=" \in Tokens
  BY AlternativeParts DEF Setting
<1>2. SplitQuoted(x, ";") = Segments(Authority(a), a)
  BY AlternativeParts
<1> HIDE DEF x, s, p
<1>3. Len(s) = Len(x) + 2 /\ Behind(s, 2) = x
  BY <1>1, PairInFront
<1>4. \A c : IsPrefix(<<c, "=">>, s) <=> c = p
  BY <1>1, PairInFront
<1>5. Len(x) \in Nat
  BY <1>1, LenProperties
<1>6. Len(s) > 1
  BY <1>3, <1>5
<1>7. IsPrefix(<<"h3", "=">>, s) <=> p = "h3"
  BY <1>4
<1>8. SplitQuoted(Behind(s, 2), ";") = Segments(Authority(a), a)
  BY <1>2, <1>3
<1> QED
  BY <1>6, <1>7, <1>8 DEF s, p

-----------------------------------------------------------------------------
(* Parsing an alternative *)

\* trim_matches takes what encloses, and nothing else.
LEMMA NothingToTrim ==
  ASSUME NEW T, NEW p \in Seq(T), NEW tokens, \A i \in 1..Len(p) : p[i] \notin tokens
  PROVE  Trimmed(p, tokens) = p
<1>1. Len(p) \in Nat /\ {i \in DOMAIN p : p[i] \notin tokens} = 1..Len(p)
  OBVIOUS
<1>2. CASE Len(p) = 0
  BY <1>1, <1>2 DEF Trimmed
<1>3. CASE Len(p) # 0
  <2>1. Min(1..Len(p)) = 1 /\ Max(1..Len(p)) = Len(p)
    BY <1>1, <1>3, IntervalEnds
  <2>2. 1..Len(p) # {}
    BY <1>1, <1>3
  <2> QED
    BY <1>1, <2>1, <2>2, SubSeqFull DEF Trimmed
<1> QED
  BY <1>2, <1>3

LEMMA TrimEnclosed ==
  ASSUME NEW T, NEW l \in T, NEW r \in T, NEW p \in Seq(T), NEW s, Enclosed(s, l, p, r),
         NEW tokens, l \in tokens, r \in tokens, \A i \in 1..Len(p) : p[i] \notin tokens
  PROVE  Trimmed(s, tokens) = p
<1> DEFINE kept == {i \in DOMAIN s : s[i] \notin tokens}
           n == Len(p)
<1>1. /\ s \in Seq(T) /\ n \in Nat /\ Len(s) = n + 2
      /\ s[1] = l /\ s[Len(s)] = r
      /\ \A i \in 1..n : s[i + 1] = p[i]
      /\ SubSeq(s, 2, Len(s) - 1) = p
  BY InsideOf
<1> HIDE DEF n
<1>2. kept = 2..(n + 1)
  <2>1. \A i \in 2..(n + 1) : s[i] = p[i - 1]
    <3> TAKE i \in 2..(n + 1)
    <3>1. i - 1 \in 1..n /\ (i - 1) + 1 = i
      BY <1>1
    <3> QED
      BY <1>1, <3>1
  <2>2. \A i \in 2..(n + 1) : i - 1 \in 1..Len(p)
    BY <1>1 DEF n
  <2>3. DOMAIN s = 1..(n + 2)
    BY <1>1
  <2> QED
    BY <1>1, <2>1, <2>2, <2>3
<1>3. CASE n = 0
  <2>1. kept = {}
    BY <1>2, <1>3
  <2>2. p = <<>>
    BY <1>3 DEF n
  <2> QED
    BY <2>1, <2>2 DEF Trimmed
<1>4. CASE n # 0
  <2>1. Min(2..(n + 1)) = 2 /\ Max(2..(n + 1)) = n + 1
    BY <1>1, <1>4, IntervalEnds
  <2>2. 2..(n + 1) # {}
    <3>1. 2 \in 2..(n + 1)
      BY <1>1, <1>4
    <3> QED
      BY <3>1
  <2>3. Len(s) - 1 = n + 1
    BY <1>1
  <2> QED
    BY <1>1, <1>2, <2>1, <2>2, <2>3 DEF Trimmed
<1> QED
  BY <1>3, <1>4

Brackets == {"[", "]"}

\* A host's brackets are recognised, and taken away.
LEMMA SpelledTrimmed ==
  ASSUME NEW host, Text(host), ~Contains(host, "["), ~Contains(host, "]")
  PROVE  /\ Trimmed(Spelled(host), Brackets) = host
         /\ Spelled(host) \in Seq(Tokens)
         /\ Spelled(host) = <<>> <=> host = <<>>
         /\ host # <<>> => Spelled(host)[1] # ":"
<1> DEFINE s == Spelled(host)
<1>1. host \in Seq(Tokens) /\ \A i \in 1..Len(host) : host[i] \notin Brackets
  <2>1. host \in Seq(Tokens)
    BY TextIsTame
  <2> QED
    BY <2>1 DEF Contains, Brackets
<1>2. CASE Contains(host, ":")
  <2>1. "[" \in Tokens /\ "]" \in Tokens /\ "[" \in Brackets /\ "]" \in Brackets
    BY MarksAreTokens DEF Marks, Brackets
  <2>2. Enclosed(s, "[", host, "]")
    BY <1>2 DEF Spelled, Enclosed
  <2> HIDE DEF s
  <2>3. Trimmed(s, Brackets) = host
    BY <1>1, <2>1, <2>2, TrimEnclosed
  <2>4. s \in Seq(Tokens) /\ Len(host) \in Nat /\ Len(s) = Len(host) + 2 /\ s[1] = "["
    BY <1>1, <2>1, <2>2, InsideOf
  <2>5. s # <<>> /\ s[1] # ":"
    BY <2>4
  <2>6. host # <<>>
    BY <1>2 DEF Contains
  <2> QED
    BY <2>3, <2>4, <2>5, <2>6 DEF s
<1>3. CASE ~Contains(host, ":")
  <2>1. s = host
    BY <1>3 DEF Spelled
  <2>2. Trimmed(host, Brackets) = host
    BY <1>1, NothingToTrim
  <2>3. host # <<>> => host[1] # ":"
    <3>1. host # <<>> => 1 \in 1..Len(host)
      BY <1>1
    <3> QED
      BY <1>3, <3>1 DEF Contains
  <2> QED
    BY <1>1, <2>1, <2>2, <2>3
<1> QED
  BY <1>2, <1>3

\* "host:port" at its last colon.
Colon(s) == SelectLastInSeq(s, LAMBDA t : t = ":")

HostPort(x, s, port) == x = s \o <<":", port>>

\* The last colon is the one before the port, however many are in the host.
LEMMA PortBehindColon ==
  ASSUME NEW T, NEW s \in Seq(T), NEW port \in T, ":" \in T, port # ":",
         NEW x, HostPort(x, s, port)
  PROVE  /\ x \in Seq(T) /\ Colon(x) = Len(s) + 1
         /\ Before(x, Len(s) + 1) = s /\ Behind(x, Len(s) + 1) = <<port>>
         /\ s # <<>> => x[1] = s[1]
         /\ s = <<>> => x[1] = ":" /\ Tail(x) = <<port>>
<1>1. /\ x \in Seq(T) /\ Len(s) \in Nat /\ Len(x) = Len(s) + 2
      /\ x[Len(s) + 1] = ":" /\ x[Len(s) + 2] = port
      /\ \A i \in 1..Len(s) : x[i] = s[i]
  BY DEF HostPort
<1>2. Colon(x) = Len(s) + 1
  <2> DEFINE I == {i \in 1..Len(x) : x[i] = ":"}
  <2>1. Len(s) + 1 \in I /\ I \subseteq Nat /\ \A i \in I : i <= Len(s) + 1
    BY <1>1
  <2>2. Colon(x) = IF I # {} THEN Max(I) ELSE 0
    BY DEF Colon, SelectLastInSeq
  <2> HIDE DEF I
  <2> QED
    BY <2>1, <2>2, LastOf
<1>3. Before(x, Len(s) + 1) = s
  <2> DEFINE u == SubSeq(x, 1, (Len(s) + 1) - 1)
  <2>1. u \in Seq(T) /\ Len(u) = Len(s) /\ \A i \in 1..Len(s) : u[i] = x[i]
    BY <1>1
  <2> HIDE DEF u
  <2>2. u = s
    BY <1>1, <2>1, SeqEqual
  <2> QED
    BY <2>2 DEF Before, u
<1>4. Behind(x, Len(s) + 1) = <<port>>
  <2> DEFINE u == SubSeq(x, (Len(s) + 1) + 1, Len(x))
             v == <<port>>
  <2>1. u \in Seq(T) /\ Len(u) = 1 /\ u[1] = port
    BY <1>1
  <2>2. v \in Seq(T) /\ Len(v) = 1 /\ v[1] = port
    OBVIOUS
  <2> HIDE DEF u, v
  <2>3. \A i \in 1..Len(u) : u[i] = v[i]
    BY <2>1, <2>2
  <2>4. u = v
    BY <2>1, <2>2, <2>3, SeqEqual
  <2> QED
    BY <2>4 DEF Behind, u, v
<1>5. s # <<>> => x[1] = s[1]
  BY <1>1
<1>6. s = <<>> => x[1] = ":" /\ Tail(x) = <<port>>
  <2> SUFFICES ASSUME s = <<>> PROVE x[1] = ":" /\ Tail(x) = <<port>>
    OBVIOUS
  <2>1. Len(s) = 0 /\ x # <<>>
    BY <1>1
  <2>2. Tail(x) = SubSeq(x, 2, Len(x))
    BY <1>1, <2>1, TailIsSubSeq
  <2>3. Behind(x, Len(s) + 1) = SubSeq(x, 2, Len(x))
    BY <2>1 DEF Behind
  <2>4. x[1] = ":"
    BY <1>1, <2>1
  <2>5. Tail(x) = <<port>>
    <3> DEFINE u == Tail(x)
               v == <<port>>
    <3>1. u = SubSeq(x, 2, Len(x)) /\ Behind(x, Len(s) + 1) = v
      BY <1>4, <2>2
    <3> HIDE DEF u, v
    <3>2. u = v
      BY <2>3, <3>1
    <3> QED
      BY <3>2 DEF u, v
  <2> QED
    BY <2>4, <2>5
<1> QED
  BY <1>1, <1>2, <1>3, <1>4, <1>5, <1>6

\* A number is one token.
LEMMA NumberOfOne ==
  ASSUME NEW t, NEW type
  PROVE  Number(<<t>>, type) = IF t \in type THEN {t} ELSE {}
<1>1. \A n : <<t>> = <<n>> <=> n = t
  OBVIOUS
<1> QED
  BY <1>1 DEF Number

\* parse_quoted_authority.
LEMMA AuthorityParsed ==
  ASSUME NEW a, WellFormed(a)
  PROVE  ParseAuthority(Authority(a)) =
           IF a.port \in U16 \/ a.host # <<>>
           THEN {[host |-> a.host, port |-> IF a.port \in U16 THEN a.port ELSE OriginPort]}
           ELSE {}
<1> DEFINE s == Spelled(a.host)
           x == Address(a)
           raw == Authority(a)
<1>1. /\ Trimmed(s, Brackets) = a.host /\ s \in Seq(Tokens)
      /\ s = <<>> <=> a.host = <<>>
      /\ a.host # <<>> => s[1] # ":"
  BY SpelledTrimmed DEF WellFormed
<1>2. a.port \in Tokens /\ a.port # ":" /\ ":" \in Tokens /\ Quote \in Tokens
  <2>1. a.port \in Tokens \ {Quote}
    BY OnlyElement DEF WellFormed, Text
  <2> QED
    BY <2>1, MarksAreTokens DEF WellFormed, Marks
<1>3. HostPort(x, s, a.port)
  BY DEF Address, HostPort
<1>4. Enclosed(raw, Quote, x, Quote)
  BY DEF Authority, Protected, Enclosed
<1> HIDE DEF s, x, raw
<1>5. /\ x \in Seq(Tokens) /\ Colon(x) = Len(s) + 1
      /\ Before(x, Len(s) + 1) = s /\ Behind(x, Len(s) + 1) = <<a.port>>
      /\ s # <<>> => x[1] = s[1]
      /\ s = <<>> => x[1] = ":" /\ Tail(x) = <<a.port>>
  <2> DEFINE port == a.port
  <2>1. port \in Tokens /\ port # ":" /\ HostPort(x, s, port)
    BY <1>2, <1>3
  <2> HIDE DEF port
  <2>2. /\ x \in Seq(Tokens) /\ Colon(x) = Len(s) + 1
        /\ Before(x, Len(s) + 1) = s /\ Behind(x, Len(s) + 1) = <<port>>
        /\ s # <<>> => x[1] = s[1]
        /\ s = <<>> => x[1] = ":" /\ Tail(x) = <<port>>
    BY <1>1, <1>2, <2>1, PortBehindColon
  <2> QED
    BY <2>2 DEF port
<1>6. /\ Len(x) \in Nat /\ Len(raw) = Len(x) + 2 /\ raw[1] = Quote /\ raw[Len(raw)] = Quote
      /\ SubSeq(raw, 2, Len(raw) - 1) = x
  BY <1>2, <1>4, <1>5, InsideOf
<1>7. Len(s) \in Nat
  BY <1>1
<1>8. ParseAuthority(raw) =
        IF x[1] = ":" THEN {[host |-> <<>>, port |-> p] : p \in Number(Tail(x), U16)}
        ELSE OtherHost(Trimmed(Before(x, Len(s) + 1), Brackets), Behind(x, Len(s) + 1))
  <2>1. ParseAuthority(raw) =
          LET inner == SubSeq(raw, 2, Len(raw) - 1)
              colon == Colon(inner)
          IN  IF Len(raw) < 2 \/ raw[1] # Quote \/ Last(raw) # Quote \/ colon = 0 THEN {}
              ELSE IF inner[1] = ":"
                THEN {[host |-> <<>>, port |-> p] : p \in Number(Tail(inner), U16)}
                ELSE OtherHost(Trimmed(Before(inner, colon), Brackets), Behind(inner, colon))
    BY DEF ParseAuthority, Colon, Brackets
  <2>2. ~(Len(raw) < 2) /\ Last(raw) = Quote /\ Len(s) + 1 # 0
    BY <1>6, <1>7 DEF Last
  <2> QED
    BY <1>5, <1>6, <2>1, <2>2
<1>9. CASE a.host = <<>>
  <2>1. ParseAuthority(raw) = {[host |-> <<>>, port |-> p] : p \in Number(<<a.port>>, U16)}
    BY <1>1, <1>5, <1>8, <1>9
  <2>2. Number(<<a.port>>, U16) = IF a.port \in U16 THEN {a.port} ELSE {}
    BY NumberOfOne
  <2> QED
    BY <1>9, <2>1, <2>2 DEF raw
<1>10. CASE a.host # <<>>
  <2>1. ParseAuthority(raw) = OtherHost(a.host, <<a.port>>)
    BY <1>1, <1>5, <1>8, <1>10
  <2>2. Number(<<a.port>>, U16) = IF a.port \in U16 THEN {a.port} ELSE {}
    BY NumberOfOne
  <2> QED
    BY <1>10, <2>1, <2>2 DEF raw, OtherHost, OrElse
<1> QED
  BY <1>9, <1>10

\* A parameter counts for the age if it is an `ma` with a number, quoted or not.
LEMMA ParamAge ==
  ASSUME NEW a, WellFormed(a), NEW i \in 1..Len(a.params)
  PROVE  Age(RenderParam(a.params[i])) =
           IF a.params[i].name = "ma" THEN Number(a.params[i].value, U64) ELSE {}
<1> DEFINE p == a.params[i]
           name == p.name
           value == p.value
           v == IF p.quoted THEN Protected(value) ELSE value
           s == RenderParam(p)
<1>1. /\ Word(<<name>>) /\ p.quoted \in BOOLEAN
      /\ IF p.quoted THEN Text(value) ELSE Word(value)
  <2>1. p \in Range(a.params)
    BY DEF WellFormed, Range
  <2> QED
    BY <2>1 DEF WellFormed
<1>2. Setting(s, name, "=", v)
  BY DEF Setting, RenderParam
<1>3. p.quoted => Enclosed(v, Quote, value, Quote)
  BY DEF Protected, Enclosed
<1>4. ~p.quoted => v = value
  OBVIOUS
<1>5. value \in Seq(Tokens) /\ \A j \in 1..Len(value) : value[j] # Quote
  <2>1. value \in Seq(Tokens \ {Quote})
    <3> HIDE DEF value
    <3>1. Word(value) => value \in Seq(Tokens \ {Quote})
      <4> DEFINE W == Tokens \ {Quote, ",", ";"}
                 T == Tokens \ {Quote}
      <4>1. W \subseteq T /\ (Word(value) => value \in Seq(W))
        BY DEF Word
      <4>2. Word(value) => value \in Seq(T)
        <5> HIDE DEF W, T
        <5> QED
          BY <4>1, SeqMonotonic
      <4> QED
        BY <4>2
    <3> QED
      BY <1>1, <3>1 DEF Text
  <2> HIDE DEF value
  <2>2. value \in Seq(Tokens)
    <3>1. Tokens \ {Quote} \subseteq Tokens
      OBVIOUS
    <3> QED
      BY <2>1, <3>1, SeqMonotonic
  <2>3. \A j \in 1..Len(value) : value[j] \in Tokens \ {Quote}
    BY <2>1, ElementOfSeq
  <2> QED
    BY <2>2, <2>3
<1>6. v \in Seq(Tokens)
  BY <1>1, WordIsTame, TextIsTame DEF Tame
<1>7. name \in Tokens /\ "=" \in Tokens /\ Quote \in Tokens
  <2>1. name \in Tokens \ {Quote, ",", ";"}
    <3> HIDE DEF name
    <3> QED
      BY <1>1, OnlyElement DEF Word
  <2> QED
    BY <2>1, MarksAreTokens DEF Marks
<1> DEFINE quoted == p.quoted
<1>8. quoted \in BOOLEAN /\ (quoted => Enclosed(v, Quote, value, Quote)) /\ (~quoted => v = value)
  BY <1>1, <1>3, <1>4
<1> HIDE DEF name, value, v, s, quoted
<1>9. Behind(s, 2) = v
  BY <1>2, <1>6, <1>7, PairInFront
<1>10. \A c : IsPrefix(<<c, "=">>, s) <=> c = name
  BY <1>2, <1>6, <1>7, PairInFront
<1>11. Trimmed(v, {Quote}) = value
  <2> DEFINE Q == {Quote}
  <2>1. Quote \in Q /\ \A j \in 1..Len(value) : value[j] \notin Q
    BY <1>5
  <2> HIDE DEF Q
  <2>2. Trimmed(value, Q) = value
    BY <1>5, <2>1, NothingToTrim
  <2>3. Enclosed(v, Quote, value, Quote) => Trimmed(v, Q) = value
    BY <1>5, <1>7, <2>1, TrimEnclosed
  <2>4. Trimmed(v, Q) = value
    BY <1>8, <2>2, <2>3
  <2> QED
    BY <2>4 DEF Q
<1>12. Age(s) = IF name = "ma" THEN Number(value, U64) ELSE {}
  BY <1>9, <1>10, <1>11 DEF Age
<1> QED
  BY <1>12 DEF s, name, value

\* The same, for a value of any length.
LEMMA OneNumber ==
  ASSUME NEW v, NEW type
  PROVE  /\ Number(v, type) # {} <=> \E n \in type : v = <<n>>
         /\ \A n \in type : v = <<n>> => Number(v, type) = {v[1]}
<1>1. \A n, m : <<n>> = <<m>> <=> n = m
  OBVIOUS
<1>2. \A n : <<n>>[1] = n
  OBVIOUS
<1> QED
  BY <1>1, <1>2 DEF Number

\* The last of them wins.
LEMMA MaxAgeParsed ==
  ASSUME NEW a, WellFormed(a)
  PROVE  MaxAge(Tail(Segments(Authority(a), a))) = {AgeMeant(a)}
<1> DEFINE ps == Segments(Authority(a), a)
           rs == Tail(ps)
           n == Len(a.params)
           Given(i) == a.params[i].name = "ma" /\ \E m \in U64 : a.params[i].value = <<m>>
           given == {i \in DOMAIN a.params : Given(i)}
           I == {i \in 1..Len(rs) : Age(rs[i]) # {}}
<1>1. /\ ps \in Seq(Seq(Tokens)) /\ ps # <<>> /\ n \in Nat /\ Len(ps) = n + 1
      /\ \A i \in 1..n : ps[i + 1] = RenderParam(a.params[i])
  <2> DEFINE head == Authority(a)
  <2>1. Tame(head) /\ head # <<>>
    BY AlternativeParts
  <2> HIDE DEF head
  <2>2. LET qs == Segments(head, a)
        IN  /\ qs \in Seq(Seq(Tokens)) /\ qs # <<>>
            /\ Len(a.params) \in Nat /\ Len(qs) = Len(a.params) + 1
            /\ \A i \in 1..Len(a.params) : qs[i + 1] = RenderParam(a.params[i])
    BY <2>1, SegmentsAreTame
  <2> QED
    BY <2>2 DEF head
<1>2. Len(rs) = n /\ \A i \in 1..n : rs[i] = RenderParam(a.params[i])
  <2> HIDE DEF ps, n
  <2>1. Len(rs) = Len(ps) - 1 /\ \A i \in 1..Len(rs) : rs[i] = ps[i + 1]
    <3> DEFINE T == Seq(Tokens)
    <3>1. ps \in Seq(T)
      BY <1>1
    <3> HIDE DEF T
    <3> QED
      BY <1>1, <3>1, HeadTailProperties
  <2>2. Len(rs) = n
    BY <1>1, <2>1
  <2>3. \A i \in 1..n : rs[i] = RenderParam(a.params[i])
    BY <1>1, <2>1, <2>2
  <2> QED
    BY <2>2, <2>3
<1>3. DOMAIN a.params = 1..n
  BY LenProperties DEF WellFormed
<1> HIDE DEF ps, rs
<1>4. \A i \in 1..n : Age(rs[i]) = IF a.params[i].name = "ma" THEN Number(a.params[i].value, U64) ELSE {}
  BY <1>2, ParamAge
<1>5. I = given
  <2>1. \A i \in 1..n : Age(rs[i]) # {} <=> Given(i)
    BY <1>4, OneNumber
  <2> HIDE DEF Given, n
  <2> QED
    BY <1>2, <1>3, <2>1
<1>6. MaxAge(rs) = IF I = {} THEN {DefaultAge} ELSE Age(rs[Max(I)])
  <2>1. MaxAge(rs) = LET last == IF I # {} THEN Max(I) ELSE 0
                     IN  IF last = 0 THEN {DefaultAge} ELSE Age(rs[last])
    BY DEF MaxAge, SelectLastInSeq
  <2>2. I # {} => Max(I) \in I
    <3>1. I \in UpTo(n)
      BY <1>2 DEF UpTo
    <3> HIDE DEF I, n
    <3> QED
      BY <1>1, <3>1, MaxIn
  <2>3. I # {} => Max(I) # 0
    <3>1. I \subseteq 1..n /\ 0 \notin 1..n
      BY <1>1, <1>2
    <3> HIDE DEF I, n
    <3> QED
      BY <2>2, <3>1
  <2> QED
    BY <2>1, <2>3
<1>7. AgeMeant(a) = IF given = {} THEN DefaultAge ELSE a.params[Max(given)].value[1]
  BY DEF AgeMeant
<1>8. CASE given = {}
  BY <1>5, <1>6, <1>7, <1>8 DEF rs, ps
<1>9. CASE given # {}
  <2> DEFINE k == Max(given)
  <2>1. k \in given
    <3>1. given \in UpTo(n)
      BY <1>3 DEF UpTo
    <3> HIDE DEF given, n
    <3> QED
      BY <1>1, <1>9, <3>1, MaxIn
  <2>2. k \in 1..n /\ Given(k)
    BY <1>3, <2>1
  <2> HIDE DEF k
  <2>3. Age(rs[k]) = {a.params[k].value[1]}
    <3>1. Age(rs[k]) = Number(a.params[k].value, U64)
      BY <1>4, <2>2
    <3> DEFINE v == a.params[k].value
    <3>2. \E m \in U64 : v = <<m>>
      BY <2>2
    <3> HIDE DEF v
    <3>3. Number(v, U64) = {v[1]}
      BY <3>2, OneNumber
    <3> QED
      BY <3>1, <3>3 DEF v
  <2>4. MaxAge(rs) = Age(rs[k]) /\ AgeMeant(a) = a.params[k].value[1]
    BY <1>5, <1>6, <1>7, <1>9 DEF k
  <2> QED
    BY <2>3, <2>4 DEF rs, ps
<1> QED
  BY <1>8, <1>9

\* An alternative is parsed into what it means, or not at all.
LEMMA AlternativeParsed ==
  ASSUME NEW a, WellFormed(a)
  PROVE  ParseAlternative(RenderAlternative(a)) = IF Usable(a) THEN {Meaning(a)} ELSE {}
<1> DEFINE raw == RenderAlternative(a)
           ps == SplitQuoted(Behind(raw, 2), ";")
<1>1. ParseAlternative(raw) =
        IF ~IsPrefix(<<"h3", "=">>, raw) THEN {}
        ELSE {[host |-> b.host, port |-> b.port, age |-> age] :
                b \in ParseAuthority(ps[1]), age \in MaxAge(Tail(ps))}
  BY DEF ParseAlternative
<1>2. IsPrefix(<<"h3", "=">>, raw) <=> a.protocol = "h3"
  BY Rendered
<1>3. ps = Segments(Authority(a), a)
  BY Rendered
<1>4. ps[1] = Authority(a)
  BY <1>3, AlternativeParts, SegmentsAreTame
<1>5. MaxAge(Tail(ps)) = {AgeMeant(a)}
  BY <1>3, MaxAgeParsed
<1>6. ParseAuthority(ps[1]) =
        IF a.port \in U16 \/ a.host # <<>>
        THEN {[host |-> a.host, port |-> IF a.port \in U16 THEN a.port ELSE OriginPort]}
        ELSE {}
  BY <1>4, AuthorityParsed
<1> HIDE DEF ps, raw
<1>7. CASE Usable(a)
  <2> DEFINE r == [host |-> a.host, port |-> IF a.port \in U16 THEN a.port ELSE OriginPort]
             age0 == AgeMeant(a)
  <2>1. ParseAuthority(ps[1]) = {r} /\ IsPrefix(<<"h3", "=">>, raw)
    BY <1>2, <1>6, <1>7 DEF Usable
  <2>2. /\ r.host = a.host
        /\ r.port = IF a.port \in U16 THEN a.port ELSE OriginPort
    OBVIOUS
  <2> HIDE DEF r
  <2>3. ParseAlternative(raw) =
          {[host |-> b.host, port |-> b.port, age |-> age] : b \in {r}, age \in {age0}}
    BY <1>1, <1>5, <2>1
  <2> HIDE DEF age0
  <2>4. ParseAlternative(raw) = {[host |-> r.host, port |-> r.port, age |-> age0]}
    BY <2>3
  <2>5. ParseAlternative(raw) = {Meaning(a)}
    BY <2>2, <2>4 DEF Meaning, age0
  <2> QED
    BY <1>7, <2>5 DEF raw
<1>8. CASE ~Usable(a)
  <2>1. ParseAlternative(raw) = {}
    BY <1>1, <1>2, <1>5, <1>6, <1>8 DEF Usable
  <2> QED
    BY <1>8, <2>1 DEF raw
<1> QED
  BY <1>7, <1>8

-----------------------------------------------------------------------------
(* Parsing a header *)

\* Headers without alternatives.
LEMMA SplitOfNothing == SplitQuoted(<<>>, ",") = <<<<>>>>
<1>1. Scanned(<<>>, ",") = Nothing
  BY ScanEmpty
<1>2. Nothing.parts = <<>> /\ Nothing.part = <<>>
  BY DEF Nothing
<1>3. SplitQuoted(<<>>, ",") = Append(Nothing.parts, Nothing.part)
  BY <1>1 DEF SplitQuoted
<1>4. Append(<<>>, <<>>) = <<<<>>>>
  OBVIOUS
<1> QED
  BY <1>2, <1>3, <1>4

\* `clear` is no list of alternatives.
LEMMA SplitOfClear == SplitQuoted(<<"clear">>, ",")[1] = <<"clear">>
<1> DEFINE w == <<"clear">>
<1>1. Scanned(<<>>, ",") = Nothing /\ <<>> \in Seq(Tokens)
  <2>1. <<>> \in Seq(Tokens)
    OBVIOUS
  <2>2. Scanned(<<>>, ",") = Nothing
    BY ScanEmpty
  <2> QED
    BY <2>1, <2>2
<1>2. w = Append(<<>>, "clear") /\ "clear" \in Tokens /\ "clear" # "," /\ "clear" # Quote
  BY DEF Quote
<1> HIDE DEF w
<1>3. Scanned(w, ",") = Scan(Nothing, "clear", ",")
  BY <1>1, <1>2, ScanAppend
<1>4. /\ Scan(Nothing, "clear", ",").parts = <<>>
      /\ Scan(Nothing, "clear", ",").part = w
  BY <1>2 DEF Scan, Nothing
<1>5. SplitQuoted(w, ",") = Append(<<>>, w)
  BY <1>3, <1>4 DEF SplitQuoted
<1>6. Append(<<>>, w)[1] = w
  OBVIOUS
<1> QED
  BY <1>5, <1>6 DEF w

Written(offers) == [i \in DOMAIN offers |-> RenderAlternative(offers[i])]

\* parse_str takes the first alternative that can be used.
LEMMA OffersParsed ==
  ASSUME NEW offers, offers \in Seq(Range(offers)), \A a \in Range(offers) : WellFormed(a),
         NEW usable, usable = {i \in DOMAIN offers : Usable(offers[i])}
  PROVE  LET raw == Join(Written(offers), ",")
         IN  /\ raw \in Seq(Tokens) /\ ~Clears(raw)
             /\ usable = {} => ParseStr(raw) = {}
             /\ usable # {} => /\ Min(usable) \in DOMAIN offers
                               /\ ParseStr(raw) = {Meaning(offers[Min(usable)])}
<1> DEFINE rs == Written(offers)
           raw == Join(rs, ",")
           n == Len(offers)
           I == {i \in 1..n : ParseAlternative(rs[i]) # {}}
<1>1. n \in Nat /\ DOMAIN offers = 1..n /\ \A i \in 1..n : WellFormed(offers[i])
  <2>1. n \in Nat /\ DOMAIN offers = 1..n
    BY LenProperties
  <2> QED
    BY <2>1 DEF Range
<1>2. \A i \in 1..n : /\ rs[i] = RenderAlternative(offers[i])
                      /\ rs[i] \in Seq(Tokens) /\ rs[i] # <<>> /\ Calm(rs[i], ",") /\ Len(rs[i]) > 1
                      /\ ParseAlternative(rs[i]) = IF Usable(offers[i]) THEN {Meaning(offers[i])} ELSE {}
  <2> TAKE i \in 1..n
  <2>1. rs[i] = RenderAlternative(offers[i]) /\ WellFormed(offers[i])
    BY <1>1 DEF Written
  <2> QED
    BY <2>1, AlternativeParts, Rendered, AlternativeParsed
<1>3. rs \in Seq(Seq(Tokens)) /\ Len(rs) = n
  <2> DEFINE T == Seq(Tokens)
  <2>1. \A i \in 1..n : RenderAlternative(offers[i]) \in T
    BY <1>2
  <2>2. rs \in [1..n -> T]
    BY <1>1, <2>1 DEF Written
  <2> HIDE DEF rs, T
  <2>3. rs \in Seq(T) /\ Len(rs) = n
    BY <1>1, <2>2
  <2> QED
    BY <2>3 DEF T
<1>4. "," \in Tokens \ {Quote}
  BY MarksAreTokens DEF Marks, Quote
<1> HIDE DEF rs, n
<1>5. raw \in Seq(Tokens)
  <2>1. "," \in Tokens
    BY <1>4
  <2>2. Join(rs, ",") \in Seq(Tokens)
    BY <1>3, <2>1, JoinFold
  <2> QED
    BY <2>2
<1>6. I = usable
  <2>1. \A i \in 1..n : ParseAlternative(rs[i]) # {} <=> Usable(offers[i])
    BY <1>2
  <2> QED
    BY <1>1, <2>1
<1>7. CASE n = 0
  <2>1. rs = <<>>
    BY <1>3, <1>7
  <2>2. raw = <<>>
    BY <2>1, JoinEmpty
  <2>3. SplitQuoted(raw, ",") = <<<<>>>> /\ Len(<<<<>>>>) = 1 /\ <<<<>>>>[1] = <<>>
    BY <2>2, SplitOfNothing
  <2>4. ParseAlternative(<<>>) = {}
    <3>1. ~IsPrefix(<<"h3", "=">>, <<>>)
      BY DEF IsPrefix
    <3> QED
      BY <3>1 DEF ParseAlternative
  <2>5. ParseStr(raw) = {}
    <3> DEFINE qs == SplitQuoted(raw, ",")
               J == {i \in 1..Len(qs) : ParseAlternative(qs[i]) # {}}
    <3>1. ParseStr(raw) = LET first == IF J # {} THEN Min(J) ELSE 0
                          IN  IF first = 0 THEN {} ELSE ParseAlternative(qs[first])
      BY DEF ParseStr, SelectInSeq
    <3>2. J = {}
      <4>1. Len(qs) = 1 /\ qs[1] = <<>>
        BY <2>3
      <4> HIDE DEF qs
      <4> QED
        BY <2>4, <4>1
    <3> HIDE DEF J
    <3> QED
      BY <3>1, <3>2
  <2>6. usable = {}
    BY <1>1, <1>7
  <2>7. ~Clears(raw)
    <3>1. <<>> # <<"clear">>
      OBVIOUS
    <3> QED
      BY <2>2, <3>1 DEF Clears
  <2> QED
    BY <1>5, <2>5, <2>6, <2>7 DEF rs
<1>8. CASE n # 0
  <2>1. SplitQuoted(raw, ",") = rs
    <3>1. rs # <<>>
      BY <1>3, <1>8
    <3>2. \A i \in 1..Len(rs) : rs[i] # <<>> /\ Calm(rs[i], ",")
      BY <1>2, <1>3
    <3> QED
      BY <1>3, <1>4, <3>1, <3>2, SplitOfJoin
  <2>2. ParseStr(raw) = LET first == IF I # {} THEN Min(I) ELSE 0
                        IN  IF first = 0 THEN {} ELSE ParseAlternative(rs[first])
    BY <1>3, <2>1 DEF ParseStr, SelectInSeq
  <2>3. ~Clears(raw)
    <3>1. Len(rs[1]) > 1
      <4>1. 1 \in 1..n
        BY <1>1, <1>8
      <4> QED
        BY <1>2, <4>1
    <3>2. ASSUME raw = <<"clear">> PROVE FALSE
      <4>1. rs[1] = <<"clear">>
        BY <2>1, <3>2, SplitOfClear
      <4>2. Len(<<"clear">>) = 1
        OBVIOUS
      <4> QED
        BY <3>1, <4>1, <4>2
    <3> QED
      BY <3>2 DEF Clears
  <2> HIDE DEF I
  <2>4. CASE usable = {}
    BY <1>5, <1>6, <2>2, <2>3, <2>4 DEF rs
  <2>5. CASE usable # {}
    <3> DEFINE k == Min(usable)
    <3>1. k \in usable
      <4>1. usable \subseteq Nat
        BY <1>1
      <4> QED
        BY <2>5, <4>1, FirstOf
    <3>2. k \in 1..n /\ Usable(offers[k]) /\ k # 0
      BY <1>1, <3>1
    <3>3. ParseStr(raw) = ParseAlternative(rs[k])
      BY <1>6, <2>2, <2>5, <3>2
    <3> HIDE DEF k
    <3>4. ParseAlternative(rs[k]) = {Meaning(offers[k])}
      BY <1>2, <3>2
    <3> QED
      BY <1>1, <1>5, <2>3, <2>5, <3>2, <3>3, <3>4 DEF rs, k
  <2> QED
    BY <2>4, <2>5
<1> QED
  BY <1>7, <1>8

\* Whatever a header says, the slot is updated as it means.
LEMMA HeaderParsed ==
  ASSUME NEW h \in Headers, NEW slot
  PROVE  Updated(slot, Render(h)) = HeaderMeans(h, slot)
<1> DEFINE usable == {i \in DOMAIN h.offers : Usable(h.offers[i])}
           raw == Join(Written(h.offers), ",")
           best == Min(usable)
<1>1. /\ h.kind \in {"clear", "offers", "opaque"}
      /\ h.offers \in Seq(Range(h.offers))
      /\ \A a \in Range(h.offers) : WellFormed(a)
  BY HeadersAssumption
<1>2. /\ raw \in Seq(Tokens) /\ ~Clears(raw)
      /\ usable = {} => ParseStr(raw) = {}
      /\ usable # {} => best \in DOMAIN h.offers /\ ParseStr(raw) = {Meaning(h.offers[best])}
  BY <1>1, OffersParsed
<1>3. Render(h) = IF h.kind = "clear" THEN <<"clear">>
                  ELSE raw \o (IF h.kind = "opaque" THEN <<Opaque>> ELSE <<>>)
  BY DEF Render, Written
<1>4. usable # {} => {j \in usable : \A k \in usable : j <= k} = {best}
  <2>1. usable \subseteq Nat
    BY <1>1, LenProperties
  <2> HIDE DEF usable
  <2> QED
    BY <2>1, FirstOf
<1>5. HeaderMeans(h, slot) =
        IF h.kind = "clear" THEN {}
        ELSE IF h.kind = "opaque" \/ usable = {} THEN slot
        ELSE {Meaning(h.offers[i]) : i \in {j \in usable : \A k \in usable : j <= k}}
  BY DEF HeaderMeans
<1> HIDE DEF usable, raw, best
<1>6. CASE h.kind = "clear"
  BY <1>3, <1>5, <1>6 DEF Updated, Clears
<1>7. CASE h.kind = "opaque"
  <2> DEFINE x == raw \o <<Opaque>>
  <2>1. Contains(x, Opaque)
    <3>1. Len(raw) + 1 \in 1..Len(x) /\ x[Len(raw) + 1] = Opaque
      BY <1>2
    <3> QED
      BY <3>1 DEF Contains
  <2>2. Render(h) = x
    BY <1>3, <1>7
  <2> HIDE DEF x
  <2>3. ~Contains(<<"clear">>, Opaque)
    BY DEF Contains
  <2>4. ~Clears(x)
    BY <2>1, <2>3 DEF Clears
  <2>5. ParseHeader(x) = {}
    BY <2>1 DEF ParseHeader
  <2> QED
    BY <1>5, <1>7, <2>2, <2>4, <2>5 DEF Updated
<1>8. CASE h.kind = "offers"
  <2>1. Render(h) = raw
    <3>1. raw \o <<>> = raw
      BY <1>2, ConcatEmptySeq
    <3> QED
      BY <1>3, <1>8, <3>1
  <2>2. ~Contains(raw, Opaque)
    <3>1. \A i \in 1..Len(raw) : raw[i] \in Tokens
      BY <1>2, ElementOfSeq
    <3> QED
      BY <3>1 DEF Contains
  <2>3. Updated(slot, Render(h)) = IF ParseStr(raw) # {} THEN ParseStr(raw) ELSE slot
    BY <1>2, <2>1, <2>2 DEF Updated, ParseHeader
  <2>4. CASE usable = {}
    BY <1>2, <1>5, <1>8, <2>3, <2>4
  <2>5. CASE usable # {}
    <3>1. HeaderMeans(h, slot) = {Meaning(h.offers[best])}
      BY <1>4, <1>5, <1>8, <2>5
    <3> QED
      BY <1>2, <2>3, <2>5, <3>1
  <2> QED
    BY <2>4, <2>5
<1> QED
  BY <1>1, <1>6, <1>7, <1>8

AltSvcInv == AltSvcAsMeant /\ DOMAIN meant = {"altSvc", "httpsRr"}

\* For every header servers may send, over any number of responses, the slot
\* holds what they meant (parse_header, maybe_update_alt_svc).
THEOREM HeadersAreUsedAsMeant == Spec => []AltSvcAsMeant
<1> USE DEF AltSvcInv, AltSvcAsMeant
<1>1. Init => AltSvcInv
  BY DEF Init
<1>2. ASSUME AltSvcInv, [Next]_vars PROVE AltSvcInv'
  <2>1. ASSUME NEW h \in Headers, Receive(h) PROVE AltSvcInv'
    <3>1. Updated(altSvc, Render(h)) = HeaderMeans(h, altSvc)
      BY <2>1, HeaderParsed
    <3> QED
      BY <1>2, <2>1, <3>1 DEF Receive
  <2>2. ASSUME NEW rs \in Records, Query(rs) PROVE AltSvcInv'
    BY <1>2, <2>2 DEF Query
  <2> QED
    BY <1>2, <2>1, <2>2 DEF Next, vars
<1>3. AltSvcInv => AltSvcAsMeant
  OBVIOUS
<1> QED
  BY <1>1, <1>2, <1>3, PTL DEF Spec
=============================================================================
