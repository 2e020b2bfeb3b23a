----------------------------- MODULE FoldProofs -----------------------------
(***************************************************************************)
(* Lemmas about the folds of the community modules.  A fold over a         *)
(* sequence is a function on the subsets of its domain that takes out the  *)
(* greatest index: `iter` of MapThenFoldSet, of which only the defining    *)
(* equation is given.  That it has a solution, and only one, is shown here *)
(* for sets of the numbers up to n.  Induction is by least counterexample, *)
(* since the induction theorems of the library take an operator.  Lemmas   *)
(* about sequences and intervals that several proofs need follow.          *)
(***************************************************************************)
EXTENDS SequencesExt, SequenceTheorems, WellFoundedInduction, TLAPS

\* A non-empty set of numbers has a least element.
LEMMA NatMin ==
  ASSUME NEW T, T \subseteq Nat, T # {}
  PROVE  \E m \in T : \A k \in T : m <= k
<1> DEFINE R == OpToRel(<, Nat)
<1>1. IsWellFoundedOn(R, Nat)
  BY NatLessThanWellFounded
<1>2. \A x, y \in Nat : x < y => <<x, y>> \in R
  BY DEF OpToRel
<1> HIDE DEF R
<1>3. PICK m \in T : \A k \in T : ~ (<<k, m>> \in R)
  BY <1>1, WFMin
<1>4. \A k \in T : ~ (k < m)
  BY <1>2, <1>3
<1> QED
  BY <1>4


UpTo(n) == SUBSET (1..n)

\* g folds the sets of numbers up to n by `step`, from the left.
FoldsBy(g, n, base, step) ==
  /\ g[{}] = base
  /\ \A S \in UpTo(n) \ {{}} : g[S] = step[<<g[S \ {Max(S)}], Max(S)>>]

\* Max of the community modules, on these sets.
LEMMA MaxUpTo ==
  ASSUME NEW n \in Nat, NEW S \in UpTo(n), n \in S
  PROVE  Max(S) = n
<1>1. \A x \in S : (\A y \in S : x >= y) <=> x = n
  BY DEF UpTo
<1>2. Max(S) \in S /\ \A y \in S : Max(S) >= y
  BY <1>1 DEF Max
<1> QED
  BY <1>1, <1>2

LEMMA MaxIn ==
  ASSUME NEW n \in Nat, NEW S \in UpTo(n), S # {}
  PROVE  Max(S) \in S
<1> DEFINE Above == {k \in 0..n : \A x \in S : x <= k}
<1>1. n \in Above /\ Above \subseteq Nat
  BY DEF UpTo
<1>2. PICK m \in Above : \A k \in Above : m <= k
  <2> HIDE DEF Above
  <2> QED
    BY <1>1, NatMin
<1>3. m \in S
  <2>1. m \in 0..n /\ \A x \in S : x \in 1..n /\ x <= m
    BY DEF UpTo
  <2>2. m # 0 /\ m - 1 \in 0..n
    BY <2>1
  <2>3. m \notin S => m - 1 \in Above
    <3>1. m \notin S => \A x \in S : x <= m - 1
      BY <2>1
    <3> QED
      BY <2>2, <3>1
  <2> QED
    BY <1>2, <2>1, <2>2, <2>3
<1>4. \A x \in S : m >= x
  BY DEF UpTo
<1> QED
  BY <1>3, <1>4 DEF Max

\* There is such a g for every base and step.
LEMMA SubsetsExist ==
  ASSUME NEW n \in Nat, NEW V, NEW base \in V, NEW step \in [V \X (1..n) -> V]
  PROVE  \E g \in [UpTo(n) -> V] : FoldsBy(g, n, base, step)
<1> DEFINE Good(k) == \E g \in [UpTo(k) -> V] : FoldsBy(g, k, base, step)
           Bad == {k \in 0..n : ~Good(k)}
<1>1. Good(0)
  <2>1. UpTo(0) = {{}}
    BY DEF UpTo
  <2> DEFINE g == [S \in UpTo(0) |-> base]
  <2>2. g \in [UpTo(0) -> V] /\ FoldsBy(g, 0, base, step)
    BY <2>1 DEF FoldsBy
  <2> QED
    BY <2>2
<1>2. ASSUME NEW k \in 1..n, Good(k - 1) PROVE Good(k)
  <2>1. PICK g \in [UpTo(k - 1) -> V] : FoldsBy(g, k - 1, base, step)
    BY <1>2
  <2> DEFINE h == [S \in UpTo(k) |-> IF k \in S THEN step[<<g[S \ {k}], k>>] ELSE g[S]]
  <2>2. \A S \in UpTo(k) : /\ S \ {k} \in UpTo(k - 1) /\ S \ {k} \in UpTo(k)
                           /\ k \notin S => S \in UpTo(k - 1)
    BY DEF UpTo
  <2>3. h \in [UpTo(k) -> V]
    BY <2>2
  <2>4. h[{}] = base
    BY <2>1 DEF FoldsBy, UpTo
  <2>5. ASSUME NEW S \in UpTo(k) \ {{}} PROVE h[S] = step[<<h[S \ {Max(S)}], Max(S)>>]
    <3>1. CASE k \in S
      <4>1. Max(S) = k
        BY <3>1, MaxUpTo
      <4>2. h[S \ {k}] = g[S \ {k}]
        BY <2>2
      <4> QED
        BY <3>1, <4>1, <4>2
    <3>2. CASE k \notin S
      <4>1. S \in UpTo(k - 1)
        BY <2>2, <3>2
      <4>2. S \ {Max(S)} \in UpTo(k) /\ k \notin S \ {Max(S)}
        BY <3>2 DEF UpTo
      <4>3. g[S] = step[<<g[S \ {Max(S)}], Max(S)>>]
        BY <2>1, <4>1 DEF FoldsBy
      <4>4. h[S] = g[S] /\ h[S \ {Max(S)}] = g[S \ {Max(S)}]
        BY <3>2, <4>2
      <4> QED
        BY <4>3, <4>4
    <3> QED
      BY <3>1, <3>2
  <2> HIDE DEF h
  <2>6. FoldsBy(h, k, base, step)
    BY <2>4, <2>5 DEF FoldsBy
  <2> QED
    BY <2>3, <2>6
<1> HIDE DEF Good
<1>3. ASSUME Bad # {} PROVE FALSE
  <2>1. PICK m \in Bad : \A k \in Bad : m <= k
    <3>1. Bad \subseteq Nat
      OBVIOUS
    <3> HIDE DEF Bad
    <3> QED
      BY <3>1, <1>3, NatMin
  <2>2. m # 0 /\ m \in 1..n
    BY <1>1
  <2>3. m - 1 \in 0..n /\ m - 1 \notin Bad
    BY <2>1, <2>2
  <2>4. Good(m)
    BY <1>2, <2>2, <2>3
  <2> QED
    BY <2>4
<1>4. Good(n)
  BY <1>3
<1> QED
  BY <1>4 DEF Good

\* Two functions on these sets start alike and go on alike.
Alike(g, h, n) ==
  /\ g[{}] = h[{}]
  /\ \A S \in UpTo(n) \ {{}} :
       g[S \ {Max(S)}] = h[S \ {Max(S)}] => g[S] = h[S]

\* Then they are the same: a fold has one result.
LEMMA SubsetsAgree ==
  ASSUME NEW n \in Nat, NEW g, NEW h, Alike(g, h, n)
  PROVE  \A S \in UpTo(n) : g[S] = h[S]
<1> DEFINE Bad == {k \in 0..n : \E S \in UpTo(k) : g[S] # h[S]}
<1>1. ASSUME Bad # {} PROVE FALSE
  <2>1. PICK m \in Bad : \A k \in Bad : m <= k
    <3>1. Bad \subseteq Nat
      OBVIOUS
    <3> HIDE DEF Bad
    <3> QED
      BY <3>1, <1>1, NatMin
  <2>2. PICK S \in UpTo(m) : g[S] # h[S]
    OBVIOUS
  <2>3. m # 0 /\ m - 1 \in 0..n
    <3>1. UpTo(0) = {{}}
      BY DEF UpTo
    <3>2. m \in 0..n /\ m # 0
      BY <2>2, <3>1 DEF Alike
    <3> QED
      BY <3>2
  <2>4. m - 1 \notin Bad
    BY <2>1, <2>3
  <2>5. S \ {m} \in UpTo(m - 1)
    <3>1. m \in Nat /\ \A x \in S : x \in 1..m
      BY DEF UpTo
    <3> QED
      BY <3>1 DEF UpTo
  <2>6. m \in S
    <3>1. m \notin S => S \in UpTo(m - 1)
      BY <2>3 DEF UpTo
    <3> QED
      BY <2>2, <2>3, <2>4, <3>1
  <2>7. Max(S) = m
    BY <2>6, MaxUpTo
  <2>8. S \in UpTo(n) \ {{}}
    BY <2>6 DEF UpTo
  <2> QED
    BY <2>2, <2>3, <2>4, <2>5, <2>7, <2>8 DEF Alike
<1> QED
  BY <1>1

\* g folds the sequence s by `step`, from the left.
Follows(g, s, base, step) ==
  /\ g[{}] = base
  /\ \A S \in UpTo(Len(s)) \ {{}} : g[S] = step[<<g[S \ {Max(S)}], s[Max(S)]>>]

\* There is such a function.
LEMMA FoldExists ==
  ASSUME NEW V, NEW T, NEW base \in V, NEW step \in [V \X T -> V], NEW s \in Seq(T)
  PROVE  \E g \in [UpTo(Len(s)) -> V] : Follows(g, s, base, step)
<1> DEFINE n == Len(s)
           at == [w \in V \X (1..n) |-> step[<<w[1], s[w[2]]>>]]
<1>1. n \in Nat /\ \A i \in 1..n : s[i] \in T
  OBVIOUS
<1>2. at \in [V \X (1..n) -> V]
  BY <1>1
<1> HIDE DEF at, n
<1>3. PICK g \in [UpTo(n) -> V] : FoldsBy(g, n, base, at)
  BY <1>1, <1>2, SubsetsExist
<1>4. ASSUME NEW S \in UpTo(n) \ {{}} PROVE g[S] = step[<<g[S \ {Max(S)}], s[Max(S)]>>]
  <2>1. Max(S) \in 1..n /\ S \ {Max(S)} \in UpTo(n)
    BY <1>1, MaxIn DEF UpTo
  <2>2. g[S] = at[<<g[S \ {Max(S)}], Max(S)>>]
    BY <1>3 DEF FoldsBy
  <2> QED
    BY <2>1, <2>2 DEF at
<1> QED
  BY <1>3, <1>4 DEF Follows, FoldsBy, n

\* One more element is one more step.
LEMMA FoldAppends ==
  ASSUME NEW T, NEW s \in Seq(T), NEW x \in T, NEW base, NEW step, NEW f, NEW g,
         Follows(f, s, base, step), Follows(g, Append(s, x), base, step)
  PROVE  g[1..Len(Append(s, x))] = step[<<f[1..Len(s)], x>>]
<1> DEFINE t == Append(s, x)
           n == Len(s)
<1>1. /\ n \in Nat /\ Len(t) = n + 1
      /\ t[n + 1] = x /\ \A i \in 1..n : t[i] = s[i]
  OBVIOUS
<1>2. Follows(f, s, base, step) /\ Follows(g, t, base, step)
  OBVIOUS
<1> HIDE DEF t
<1>3. \A S \in UpTo(n) : f[S] = g[S]
  <2>1. UpTo(n) \subseteq UpTo(n + 1)
    BY <1>1 DEF UpTo
  <2>2. ASSUME NEW S \in UpTo(n) \ {{}}, f[S \ {Max(S)}] = g[S \ {Max(S)}]
        PROVE  f[S] = g[S]
    <3>1. Max(S) \in 1..n
      BY <1>1, MaxIn DEF UpTo
    <3> QED
      BY <1>1, <1>2, <2>1, <2>2, <3>1 DEF Follows
  <2>3. Alike(f, g, n)
    BY <1>2, <2>2 DEF Alike, Follows
  <2> QED
    BY <1>1, <2>3, SubsetsAgree
<1>4. Max(1..(n + 1)) = n + 1 /\ 1..(n + 1) \in UpTo(n + 1) \ {{}}
  <2>1. n + 1 \in Nat /\ n + 1 \in 1..(n + 1) /\ 1..(n + 1) \in UpTo(n + 1)
    BY <1>1 DEF UpTo
  <2> QED
    BY <2>1, MaxUpTo
<1>5. (1..(n + 1)) \ {n + 1} = 1..n /\ 1..n \in UpTo(n)
  BY <1>1 DEF UpTo
<1>6. g[1..(n + 1)] = step[<<g[1..n], x>>]
  <2> DEFINE S == 1..(n + 1)
  <2>1. S \in UpTo(Len(t)) \ {{}} /\ Max(S) = n + 1 /\ S \ {Max(S)} = 1..n
    BY <1>1, <1>4, <1>5
  <2> HIDE DEF S
  <2>2. g[S] = step[<<g[S \ {Max(S)}], t[Max(S)]>>]
    BY <1>2, <2>1 DEF Follows
  <2>3. g[S] = step[<<g[1..n], x>>]
    BY <1>1, <2>1, <2>2
  <2> QED
    BY <2>3 DEF S
<1>7. g[1..Len(t)] = g[1..(n + 1)]
  BY <1>1
<1>8. f[1..n] = g[1..n]
  BY <1>3, <1>5
<1> QED
  BY <1>6, <1>7, <1>8 DEF t
-----------------------------------------------------------------------------
\* Induction up to n, over the set of the numbers a fact holds for.
LEMMA Climb ==
  ASSUME NEW n \in Nat, NEW G, 0 \in G, \A k \in 1..n : k - 1 \in G => k \in G
  PROVE  n \in G
<1> DEFINE Bad == (0..n) \ G
<1>1. ASSUME n \notin G PROVE FALSE
  <2>1. Bad \subseteq Nat /\ Bad # {}
    BY <1>1
  <2>2. PICK m \in Bad : \A k \in Bad : m <= k
    <3> HIDE DEF Bad
    <3> QED
      BY <2>1, NatMin
  <2>3. m \in 1..n /\ m - 1 \in 0..n
    BY <2>2
  <2>4. m - 1 \in G
    BY <2>2, <2>3
  <2> QED
    BY <2>2, <2>3, <2>4
<1> QED
  BY <1>1

\* Prefixes, from one to the next, and the shortest and the longest.
LEMMA PrefixGrows ==
  ASSUME NEW T, NEW s \in Seq(T), NEW p \in Seq(T), NEW i \in 1..Len(p)
  PROVE  /\ SubSeq(p, 1, i - 1) \in Seq(T) /\ SubSeq(p, 1, i) \in Seq(T)
         /\ SubSeq(p, 1, i) = Append(SubSeq(p, 1, i - 1), p[i])
         /\ s \o SubSeq(p, 1, i) = Append(s \o SubSeq(p, 1, i - 1), p[i])
  OBVIOUS

LEMMA PrefixEnds ==
  ASSUME NEW T, NEW s \in Seq(T), NEW p \in Seq(T)
  PROVE  /\ SubSeq(p, 1, 0) = <<>> /\ SubSeq(p, 1, Len(p)) = p
         /\ s \o <<>> = s
  OBVIOUS

\* Concatenation, with names for its parts: the provers are soon lost in nests of it.
LEMMA ConcatThree ==
  ASSUME NEW T, NEW t \in Seq(T), NEW w \in Seq(T), NEW p \in Seq(T)
  PROVE  t \o w \o p \in Seq(T) /\ (t # <<>> => t \o w \o p # <<>>)
<1> DEFINE v == t \o w
<1>1. v \in Seq(T) /\ (t # <<>> => v # <<>>)
  BY ConcatProperties, ConcatEqualIffEmpty
<1> HIDE DEF v
<1>2. v \o p \in Seq(T) /\ (v # <<>> => v \o p # <<>>)
  BY <1>1, ConcatProperties, ConcatEqualIffEmpty
<1> QED
  BY <1>1, <1>2 DEF v

Beside(s, t) == s \o t

LEMMA BesideThree ==
  ASSUME NEW T, NEW s \in Seq(T), NEW t \in Seq(T), NEW p \in Seq(T)
  PROVE  Beside(Beside(s, t), p) = Beside(s, Beside(t, p))
  BY DEF Beside

LEMMA BesideType ==
  ASSUME NEW T, NEW s \in Seq(T), NEW t \in Seq(T)
  PROVE  Beside(s, t) \in Seq(T)
  BY DEF Beside

LEMMA ConcatFour ==
  ASSUME NEW T, NEW h \in Seq(T), NEW t \in Seq(T), NEW w \in Seq(T), NEW p \in Seq(T)
  PROVE  Beside(Beside(Beside(h, t), w), p) = Beside(h, Beside(Beside(t, w), p))
  BY BesideThree, BesideType

LEMMA BetweenQuotes ==
  ASSUME NEW T, NEW s \in Seq(T), NEW p \in Seq(T), NEW t \in T
  PROVE  s \o (<<t>> \o p \o <<t>>) = Append(Append(s, t) \o p, t)
  OBVIOUS

\* Sequences of one element and of two.
LEMMA PairProperties ==
  ASSUME NEW T, NEW a \in T, NEW b \in T
  PROVE  /\ <<a>> \in Seq(T) /\ <<a, b>> \in Seq(T) /\ <<a, b>> = Append(<<a>>, b)
         /\ Len(<<a, b>>) = 2 /\ <<a, b>>[1] = a /\ <<a, b>>[2] = b
  OBVIOUS

LEMMA OnlyElement ==
  ASSUME NEW T, NEW a, <<a>> \in Seq(T)
  PROVE  a \in T
<1>1. Len(<<a>>) = 1 /\ <<a>>[1] = a
  OBVIOUS
<1> QED
  BY <1>1, ElementOfSeq

\* An element in front.
LEMMA InFront ==
  ASSUME NEW T, NEW x \in T, NEW s \in Seq(T)
  PROVE  /\ <<x>> \o s \in Seq(T) /\ <<x>> \o s # <<>> /\ Len(<<x>> \o s) = Len(s) + 1
         /\ (<<x>> \o s)[1] = x /\ \A i \in 1..Len(s) : (<<x>> \o s)[i + 1] = s[i]
         /\ Tail(<<x>> \o s) = s
  OBVIOUS

\* s is p between l and r.
Enclosed(s, l, p, r) == s = <<l>> \o p \o <<r>>

LEMMA InsideOf ==
  ASSUME NEW T, NEW l \in T, NEW r \in T, NEW p \in Seq(T), NEW s, Enclosed(s, l, p, r)
  PROVE  /\ s \in Seq(T) /\ Len(p) \in Nat /\ Len(s) = Len(p) + 2
         /\ s[1] = l /\ s[Len(s)] = r
         /\ \A i \in 1..Len(p) : s[i + 1] = p[i]
         /\ SubSeq(s, 2, Len(s) - 1) = p
<1>1. /\ s \in Seq(T) /\ Len(p) \in Nat /\ Len(s) = Len(p) + 2
      /\ s[1] = l /\ s[Len(s)] = r
      /\ \A i \in 1..Len(p) : s[i + 1] = p[i]
  BY DEF Enclosed
<1>2. SubSeq(s, 2, Len(s) - 1) = p
  <2> DEFINE u == SubSeq(s, 2, Len(s) - 1)
  <2>1. u \in Seq(T) /\ Len(u) = Len(p) /\ \A i \in 1..Len(p) : u[i] = s[i + 1]
    BY <1>1
  <2> HIDE DEF u
  <2>2. \A i \in 1..Len(u) : u[i] = p[i]
    BY <1>1, <2>1
  <2>3. u = p
    BY <2>1, <2>2, SeqEqual
  <2> QED
    BY <2>3 DEF u
<1> QED
  BY <1>1, <1>2

\* The ends of an interval, the last and the first of a set.
LEMMA IntervalEnds ==
  ASSUME NEW lo \in Nat, NEW hi \in Nat, lo <= hi
  PROVE  Min(lo..hi) = lo /\ Max(lo..hi) = hi
<1>1. Min(lo..hi) \in lo..hi /\ \A x \in lo..hi : Min(lo..hi) <= x
  <2>1. \E m \in lo..hi : \A x \in lo..hi : m <= x
    OBVIOUS
  <2> QED
    BY <2>1 DEF Min
<1>2. Max(lo..hi) \in lo..hi /\ \A x \in lo..hi : Max(lo..hi) >= x
  <2>1. \E m \in lo..hi : \A x \in lo..hi : m >= x
    OBVIOUS
  <2> QED
    BY <2>1 DEF Max
<1> QED
  BY <1>1, <1>2

\* The last token of a certain kind.
LEMMA LastOf ==
  ASSUME NEW I, NEW k \in I, I \subseteq Nat, \A i \in I : i <= k
  PROVE  Max(I) = k
<1>1. Max(I) \in I /\ \A x \in I : Max(I) >= x
  <2>1. \E m \in I : \A x \in I : m >= x
    BY Z3
  <2> QED
    BY <2>1 DEF Max
<1>2. Max(I) \in Nat /\ k \in Nat /\ Max(I) >= k /\ Max(I) <= k
  BY <1>1
<1> QED
  BY <1>2

LEMMA FirstOf ==
  ASSUME NEW I, I \subseteq Nat, I # {}
  PROVE  Min(I) \in I /\ {j \in I : \A k \in I : j <= k} = {Min(I)}
<1>1. PICK m \in I : \A k \in I : m <= k
  BY NatMin
<1>2. Min(I) \in I /\ \A k \in I : Min(I) <= k
  BY <1>1 DEF Min
<1>3. \A j \in I : (\A k \in I : j <= k) => j = Min(I)
  <2> TAKE j \in I
  <2> HAVE \A k \in I : j <= k
  <2>1. j <= Min(I) /\ Min(I) <= j /\ j \in Nat /\ Min(I) \in Nat
    BY <1>2
  <2> QED
    BY <2>1
<1> QED
  BY <1>2, <1>3
=============================================================================
