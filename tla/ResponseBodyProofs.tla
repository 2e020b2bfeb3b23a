------------------------- MODULE ResponseBodyProofs -------------------------
(***************************************************************************)
(* For bodies of any length, frames of any size and any cap, over either   *)
(* transport: a body is whole or its reader knows, over HTTP/3 it never    *)
(* outlives its connection, and what is collected keeps to the cap.        *)
(*                                                                         *)
(* The first two follow from BodyInv.  HeldInv ties the state of the body  *)
(* to what its reader has been told and to how far its drop has got;       *)
(* FramesInv says that the reader has the frames taken off the stream, in  *)
(* order, but for the one that did not fit.  The cap is compared with      *)
(* Bytes, a fold: what it gives for one frame more, and for a prefix,      *)
(* comes first.                                                            *)
(***************************************************************************)
EXTENDS ResponseBody, FoldProofs, SequenceTheorems

Sequences == sent \in Seq(Sizes) /\ got \in Seq(Sizes) /\ read \in Nat

HeldInv ==
  /\ life = "alive" => state # "gone"
  /\ OnH3 => owner = TRUE
  /\ result = "reading" => life = "alive" /\ Streaming
  /\ result \in {"complete", "ok", "decode_error"} =>
       fin = TRUE /\ read = Len(sent) /\ ~Streaming
  /\ result \in {"cancelled", "unreachable"} => broken = TRUE /\ ~Streaming
  /\ result = "too_large" => Collecting

FramesInv ==
  /\ read <= Len(sent)
  /\ result # "too_large" => Len(got) = read
  /\ Len(got) <= read
  /\ \A i \in 1..Len(got) : got[i] = sent[i]

BodyInv == Sequences /\ HeldInv /\ FramesInv

USE SizeAssumption

LEMMA HeldStep == BodyInv /\ [Next]_vars => HeldInv'
<1> SUFFICES ASSUME BodyInv, [Next]_vars PROVE HeldInv'
  OBVIOUS
<1> USE DEF BodyInv, Sequences, HeldInv, OnH3, Streaming, Collecting, peer
<1>1. ASSUME NEW size \in Sizes, Send(size) PROVE HeldInv'
  BY <1>1 DEF Send
<1>2. CASE Finish
  BY <1>2 DEF Finish
<1>3. CASE Break
  BY <1>3 DEF Break
<1>4. CASE PollFrame
  BY <1>4 DEF PollFrame, Polled, HasFrame, Fits, AtRest
<1>5. CASE PollEnd
  BY <1>5 DEF PollEnd, Polled, HasEnd
<1>6. CASE PollError
  BY <1>6 DEF PollError, Polled, HasError, Failures
<1>7. CASE PollPending
  BY <1>7 DEF PollPending, Polled, Pending
<1>8. CASE PollDone
  BY <1>8 DEF PollDone, Polled
<1>9. CASE Abandon
  BY <1>9 DEF Abandon
<1>10. CASE DropBody
  BY <1>10 DEF DropBody
<1>11. CASE DropState
  BY <1>11 DEF DropState
<1>12. CASE DropSender
  BY <1>12 DEF DropSender
<1>13. CASE Decode
  <2>1. result' \in {"ok", "decode_error"}
    BY <1>13 DEF Decode, Interpreted, Decompressed
  <2>2. QED
    BY <1>13, <2>1 DEF Decode
<1>14. CASE UNCHANGED vars
  BY <1>14 DEF vars
<1>15. QED
  BY <1>1, <1>2, <1>3, <1>4, <1>5, <1>6, <1>7, <1>8, <1>9, <1>10, <1>11,
     <1>12, <1>13, <1>14 DEF Next, Poll, Terminated

LEMMA FramesStep ==
  BodyInv /\ [Next]_vars => Sequences' /\ FramesInv'
<1> SUFFICES ASSUME BodyInv, [Next]_vars PROVE Sequences' /\ FramesInv'
  OBVIOUS
<1> USE DEF BodyInv, Sequences, FramesInv, peer
<1>1. ASSUME NEW size \in Sizes, Send(size) PROVE Sequences' /\ FramesInv'
  BY <1>1 DEF Send, HeldInv
<1>2. CASE PollFrame
  <2>1. result # "too_large"
    BY <1>2 DEF PollFrame, Polled, HeldInv, Collecting
  <2>2. read + 1 \in 1..Len(sent) /\ read' = read + 1 /\ sent' = sent
    BY <1>2 DEF PollFrame, HasFrame
  <2>3. CASE got' = Append(got, sent[read + 1]) /\ result' = result
    BY <2>1, <2>2, <2>3
  <2>4. CASE got' = got /\ result' = "too_large"
    BY <2>1, <2>2, <2>4
  <2>5. QED
    BY <1>2, <2>3, <2>4 DEF PollFrame
<1>3. ASSUME UNCHANGED <<sent, read, got>>, result' # "too_large" => result # "too_large"
      PROVE Sequences' /\ FramesInv'
  BY <1>3
<1>4. CASE Decode
  BY <1>3, <1>4 DEF Decode
<1>5. QED
  BY <1>1, <1>2, <1>3, <1>4
     DEF Next, Finish, Break, Poll, PollEnd, PollError, PollPending, PollDone,
         Polled, HeldInv, Collecting, Abandon, DropBody, DropState, DropSender,
         Terminated, vars

LEMMA BodyInvariant == Spec => []BodyInv
<1>1. Init => BodyInv
  BY DEF Init, BodyInv, Sequences, HeldInv, FramesInv, OnH3, Streaming
<1>2. BodyInv /\ [Next]_vars => BodyInv'
  BY HeldStep, FramesStep DEF BodyInv
<1>3. QED
  BY <1>1, <1>2, PTL DEF Spec

LEMMA TypeStep == BodyInv /\ TypeOK /\ [Next]_vars => TypeOK'
<1> SUFFICES ASSUME BodyInv, TypeOK, [Next]_vars PROVE TypeOK'
  OBVIOUS
<1> USE DEF TypeOK, peer
<1>1. ASSUME NEW size \in Sizes, Send(size) PROVE TypeOK'
  BY <1>1 DEF Send
<1>2. CASE Finish \/ Break
  BY <1>2 DEF Finish, Break
<1>3. CASE PollFrame
  <2>1. read + 1 \in 1..Len(sent) /\ AtRest \in {"ready", "incoming"}
    BY <1>3 DEF PollFrame, HasFrame, AtRest, Streaming, OnH3
  <2>2. result # "too_large"
    BY <1>3 DEF PollFrame, Polled, BodyInv, HeldInv
  <2>3. Len(got) = read
    BY <2>2 DEF BodyInv, FramesInv
  <2>4. Append(got, sent[read + 1]) \in Seq(Sizes) /\ Len(Append(got, sent[read + 1])) <= MaxFrames
    BY <2>1, <2>3
  <2>5. /\ got' \in Seq(Sizes) /\ Len(got') <= MaxFrames
        /\ result' \in {result, "too_large"}
    <3>1. \/ got' = Append(got, sent[read + 1]) /\ result' = result
          \/ got' = got /\ result' = "too_large"
      BY <1>3 DEF PollFrame
    <3> QED
      BY <2>4, <3>1
  <2>6. read' \in 0..MaxFrames /\ state' \in {"ready", "incoming"}
    BY <1>3, <2>1 DEF PollFrame
  <2>7. QED
    BY <1>3, <2>5, <2>6 DEF PollFrame
<1>4. CASE PollEnd \/ PollError \/ PollPending \/ PollDone
  BY <1>4 DEF PollEnd, PollError, PollPending, PollDone, Failures
<1>5. CASE Abandon \/ DropBody \/ DropState \/ DropSender
  BY <1>5 DEF Abandon, DropBody, DropState, DropSender
<1>6. CASE Decode
  BY <1>6 DEF Decode, Interpreted, Decompressed
<1>7. CASE UNCHANGED vars
  BY <1>7 DEF vars
<1>8. QED
  BY <1>1, <1>2, <1>3, <1>4, <1>5, <1>6, <1>7 DEF Next, Poll, Terminated

\* Every variable always has its type, and no more frames are read than the
\* peer has sent (response.rs, http3.rs).
THEOREM TypeCorrect == Spec => []TypeOK
<1>1. ASSUME Init PROVE TypeOK
  <2>1. /\ owner \in BOOLEAN /\ fin \in BOOLEAN /\ broken \in BOOLEAN
        /\ state \in {"ready", "reading", "incoming", "done", "gone"}
    BY <1>1, Zenon DEF Init
  <2>2. /\ sent \in Seq(Sizes) /\ Len(sent) <= MaxFrames /\ read \in 0..MaxFrames
        /\ got \in Seq(Sizes) /\ Len(got) <= MaxFrames
    BY <1>1 DEF Init
  <2>3. QED
    BY <1>1, <2>1, <2>2 DEF Init, TypeOK
<1>2. QED
  BY <1>1, TypeStep, BodyInvariant, PTL DEF Spec

\* A reader that is told the body has ended has all of it (poll_frame).
THEOREM BodiesAreWhole == Spec => []CompleteIsWhole
<1>1. BodyInv => CompleteIsWhole
  <2> SUFFICES ASSUME BodyInv, result \in {"complete", "ok", "decode_error"}
           PROVE fin /\ got = sent
    BY DEF CompleteIsWhole
  <2>1. fin
    BY DEF BodyInv, HeldInv
  <2>2. Len(got) = Len(sent) /\ \A i \in 1..Len(got) : got[i] = sent[i]
    BY DEF BodyInv, HeldInv, FramesInv
  <2>3. got = sent
    BY <2>2, SeqEqual DEF BodyInv, Sequences
  <2>4. QED
    BY <2>1, <2>3
<1>2. QED
  BY <1>1, BodyInvariant, PTL

\* No read fails because this end has closed the connection (_sender, and the
\* order in which the fields of H3ResponseBody are dropped).
THEOREM ConnectionOutlivesReads == Spec => []OwnerOutlivesStream
<1>1. BodyInv => OwnerOutlivesStream
  BY DEF BodyInv, HeldInv, OwnerOutlivesStream
<1>2. QED
  BY <1>1, BodyInvariant, PTL
-----------------------------------------------------------------------------
(* The cap.  Bytes folds + over the frames; its lemmas come first.         *)

\* A step of the fold in Bytes.
Adds(s, g, S) == IF S = {} THEN 0 ELSE g[S \ {Max(S)}] + s[Max(S)]

\* g is the function that Bytes goes through on a sequence of n frames.
Sums(g, s, n) ==
  /\ g \in [UpTo(n) -> Nat]
  /\ Bytes(s) = g[1..n]
  /\ \A S \in UpTo(n) : g[S] = Adds(s, g, S)

LEMMA BytesFold ==
  ASSUME NEW s \in Seq(Nat)
  PROVE  \E g : Sums(g, s, Len(s))
<1> DEFINE It(g) == g = [S \in UpTo(Len(s)) |-> Adds(s, g, S)]
           it == CHOOSE g : It(g)
<1>1. Len(s) \in Nat /\ DOMAIN s = 1..Len(s) /\ \A i \in 1..Len(s) : s[i] \in Nat
  OBVIOUS
<1>2. Bytes(s) = it[1..Len(s)]
  BY <1>1 DEF Bytes, FoldLeft, MapThenFoldSet, UpTo, Adds
<1>3. PICK g \in [UpTo(Len(s)) -> Nat] : It(g)
  <2> DEFINE step == [w \in Nat \X (1..Len(s)) |-> w[1] + s[w[2]]]
  <2>1. step \in [Nat \X (1..Len(s)) -> Nat]
    BY <1>1
  <2> HIDE DEF step
  <2>2. PICK g \in [UpTo(Len(s)) -> Nat] : FoldsBy(g, Len(s), 0, step)
    BY <1>1, <2>1, SubsetsExist
  <2> USE DEF step
  <2>3. ASSUME NEW S \in UpTo(Len(s)) PROVE g[S] = Adds(s, g, S)
    <3>1. CASE S = {}
      BY <2>2, <3>1 DEF FoldsBy, Adds
    <3>2. CASE S # {}
      <4>1. /\ g[S] = step[<<g[S \ {Max(S)}], Max(S)>>]
        BY <2>2, <3>2 DEF FoldsBy
      <4>2. Max(S) \in 1..Len(s) /\ S \ {Max(S)} \in UpTo(Len(s))
        BY <1>1, <3>2, MaxIn DEF UpTo
      <4> QED
        BY <3>2, <4>1, <4>2 DEF Adds
    <3> QED
      BY <3>1, <3>2
  <2> QED
    BY <2>3
<1>4. It(it)
  BY <1>3
<1>5. \A S \in UpTo(Len(s)) : it[S] = Adds(s, it, S) /\ g[S] = Adds(s, g, S)
  BY <1>3, <1>4
<1> HIDE DEF it
<1>6. \A S \in UpTo(Len(s)) : it[S] = g[S]
  <2>1. Alike(it, g, Len(s))
    BY <1>5 DEF Alike, Adds, UpTo
  <2> QED
    BY <1>1, <2>1, SubsetsAgree
<1> QED
  BY <1>2, <1>5, <1>6 DEF Sums, UpTo

\* What Bytes computes.
LEMMA BytesType ==
  ASSUME NEW s \in Seq(Nat) PROVE Bytes(s) \in Nat
<1>1. Len(s) \in Nat /\ 1..Len(s) \in UpTo(Len(s))
  BY DEF UpTo
<1> QED
  BY <1>1, BytesFold DEF Sums

LEMMA BytesEmpty == Bytes(<<>>) = 0
<1>1. PICK g : Sums(g, <<>>, 0)
  <2>1. <<>> \in Seq(Nat) /\ Len(<<>>) = 0
    OBVIOUS
  <2> QED
    BY <2>1, BytesFold
<1>2. 1..0 = {} /\ {} \in UpTo(0)
  BY DEF UpTo
<1> QED
  BY <1>1, <1>2 DEF Sums, Adds

LEMMA BytesAppend ==
  ASSUME NEW s \in Seq(Nat), NEW x \in Nat
  PROVE  Bytes(Append(s, x)) = Bytes(s) + x
<1> DEFINE t == Append(s, x)
           n == Len(s)
<1>1. /\ t \in Seq(Nat) /\ n \in Nat /\ Len(t) = n + 1
      /\ t[n + 1] = x /\ \A i \in 1..n : t[i] = s[i]
  OBVIOUS
<1> HIDE DEF t, n
<1>2. PICK f : Sums(f, s, n)
  BY BytesFold DEF n
<1>3. PICK g : Sums(g, t, n + 1)
  BY <1>1, BytesFold
<1> USE <1>2, <1>3 DEF Sums
<1>4. \A S \in UpTo(n) : f[S] = g[S]
  <2>1. {} \in UpTo(n) /\ UpTo(n) \subseteq UpTo(n + 1)
    BY <1>1 DEF UpTo
  <2>2. f[{}] = g[{}]
    BY <2>1 DEF Adds
  <2>3. ASSUME NEW S \in UpTo(n) \ {{}}, f[S \ {Max(S)}] = g[S \ {Max(S)}]
        PROVE  f[S] = g[S]
    <3>1. Max(S) \in 1..n
      BY <1>1, MaxIn DEF UpTo
    <3> QED
      BY <1>1, <2>1, <2>3, <3>1 DEF Adds
  <2>4. Alike(f, g, n)
    BY <2>2, <2>3 DEF Alike
  <2> QED
    BY <1>1, <2>4, SubsetsAgree
<1>5. Max(1..(n + 1)) = n + 1 /\ 1..(n + 1) # {} /\ 1..(n + 1) \in UpTo(n + 1)
  <2>1. n + 1 \in Nat /\ n + 1 \in 1..(n + 1) /\ 1..(n + 1) \in UpTo(n + 1)
    BY <1>1 DEF UpTo
  <2> QED
    BY <2>1, MaxUpTo
<1>6. (1..(n + 1)) \ {n + 1} = 1..n /\ 1..n \in UpTo(n)
  BY <1>1 DEF UpTo
<1>7. g[1..(n + 1)] = g[1..n] + x
  <2>1. g[1..(n + 1)] = Adds(t, g, 1..(n + 1))
    BY <1>5
  <2>2. Adds(t, g, 1..(n + 1)) = g[1..n] + t[n + 1]
    BY <1>5, <1>6, Zenon DEF Adds
  <2> QED
    BY <1>1, <2>1, <2>2
<1> QED
  BY <1>4, <1>6, <1>7 DEF t

\* A part of a body is no longer than the body.
LEMMA BytesOfPrefix ==
  ASSUME NEW s \in Seq(Nat), NEW k \in 0..Len(s)
  PROVE  Bytes(SubSeq(s, 1, k)) <= Bytes(s)
<1> DEFINE Part(i) == SubSeq(s, 1, i)
           n == Len(s)
           Short == {j \in 0..n : ~(Bytes(Part(n - j)) <= Bytes(s))}
<1>1. n \in Nat /\ Part(n) = s /\ \A i \in 0..n : Part(i) \in Seq(Nat)
  OBVIOUS
<1>2. \A i \in 0..n : Bytes(Part(i)) \in Nat
  BY <1>1, BytesType
<1>3. ASSUME NEW i \in 1..n PROVE Bytes(Part(i - 1)) <= Bytes(Part(i))
  <2>1. Part(i) = Append(Part(i - 1), s[i]) /\ s[i] \in Nat /\ i - 1 \in 0..n
    OBVIOUS
  <2> HIDE DEF Part, n
  <2>2. Bytes(Part(i)) = Bytes(Part(i - 1)) + s[i]
    BY <1>1, <2>1, BytesAppend
  <2> QED
    BY <1>2, <2>1, <2>2
<1> HIDE DEF Part, n
<1>4. ASSUME Short # {} PROVE FALSE
  <2>1. PICK m \in Short : \A j \in Short : m <= j
    <3>1. Short \subseteq Nat
      BY <1>1
    <3> HIDE DEF Short
    <3> QED
      BY <1>4, <3>1, NatMin
  <2>2. m \in 0..n /\ ~(Bytes(Part(n - m)) <= Bytes(s))
    OBVIOUS
  <2>3. m # 0
    BY <1>1, <1>2, <2>2
  <2>4. m - 1 \in 0..n /\ n - (m - 1) \in 1..n /\ n - (m - 1) - 1 = n - m
    BY <1>1, <2>2, <2>3
  <2>5. Bytes(Part(n - m)) <= Bytes(Part(n - (m - 1)))
    BY <1>3, <2>4
  <2>6. Bytes(Part(n - (m - 1))) <= Bytes(s)
    BY <2>1, <2>2, <2>4
  <2> QED
    BY <1>1, <1>2, <2>2, <2>4, <2>5, <2>6
<1>5. Bytes(Part(k)) <= Bytes(s)
  <2>1. n - k \in 0..n /\ n - (n - k) = k
    BY <1>1 DEF n
  <2> QED
    BY <1>4, <2>1
<1> QED
  BY <1>5 DEF Part
-----------------------------------------------------------------------------
CapInv == cap \in Caps \cup {NoCap} /\ CapIsExact

LEMMA CapStep == BodyInv /\ CapInv /\ [Next]_vars => CapInv'
<1> SUFFICES ASSUME BodyInv, CapInv, [Next]_vars PROVE CapInv'
  OBVIOUS
<1> USE DEF CapInv, CapIsExact, Collecting, peer
<1>1. /\ sent \in Seq(Nat) /\ got \in Seq(Nat)
      /\ Bytes(sent) \in Nat /\ Bytes(got) \in Nat
      /\ Collecting => cap \in Nat
  <2>1. sent \in Seq(Nat) /\ got \in Seq(Nat)
    BY SeqMonotonic DEF BodyInv, Sequences
  <2> QED
    BY <2>1, BytesType
<1>2. ASSUME NEW size \in Sizes, Send(size) PROVE CapInv'
  <2>1. Bytes(sent') = Bytes(sent) + size /\ size \in Nat
    BY <1>1, <1>2, BytesAppend DEF Send
  <2>2. UNCHANGED <<cap, got, result>>
    BY <1>2 DEF Send
  <2>3. Bytes(got') = Bytes(got)
    BY <2>2
  <2>4. /\ cap' \in Caps \cup {NoCap}
        /\ cap' # NoCap => Bytes(got') <= cap'
        /\ cap' # NoCap /\ result' = "too_large" => Bytes(sent') > cap'
    BY <1>1, <2>1, <2>2, <2>3
  <2> QED
    BY <2>4
<1>3. CASE PollFrame
  <2>1. /\ read + 1 \in 1..Len(sent) /\ sent[read + 1] \in Nat
        /\ UNCHANGED <<cap, sent>>
    <3>1. read \in Nat /\ read < Len(sent) /\ Len(sent) \in Nat
      BY <1>3 DEF PollFrame, HasFrame, BodyInv, Sequences
    <3>2. \A i \in 1..Len(sent) : sent[i] \in Nat
      BY <1>1
    <3> QED
      BY <1>3, <3>1, <3>2 DEF PollFrame
  <2>2. CASE Fits(sent[read + 1])
    <3>1. got' = Append(got, sent[read + 1]) /\ result' = result
      BY <1>3, <2>2 DEF PollFrame
    <3>2. Collecting => result = "reading"
      BY <1>3 DEF PollFrame, Polled
    <3> QED
      BY <2>1, <2>2, <3>1, <3>2 DEF Fits
  <2>3. CASE ~Fits(sent[read + 1])
    <3>1. got' = got
      BY <1>3, <2>3 DEF PollFrame
    <3>2. Collecting => Append(got, sent[read + 1]) = SubSeq(sent, 1, read + 1)
      <4>1. Collecting => result # "too_large"
        BY <1>3 DEF PollFrame, Polled
      <4>2. Collecting => Len(got) = read /\ \A i \in 1..read : got[i] = sent[i]
        BY <4>1 DEF BodyInv, FramesInv
      <4>3. ASSUME Len(got) = read, \A i \in 1..read : got[i] = sent[i]
            PROVE  Append(got, sent[read + 1]) = SubSeq(sent, 1, read + 1)
        <5> DEFINE k == read + 1
        <5>1. k \in 1..Len(sent) /\ Len(got) = k - 1
          BY <2>1, <4>3
        <5>2. \A i \in 1..(k - 1) : got[i] = sent[i]
          BY <4>3, <5>1
        <5> HIDE DEF k
        <5>3. Append(got, sent[k]) = SubSeq(sent, 1, k)
          BY <1>1, <5>1, <5>2
        <5> QED
          BY <5>3 DEF k
      <4> QED
        BY <4>2, <4>3
    <3>3. Collecting => Bytes(sent) > cap
      <4>1. /\ Bytes(SubSeq(sent, 1, read + 1)) <= Bytes(sent)
            /\ Bytes(SubSeq(sent, 1, read + 1)) \in Nat
        <5> DEFINE k == read + 1
        <5>0. k \in 1..Len(sent)
          BY <2>1
        <5> HIDE DEF k
        <5>1. k \in 0..Len(sent) /\ SubSeq(sent, 1, k) \in Seq(Nat)
          BY <1>1, <5>0
        <5>2. Bytes(SubSeq(sent, 1, k)) <= Bytes(sent)
          BY <1>1, <5>1, BytesOfPrefix
        <5>3. Bytes(SubSeq(sent, 1, k)) \in Nat
          BY <5>1, BytesType
        <5> QED
          BY <5>2, <5>3 DEF k
      <4>2. Collecting => ~(Bytes(SubSeq(sent, 1, read + 1)) <= cap)
        BY <2>3, <3>2 DEF Fits
      <4> QED
        BY <1>1, <4>1, <4>2
    <3> QED
      BY <2>1, <3>1, <3>3
  <2> QED
    BY <2>2, <2>3
<1>4. ASSUME UNCHANGED <<sent, got, cap>>,
             result' = "too_large" => result = "too_large"
      PROVE  CapInv'
  BY <1>4
<1>5. CASE Decode
  <2>1. result' # "too_large"
    BY <1>5 DEF Decode, Interpreted, Decompressed
  <2> QED
    BY <1>4, <1>5, <2>1 DEF Decode
<1> QED
  BY <1>2, <1>3, <1>4, <1>5
  DEF Next, Finish, Break, Poll, PollEnd, PollError, Failures, PollPending,
      PollDone, Abandon, DropBody, DropState, DropSender, Terminated, vars

\* For every cap, and bodies of any length: what is collected stays within the
\* cap, and what is refused is beyond it (bytes_with_cap).
THEOREM CapsAreExact == Spec => []CapIsExact
<1>1. Init => CapInv
  BY BytesEmpty DEF Init, CapInv, CapIsExact, Collecting
<1>2. CapInv => CapIsExact
  BY DEF CapInv
<1> QED
  BY <1>1, <1>2, CapStep, BodyInvariant, PTL DEF Spec
=============================================================================
