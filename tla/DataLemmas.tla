---------------------------- MODULE DataLemmas ----------------------------
(***************************************************************************)
(* Facts about sequences that the proofs about both parsers need (their    *)
(* stacks are sequences taken at the end, their texts are joined), and     *)
(* induction over the natural numbers in a form that speaks of sets, for   *)
(* functions that are defined recursively.                                 *)
(***************************************************************************)
EXTENDS Integers, Sequences, SequencesExt, TLAPS, SequenceTheorems, NaturalsInduction,
        WellFoundedInduction

\* The last element of a sequence, and the others.
LEMMA FrontProperties ==
  ASSUME NEW S, NEW s \in Seq(S), s # << >>
  PROVE  /\ Last(s) \in S /\ Last(s) = s[Len(s)]
         /\ Front(s) \in Seq(S)
         /\ Len(Front(s)) = Len(s) - 1
         /\ \A i \in 1 .. Len(s) - 1 : Front(s)[i] = s[i]
<1>1. Len(s) \in Nat /\ Len(s) >= 1
  BY EmptySeq
<1>2. \A i \in 1 .. Len(s) : s[i] \in S
  OBVIOUS
<1>3. Last(s) = s[Len(s)] /\ Front(s) = SubSeq(s, 1, Len(s) - 1)
  BY DEF Last, Front
<1>4. \A i \in 1 .. Len(s) - 1 : s[i] \in S
  BY <1>1, <1>2
<1>5. /\ Front(s) \in Seq(S)
      /\ Len(Front(s)) = IF 1 <= Len(s) - 1 THEN Len(s) - 1 - 1 + 1 ELSE 0
      /\ \A i \in 1 .. Len(s) - 1 - 1 + 1 : Front(s)[i] = s[1 + i - 1]
  BY <1>1, <1>3, <1>4, SubSeqProperties
<1>6. Len(Front(s)) = Len(s) - 1
  <2>1. CASE Len(s) = 1
    BY <1>5, <2>1
  <2>2. CASE Len(s) > 1
    BY <1>5, <2>2
  <2> QED
    BY <1>1, <2>1, <2>2
<1>7. \A i \in 1 .. Len(s) - 1 : Front(s)[i] = s[i]
  BY <1>1, <1>5
<1>8. Last(s) \in S
  BY <1>1, <1>2, <1>3
<1> QED
  BY <1>3, <1>5, <1>6, <1>7, <1>8

\* What has been appended comes last.
LEMMA LastOfAppend ==
  ASSUME NEW S, NEW s \in Seq(S), NEW e \in S
  PROVE  Last(Append(s, e)) = e
BY AppendProperties DEF Last

\* The last element can be put back behind the others.
LEMMA FrontThenLast ==
  ASSUME NEW S, NEW s \in Seq(S), s # << >>
  PROVE  Append(Front(s), Last(s)) = s
<1>1. Len(s) \in Nat \ {0}
  BY EmptySeq
<1>2. /\ Last(s) \in S /\ Last(s) = s[Len(s)] /\ Front(s) \in Seq(S) /\ Len(Front(s)) = Len(s) - 1
      /\ \A i \in 1 .. Len(s) - 1 : Front(s)[i] = s[i]
  BY FrontProperties
<1>3. /\ Append(Front(s), Last(s)) \in Seq(S) /\ Len(Append(Front(s), Last(s))) = Len(Front(s)) + 1
      /\ Append(Front(s), Last(s))[Len(Front(s)) + 1] = Last(s)
      /\ \A i \in 1 .. Len(Front(s)) : Append(Front(s), Last(s))[i] = Front(s)[i]
  BY <1>2, AppendProperties
<1>4. Len(Append(Front(s), Last(s))) = Len(s)
  BY <1>1, <1>2, <1>3
<1>5. ASSUME NEW i \in 1 .. Len(s)
      PROVE  Append(Front(s), Last(s))[i] = s[i]
  <2>1. i = Len(s) \/ i \in 1 .. Len(s) - 1
    BY <1>1
  <2> QED
    BY <1>1, <1>2, <1>3, <2>1
<1> QED
  BY <1>3, <1>4, <1>5, SeqEqual

\* An element appended comes off again.
LEMMA FrontOfAppend ==
  ASSUME NEW S, NEW s \in Seq(S), NEW e \in S
  PROVE  Front(Append(s, e)) = s /\ Append(s, e) # << >>
<1> DEFINE t == Append(s, e)
<1>1. /\ t \in Seq(S) /\ Len(t) = Len(s) + 1 /\ Len(s) \in Nat
      /\ \A i \in 1 .. Len(s) : t[i] = s[i]
  BY AppendProperties, LenProperties
<1> HIDE DEF t
<1>2. t # << >>
  BY <1>1, EmptySeq
<1>3. /\ Front(t) \in Seq(S) /\ Len(Front(t)) = Len(t) - 1
      /\ \A i \in 1 .. Len(t) - 1 : Front(t)[i] = t[i]
  BY <1>1, <1>2, FrontProperties
<1>4. Len(Front(t)) = Len(s) /\ \A i \in 1 .. Len(s) : Front(t)[i] = s[i]
  BY <1>1, <1>3
<1>5. Front(t) = s
  BY <1>3, <1>4, SeqEqual
<1> QED
  BY <1>2, <1>5 DEF t

\* The beginnings of a sequence with one more element.
LEMMA BeginningOfAppend ==
  ASSUME NEW S, NEW s \in Seq(S), NEW e \in S
  PROVE  /\ \A n \in 0 .. Len(s) : SubSeq(Append(s, e), 1, n) = SubSeq(s, 1, n)
         /\ SubSeq(Append(s, e), 1, Len(s)) = s
<1> DEFINE t == Append(s, e)
<1>1. /\ t \in Seq(S) /\ Len(t) = Len(s) + 1 /\ Len(s) \in Nat
      /\ \A i \in 1 .. Len(s) : t[i] = s[i]
  BY AppendProperties, LenProperties
<1> HIDE DEF t
<1>2. /\ \A n \in 0 .. Len(s) : SubSeq(t, 1, n) = [i \in 1 .. n |-> t[i]]
      /\ \A n \in 0 .. Len(s) : SubSeq(s, 1, n) = [i \in 1 .. n |-> s[i]]
  BY <1>1
<1>3. \A n \in 0 .. Len(s) : SubSeq(t, 1, n) = SubSeq(s, 1, n)
  <2> SUFFICES ASSUME NEW n \in 0 .. Len(s)
               PROVE  [i \in 1 .. n |-> t[i]] = [i \in 1 .. n |-> s[i]]
    BY <1>2
  <2>1. \A i \in 1 .. n : t[i] = s[i]
    BY <1>1
  <2> QED
    BY <2>1
<1>4. SubSeq(s, 1, Len(s)) = s
  <2>1. s = [i \in 1 .. Len(s) |-> s[i]]
    OBVIOUS
  <2>2. Len(s) \in 0 .. Len(s)
    BY <1>1
  <2> QED
    BY <1>2, <2>1, <2>2
<1>5. SubSeq(t, 1, Len(s)) = s
  BY <1>1, <1>3, <1>4
<1> QED
  BY <1>3, <1>5 DEF t

\* The first element can go before another one comes, or after.
LEMMA TailOfAppend ==
  ASSUME NEW S, NEW s \in Seq(S), s # << >>, NEW e \in S
  PROVE  Tail(Append(s, e)) = Append(Tail(s), e)
<1>1. Len(s) \in Nat /\ Len(s) >= 1
  BY EmptySeq
<1>2. /\ Tail(s) \in Seq(S) /\ Len(Tail(s)) = Len(s) - 1
      /\ \A i \in 1 .. Len(Tail(s)) : Tail(s)[i] = s[i + 1]
  BY HeadTailProperties
<1>3. /\ Append(s, e) \in Seq(S) /\ Append(s, e) # << >> /\ Len(Append(s, e)) = Len(s) + 1
      /\ \A i \in 1 .. Len(s) : Append(s, e)[i] = s[i]
      /\ Append(s, e)[Len(s) + 1] = e
  BY AppendProperties
<1>4. /\ Tail(Append(s, e)) \in Seq(S) /\ Len(Tail(Append(s, e))) = Len(Append(s, e)) - 1
      /\ \A i \in 1 .. Len(Tail(Append(s, e))) : Tail(Append(s, e))[i] = Append(s, e)[i + 1]
  BY <1>3, HeadTailProperties
<1>5. /\ Append(Tail(s), e) \in Seq(S) /\ Len(Append(Tail(s), e)) = Len(Tail(s)) + 1
      /\ \A i \in 1 .. Len(Tail(s)) : Append(Tail(s), e)[i] = Tail(s)[i]
      /\ Append(Tail(s), e)[Len(Tail(s)) + 1] = e
  BY <1>2, AppendProperties
<1>6. Len(Tail(Append(s, e))) = Len(s) /\ Len(Append(Tail(s), e)) = Len(s)
  BY <1>1, <1>2, <1>3, <1>4, <1>5
<1>7. ASSUME NEW i \in 1 .. Len(s)
      PROVE  Tail(Append(s, e))[i] = Append(Tail(s), e)[i]
  <2>1. Tail(Append(s, e))[i] = Append(s, e)[i + 1]
    BY <1>4, <1>6
  <2>2. CASE i = Len(s)
    BY <1>1, <1>2, <1>3, <1>5, <2>1, <2>2
  <2>3. CASE i < Len(s)
    <3>1. i \in 1 .. Len(Tail(s)) /\ i + 1 \in 1 .. Len(s)
      BY <1>1, <1>2, <2>3
    <3> QED
      BY <3>1, <2>1, <1>2, <1>3, <1>5
  <2> QED
    BY <1>1, <2>2, <2>3
<1> QED
  BY <1>4, <1>5, <1>6, <1>7, SeqEqual

\* Appending to the second of two sequences appends to both.
LEMMA ConcatAppend ==
  ASSUME NEW S, NEW s \in Seq(S), NEW t \in Seq(S), NEW e \in S
  PROVE  s \o Append(t, e) = Append(s \o t, e)
<1>1. << e >> \in Seq(S)
  OBVIOUS
<1>2. Append(t, e) = t \o << e >>
  BY AppendIsConcat
<1>3. s \o t \in Seq(S)
  BY ConcatProperties
<1>4. Append(s \o t, e) = (s \o t) \o << e >>
  BY <1>3, AppendIsConcat
<1>5. (s \o t) \o << e >> = s \o (t \o << e >>)
  BY <1>1, ConcatAssociative
<1> QED
  BY <1>2, <1>4, <1>5

\* Tuples with something behind them are tuples.
LEMMA ShortAppends ==
  ASSUME NEW x, NEW y, NEW e
  PROVE  /\ Append(<< >>, e) = << e >>
         /\ Append(<< x >>, e) = << x, e >>
         /\ Append(<< x, y >>, e) = << x, y, e >>
<1> DEFINE S == { x, y, e }
<1>1. /\ << >> \in Seq(S) /\ << x >> \in Seq(S) /\ << x, y >> \in Seq(S) /\ e \in S
      /\ << e >> \in Seq(S) /\ << x, e >> \in Seq(S) /\ << x, y, e >> \in Seq(S)
  OBVIOUS
<1>2. /\ Len(<< >>) = 0 /\ Len(<< x >>) = 1 /\ Len(<< x, y >>) = 2
      /\ Len(<< e >>) = 1 /\ Len(<< x, e >>) = 2 /\ Len(<< x, y, e >>) = 3
  OBVIOUS
<1> HIDE DEF S
<1>3. Append(<< >>, e) = << e >>
  <2>1. /\ Append(<< >>, e) \in Seq(S) /\ Len(Append(<< >>, e)) = 1 /\ Append(<< >>, e)[1] = e
    BY <1>1, <1>2, AppendProperties
  <2> QED
    BY <1>1, <1>2, <2>1, SeqEqual
<1>4. Append(<< x >>, e) = << x, e >>
  <2>1. /\ Append(<< x >>, e) \in Seq(S) /\ Len(Append(<< x >>, e)) = 2
        /\ Append(<< x >>, e)[1] = x /\ Append(<< x >>, e)[2] = e
    BY <1>1, <1>2, AppendProperties
  <2>2. \A i \in 1 .. 2 : Append(<< x >>, e)[i] = << x, e >>[i]
    BY <2>1
  <2> QED
    BY <1>1, <1>2, <2>1, <2>2, SeqEqual
<1>5. Append(<< x, y >>, e) = << x, y, e >>
  <2>1. /\ Append(<< x, y >>, e) \in Seq(S) /\ Len(Append(<< x, y >>, e)) = 3
        /\ Append(<< x, y >>, e)[1] = x /\ Append(<< x, y >>, e)[2] = y /\ Append(<< x, y >>, e)[3] = e
    BY <1>1, <1>2, AppendProperties
  <2>2. \A i \in 1 .. 3 : Append(<< x, y >>, e)[i] = << x, y, e >>[i]
    BY <2>1
  <2> QED
    BY <1>1, <1>2, <2>1, <2>2, SeqEqual
<1> QED
  BY <1>3, <1>4, <1>5

\* The elements of two sequences stay when they are put together.
LEMMA RangeOfConcat ==
  ASSUME NEW S, NEW s \in Seq(S), NEW t \in Seq(S), NEW x
  PROVE  x \in Range(s) \/ x \in Range(t) => x \in Range(s \o t)
<1>1. /\ s \o t \in Seq(S) /\ Len(s \o t) = Len(s) + Len(t)
      /\ \A i \in 1 .. Len(s) + Len(t) : (s \o t)[i] = IF i <= Len(s) THEN s[i] ELSE t[i - Len(s)]
  BY ConcatProperties
<1>2. /\ DOMAIN s = 1 .. Len(s) /\ DOMAIN t = 1 .. Len(t) /\ DOMAIN (s \o t) = 1 .. Len(s) + Len(t)
      /\ Len(s) \in Nat /\ Len(t) \in Nat
  BY <1>1, LenProperties
<1>3. ASSUME x \in Range(s) PROVE x \in Range(s \o t)
  <2>1. PICK i \in 1 .. Len(s) : x = s[i]
    BY <1>2, <1>3 DEF Range
  <2>2. i \in 1 .. Len(s) + Len(t) /\ (s \o t)[i] = x
    BY <1>1, <1>2, <2>1
  <2> QED
    BY <1>2, <2>2 DEF Range
<1>4. ASSUME x \in Range(t) PROVE x \in Range(s \o t)
  <2>1. PICK i \in 1 .. Len(t) : x = t[i]
    BY <1>2, <1>4 DEF Range
  <2>2. Len(s) + i \in 1 .. Len(s) + Len(t) /\ (s \o t)[Len(s) + i] = x
    BY <1>1, <1>2, <2>1
  <2> QED
    BY <1>2, <2>2 DEF Range
<1> QED
  BY <1>3, <1>4

-----------------------------------------------------------------------------
(* Induction.                                                              *)

\* A set with 0 and the successor of each of its numbers has all of them: otherwise there
\* would be a least one missing.
LEMMA SetInduction ==
  ASSUME NEW P, 0 \in P, \A n \in Nat : n \in P => n + 1 \in P
  PROVE  Nat \subseteq P
<1> DEFINE T == Nat \ P
<1> SUFFICES ASSUME T # {} PROVE FALSE
  OBVIOUS
<1>1. PICK x \in T : \A y \in T : ~ (<< y, x >> \in OpToRel(<, Nat))
  <2>1. T \subseteq Nat
    OBVIOUS
  <2> HIDE DEF T
  <2> QED
    BY <2>1, WFMin, NatLessThanWellFounded
<1>2. \A y \in T : ~ (y < x)
  BY <1>1 DEF OpToRel
<1>3. x - 1 \in Nat /\ x - 1 < x /\ x = (x - 1) + 1
  OBVIOUS
<1>4. x - 1 \in P
  BY <1>2, <1>3
<1> QED
  BY <1>3, <1>4

Iterates(f, F, x) == f[0] = x /\ \A n \in Nat : f[n + 1] = F[f[n]]

\* A function can be applied over and over: its iterates are a function of how often.  The
\* first n of them exist and are unique, by induction on n.
LEMMA Iteration ==
  ASSUME NEW S, NEW F \in [S -> S], NEW x \in S
  PROVE  \E f \in [Nat -> S] : Iterates(f, F, x)
<1> DEFINE Path(n) == { g \in [0 .. n -> S] : g[0] = x /\ \A i \in 0 .. n - 1 : g[i + 1] = F[g[i]] }
           P == { n \in Nat : Path(n) # {} /\ \A g, h \in Path(n) : g[n] = h[n] }
<1>1. 0 \in P
  <2>1. [i \in 0 .. 0 |-> x] \in Path(0)
    OBVIOUS
  <2> QED
    BY <2>1
<1>2. ASSUME NEW n \in Nat, n \in P PROVE n + 1 \in P
  <2>1. PICK g \in [0 .. n -> S] : g[0] = x /\ \A i \in 0 .. n - 1 : g[i + 1] = F[g[i]]
    BY <1>2
  <2>2. [i \in 0 .. n + 1 |-> IF i = n + 1 THEN F[g[n]] ELSE g[i]] \in Path(n + 1)
    <3> DEFINE h == [i \in 0 .. n + 1 |-> IF i = n + 1 THEN F[g[n]] ELSE g[i]]
    <3>1. h \in [0 .. n + 1 -> S] /\ h[0] = x
      BY <2>1
    <3>2. \A i \in 0 .. n + 1 - 1 : h[i + 1] = F[h[i]]
      BY <2>1
    <3> HIDE DEF h
    <3>3. h \in Path(n + 1)
      BY <3>1, <3>2
    <3> QED
      BY <3>3 DEF h
  <2>3. ASSUME NEW h \in Path(n + 1)
        PROVE  [i \in 0 .. n |-> h[i]] \in Path(n) /\ h[n + 1] = F[h[n]]
    <3>1. /\ h \in [0 .. n + 1 -> S] /\ h[0] = x
          /\ \A i \in 0 .. n + 1 - 1 : h[i + 1] = F[h[i]]
      BY <2>3
    <3>2. n \in 0 .. n + 1 - 1 /\ \A i \in 0 .. n - 1 : i \in 0 .. n + 1 - 1 /\ i + 1 \in 0 .. n
      OBVIOUS
    <3> DEFINE k == [i \in 0 .. n |-> h[i]]
    <3>3. k \in [0 .. n -> S] /\ k[0] = x
      BY <3>1
    <3>4. \A i \in 0 .. n - 1 : k[i + 1] = F[k[i]]
      BY <3>1, <3>2
    <3> HIDE DEF k
    <3>5. k \in Path(n)
      BY <3>3, <3>4
    <3> QED
      BY <3>1, <3>2, <3>5 DEF k
  <2>4. \A h, k \in Path(n + 1) : h[n + 1] = k[n + 1]
    <3> SUFFICES ASSUME NEW h \in Path(n + 1), NEW k \in Path(n + 1) PROVE h[n + 1] = k[n + 1]
      OBVIOUS
    <3>1. [i \in 0 .. n |-> h[i]] \in Path(n) /\ [i \in 0 .. n |-> k[i]] \in Path(n)
      BY <2>3
    <3>2. [i \in 0 .. n |-> h[i]][n] = [i \in 0 .. n |-> k[i]][n]
      <4>1. \A g1, g2 \in Path(n) : g1[n] = g2[n]
        BY <1>2
      <4> HIDE DEF Path
      <4> QED
        BY <3>1, <4>1
    <3>3. h[n] = k[n]
      BY <3>2
    <3> HIDE DEF Path
    <3> QED
      BY <2>3, <3>3
  <2> HIDE DEF Path
  <2> QED
    BY <2>2, <2>4
<1>3. \A n \in Nat : n \in P
  <2> HIDE DEF P
  <2> QED
    BY <1>1, <1>2, SetInduction
<1> DEFINE G(n) == CHOOSE g \in Path(n) : TRUE
           f == [n \in Nat |-> G(n)[n]]
<1>4. \A n \in Nat : G(n) \in Path(n) /\ \A g \in Path(n) : g[n] = G(n)[n]
  BY <1>3
<1>5. f[0] = x
  BY <1>4
<1>6. ASSUME NEW n \in Nat PROVE f[n] \in S /\ f[n + 1] = F[f[n]]
  <2>1. G(n + 1) \in Path(n + 1) /\ \A g \in Path(n) : g[n] = f[n]
    <3>1. n + 1 \in Nat
      OBVIOUS
    <3> HIDE DEF Path, G
    <3> QED
      BY <1>4, <3>1
  <2> DEFINE h == G(n + 1)
             k == [i \in 0 .. n |-> h[i]]
  <2>2. f[n + 1] = h[n + 1] /\ h \in Path(n + 1)
    <3>1. n + 1 \in Nat
      OBVIOUS
    <3> HIDE DEF Path, G
    <3> QED
      BY <2>1, <3>1
  <2> HIDE DEF h, G
  <2>3. /\ h \in [0 .. n + 1 -> S] /\ h[0] = x
        /\ \A i \in 0 .. n + 1 - 1 : h[i + 1] = F[h[i]]
    BY <2>2
  <2>4. n \in 0 .. n + 1 - 1 /\ \A i \in 0 .. n - 1 : i \in 0 .. n + 1 - 1 /\ i + 1 \in 0 .. n
    OBVIOUS
  <2>5. k \in [0 .. n -> S] /\ k[0] = x /\ \A i \in 0 .. n - 1 : k[i + 1] = F[k[i]]
    BY <2>3, <2>4
  <2>6. k \in Path(n) /\ k[n] = h[n]
    <3>1. k[n] = h[n]
      OBVIOUS
    <3> HIDE DEF k
    <3> QED
      BY <2>5, <3>1
  <2>7. f[n] = h[n]
    <3> HIDE DEF k, f
    <3> QED
      BY <2>1, <2>6
  <2> QED
    BY <2>2, <2>3, <2>4, <2>7
<1> QED
  <2> HIDE DEF G
  <2>1. f \in [Nat -> S]
    BY <1>6
  <2> QED
    <3>1. Iterates(f, F, x)
      BY <1>5, <1>6 DEF Iterates
    <3> HIDE DEF f
    <3> QED
      BY <2>1, <3>1
=============================================================================
