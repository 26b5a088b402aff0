---------------------------- MODULE JVarValueProofs ----------------------------
(***************************************************************************)
(* JVar implements ValueTrees: for any variables, keys and data, a heap of *)
(* any size and paths of any length, each statement does to the trees of   *)
(* values what it would if there were no heap.                             *)
(*                                                                         *)
(* A heap unfolds into the JVars its paths lead to, from the frame or from *)
(* one that floats.  Each change of a slot is seen in the unfoldings as a  *)
(* branch that is set, and trees are what unfoldings show.                 *)
(***************************************************************************)
EXTENDS JVarProofs

-----------------------------------------------------------------------------
(* Paths.                                                                  *)

\* Induction over sequences, the longer ones from the shorter.
LEMMA SequenceInduction ==
  ASSUME NEW S, NEW P, << >> \in P, \A s \in Seq(S), i \in S : s \in P => Append(s, i) \in P
  PROVE  Seq(S) \subseteq P
<1> DEFINE N == { n \in Nat : \A s \in Seq(S) : Len(s) = n => s \in P }
<1>1. 0 \in N
  BY EmptySeq
<1>2. ASSUME NEW n \in Nat, n \in N
      PROVE  n + 1 \in N
  <2> SUFFICES ASSUME NEW s \in Seq(S), Len(s) = n + 1 PROVE s \in P
    OBVIOUS
  <2>1. s # << >>
    BY EmptySeq
  <2>2. PICK r \in Seq(S), i \in S : s = Append(r, i)
    BY <2>1, SequenceEmptyOrAppend
  <2>3. Len(r) = n
    BY <2>2, AppendProperties, LenProperties
  <2> QED
    BY <1>2, <2>2, <2>3
<1> HIDE DEF N
<1>3. Nat \subseteq N
  BY <1>1, <1>2, SetInduction
<1>4. ASSUME NEW s \in Seq(S) PROVE s \in P
  BY <1>3, LenProperties DEF N
<1> QED
  BY <1>4

\* The prefixes of a sequence are what something can be joined to.
LEMMA PrefixMeans ==
  ASSUME NEW S, NEW p \in Seq(S), NEW q \in Seq(S)
  PROVE  IsPrefix(p, q) <=> \E s \in Seq(S) : q = p \o s
<1>1. Len(p) \in Nat /\ Len(q) \in Nat
  BY LenProperties
<1>2. ASSUME IsPrefix(p, q)
      PROVE  \E s \in Seq(S) : q = p \o s
  <2>1. SubSeq(p, 1, Len(p)) = p /\ SubSeq(q, 1, Len(q)) = q
    BY SubSeqFull
  <2>2. 1 \in 1 .. Len(q) + 1 /\ Len(p) \in 1 - 1 .. Len(q) /\ Len(q) \in Len(p) .. Len(q)
    BY <1>1, <1>2 DEF IsPrefix
  <2>3. SubSeq(q, 1, Len(p)) \o SubSeq(q, Len(p) + 1, Len(q)) = SubSeq(q, 1, Len(q))
    BY <2>2, ConcatAdjacentSubSeq
  <2>4. SubSeq(q, Len(p) + 1, Len(q)) \in Seq(S)
    <3>1. \A i \in Len(p) + 1 .. Len(q) : q[i] \in S
      BY <1>1, ElementOfSeq
    <3> QED
      BY <1>1, <3>1, SubSeqProperties
  <2> QED
    BY <1>2, <2>1, <2>3, <2>4 DEF IsPrefix
<1>3. ASSUME NEW s \in Seq(S), q = p \o s
      PROVE  IsPrefix(p, q)
  <2>1. Len(q) = Len(p) + Len(s) /\ Len(s) \in Nat
        /\ \A i \in 1 .. Len(p) : q[i] = p[i]
    BY <1>1, <1>3, ConcatProperties, LenProperties
  <2>2. SubSeq(q, 1, Len(p)) = [i \in 1 .. Len(p) |-> q[i]] /\ SubSeq(p, 1, Len(p)) = p
    <3>1. \A i \in 1 .. Len(p) : q[i] \in S
      BY <2>1, ElementOfSeq
    <3> QED
      BY <1>1, <2>1, <3>1, SubSeqFull
  <2>3. p = [i \in 1 .. Len(p) |-> p[i]]
    OBVIOUS
  <2> QED
    BY <1>1, <2>1, <2>2, <2>3 DEF IsPrefix
<1> QED
  BY <1>2, <1>3

\* Both specifications speak of the same prefixes.
LEMMA SamePrefix ==
  \A p, q : /\ Values!IsPrefix(p, q) <=> IsPrefix(p, q)
            /\ Values!IsStrictPrefix(p, q) <=> IsStrictPrefix(p, q)
BY DEF Values!IsPrefix, IsPrefix, Values!IsStrictPrefix, IsStrictPrefix

\* What is behind a prefix.
LEMMA BehindIs ==
  ASSUME NEW S, NEW p \in Seq(S), NEW s \in Seq(S)
  PROVE  Values!Behind(p \o s, p) = s
<1> DEFINE q == p \o s
<1>1. /\ q \in Seq(S) /\ Len(q) = Len(p) + Len(s) /\ Len(p) \in Nat /\ Len(s) \in Nat
      /\ \A i \in 1 .. Len(p) + Len(s) : q[i] = IF i <= Len(p) THEN p[i] ELSE s[i - Len(p)]
  BY ConcatProperties, LenProperties
<1> HIDE DEF q
<1>2. \A i \in Len(p) + 1 .. Len(q) : q[i] \in S
  BY <1>1, ElementOfSeq
<1> DEFINE b == SubSeq(q, Len(p) + 1, Len(q))
<1>3. /\ b \in Seq(S) /\ Len(b) = IF Len(p) + 1 <= Len(q) THEN Len(q) - (Len(p) + 1) + 1 ELSE 0
      /\ \A i \in 1 .. Len(q) - (Len(p) + 1) + 1 : b[i] = q[Len(p) + 1 + i - 1]
  BY <1>1, <1>2, SubSeqProperties
<1> HIDE DEF b
<1>4. Len(b) = Len(s)
  BY <1>1, <1>3
<1>5. ASSUME NEW i \in 1 .. Len(s)
      PROVE  b[i] = s[i]
  <2>1. i \in 1 .. Len(q) - (Len(p) + 1) + 1 /\ Len(p) + 1 + i - 1 = Len(p) + i
    BY <1>1
  <2>2. Len(p) + i \in 1 .. Len(p) + Len(s) /\ ~ (Len(p) + i <= Len(p)) /\ (Len(p) + i) - Len(p) = i
    BY <1>1
  <2>3. b[i] = q[Len(p) + i]
    BY <1>3, <2>1
  <2> QED
    BY <1>1, <2>2, <2>3
<1> QED
  BY <1>3, <1>4, <1>5, SeqEqual DEF b, q, Values!Behind

\* A path with one more step goes through what the path goes through, or ends there.
LEMMA PrefixOfAppend ==
  ASSUME NEW S, NEW p \in Seq(S), NEW q \in Seq(S), NEW i \in S
  PROVE  IsPrefix(p, Append(q, i)) <=> IsPrefix(p, q) \/ p = Append(q, i)
<1>1. Append(q, i) \in Seq(S)
  BY AppendProperties
<1>2. ASSUME IsPrefix(p, q)
      PROVE  IsPrefix(p, Append(q, i))
  <2>1. PICK s \in Seq(S) : q = p \o s
    BY <1>2, PrefixMeans
  <2>2. p \o Append(s, i) = Append(q, i) /\ Append(s, i) \in Seq(S)
    BY <2>1, ConcatAppend, AppendProperties
  <2> QED
    BY <1>1, <2>2, PrefixMeans
<1>3. ASSUME p = Append(q, i)
      PROVE  IsPrefix(p, Append(q, i))
  <2>1. p \o << >> = p /\ << >> \in Seq(S)
    BY ConcatEmptySeq, EmptySeq
  <2> QED
    BY <1>3, <2>1, PrefixMeans
<1>4. ASSUME IsPrefix(p, Append(q, i)), p # Append(q, i)
      PROVE  IsPrefix(p, q)
  <2>1. PICK s \in Seq(S) : Append(q, i) = p \o s
    BY <1>1, <1>4, PrefixMeans
  <2>2. s # << >>
    BY <1>4, <2>1, ConcatEmptySeq
  <2>3. PICK r \in Seq(S), j \in S : s = Append(r, j)
    BY <2>2, SequenceEmptyOrAppend
  <2>4. Append(q, i) = Append(p \o r, j) /\ p \o r \in Seq(S)
    BY <2>1, <2>3, ConcatAppend, ConcatProperties
  <2> DEFINE t == p \o r
  <2> HIDE DEF t
  <2>5. q = t
    <3>1. t \in Seq(S) /\ Append(q, i) = Append(t, j)
      BY <2>4 DEF t
    <3> QED
      BY <3>1, AppendInjective
  <2> QED
    BY <2>5, PrefixMeans DEF t
<1> QED
  BY <1>2, <1>3, <1>4

\* Nothing is a prefix of its own beginning.
LEMMA PrefixIsShorter ==
  ASSUME NEW S, NEW p \in Seq(S), NEW i \in S
  PROVE  ~ IsPrefix(Append(p, i), p) /\ Append(p, i) # p /\ IsPrefix(p, p)
<1>1. Len(Append(p, i)) = Len(p) + 1 /\ Len(p) \in Nat
  BY AppendProperties, LenProperties
<1> QED
  BY <1>1 DEF IsPrefix

\* Prefixes of prefixes.
LEMMA PrefixTransitive ==
  ASSUME NEW S, NEW p \in Seq(S), NEW q \in Seq(S), NEW r \in Seq(S), IsPrefix(p, q), IsPrefix(q, r)
  PROVE  IsPrefix(p, r)
<1>1. PICK a \in Seq(S) : q = p \o a
  BY PrefixMeans
<1>2. PICK b \in Seq(S) : r = q \o b
  BY PrefixMeans
<1>3. r = p \o (a \o b) /\ a \o b \in Seq(S)
  BY <1>1, <1>2, ConcatAssociative, ConcatProperties
<1> QED
  BY <1>3, PrefixMeans

\* Of two beginnings of a sequence one is a beginning of the other.
LEMMA PrefixesNest ==
  ASSUME NEW S, NEW p \in Seq(S), NEW q \in Seq(S), NEW r \in Seq(S), IsPrefix(p, r), IsPrefix(q, r)
  PROVE  IsPrefix(p, q) \/ IsPrefix(q, p)
<1> DEFINE P == { s \in Seq(S) : IsPrefix(p, s) /\ IsPrefix(q, s) => IsPrefix(p, q) \/ IsPrefix(q, p) }
<1>1. << >> \in P
  <2>1. ASSUME IsPrefix(p, << >>) PROVE p = << >>
    <3>1. Len(p) = 0
      BY <2>1, LenProperties DEF IsPrefix
    <3> QED
      BY <3>1, EmptySeq
  <2>2. << >> \in Seq(S)
    BY EmptySeq
  <2> QED
    BY <2>1, <2>2
<1>2. ASSUME NEW s \in Seq(S), NEW i \in S, s \in P
      PROVE  Append(s, i) \in P
  <2>1. Append(s, i) \in Seq(S)
    BY AppendProperties
  <2>2. /\ IsPrefix(p, Append(s, i)) <=> IsPrefix(p, s) \/ p = Append(s, i)
        /\ IsPrefix(q, Append(s, i)) <=> IsPrefix(q, s) \/ q = Append(s, i)
    BY PrefixOfAppend
  <2> QED
    BY <1>2, <2>1, <2>2
<1> HIDE DEF P
<1>3. r \in P
  BY <1>1, <1>2, SequenceInduction
<1> QED
  BY <1>3 DEF P

\* A prefix both ways is the sequence.
LEMMA PrefixAntisymmetric ==
  ASSUME NEW S, NEW p \in Seq(S), NEW q \in Seq(S), IsPrefix(p, q), IsPrefix(q, p)
  PROVE  p = q
<1>1. SubSeq(p, 1, Len(p)) = p /\ SubSeq(q, 1, Len(q)) = q /\ Len(p) \in Nat /\ Len(q) \in Nat
  BY SubSeqFull, LenProperties
<1>2. Len(p) <= Len(q) /\ Len(q) <= Len(p)
  BY DEF IsPrefix
<1>3. Len(p) = Len(q)
  <2>1. Len(p) \in Nat /\ Len(q) \in Nat
    BY LenProperties
  <2> QED
    BY <1>2, <2>1
<1> QED
  BY <1>1, <1>3 DEF IsPrefix

-----------------------------------------------------------------------------
(* Branches of functions over paths.                                       *)

\* The paths of a function are sequences.
OverPaths(m) == m = [ s \in DOMAIN m |-> m[s] ] /\ DOMAIN m \subseteq Seq(Key)

\* Two functions that have the same value on each path are the same.
LEMMA PathsEqual ==
  ASSUME NEW m, NEW n, OverPaths(m), OverPaths(n),
         \A s \in Seq(Key) : (s \in DOMAIN m <=> s \in DOMAIN n) /\ (s \in DOMAIN m => m[s] = n[s])
  PROVE  m = n
<1>1. DOMAIN m = DOMAIN n
  BY DEF OverPaths
<1>2. \A s \in DOMAIN m : m[s] = n[s]
  BY DEF OverPaths
<1> QED
  BY <1>1, <1>2 DEF OverPaths

\* A branch.
LEMMA GetIs ==
  ASSUME NEW m, OverPaths(m), NEW p \in Seq(Key)
  PROVE  LET b == Values!Get(m, p) IN
         /\ OverPaths(b)
         /\ \A s \in Seq(Key) : /\ s \in DOMAIN b <=> p \o s \in DOMAIN m
                                /\ s \in DOMAIN b => b[s] = m[p \o s]
<1> DEFINE D == { Values!Behind(q, p) : q \in Values!Below(m, p) }
<1>1. ASSUME NEW s \in Seq(Key), p \o s \in DOMAIN m
      PROVE  s \in D
  <2>1. IsPrefix(p, p \o s) /\ Values!Behind(p \o s, p) = s
    <3>1. p \o s \in Seq(Key)
      BY ConcatProperties
    <3> QED
      BY <3>1, PrefixMeans, BehindIs
  <2>2. p \o s \in Values!Below(m, p)
    BY <1>1, <2>1, SamePrefix DEF Values!Below
  <2> QED
    BY <2>1, <2>2
<1>2. ASSUME NEW s \in D
      PROVE  s \in Seq(Key) /\ p \o s \in DOMAIN m
  <2>1. PICK q \in Values!Below(m, p) : s = Values!Behind(q, p)
    OBVIOUS
  <2>2. q \in DOMAIN m /\ q \in Seq(Key) /\ IsPrefix(p, q)
    BY <2>1, SamePrefix DEF Values!Below, OverPaths
  <2>3. PICK r \in Seq(Key) : q = p \o r
    BY <2>2, PrefixMeans
  <2>4. s = r
    BY <2>1, <2>3, BehindIs
  <2> QED
    BY <2>2, <2>3, <2>4
<1> HIDE DEF D
<1>3. Values!Get(m, p) = [ s \in D |-> m[p \o s] ]
  BY DEF Values!Get, D
<1> DEFINE b == Values!Get(m, p)
<1>4. DOMAIN b = D /\ \A s \in D : b[s] = m[p \o s]
  BY <1>3
<1>5. b = [ s \in DOMAIN b |-> b[s] ]
  BY <1>3, <1>4
<1> HIDE DEF b
<1>6. OverPaths(b)
  BY <1>2, <1>4, <1>5 DEF OverPaths
<1>7. \A s \in Seq(Key) : (s \in DOMAIN b <=> p \o s \in DOMAIN m) /\ (s \in DOMAIN b => b[s] = m[p \o s])
  BY <1>1, <1>2, <1>4
<1> QED
  BY <1>6, <1>7 DEF b

\* A branch that is set.
LEMMA SetIs ==
  ASSUME NEW m, OverPaths(m), NEW p \in Seq(Key), NEW v, OverPaths(v)
  PROVE  LET n == Values!Set(m, p, v) IN
         /\ OverPaths(n)
         /\ \A s \in Seq(Key) : /\ p \o s \in DOMAIN n <=> s \in DOMAIN v
                                /\ s \in DOMAIN v => n[p \o s] = v[s]
         /\ \A q \in Seq(Key) : ~ IsPrefix(p, q) =>
              /\ q \in DOMAIN n <=> q \in DOMAIN m
              /\ q \in DOMAIN n => n[q] = m[q]
<1> DEFINE D == (DOMAIN m \ Values!Below(m, p)) \cup { p \o s : s \in DOMAIN v }
           n == Values!Set(m, p, v)
<1>1. n = [ q \in D |-> IF IsPrefix(p, q) THEN v[Values!Behind(q, p)] ELSE m[q] ]
  BY SamePrefix DEF Values!Set
<1>2. ASSUME NEW s \in Seq(Key)
      PROVE  /\ p \o s \in Seq(Key) /\ IsPrefix(p, p \o s) /\ Values!Behind(p \o s, p) = s
             /\ p \o s \in D <=> s \in DOMAIN v
  <2>1. p \o s \in Seq(Key)
    BY ConcatProperties
  <2>2. IsPrefix(p, p \o s) /\ Values!Behind(p \o s, p) = s
    BY <2>1, PrefixMeans, BehindIs
  <2>3. ASSUME p \o s \in D PROVE s \in DOMAIN v
    <3>1. p \o s \notin DOMAIN m \ Values!Below(m, p)
      BY <2>2, SamePrefix DEF Values!Below
    <3>2. PICK r \in DOMAIN v : p \o s = p \o r
      BY <2>3, <3>1
    <3>3. r \in Seq(Key)
      BY DEF OverPaths
    <3>4. r = s
      BY <3>2, <3>3, ConcatSimplifications
    <3> QED
      BY <3>4
  <2> QED
    BY <2>1, <2>2, <2>3
<1>3. ASSUME NEW q \in Seq(Key), ~ IsPrefix(p, q)
      PROVE  q \in D <=> q \in DOMAIN m
  <2>1. ASSUME q \in { p \o s : s \in DOMAIN v } PROVE FALSE
    <3>1. PICK s \in DOMAIN v : q = p \o s
      BY <2>1
    <3>2. s \in Seq(Key)
      BY DEF OverPaths
    <3> QED
      BY <1>2, <1>3, <3>1, <3>2
  <2> QED
    BY <1>3, <2>1, SamePrefix DEF Values!Below
<1>4. D \subseteq Seq(Key)
  BY <1>2 DEF OverPaths
<1> HIDE DEF D, n
<1>5. DOMAIN n = D /\ \A q \in D : n[q] = IF IsPrefix(p, q) THEN v[Values!Behind(q, p)] ELSE m[q]
  BY <1>1
<1>6. n = [ q \in DOMAIN n |-> n[q] ]
  BY <1>1, <1>5
<1>7. OverPaths(n)
  BY <1>4, <1>5, <1>6 DEF OverPaths
<1>8. \A s \in Seq(Key) : (p \o s \in DOMAIN n <=> s \in DOMAIN v) /\ (s \in DOMAIN v => n[p \o s] = v[s])
  BY <1>2, <1>5
<1>9. \A q \in Seq(Key) : ~ IsPrefix(p, q) =>
        (q \in DOMAIN n <=> q \in DOMAIN m) /\ (q \in DOMAIN n => n[q] = m[q])
  BY <1>3, <1>5
<1> QED
  BY <1>7, <1>8, <1>9 DEF n

-----------------------------------------------------------------------------
(* Unfoldings.                                                             *)

\* The frame, as if a JVar owned it.
Root == [type |-> "frame", raw |-> Frame]
Opens(u) == u.type \in Owning \cup { "frame" }

\* The heap h unfolds from v into the JVars m: one on each path, first v itself.
Unfolds(h, v, m) ==
  /\ OverPaths(m) /\ << >> \in DOMAIN m /\ m[<< >>] = v
  /\ \A s \in Seq(Key), i \in Key :
       /\ Append(s, i) \in DOMAIN m <=>
            s \in DOMAIN m /\ Opens(m[s]) /\ i \in DOMAIN h[m[s].raw].slots
       /\ Append(s, i) \in DOMAIN m => m[Append(s, i)] = h[m[s].raw].slots[i]

\* The tree that an unfolding shows.
Shown(h, u) == IF u.type = "frame" THEN [type |-> "frame", datum |-> NoDatum] ELSE Held(h, u)
Tree(h, m) == [ s \in DOMAIN m |-> Shown(h, m[s]) ]

\* Heaps unfold from the frame, and from JVars that fit.
Grounded(h, v) == v = Root \/ Holds(h, v)

\* No JVar has the tag of the frame.
LEMMA NoneIsFrame ==
  ASSUME NEW h, NEW u, Holds(h, u)
  PROVE  u.type # "frame" /\ u # Root /\ (Opens(u) <=> u.type \in Owning)
<1>1. u.type \in { "null" } \cup { "integer", "real", "boolean" } \cup Owning
  BY JVarTags DEF Holds, JVars, Type
<1> QED
  BY <1>1 DEF Owning, Opens, Root

\* A JVar on a path but the first lies in a slot of what the one before it opens.
LEMMA LabelBefore ==
  ASSUME NEW h, NEW v, NEW m, Unfolds(h, v, m), NEW s \in DOMAIN m, s # << >>
  PROVE  \E r \in DOMAIN m, i \in Key :
           /\ s = Append(r, i) /\ r \in Seq(Key) /\ Opens(m[r])
           /\ i \in DOMAIN h[m[r].raw].slots /\ m[s] = h[m[r].raw].slots[i]
<1>1. s \in Seq(Key)
  BY DEF Unfolds, OverPaths
<1>2. PICK r \in Seq(Key), i \in Key : s = Append(r, i)
  BY <1>1, SequenceEmptyOrAppend
<1> QED
  BY <1>2 DEF Unfolds

\* All of them fit.
LEMMA LabelsHold ==
  ASSUME NEW h, Typed(h), NEW v, Grounded(h, v), NEW m, Unfolds(h, v, m), NEW s \in DOMAIN m
  PROVE  /\ Grounded(h, m[s]) /\ (s # << >> => Holds(h, m[s]))
         /\ Opens(m[s]) => m[s].raw \in DOMAIN h
<1> DEFINE P == { r \in Seq(Key) : r \in DOMAIN m =>
                    /\ Grounded(h, m[r]) /\ (r # << >> => Holds(h, m[r]))
                    /\ Opens(m[r]) => m[r].raw \in DOMAIN h }
<1>1. ASSUME NEW u, Grounded(h, u), Opens(u)
      PROVE  u.raw \in DOMAIN h
  <2>1. CASE u = Root
    BY <2>1 DEF Root, Typed
  <2>2. CASE Holds(h, u)
    BY <1>1, <2>2, NoneIsFrame DEF Holds
  <2> QED
    BY <1>1, <2>1, <2>2 DEF Grounded
<1>2. << >> \in P
  <2>1. << >> \in Seq(Key)
    BY EmptySeq
  <2>2. Grounded(h, m[<< >>])
    BY DEF Unfolds
  <2> QED
    BY <1>1, <2>1, <2>2
<1>3. ASSUME NEW r \in Seq(Key), NEW i \in Key, r \in P
      PROVE  Append(r, i) \in P
  <2> SUFFICES ASSUME Append(r, i) \in DOMAIN m
               PROVE  Holds(h, m[Append(r, i)])
    BY <1>1, AppendProperties DEF Grounded
  <2>1. /\ r \in DOMAIN m /\ Opens(m[r]) /\ i \in DOMAIN h[m[r].raw].slots
        /\ m[Append(r, i)] = h[m[r].raw].slots[i]
    BY DEF Unfolds
  <2>2. m[r].raw \in DOMAIN h
    BY <1>3, <2>1
  <2> QED
    BY <2>1, <2>2 DEF Typed
<1> HIDE DEF P
<1>4. s \in P
  <2>1. s \in Seq(Key)
    BY DEF Unfolds, OverPaths
  <2> QED
    BY <1>2, <1>3, <2>1, SequenceInduction
<1> QED
  BY <1>4 DEF P

\* A heap unfolds from a JVar in one way.
LEMMA UnfoldsOnce ==
  ASSUME NEW h, NEW v, NEW m, Unfolds(h, v, m), NEW n, Unfolds(h, v, n)
  PROVE  m = n
<1> DEFINE P == { s \in Seq(Key) : (s \in DOMAIN m <=> s \in DOMAIN n) /\ (s \in DOMAIN m => m[s] = n[s]) }
<1>1. << >> \in P
  BY EmptySeq DEF Unfolds
<1>2. ASSUME NEW s \in Seq(Key), NEW i \in Key, s \in P
      PROVE  Append(s, i) \in P
  <2>1. Append(s, i) \in Seq(Key)
    BY AppendProperties
  <2>2. /\ Append(s, i) \in DOMAIN m <=> s \in DOMAIN m /\ Opens(m[s]) /\ i \in DOMAIN h[m[s].raw].slots
        /\ Append(s, i) \in DOMAIN m => m[Append(s, i)] = h[m[s].raw].slots[i]
        /\ Append(s, i) \in DOMAIN n <=> s \in DOMAIN n /\ Opens(n[s]) /\ i \in DOMAIN h[n[s].raw].slots
        /\ Append(s, i) \in DOMAIN n => n[Append(s, i)] = h[n[s].raw].slots[i]
    BY DEF Unfolds
  <2>3. (s \in DOMAIN m <=> s \in DOMAIN n) /\ (s \in DOMAIN m => m[s] = n[s])
    BY <1>2
  <2>4. (Append(s, i) \in DOMAIN m <=> Append(s, i) \in DOMAIN n)
        /\ (Append(s, i) \in DOMAIN m => m[Append(s, i)] = n[Append(s, i)])
    BY <2>2, <2>3
  <2> QED
    BY <2>1, <2>4
<1> HIDE DEF P
<1>3. Seq(Key) \subseteq P
  BY <1>1, <1>2, SequenceInduction
<1>4. \A s \in Seq(Key) : (s \in DOMAIN m <=> s \in DOMAIN n) /\ (s \in DOMAIN m => m[s] = n[s])
  BY <1>3 DEF P
<1> QED
  BY <1>4, PathsEqual DEF Unfolds

\* No object is opened on two paths, whether from the frame or from the JVar that floats.
LEMMA LabelsApart ==
  ASSUME NEW h, NEW v, Sound(h, v),
         NEW a \in { Root, v }, NEW m, Unfolds(h, a, m), NEW s \in DOMAIN m, Opens(m[s]),
         NEW b \in { Root, v }, NEW n, Unfolds(h, b, n), NEW q \in DOMAIN n, Opens(n[q]),
         m[s].raw = n[q].raw
  PROVE  s = q /\ a = b
<1> DEFINE P == { r \in Seq(Key) : r \in DOMAIN m /\ Opens(m[r]) =>
                    \A k \in DOMAIN n : Opens(n[k]) /\ m[r].raw = n[k].raw => r = k /\ a = b }
<1>1. /\ Grounded(h, a) /\ Grounded(h, b) /\ Typed(h) /\ Holds(h, v)
      /\ m[<< >>] = a /\ n[<< >>] = b /\ << >> \in DOMAIN m /\ << >> \in DOMAIN n
      /\ DOMAIN m \subseteq Seq(Key) /\ DOMAIN n \subseteq Seq(Key)
  BY DEF Grounded, Sound, Unfolds, OverPaths
<1>2. ASSUME NEW c, Holds(h, c), Opens(c)
      PROVE  Owns(c, c.raw) /\ c.raw # Frame /\ c # Root
  <2>1. c # Root /\ c.type \in Owning
    BY <1>2, NoneIsFrame
  <2>2. Owns(c, c.raw)
    BY <2>1 DEF Owns
  <2> QED
    BY <1>1, <1>2, <2>1, <2>2, FrameIsFree
<1>3. ASSUME NEW c \in { Root, v }, NEW x \in DOMAIN h, NEW i \in DOMAIN h[x].slots,
             Opens(c), Opens(h[x].slots[i]), c.raw = h[x].slots[i].raw
      PROVE  FALSE
  <2>1. Holds(h, h[x].slots[i])
    BY <1>1 DEF Typed
  <2>2. Owns(h[x].slots[i], c.raw) /\ c.raw # Frame
    BY <1>2, <1>3, <2>1
  <2>3. c # Root
    BY <2>2 DEF Root
  <2>4. c = v /\ Owns(v, v.raw)
    BY <1>1, <1>2, <1>3, <2>3
  <2> QED
    BY <2>2, <2>4 DEF Sound, Single, Owns
<1>4. ASSUME Opens(a), Opens(b), a.raw = b.raw
      PROVE  a = b
  <2>1. ASSUME Opens(v), v # Root PROVE v.raw # Frame
    BY <1>1, <1>2, <2>1
  <2> QED
    BY <1>4, <2>1 DEF Root
<1>5. << >> \in P
  <2> SUFFICES ASSUME Opens(m[<< >>]), NEW k \in DOMAIN n, Opens(n[k]), m[<< >>].raw = n[k].raw
               PROVE  << >> = k /\ a = b
    BY EmptySeq
  <2>1. CASE k = << >>
    BY <1>1, <1>4, <2>1
  <2>2. CASE k # << >>
    <3>1. PICK r \in DOMAIN n, i \in Key :
            /\ k = Append(r, i) /\ r \in Seq(Key) /\ Opens(n[r])
            /\ i \in DOMAIN h[n[r].raw].slots /\ n[k] = h[n[r].raw].slots[i]
      BY <2>2, LabelBefore
    <3>2. n[r].raw \in DOMAIN h
      BY <1>1, <3>1, LabelsHold
    <3> QED
      BY <1>1, <1>3, <3>1, <3>2
  <2> QED
    BY <2>1, <2>2
<1>6. ASSUME NEW r \in Seq(Key), NEW i \in Key, r \in P
      PROVE  Append(r, i) \in P
  <2> DEFINE t == Append(r, i)
  <2>0. t \in Seq(Key) /\ t # << >>
    BY AppendProperties
  <2> SUFFICES ASSUME t \in DOMAIN m, Opens(m[t]), NEW k \in DOMAIN n, Opens(n[k]), m[t].raw = n[k].raw
               PROVE  t = k /\ a = b
    BY <2>0
  <2>1. /\ r \in DOMAIN m /\ Opens(m[r]) /\ i \in DOMAIN h[m[r].raw].slots
        /\ m[t] = h[m[r].raw].slots[i]
    BY DEF Unfolds
  <2>2. m[r].raw \in DOMAIN h
    BY <1>1, <2>1, LabelsHold
  <2>3. k # << >>
    <3>1. ASSUME k = << >> PROVE FALSE
      BY <1>1, <1>3, <2>1, <2>2, <3>1
    <3> QED
      BY <3>1
  <2>4. PICK l \in DOMAIN n, j \in Key :
          /\ k = Append(l, j) /\ l \in Seq(Key) /\ Opens(n[l])
          /\ j \in DOMAIN h[n[l].raw].slots /\ n[k] = h[n[l].raw].slots[j]
    BY <2>3, LabelBefore
  <2>5. n[l].raw \in DOMAIN h
    BY <1>1, <2>4, LabelsHold
  <2>6. Owns(m[t], m[t].raw) /\ Owns(n[k], m[t].raw)
    <3>1. Holds(h, m[t]) /\ Holds(h, n[k])
      BY <1>1, <2>1, <2>2, <2>4, <2>5 DEF Typed
    <3> QED
      BY <1>2, <3>1
  <2>7. m[r].raw = n[l].raw /\ i = j
    <3> DEFINE x == m[r].raw
               y == n[l].raw
               o == m[t].raw
    <3>1. /\ Owns(h[x].slots[i], o) /\ x \in DOMAIN h /\ i \in DOMAIN h[x].slots
          /\ Owns(h[y].slots[j], o) /\ y \in DOMAIN h /\ j \in DOMAIN h[y].slots
      BY <2>1, <2>2, <2>4, <2>5, <2>6
    <3> HIDE DEF t, x, y, o
    <3>2. x = y /\ i = j
      BY <3>1, OwnersAreOne
    <3> QED
      BY <3>2 DEF x, y
  <2> QED
    BY <1>6, <2>1, <2>4, <2>7
<1> HIDE DEF P
<1>7. s \in P
  BY <1>1, <1>5, <1>6, SequenceInduction
<1> QED
  BY <1>7 DEF P

\* No path is longer than there are objects, since it goes through each at most once.
LEMMA PathsAreShort ==
  ASSUME NEW h, Sound(h, Null), NEW p, NEW g, Leads(h, p, g)
  PROVE  Len(p) \in 1 .. Cardinality(DOMAIN h)
<1>1. Len(p) \in Nat \ { 0 } /\ g \in [0 .. Len(p) - 1 -> DOMAIN h]
  BY DEF Leads
<1>2. IsFiniteSet(DOMAIN h) /\ Cardinality(DOMAIN h) \in Nat
  BY HeapIsFinite DEF Sound
<1>3. \A a, b \in 0 .. Len(p) - 1 : g[a] = g[b] => a = b
  BY PathsMeet
<1>4. g \in Injection(0 .. Len(p) - 1, DOMAIN h)
  BY <1>1, <1>3 DEF Injection, IsInjective
<1>5. IsFiniteSet(0 .. Len(p) - 1) /\ Cardinality(0 .. Len(p) - 1) = (Len(p) - 1) - 0 + 1
  BY <1>1, FS_Interval
<1>6. Cardinality(0 .. Len(p) - 1) <= Cardinality(DOMAIN h)
  BY <1>2, <1>4, FS_Injection
<1> QED
  BY <1>1, <1>2, <1>5, <1>6

\* A path without steps ends in the frame.
LEMMA NoPathIsFrame ==
  ASSUME NEW h
  PROVE  ObjectAt(h, << >>) = Frame
<1> DEFINE p == << >>
           Down[n \in 0 .. Len(p)] == IF n = 0 THEN Frame ELSE h[Down[n - 1]].slots[p[n]].raw
           f == [ n \in 0 .. 0 |-> Frame ]
<1>1. Len(p) = 0
  OBVIOUS
<1>2. \A n \in 0 .. 0 : n = 0
  OBVIOUS
<1>3. f = [ n \in 0 .. Len(p) |-> IF n = 0 THEN Frame ELSE h[f[n - 1]].slots[p[n]].raw ]
  BY <1>1, <1>2
<1> HIDE DEF f
<1>4. Down = [ n \in 0 .. Len(p) |-> IF n = 0 THEN Frame ELSE h[Down[n - 1]].slots[p[n]].raw ]
  BY <1>3
<1> HIDE DEF Down
<1>5. 0 \in 0 .. Len(p)
  BY <1>1
<1>6. Down[Len(p)] = Frame
  BY <1>1, <1>4, <1>5
<1> QED
  BY <1>6 DEF ObjectAt, Down

\* What the heap holds on its paths.
Unfolding(h) ==
  [ p \in { << >> } \cup Paths(h, Cardinality(DOMAIN h)) |->
      IF p = << >> THEN Root ELSE At(h, Slot(h, p)) ]

\* The paths of the heap, with what they lead to.
LEMMA UnfoldingIs ==
  ASSUME NEW h, Sound(h, Null)
  PROVE  /\ OverPaths(Unfolding(h))
         /\ << >> \in DOMAIN Unfolding(h) /\ Unfolding(h)[<< >>] = Root
         /\ \A p : p # << >> => /\ p \in DOMAIN Unfolding(h) <=> \E g : Leads(h, p, g)
                                /\ p \in DOMAIN Unfolding(h) => Unfolding(h)[p] = At(h, Slot(h, p))
<1> DEFINE m == Unfolding(h)
           max == Cardinality(DOMAIN h)
           D == { << >> } \cup Paths(h, max)
<1>1. max \in Nat
  BY HeapIsFinite DEF Sound
<1>2. Paths(h, max) = { p \in Seq(Key) : Len(p) \in 1 .. max /\ \E g : Leads(h, p, g) }
  <2> HIDE DEF max
  <2> QED
    BY <1>1, PathsAre
<1>3. m = [ p \in D |-> IF p = << >> THEN Root ELSE At(h, Slot(h, p)) ]
  BY DEF Unfolding
<1>4. \A p : p \in Paths(h, max) <=> \E g : Leads(h, p, g)
  <2>1. \A p, g : Leads(h, p, g) => p \in Seq(Key) /\ Len(p) \in 1 .. max
    BY PathsAreShort DEF Leads
  <2> HIDE DEF max
  <2> QED
    BY <1>2, <2>1
<1>5. D \subseteq Seq(Key)
  BY <1>2, EmptySeq
<1> HIDE DEF m, max
<1>6. DOMAIN m = D /\ << >> \in D /\ m[<< >>] = Root
      /\ \A p \in D : p # << >> => m[p] = At(h, Slot(h, p))
  BY <1>3
<1>7. m = [ p \in DOMAIN m |-> m[p] ]
  BY <1>3, <1>6
<1>8. \A p : p # << >> => (p \in D <=> \E g : Leads(h, p, g))
  BY <1>4
<1> QED
  BY <1>5, <1>6, <1>7, <1>8 DEF OverPaths, m

\* The heap unfolds from the frame into that.
LEMMA HeapUnfolds ==
  ASSUME NEW h, Sound(h, Null)
  PROVE  /\ Unfolds(h, Root, Unfolding(h))
         /\ TreeOf(h) = Tree(h, Unfolding(h))
<1> DEFINE m == Unfolding(h)
<1>1. /\ OverPaths(m) /\ << >> \in DOMAIN m /\ m[<< >>] = Root
      /\ \A p : p # << >> => /\ p \in DOMAIN m <=> \E g : Leads(h, p, g)
                             /\ p \in DOMAIN m => m[p] = At(h, Slot(h, p))
  BY UnfoldingIs
<1> HIDE DEF m
<1>2. ASSUME NEW s \in Seq(Key), NEW i \in Key
      PROVE  /\ Append(s, i) \in DOMAIN m <=>
                  s \in DOMAIN m /\ Opens(m[s]) /\ i \in DOMAIN h[m[s].raw].slots
             /\ Append(s, i) \in DOMAIN m => m[Append(s, i)] = h[m[s].raw].slots[i]
  <2> DEFINE q == Append(s, i)
  <2>1. q \in Seq(Key) /\ q # << >> /\ Front(q) = s /\ Last(q) = i /\ Len(q) = Len(s) + 1
    BY AppendProperties, FrontOfAppend, LastOfAppend
  <2> HIDE DEF q
  <2>2. CASE s = << >>
    <3>1. m[s] = Root /\ Opens(m[s]) /\ m[s].raw = Frame /\ s \in DOMAIN m
      BY <1>1, <2>2 DEF Root, Opens
    <3>2. ASSUME NEW g, Leads(h, q, g) PROVE i \in DOMAIN h[Frame].slots
      <4>1. Len(q) = 1
        BY <2>1, <2>2
      <4>2. q[1] = i
        BY <2>1, <4>1, FrontProperties
      <4>3. 1 \in 1 .. Len(q) /\ 1 - 1 = 0
        BY <4>1
      <4> QED
        BY <3>2, <4>2, <4>3 DEF Leads
    <3>3. ASSUME i \in DOMAIN h[Frame].slots PROVE \E g : Leads(h, q, g)
      BY <2>2, <3>3, VariableLeads DEF q, Sound
    <3>4. At(h, Slot(h, q)) = h[ObjectAt(h, s)].slots[i]
      BY <2>1 DEF At, Slot
    <3>5. ObjectAt(h, s) = Frame
      BY <2>2, NoPathIsFrame
    <3> QED
      BY <1>1, <2>1, <3>1, <3>2, <3>3, <3>4, <3>5 DEF q
  <2>3. CASE s # << >>
    <3>1. Len(q) > 1
      BY <2>1, <2>3, EmptySeq, LenProperties
    <3>2. ASSUME NEW g, Leads(h, q, g)
          PROVE  /\ \E f : Leads(h, s, f)
                 /\ At(h, Slot(h, s)).type \in Owning /\ i \in DOMAIN h[ObjectAt(h, s)].slots
      BY <2>1, <3>1, <3>2, PathGoesBack DEF Owning
    <3>3. ASSUME NEW f, Leads(h, s, f), At(h, Slot(h, s)).type \in Owning,
                 i \in DOMAIN h[ObjectAt(h, s)].slots
          PROVE  \E g : Leads(h, q, g)
      BY <3>3, PathGoesOn DEF q
    <3>4. ASSUME NEW f, Leads(h, s, f)
          PROVE  /\ ObjectAt(h, s) = At(h, Slot(h, s)).raw
                 /\ Opens(At(h, Slot(h, s))) <=> At(h, Slot(h, s)).type \in Owning
      <4>1. ObjectAt(h, s) = At(h, Slot(h, s)).raw
        BY <3>4, SlotIs
      <4>2. Holds(h, At(h, Slot(h, s)))
        <5>1. /\ At(h, Slot(h, s)) = h[f[Len(s) - 1]].slots[s[Len(s)]]
              /\ f[Len(s) - 1] \in DOMAIN h /\ s[Len(s)] \in DOMAIN h[f[Len(s) - 1]].slots
          BY <3>4, SlotIs
        <5> QED
          BY <5>1 DEF Sound, Typed
      <4> QED
        BY <4>1, <4>2, NoneIsFrame
    <3>5. At(h, Slot(h, q)) = h[ObjectAt(h, s)].slots[i]
      BY <2>1 DEF At, Slot
    <3>6. s \in DOMAIN m => m[s] = At(h, Slot(h, s))
      BY <1>1, <2>3
    <3>7. (s \in DOMAIN m <=> \E f : Leads(h, s, f)) /\ (q \in DOMAIN m <=> \E g : Leads(h, q, g))
      BY <1>1, <2>1, <2>3
    <3>8. q \in DOMAIN m <=> s \in DOMAIN m /\ Opens(m[s]) /\ i \in DOMAIN h[m[s].raw].slots
      BY <3>2, <3>3, <3>4, <3>6, <3>7
    <3>9. q \in DOMAIN m => m[q] = h[m[s].raw].slots[i]
      BY <1>1, <2>1, <3>2, <3>4, <3>5, <3>6, <3>7
    <3> QED
      BY <3>8, <3>9 DEF q
  <2> QED
    BY <2>2, <2>3
<1>3. Unfolds(h, Root, m)
  BY <1>1, <1>2 DEF Unfolds
<1>4. TreeOf(h) = Tree(h, m)
  <2>1. DOMAIN m = { << >> } \cup Paths(h, Cardinality(DOMAIN h))
    BY DEF m, Unfolding
  <2>2. ASSUME NEW p \in DOMAIN m
        PROVE  Shown(h, m[p]) = IF p = << >> THEN [type |-> "frame", datum |-> NoDatum]
                                ELSE Held(h, At(h, Slot(h, p)))
    <3>1. CASE p = << >>
      BY <1>1, <3>1 DEF Shown, Root
    <3>2. CASE p # << >>
      <4>1. Holds(h, m[p])
        BY <1>3, <3>2, LabelsHold DEF Sound, Grounded
      <4> QED
        BY <1>1, <3>2, <4>1, NoneIsFrame DEF Shown
    <3> QED
      BY <3>1, <3>2
  <2> QED
    BY <2>1, <2>2 DEF TreeOf, Tree
<1> QED
  BY <1>3, <1>4 DEF m

\* So the tree of a heap is what any unfolding from the frame shows.
LEMMA TreeIs ==
  ASSUME NEW h, Sound(h, Null), NEW m, Unfolds(h, Root, m)
  PROVE  m = Unfolding(h) /\ TreeOf(h) = Tree(h, m)
BY HeapUnfolds, UnfoldsOnce

\* A path leads to the slot its last step names, in what the steps before it lead to.
LEMMA PathUnfolds ==
  ASSUME NEW h, Sound(h, Null), NEW m, Unfolds(h, Root, m), NEW p, NEW g, Leads(h, p, g)
  PROVE  /\ p \in DOMAIN m /\ p \in Seq(Key) /\ p # << >> /\ m[p] = At(h, Slot(h, p))
         /\ ObjectAt(h, p) = m[p].raw
         /\ \E r \in DOMAIN m, i \in Key :
              /\ p = Append(r, i) /\ r \in Seq(Key) /\ Opens(m[r]) /\ Slot(h, p) = << m[r].raw, i >>
              /\ m[r].raw \in DOMAIN h /\ i \in DOMAIN h[m[r].raw].slots
<1>1. m = Unfolding(h)
  BY TreeIs
<1>2. p # << >> /\ p \in Seq(Key)
  <2>1. Len(<< >>) = 0
    OBVIOUS
  <2> QED
    BY <2>1 DEF Leads
<1>3. p \in DOMAIN m /\ m[p] = At(h, Slot(h, p))
  BY <1>1, <1>2, UnfoldingIs
<1>4. ObjectAt(h, p) = m[p].raw
  BY <1>3, SlotIs
<1>5. PICK r \in DOMAIN m, i \in Key :
        /\ p = Append(r, i) /\ r \in Seq(Key) /\ Opens(m[r])
        /\ i \in DOMAIN h[m[r].raw].slots /\ m[p] = h[m[r].raw].slots[i]
  BY <1>2, <1>3, LabelBefore
<1>6. m[r].raw \in DOMAIN h
  BY <1>5, LabelsHold DEF Sound, Grounded
<1>7. Front(p) = r /\ Last(p) = i
  BY <1>5, FrontOfAppend, LastOfAppend
<1>8. ObjectAt(h, r) = m[r].raw
  <2>1. CASE r = << >>
    BY <2>1, NoPathIsFrame DEF Unfolds, Root
  <2>2. CASE r # << >>
    <3>1. m[r] = At(h, Slot(h, r)) /\ \E f : Leads(h, r, f)
      BY <1>1, <2>2, UnfoldingIs
    <3> QED
      BY <3>1, SlotIs
  <2> QED
    BY <2>1, <2>2
<1> QED
  BY <1>2, <1>3, <1>4, <1>5, <1>6, <1>7, <1>8 DEF Slot

-----------------------------------------------------------------------------
(* What unfoldings show.                                                   *)

\* The object o has the same contents in both heaps.
SameObject(h, g, o) ==
  /\ g[o].datum = h[o].datum /\ DOMAIN g[o].slots = DOMAIN h[o].slots
  /\ \A i \in DOMAIN h[o].slots : g[o].slots[i] = h[o].slots[i]

\* What a JVar shows does not change when the datum of its object does not.
LEMMA ShownKept ==
  ASSUME NEW h, NEW g, NEW u, u.type \in Owning => g[u.raw].datum = h[u.raw].datum
  PROVE  Shown(g, u) = Shown(h, u)
BY DEF Shown, Held

\* An unfolding stays when the objects it opens do.
LEMMA UnfoldingStays ==
  ASSUME NEW h, NEW v, NEW m, Unfolds(h, v, m), NEW g,
         \A s \in DOMAIN m : Opens(m[s]) => SameObject(h, g, m[s].raw)
  PROVE  Unfolds(g, v, m) /\ Tree(g, m) = Tree(h, m)
<1>1. Unfolds(g, v, m)
  <2>1. ASSUME NEW s \in Seq(Key), NEW i \in Key
        PROVE  /\ Append(s, i) \in DOMAIN m <=>
                    s \in DOMAIN m /\ Opens(m[s]) /\ i \in DOMAIN g[m[s].raw].slots
               /\ Append(s, i) \in DOMAIN m => m[Append(s, i)] = g[m[s].raw].slots[i]
    <3>1. /\ Append(s, i) \in DOMAIN m <=>
               s \in DOMAIN m /\ Opens(m[s]) /\ i \in DOMAIN h[m[s].raw].slots
          /\ Append(s, i) \in DOMAIN m => m[Append(s, i)] = h[m[s].raw].slots[i]
      BY DEF Unfolds
    <3> QED
      BY <3>1 DEF SameObject
  <2> QED
    BY <2>1 DEF Unfolds
<1>2. \A s \in DOMAIN m : Shown(g, m[s]) = Shown(h, m[s])
  <2> SUFFICES ASSUME NEW s \in DOMAIN m PROVE Shown(g, m[s]) = Shown(h, m[s])
    OBVIOUS
  <2>1. m[s].type \in Owning => g[m[s].raw].datum = h[m[s].raw].datum
    BY DEF SameObject, Opens
  <2> QED
    BY <2>1, ShownKept
<1> QED
  BY <1>1, <1>2 DEF Tree

\* A tree is over the paths of what it shows.
LEMMA TreeOverPaths ==
  ASSUME NEW h, NEW m, OverPaths(m)
  PROVE  OverPaths(Tree(h, m)) /\ DOMAIN Tree(h, m) = DOMAIN m
BY DEF OverPaths, Tree

\* What an unfolding shows when a branch of it is set.
LEMMA TreeOfSet ==
  ASSUME NEW h, NEW f, NEW g, NEW m, OverPaths(m), NEW p \in Seq(Key), NEW n, OverPaths(n),
         \A q \in DOMAIN m : ~ IsPrefix(p, q) => Shown(g, m[q]) = Shown(h, m[q]),
         \A s \in DOMAIN n : Shown(g, n[s]) = Shown(f, n[s])
  PROVE  Tree(g, Values!Set(m, p, n)) = Values!Set(Tree(h, m), p, Tree(f, n))
<1> DEFINE a == Values!Set(m, p, n)
           t == Tree(h, m)
           u == Tree(f, n)
           b == Values!Set(t, p, u)
           c == Tree(g, a)
<1>1. /\ OverPaths(a)
      /\ \A s \in Seq(Key) : (p \o s \in DOMAIN a <=> s \in DOMAIN n) /\ (s \in DOMAIN n => a[p \o s] = n[s])
      /\ \A q \in Seq(Key) : ~ IsPrefix(p, q) =>
           (q \in DOMAIN a <=> q \in DOMAIN m) /\ (q \in DOMAIN a => a[q] = m[q])
  BY SetIs
<1>2. /\ OverPaths(t) /\ DOMAIN t = DOMAIN m /\ \A q \in DOMAIN m : t[q] = Shown(h, m[q])
      /\ OverPaths(u) /\ DOMAIN u = DOMAIN n /\ \A s \in DOMAIN n : u[s] = Shown(f, n[s])
  BY TreeOverPaths DEF Tree
<1> HIDE DEF t, u
<1>3. /\ OverPaths(b)
      /\ \A s \in Seq(Key) : (p \o s \in DOMAIN b <=> s \in DOMAIN u) /\ (s \in DOMAIN u => b[p \o s] = u[s])
      /\ \A q \in Seq(Key) : ~ IsPrefix(p, q) =>
           (q \in DOMAIN b <=> q \in DOMAIN t) /\ (q \in DOMAIN b => b[q] = t[q])
  BY <1>2, SetIs
<1> HIDE DEF a, b
<1>4. OverPaths(c) /\ DOMAIN c = DOMAIN a /\ \A q \in DOMAIN a : c[q] = Shown(g, a[q])
  BY <1>1, TreeOverPaths DEF Tree
<1> HIDE DEF c
<1>5. ASSUME NEW q \in Seq(Key)
      PROVE  (q \in DOMAIN c <=> q \in DOMAIN b) /\ (q \in DOMAIN c => c[q] = b[q])
  <2>1. CASE IsPrefix(p, q)
    <3>1. PICK s \in Seq(Key) : q = p \o s
      BY <2>1, PrefixMeans
    <3>2. q \in DOMAIN c <=> s \in DOMAIN n
      BY <1>1, <1>4, <3>1
    <3>3. q \in DOMAIN b <=> s \in DOMAIN n
      BY <1>2, <1>3, <3>1
    <3>4. ASSUME s \in DOMAIN n PROVE c[q] = b[q]
      <4>1. c[q] = Shown(g, n[s])
        BY <1>1, <1>4, <3>1, <3>4
      <4>2. b[q] = Shown(f, n[s])
        BY <1>2, <1>3, <3>1, <3>4
      <4> QED
        BY <3>4, <4>1, <4>2
    <3> QED
      BY <3>2, <3>3, <3>4
  <2>2. CASE ~ IsPrefix(p, q)
    BY <1>1, <1>2, <1>3, <1>4, <2>2
  <2> QED
    BY <2>1, <2>2
<1>6. c = b
  BY <1>3, <1>4, <1>5, PathsEqual
<1> QED
  BY <1>6 DEF a, b, c, t, u

\* What a branch of an unfolding shows.
LEMMA TreeOfGet ==
  ASSUME NEW h, NEW g, NEW m, OverPaths(m), NEW p \in Seq(Key),
         \A q \in DOMAIN m : Shown(g, m[q]) = Shown(h, m[q])
  PROVE  Tree(g, Values!Get(m, p)) = Values!Get(Tree(h, m), p)
<1> DEFINE a == Values!Get(m, p)
           t == Tree(h, m)
           b == Values!Get(t, p)
           c == Tree(g, a)
<1>1. /\ OverPaths(a)
      /\ \A s \in Seq(Key) : (s \in DOMAIN a <=> p \o s \in DOMAIN m) /\ (s \in DOMAIN a => a[s] = m[p \o s])
  BY GetIs
<1>2. OverPaths(t) /\ DOMAIN t = DOMAIN m /\ \A q \in DOMAIN m : t[q] = Shown(h, m[q])
  BY TreeOverPaths DEF Tree
<1> HIDE DEF t
<1>3. /\ OverPaths(b)
      /\ \A s \in Seq(Key) : (s \in DOMAIN b <=> p \o s \in DOMAIN t) /\ (s \in DOMAIN b => b[s] = t[p \o s])
  BY <1>2, GetIs
<1> HIDE DEF a, b
<1>4. OverPaths(c) /\ DOMAIN c = DOMAIN a /\ \A s \in DOMAIN a : c[s] = Shown(g, a[s])
  BY <1>1, TreeOverPaths DEF Tree
<1> HIDE DEF c
<1>5. \A s \in Seq(Key) : (s \in DOMAIN c <=> s \in DOMAIN b) /\ (s \in DOMAIN c => c[s] = b[s])
  BY <1>1, <1>2, <1>3, <1>4
<1>6. c = b
  BY <1>3, <1>4, <1>5, PathsEqual
<1> QED
  BY <1>6 DEF a, b, c, t

-----------------------------------------------------------------------------
(* Changes of a slot.                                                      *)

\* A change shows nowhere but at its slot.
LEMMA ChangeShows ==
  ASSUME NEW h, NEW g, NEW x, NEW i, NEW v, Changed(h, g, x, i, v), NEW o \in DOMAIN h
  PROVE  /\ g[o].datum = h[o].datum
         /\ o # x => SameObject(h, g, o)
BY DEF Changed, SameObject

\* The JVar that floats is put where a path from the frame ends: the branch there becomes
\* what the JVar unfolds into, and the old branch what the old JVar does.
LEMMA SetUnfolds ==
  ASSUME NEW h, NEW v, Sound(h, v), NEW m, Unfolds(h, Root, m), NEW n, Unfolds(h, v, n),
         NEW r \in DOMAIN m, Opens(m[r]), NEW i \in Key, NEW g, Changed(h, g, m[r].raw, i, v)
  PROVE  LET p == Append(r, i) IN
         /\ Unfolds(g, Root, Values!Set(m, p, n))
         /\ Tree(g, Values!Set(m, p, n)) = Values!Set(Tree(h, m), p, Tree(h, n))
         /\ p \in DOMAIN m => /\ Unfolds(g, Old(h, m[r].raw, i), Values!Get(m, p))
                              /\ Tree(g, Values!Get(m, p)) = Values!Get(Tree(h, m), p)
<1> DEFINE x == m[r].raw
           p == Append(r, i)
           a == Values!Set(m, p, n)
           b == Values!Get(m, p)
<1>1. /\ OverPaths(m) /\ << >> \in DOMAIN m /\ m[<< >>] = Root /\ OverPaths(n) /\ << >> \in DOMAIN n
      /\ n[<< >>] = v
      /\ \A s \in Seq(Key), j \in Key :
           /\ Append(s, j) \in DOMAIN m <=> s \in DOMAIN m /\ Opens(m[s]) /\ j \in DOMAIN h[m[s].raw].slots
           /\ Append(s, j) \in DOMAIN m => m[Append(s, j)] = h[m[s].raw].slots[j]
           /\ Append(s, j) \in DOMAIN n <=> s \in DOMAIN n /\ Opens(n[s]) /\ j \in DOMAIN h[n[s].raw].slots
           /\ Append(s, j) \in DOMAIN n => n[Append(s, j)] = h[n[s].raw].slots[j]
  BY DEF Unfolds
<1>2. Typed(h) /\ Grounded(h, Root) /\ Grounded(h, v) /\ v # Root
  BY NoneIsFrame DEF Sound, Grounded
<1>3. /\ r \in Seq(Key) /\ p \in Seq(Key) /\ p # << >> /\ x \in DOMAIN h /\ << >> \in Seq(Key)
      /\ p \o << >> = p
  <2>1. r \in Seq(Key)
    BY <1>1 DEF OverPaths
  <2>2. x \in DOMAIN h
    BY <1>2, LabelsHold
  <2> QED
    BY <2>1, <2>2, AppendProperties, EmptySeq, ConcatEmptySeq
<1> HIDE DEF p
<1>4. ASSUME NEW s \in DOMAIN m, Opens(m[s])
      PROVE  m[s].raw \in DOMAIN h /\ (m[s].raw = x => s = r)
             /\ (s # r => SameObject(h, g, m[s].raw))
  <2>1. m[s].raw \in DOMAIN h
    BY <1>2, <1>4, LabelsHold
  <2>2. m[s].raw = x => s = r
    BY <1>4, LabelsApart
  <2> QED
    BY <2>1, <2>2, ChangeShows
<1>5. ASSUME NEW s \in DOMAIN n, Opens(n[s])
      PROVE  n[s].raw \in DOMAIN h /\ SameObject(h, g, n[s].raw)
  <2>1. n[s].raw \in DOMAIN h
    BY <1>2, <1>5, LabelsHold
  <2>2. n[s].raw # x
    BY <1>2, <1>5, LabelsApart
  <2> QED
    BY <2>1, <2>2, ChangeShows
<1>6. /\ \A q \in DOMAIN m : Shown(g, m[q]) = Shown(h, m[q])
      /\ \A q \in DOMAIN n : Shown(g, n[q]) = Shown(h, n[q])
  <2>1. ASSUME NEW u, Opens(u) => u.raw \in DOMAIN h
        PROVE  Shown(g, u) = Shown(h, u)
    <3>1. u.type \in Owning => g[u.raw].datum = h[u.raw].datum
      BY <2>1, ChangeShows DEF Opens
    <3> QED
      BY <3>1, ShownKept
  <2> QED
    BY <1>4, <1>5, <2>1
<1>7. /\ OverPaths(a)
      /\ \A s \in Seq(Key) : (p \o s \in DOMAIN a <=> s \in DOMAIN n) /\ (s \in DOMAIN n => a[p \o s] = n[s])
      /\ \A q \in Seq(Key) : ~ IsPrefix(p, q) =>
           (q \in DOMAIN a <=> q \in DOMAIN m) /\ (q \in DOMAIN a => a[q] = m[q])
  <2>1. OverPaths(m) /\ OverPaths(n) /\ p \in Seq(Key)
    BY <1>1, <1>3
  <2> QED
    BY <2>1, SetIs
<1>8. ~ IsPrefix(p, r) /\ ~ IsPrefix(p, << >>)
  <2>1. Len(p) = Len(r) + 1 /\ Len(r) \in Nat /\ Len(<< >>) = 0
    BY <1>3, AppendProperties, LenProperties DEF p
  <2>2. ~ IsPrefix(p, r)
    BY <1>3, PrefixIsShorter DEF p
  <2> QED
    BY <2>1, <2>2 DEF IsPrefix
<1>9. /\ DOMAIN g[x].slots = DOMAIN h[x].slots \cup { i } /\ g[x].slots[i] = v
      /\ \A j \in DOMAIN h[x].slots : j # i => g[x].slots[j] = h[x].slots[j]
  BY DEF Changed
<1> HIDE DEF a, x
<1>10. ASSUME NEW s \in Seq(Key), NEW j \in Key
       PROVE  /\ Append(s, j) \in DOMAIN a <=>
                   s \in DOMAIN a /\ Opens(a[s]) /\ j \in DOMAIN g[a[s].raw].slots
              /\ Append(s, j) \in DOMAIN a => a[Append(s, j)] = g[a[s].raw].slots[j]
  <2> DEFINE t == Append(s, j)
  <2>1. t \in Seq(Key) /\ (IsPrefix(p, t) <=> IsPrefix(p, s) \/ p = t)
    BY <1>3, AppendProperties, PrefixOfAppend
  <2>2. CASE IsPrefix(p, s)
    <3>0. p \in Seq(Key)
      BY <1>3
    <3>1. PICK k \in Seq(Key) : s = p \o k
      BY <2>2, <3>0, PrefixMeans
    <3>2. t = p \o Append(k, j) /\ Append(k, j) \in Seq(Key)
      <4>1. p \o Append(k, j) = Append(p \o k, j)
        BY <3>0, ConcatAppend
      <4> QED
        BY <3>1, <4>1, AppendProperties
    <3>3. (s \in DOMAIN a <=> k \in DOMAIN n) /\ (k \in DOMAIN n => a[s] = n[k])
      BY <1>7, <3>1
    <3>4. (t \in DOMAIN a <=> Append(k, j) \in DOMAIN n)
          /\ (Append(k, j) \in DOMAIN n => a[t] = n[Append(k, j)])
      BY <1>7, <3>2
    <3>5. /\ Append(k, j) \in DOMAIN n <=> k \in DOMAIN n /\ Opens(n[k]) /\ j \in DOMAIN h[n[k].raw].slots
          /\ Append(k, j) \in DOMAIN n => n[Append(k, j)] = h[n[k].raw].slots[j]
      BY <1>1
    <3> HIDE DEF t
    <3>6. t \in DOMAIN a <=> s \in DOMAIN a /\ Opens(a[s]) /\ j \in DOMAIN g[a[s].raw].slots
      BY <1>5, <3>3, <3>4, <3>5 DEF SameObject
    <3>7. t \in DOMAIN a => a[t] = g[a[s].raw].slots[j]
      BY <1>5, <3>3, <3>4, <3>5 DEF SameObject
    <3> QED
      BY <3>6, <3>7 DEF t
  <2>3. CASE ~ IsPrefix(p, s) /\ p = t
    <3>1. s = r /\ j = i
      BY <1>3, <2>3, AppendInjective DEF p
    <3>2. t \in DOMAIN a /\ a[t] = v
      <4>1. p \o << >> \in DOMAIN a /\ a[p \o << >>] = n[<< >>]
        BY <1>1, <1>3, <1>7
      <4> QED
        BY <1>1, <1>3, <2>3, <4>1
    <3>3. s \in DOMAIN a /\ a[s] = m[r]
      BY <1>3, <1>7, <1>8, <3>1
    <3>4. Opens(a[s]) /\ a[s].raw = x
      BY <3>3 DEF x
    <3> HIDE DEF t
    <3>5. j \in DOMAIN g[a[s].raw].slots /\ a[t] = g[a[s].raw].slots[j]
      BY <1>9, <3>1, <3>2, <3>4
    <3> QED
      BY <3>2, <3>3, <3>4, <3>5 DEF t
  <2>4. CASE ~ IsPrefix(p, s) /\ p # t
    <3>1. /\ t \in DOMAIN a <=> t \in DOMAIN m
          /\ t \in DOMAIN a => a[t] = m[t]
          /\ s \in DOMAIN a <=> s \in DOMAIN m
          /\ s \in DOMAIN a => a[s] = m[s]
      BY <1>7, <2>1, <2>4
    <3>2. /\ t \in DOMAIN m <=> s \in DOMAIN m /\ Opens(m[s]) /\ j \in DOMAIN h[m[s].raw].slots
          /\ t \in DOMAIN m => m[t] = h[m[s].raw].slots[j]
      BY <1>1
    <3>3. s = r => j # i
      BY <2>4 DEF p
    <3> HIDE DEF t
    <3>4. ASSUME s \in DOMAIN m, Opens(m[s])
          PROVE  /\ j \in DOMAIN g[m[s].raw].slots <=> j \in DOMAIN h[m[s].raw].slots
                 /\ j \in DOMAIN h[m[s].raw].slots => g[m[s].raw].slots[j] = h[m[s].raw].slots[j]
      <4>1. CASE s = r
        BY <1>9, <3>3, <4>1 DEF x
      <4>2. CASE s # r
        BY <1>4, <3>4, <4>2 DEF SameObject
      <4> QED
        BY <4>1, <4>2
    <3>5. t \in DOMAIN a <=> s \in DOMAIN a /\ Opens(a[s]) /\ j \in DOMAIN g[a[s].raw].slots
      BY <3>1, <3>2, <3>4
    <3>6. t \in DOMAIN a => a[t] = g[a[s].raw].slots[j]
      BY <3>1, <3>2, <3>4
    <3> QED
      BY <3>5, <3>6 DEF t
  <2> QED
    BY <2>2, <2>3, <2>4
<1>11. Unfolds(g, Root, a)
  <2>1. << >> \in DOMAIN a /\ a[<< >>] = Root
    BY <1>1, <1>3, <1>7, <1>8
  <2> QED
    BY <1>7, <1>10, <2>1 DEF Unfolds
<1>12. Tree(g, a) = Values!Set(Tree(h, m), p, Tree(h, n))
  <2>1. OverPaths(m) /\ OverPaths(n) /\ p \in Seq(Key)
    BY <1>1, <1>3
  <2> QED
    BY <1>6, <2>1, TreeOfSet DEF a
<1>13. /\ OverPaths(b)
       /\ \A s \in Seq(Key) : (s \in DOMAIN b <=> p \o s \in DOMAIN m) /\ (s \in DOMAIN b => b[s] = m[p \o s])
  <2>1. OverPaths(m) /\ p \in Seq(Key)
    BY <1>1, <1>3
  <2> QED
    BY <2>1, GetIs
<1> HIDE DEF b
<1>14. ASSUME NEW s \in Seq(Key), NEW j \in Key
       PROVE  /\ Append(s, j) \in DOMAIN b <=>
                   s \in DOMAIN b /\ Opens(b[s]) /\ j \in DOMAIN g[b[s].raw].slots
              /\ Append(s, j) \in DOMAIN b => b[Append(s, j)] = g[b[s].raw].slots[j]
  <2> DEFINE q == p \o s
             t == Append(s, j)
  <2>1. /\ q \in Seq(Key) /\ p \o t = Append(q, j) /\ t \in Seq(Key) /\ IsPrefix(p, q)
    <3>1. q \in Seq(Key) /\ p \o t = Append(q, j) /\ t \in Seq(Key)
      BY <1>3, ConcatProperties, ConcatAppend, AppendProperties
    <3> QED
      BY <1>3, <3>1, PrefixMeans
  <2>2. q # r
    BY <1>8, <2>1
  <2>3. /\ t \in DOMAIN b <=> Append(q, j) \in DOMAIN m
        /\ t \in DOMAIN b => b[t] = m[Append(q, j)]
    BY <1>13, <2>1
  <2>4. /\ Append(q, j) \in DOMAIN m <=> q \in DOMAIN m /\ Opens(m[q]) /\ j \in DOMAIN h[m[q].raw].slots
        /\ Append(q, j) \in DOMAIN m => m[Append(q, j)] = h[m[q].raw].slots[j]
    BY <1>1, <2>1
  <2>5. (s \in DOMAIN b <=> q \in DOMAIN m) /\ (s \in DOMAIN b => b[s] = m[q])
    BY <1>13
  <2> HIDE DEF q, t
  <2>6. t \in DOMAIN b <=> s \in DOMAIN b /\ Opens(b[s]) /\ j \in DOMAIN g[b[s].raw].slots
    BY <1>4, <2>2, <2>3, <2>4, <2>5 DEF SameObject
  <2>7. t \in DOMAIN b => b[t] = g[b[s].raw].slots[j]
    BY <1>4, <2>2, <2>3, <2>4, <2>5 DEF SameObject
  <2> QED
    BY <2>6, <2>7 DEF t
<1>15. ASSUME p \in DOMAIN m
       PROVE  Unfolds(g, Old(h, x, i), b) /\ Tree(g, b) = Values!Get(Tree(h, m), p)
  <2>1. << >> \in DOMAIN b /\ b[<< >>] = m[p]
    BY <1>3, <1>13, <1>15
  <2>2. m[p] = Old(h, x, i)
    BY <1>1, <1>3, <1>15 DEF Old, x, p
  <2>3. Unfolds(g, Old(h, x, i), b)
    BY <1>13, <1>14, <2>1, <2>2 DEF Unfolds
  <2>4. OverPaths(m) /\ p \in Seq(Key)
    BY <1>1, <1>3
  <2>5. Tree(g, b) = Values!Get(Tree(h, m), p)
    BY <1>6, <2>4, TreeOfGet DEF b
  <2> QED
    BY <2>3, <2>5
<1> QED
  BY <1>11, <1>12, <1>15 DEF a, b, x, p

\* A change in an object below the JVar that floats is not seen from the frame.
LEMMA ElsewhereUnfolds ==
  ASSUME NEW h, NEW v, Sound(h, v), NEW m, Unfolds(h, Root, m), NEW n, Unfolds(h, v, n),
         NEW r \in DOMAIN n, Opens(n[r]), NEW i, NEW u, NEW g, Changed(h, g, n[r].raw, i, u)
  PROVE  Unfolds(g, Root, m) /\ Tree(g, m) = Tree(h, m)
<1>1. Typed(h) /\ Grounded(h, Root) /\ v # Root
  BY NoneIsFrame DEF Sound, Grounded
<1>2. ASSUME NEW s \in DOMAIN m, Opens(m[s])
      PROVE  SameObject(h, g, m[s].raw)
  <2>1. m[s].raw \in DOMAIN h
    BY <1>1, <1>2, LabelsHold
  <2>2. m[s].raw # n[r].raw
    BY <1>1, <1>2, LabelsApart
  <2> QED
    BY <2>1, <2>2, ChangeShows
<1> QED
  BY <1>2, UnfoldingStays

\* Nor is it seen when the JVar that floats is destroyed.
LEMMA DestroyedUnfolds ==
  ASSUME NEW h, NEW v, Sound(h, v), NEW m, Unfolds(h, Root, m)
  PROVE  Unfolds(Destroyed(h, v), Root, m) /\ Tree(Destroyed(h, v), m) = Tree(h, m)
<1> DEFINE R == Reach(h, v)
           P == { s \in Seq(Key) : s \in DOMAIN m /\ Opens(m[s]) => m[s].raw \notin R }
<1>1. Typed(h) /\ Holds(h, v) /\ Grounded(h, Root) /\ m[<< >>] = Root /\ DOMAIN m \subseteq Seq(Key)
  BY DEF Sound, Grounded, Unfolds, OverPaths
<1>2. R \subseteq DOMAIN h \ { Frame }
  BY <1>1, ReachIsLeast
<1>3. << >> \in P
  BY <1>1, <1>2, EmptySeq DEF Root
<1>4. ASSUME NEW s \in Seq(Key), NEW i \in Key, s \in P
      PROVE  Append(s, i) \in P
  <2> DEFINE t == Append(s, i)
  <2>1. t \in Seq(Key) /\ t # << >>
    BY AppendProperties
  <2> SUFFICES ASSUME t \in DOMAIN m, Opens(m[t]), m[t].raw \in R
               PROVE  FALSE
    BY <2>1
  <2>2. /\ s \in DOMAIN m /\ Opens(m[s]) /\ i \in DOMAIN h[m[s].raw].slots
        /\ m[t] = h[m[s].raw].slots[i]
    BY DEF Unfolds
  <2>3. m[s].raw \in DOMAIN h /\ m[s].raw \notin R
    BY <1>1, <1>4, <2>2, LabelsHold
  <2>4. Owns(m[t], m[t].raw)
    <3>1. Holds(h, m[t])
      BY <1>1, <2>1, LabelsHold
    <3> QED
      BY <3>1, NoneIsFrame DEF Owns
  <2> DEFINE x == m[s].raw
             o == m[t].raw
  <2>5. x \in DOMAIN h /\ x \notin R /\ i \in DOMAIN h[x].slots /\ Owns(h[x].slots[i], o) /\ o \in R
    BY <2>2, <2>3, <2>4
  <2> HIDE DEF t, x, o
  <2> QED
    BY <2>5, OutsideOwnsOutside
<1> HIDE DEF P
<1>5. ASSUME NEW s \in DOMAIN m, Opens(m[s])
      PROVE  SameObject(h, Destroyed(h, v), m[s].raw)
  <2>1. s \in P
    BY <1>1, <1>3, <1>4, SequenceInduction
  <2>2. m[s].raw \in DOMAIN h \ R
    BY <1>1, <1>5, <2>1, LabelsHold DEF P
  <2>3. Destroyed(h, v)[m[s].raw] = h[m[s].raw]
    BY <2>2 DEF Destroyed
  <2> QED
    BY <2>3 DEF SameObject
<1> QED
  BY <1>5, UnfoldingStays

\* A branch of an unfolding is an unfolding.
LEMMA BranchUnfolds ==
  ASSUME NEW h, NEW v, NEW m, Unfolds(h, v, m), NEW p \in DOMAIN m
  PROVE  /\ Unfolds(h, m[p], Values!Get(m, p))
         /\ Tree(h, Values!Get(m, p)) = Values!Get(Tree(h, m), p)
<1> DEFINE b == Values!Get(m, p)
<1>1. OverPaths(m) /\ p \in Seq(Key) /\ << >> \in Seq(Key) /\ p \o << >> = p
  BY EmptySeq, ConcatEmptySeq DEF Unfolds, OverPaths
<1>2. OverPaths(m) /\ p \in Seq(Key)
  BY <1>1
<1>3. /\ OverPaths(b)
      /\ \A s \in Seq(Key) : (s \in DOMAIN b <=> p \o s \in DOMAIN m) /\ (s \in DOMAIN b => b[s] = m[p \o s])
  BY <1>2, GetIs
<1> HIDE DEF b
<1>4. ASSUME NEW s \in Seq(Key), NEW j \in Key
      PROVE  /\ Append(s, j) \in DOMAIN b <=>
                  s \in DOMAIN b /\ Opens(b[s]) /\ j \in DOMAIN h[b[s].raw].slots
             /\ Append(s, j) \in DOMAIN b => b[Append(s, j)] = h[b[s].raw].slots[j]
  <2> DEFINE q == p \o s
             t == Append(s, j)
  <2>1. q \in Seq(Key) /\ p \o t = Append(q, j) /\ t \in Seq(Key)
    BY <1>2, ConcatProperties, ConcatAppend, AppendProperties
  <2>2. (t \in DOMAIN b <=> Append(q, j) \in DOMAIN m) /\ (t \in DOMAIN b => b[t] = m[Append(q, j)])
    BY <1>3, <2>1
  <2>3. /\ Append(q, j) \in DOMAIN m <=> q \in DOMAIN m /\ Opens(m[q]) /\ j \in DOMAIN h[m[q].raw].slots
        /\ Append(q, j) \in DOMAIN m => m[Append(q, j)] = h[m[q].raw].slots[j]
    BY <2>1 DEF Unfolds
  <2>4. (s \in DOMAIN b <=> q \in DOMAIN m) /\ (s \in DOMAIN b => b[s] = m[q])
    BY <1>3
  <2> HIDE DEF q, t
  <2>5. t \in DOMAIN b <=> s \in DOMAIN b /\ Opens(b[s]) /\ j \in DOMAIN h[b[s].raw].slots
    BY <2>2, <2>3, <2>4
  <2>6. t \in DOMAIN b => b[t] = h[b[s].raw].slots[j]
    BY <2>2, <2>3, <2>4
  <2> QED
    BY <2>5, <2>6 DEF t
<1>5. << >> \in DOMAIN b /\ b[<< >>] = m[p]
  BY <1>1, <1>3
<1>6. Unfolds(h, m[p], b)
  BY <1>3, <1>4, <1>5 DEF Unfolds
<1>7. Tree(h, b) = Values!Get(Tree(h, m), p)
  BY <1>2, TreeOfGet DEF b
<1> QED
  BY <1>6, <1>7 DEF b

\* The unfolding that is one JVar.
Only(u) == [ s \in { << >> } |-> u ]

\* A JVar without elements unfolds into itself.
LEMMA OnlyUnfolds ==
  ASSUME NEW h, NEW u, Opens(u) => DOMAIN h[u.raw].slots = {}
  PROVE  /\ Unfolds(h, u, Only(u)) /\ OverPaths(Only(u))
         /\ \A type, datum : Shown(h, u) = [type |-> type, datum |-> datum] =>
              Tree(h, Only(u)) = Values!Leaf(type, datum)
<1> DEFINE n == Only(u)
<1>1. DOMAIN n = { << >> } /\ n[<< >>] = u /\ << >> \in Seq(Key) /\ n = [ s \in DOMAIN n |-> n[s] ]
  BY EmptySeq DEF Only
<1>2. ASSUME NEW type, NEW datum, Shown(h, u) = [type |-> type, datum |-> datum]
      PROVE  Tree(h, n) = Values!Leaf(type, datum)
  BY <1>1, <1>2 DEF Tree, Values!Leaf
<1> HIDE DEF n
<1>3. OverPaths(n)
  BY <1>1 DEF OverPaths
<1>4. ASSUME NEW s \in Seq(Key), NEW i \in Key
      PROVE  /\ Append(s, i) \notin DOMAIN n
             /\ ~ (s \in DOMAIN n /\ Opens(n[s]) /\ i \in DOMAIN h[n[s].raw].slots)
  BY <1>1, AppendProperties
<1>5. Unfolds(h, u, n)
  BY <1>1, <1>3, <1>4 DEF Unfolds
<1> QED
  BY <1>2, <1>3, <1>5 DEF n

\* Null does.
LEMMA NullUnfolds ==
  ASSUME NEW h
  PROVE  Unfolds(h, Null, Only(Null)) /\ Tree(h, Only(Null)) = Values!Null
<1>1. ~ Opens(Null)
  BY DEF Null, Opens, Owning
<1>2. Shown(h, Null) = [type |-> "null", datum |-> "none"]
  BY DEF Shown, Held, Null, NoDatum, Owning
<1> QED
  BY <1>1, <1>2, OnlyUnfolds DEF Values!Null

-----------------------------------------------------------------------------
(* Constructors.                                                           *)

\* A slot that a path leads to can take any JVar.
LEMMA PutAtPath ==
  ASSUME NEW h, Sound(h, Null), NEW m, Unfolds(h, Root, m), NEW p, NEW f, Leads(h, p, f), NEW v \in JVars
  PROVE  \E r \in DOMAIN m, i \in Key :
           /\ p = Append(r, i) /\ r \in Seq(Key) /\ Opens(m[r]) /\ Slot(h, p) = << m[r].raw, i >>
           /\ m[r].raw \in DOMAIN h /\ i \in DOMAIN h[m[r].raw].slots
           /\ Old(h, m[r].raw, i) = At(h, Slot(h, p))
           /\ Changed(h, Put(h, Slot(h, p), v), m[r].raw, i, v)
<1>1. PICK r \in DOMAIN m, i \in Key :
        /\ p = Append(r, i) /\ r \in Seq(Key) /\ Opens(m[r]) /\ Slot(h, p) = << m[r].raw, i >>
        /\ m[r].raw \in DOMAIN h /\ i \in DOMAIN h[m[r].raw].slots
  BY PathUnfolds
<1>2. Old(h, m[r].raw, i) = At(h, Slot(h, p))
  BY <1>1 DEF Old, At
<1>3. Changed(h, Put(h, Slot(h, p), v), m[r].raw, i, v)
  <2>1. MayHave(h, m[r].raw, i) /\ Typed(h)
    BY <1>1 DEF MayHave, Sound
  <2> QED
    BY <1>1, <2>1, PutChanges
<1> QED
  BY <1>1, <1>2, <1>3

\* What the frame unfolds into when something has been made from src.
Left(m, src) == IF src.how = "move" THEN Values!Set(m, src.from, Only(Null)) ELSE m

\* What a constructor does to the trees: its value unfolds, and so does what it leaves.
Shows(h, m, src, made, n) ==
  /\ Unfolds(made.heap, Root, Left(m, src))
  /\ Tree(made.heap, Left(m, src)) = Values!Rest(Tree(h, m), src)
  /\ Unfolds(made.heap, made.value, n)
  /\ Tree(made.heap, n) = Values!Value(Tree(h, m), src)

\* The move constructor takes a branch and leaves null.
LEMMA MoveShows ==
  ASSUME NEW h, Sound(h, Null), NEW m, Unfolds(h, Root, m), NEW src, src.how = "move",
         NEW f, Leads(h, src.from, f)
  PROVE  Shows(h, m, src, Made(h, src), Values!Get(m, src.from))
<1> DEFINE p == src.from
           g == Put(h, Slot(h, p), Null)
<1>1. Null \in JVars /\ Unfolds(h, Null, Only(Null)) /\ Tree(h, Only(Null)) = Values!Null
  BY NullFits, NullUnfolds
<1>2. PICK r \in DOMAIN m, i \in Key :
        /\ p = Append(r, i) /\ r \in Seq(Key) /\ Opens(m[r]) /\ Slot(h, p) = << m[r].raw, i >>
        /\ m[r].raw \in DOMAIN h /\ i \in DOMAIN h[m[r].raw].slots
        /\ Old(h, m[r].raw, i) = At(h, Slot(h, p))
        /\ Changed(h, g, m[r].raw, i, Null)
  BY <1>1, PutAtPath
<1>3. p \in DOMAIN m
  BY PathUnfolds
<1>4. Made(h, src) = [heap |-> g, value |-> At(h, Slot(h, p))]
  BY DEF Made, Move
<1> HIDE DEF p, g
<1>5. /\ Unfolds(g, Root, Values!Set(m, p, Only(Null)))
      /\ Tree(g, Values!Set(m, p, Only(Null))) = Values!Set(Tree(h, m), p, Tree(h, Only(Null)))
      /\ Unfolds(g, At(h, Slot(h, p)), Values!Get(m, p))
      /\ Tree(g, Values!Get(m, p)) = Values!Get(Tree(h, m), p)
  BY <1>1, <1>2, <1>3, SetUnfolds
<1> QED
  BY <1>1, <1>4, <1>5 DEF Shows, Left, Values!Rest, Values!Value, p

\* A constructor from a tag and contents makes one leaf, and touches nothing.
LEMMA FreshShows ==
  ASSUME NEW h, Typed(h), NEW type, NEW datum, type # "frame", type \in Owning => Unused(h) # {}
  PROVE  LET made == Fresh(h, type, datum) IN
         /\ \A o \in DOMAIN h : SameObject(h, made.heap, o)
         /\ Unfolds(made.heap, made.value, Only(made.value))
         /\ Tree(made.heap, Only(made.value)) = Values!Leaf(type, datum)
<1> DEFINE o == CHOOSE x \in Unused(h) : TRUE
           g == With(h, o, Contents(type, datum))
           made == Fresh(h, type, datum)
<1>1. CASE type \in Owning
  <2>1. made = [heap |-> g, value |-> [type |-> type, raw |-> o]]
    BY <1>1 DEF Fresh
  <2>2. o \notin DOMAIN h
    BY <1>1 DEF Unused
  <2> HIDE DEF o
  <2>3. g[o] = Contents(type, datum) /\ \A x \in DOMAIN h : g[x] = h[x]
    BY <2>2 DEF With
  <2> HIDE DEF g
  <2>4. g[o].datum = datum /\ DOMAIN g[o].slots = {}
    BY <2>3 DEF Contents
  <2>5. Shown(g, [type |-> type, raw |-> o]) = [type |-> type, datum |-> datum]
    BY <1>1, <2>4 DEF Shown, Held
  <2>6. Unfolds(g, [type |-> type, raw |-> o], Only([type |-> type, raw |-> o]))
        /\ Tree(g, Only([type |-> type, raw |-> o])) = Values!Leaf(type, datum)
    BY <2>4, <2>5, OnlyUnfolds
  <2>7. \A x \in DOMAIN h : SameObject(h, g, x)
    BY <2>3 DEF SameObject
  <2> QED
    BY <2>1, <2>6, <2>7
<1>2. CASE type \notin Owning
  <2> DEFINE u == [type |-> type, raw |-> datum]
  <2>1. made = [heap |-> h, value |-> u]
    BY <1>2 DEF Fresh
  <2>2. ~ Opens(u) /\ Shown(h, u) = [type |-> type, datum |-> datum]
    BY <1>2 DEF Opens, Shown, Held
  <2> HIDE DEF u
  <2>3. Unfolds(h, u, Only(u)) /\ Tree(h, Only(u)) = Values!Leaf(type, datum)
    BY <2>2, OnlyUnfolds
  <2>4. \A x \in DOMAIN h : SameObject(h, h, x)
    BY DEF SameObject
  <2> QED
    BY <2>1, <2>3, <2>4
<1> QED
  BY <1>1, <1>2

\* Whatever adds objects and touches none leaves the unfoldings.
LEMMA UntouchedUnfolds ==
  ASSUME NEW h, Typed(h), NEW v, Grounded(h, v), NEW m, Unfolds(h, v, m), NEW g,
         \A o \in DOMAIN h : SameObject(h, g, o)
  PROVE  Unfolds(g, v, m) /\ Tree(g, m) = Tree(h, m)
<1>1. \A s \in DOMAIN m : Opens(m[s]) => SameObject(h, g, m[s].raw)
  BY LabelsHold
<1> QED
  BY <1>1, UnfoldingStays

\* All a JVar unfolds into is among what it reaches.
LEMMA LabelsReached ==
  ASSUME NEW h, Typed(h), NEW v, Holds(h, v), NEW n, Unfolds(h, v, n), NEW s \in DOMAIN n
  PROVE  Owned(n[s]) \subseteq Reach(h, v)
<1> DEFINE P == { q \in Seq(Key) : q \in DOMAIN n => Owned(n[q]) \subseteq Reach(h, v) }
<1>1. Owned(v) \subseteq Reach(h, v) /\ Closed(h, Reach(h, v))
  BY ReachIsLeast
<1>2. << >> \in P
  BY <1>1, EmptySeq DEF Unfolds
<1>3. ASSUME NEW q \in Seq(Key), NEW i \in Key, q \in P
      PROVE  Append(q, i) \in P
  <2> SUFFICES ASSUME Append(q, i) \in DOMAIN n
               PROVE  Owned(n[Append(q, i)]) \subseteq Reach(h, v)
    BY AppendProperties
  <2>1. /\ q \in DOMAIN n /\ Opens(n[q]) /\ i \in DOMAIN h[n[q].raw].slots
        /\ n[Append(q, i)] = h[n[q].raw].slots[i]
    BY DEF Unfolds
  <2>2. Holds(h, n[q])
    BY <2>1, LabelsHold DEF Grounded, Unfolds
  <2>3. n[q].raw \in Reach(h, v)
    BY <1>3, <2>1, <2>2, NoneIsFrame DEF Owned
  <2> QED
    BY <1>1, <2>1, <2>3 DEF Closed
<1> HIDE DEF P
<1>4. s \in P
  BY <1>2, <1>3, SequenceInduction DEF Unfolds, OverPaths
<1> QED
  BY <1>4 DEF P

\* A JVar with twins for objects unfolds into readdressed JVars, which show the same.
LEMMA TwinsUnfold ==
  ASSUME NEW h, Sound(h, Null), NEW v, Holds(h, v), NEW n, Unfolds(h, v, n),
         NEW g, NEW new, Twins(h, g, Reach(h, v), new)
  PROVE  LET c == [ s \in DOMAIN n |-> Readdressed(new, n[s]) ] IN
         Unfolds(g, Readdressed(new, v), c) /\ Tree(g, c) = Tree(h, n)
<1> DEFINE c == [ s \in DOMAIN n |-> Readdressed(new, n[s]) ]
           R == Reach(h, v)
<1>1. /\ Typed(h) /\ OverPaths(n) /\ << >> \in DOMAIN n /\ n[<< >>] = v
      /\ \A s \in Seq(Key), i \in Key :
           /\ Append(s, i) \in DOMAIN n <=> s \in DOMAIN n /\ Opens(n[s]) /\ i \in DOMAIN h[n[s].raw].slots
           /\ Append(s, i) \in DOMAIN n => n[Append(s, i)] = h[n[s].raw].slots[i]
  BY DEF Sound, Unfolds
<1>2. DOMAIN c = DOMAIN n /\ (\A s \in DOMAIN n : c[s] = Readdressed(new, n[s])) /\ OverPaths(c)
  BY <1>1 DEF OverPaths
<1> HIDE DEF c
<1>3. ASSUME NEW s \in DOMAIN n
      PROVE  /\ Holds(h, n[s]) /\ c[s].type = n[s].type
             /\ Opens(n[s]) => n[s].type \in Owning /\ n[s].raw \in R /\ c[s].raw = new[n[s].raw]
             /\ n[s].type \notin Owning => c[s] = n[s]
  <2>1. Holds(h, n[s])
    BY <1>1, LabelsHold DEF Grounded
  <2>2. Owned(n[s]) \subseteq R
    BY <1>1, LabelsReached
  <2>3. R \subseteq DOMAIN h
    BY <1>1, ReachIsLeast
  <2>4. /\ Readdressed(new, n[s]).type = n[s].type
        /\ n[s].type \in Owning => n[s].raw \in R /\ Readdressed(new, n[s]).raw = new[n[s].raw]
    <3> DEFINE u == n[s]
    <3>1. Holds(h, u) /\ Owned(u) \subseteq R
      BY <2>1, <2>2
    <3> HIDE DEF u, R
    <3>2. /\ Readdressed(new, u).type = u.type
          /\ u.type \in Owning => u.raw \in R /\ Readdressed(new, u).raw = new[u.raw]
      BY <2>3, <3>1, ReaddressedOwns DEF R
    <3> QED
      BY <3>2 DEF u
  <2>5. n[s].type \notin Owning => Readdressed(new, n[s]) = n[s]
    BY DEF Readdressed
  <2> QED
    BY <1>2, <2>1, <2>4, <2>5, NoneIsFrame
<1>4. ASSUME NEW x \in R
      PROVE  /\ g[new[x]].datum = h[x].datum /\ DOMAIN g[new[x]].slots = DOMAIN h[x].slots
             /\ \A i \in DOMAIN h[x].slots : g[new[x]].slots[i] = Readdressed(new, h[x].slots[i])
  BY DEF Twins
<1>5. ASSUME NEW s \in Seq(Key), NEW i \in Key
      PROVE  /\ Append(s, i) \in DOMAIN c <=>
                  s \in DOMAIN c /\ Opens(c[s]) /\ i \in DOMAIN g[c[s].raw].slots
             /\ Append(s, i) \in DOMAIN c => c[Append(s, i)] = g[c[s].raw].slots[i]
  <2> DEFINE t == Append(s, i)
  <2>1. /\ t \in DOMAIN n <=> s \in DOMAIN n /\ Opens(n[s]) /\ i \in DOMAIN h[n[s].raw].slots
        /\ t \in DOMAIN n => n[t] = h[n[s].raw].slots[i]
    BY <1>1
  <2> HIDE DEF t, R
  <2>2. s \in DOMAIN n => (Opens(c[s]) <=> Opens(n[s]))
    BY <1>3 DEF Opens
  <2>3. ASSUME s \in DOMAIN n, Opens(n[s])
        PROVE  /\ DOMAIN g[c[s].raw].slots = DOMAIN h[n[s].raw].slots
               /\ \A j \in DOMAIN h[n[s].raw].slots :
                    g[c[s].raw].slots[j] = Readdressed(new, h[n[s].raw].slots[j])
    BY <1>3, <1>4, <2>3
  <2>4. t \in DOMAIN c <=> s \in DOMAIN c /\ Opens(c[s]) /\ i \in DOMAIN g[c[s].raw].slots
    BY <1>2, <2>1, <2>2, <2>3
  <2>5. t \in DOMAIN c => c[t] = g[c[s].raw].slots[i]
    BY <1>2, <2>1, <2>2, <2>3
  <2> QED
    BY <2>4, <2>5 DEF t
<1>6. Unfolds(g, Readdressed(new, v), c)
  <2>1. << >> \in DOMAIN c /\ c[<< >>] = Readdressed(new, v)
    BY <1>1, <1>2
  <2> QED
    BY <1>2, <1>5, <2>1 DEF Unfolds
<1>7. ASSUME NEW s \in DOMAIN n
      PROVE  Shown(g, c[s]) = Shown(h, n[s])
  <2>1. CASE n[s].type \in Owning
    <3>1. g[c[s].raw].datum = h[n[s].raw].datum
      BY <1>3, <1>4, <2>1 DEF Opens
    <3> QED
      BY <1>3, <2>1, <3>1 DEF Shown, Held
  <2>2. CASE n[s].type \notin Owning
    BY <1>3, <2>2 DEF Shown, Held
  <2> QED
    BY <2>1, <2>2
<1>8. Tree(g, c) = Tree(h, n)
  BY <1>2, <1>7 DEF Tree
<1> QED
  BY <1>6, <1>8 DEF c

\* Whatever a constructor makes its JVar from.
LEMMA MadeShows ==
  ASSUME NEW h, Sound(h, Null), NEW m, Unfolds(h, Root, m), NEW src, IsSource(h, src),
         Needs(h, src) <= Cardinality(Unused(h))
  PROVE  \E n : Shows(h, m, src, Made(h, src), n)
<1>1. Typed(h) /\ Grounded(h, Root)
  BY DEF Sound, Grounded
<1>2. CASE src.how = "move"
  BY <1>2, MoveShows DEF IsSource
<1>3. CASE src.how = "copy"
  <2> DEFINE p == src.from
             v == At(h, Slot(h, p))
             made == DeepCopy(h, v)
             b == Values!Get(m, p)
  <2>1. PICK f : Leads(h, p, f)
    BY <1>3 DEF IsSource
  <2>2. p \in DOMAIN m /\ m[p] = v /\ p # << >>
    BY <2>1, PathUnfolds
  <2>3. Holds(h, v)
    BY <1>1, <2>2, LabelsHold
  <2>4. Unfolds(h, v, b) /\ Tree(h, b) = Values!Get(Tree(h, m), p)
    BY <2>2, BranchUnfolds
  <2>5. Cardinality(Reach(h, v)) <= Cardinality(Unused(h)) /\ Made(h, src) = made
    BY <1>3 DEF Needs, Made
  <2> HIDE DEF v, b, p, made
  <2>6. PICK new : Twins(h, made.heap, Reach(h, v), new) /\ made.value = Readdressed(new, v)
    BY <1>1, <2>3, <2>5, CopyTwins DEF made
  <2>7. PICK c : Unfolds(made.heap, made.value, c) /\ Tree(made.heap, c) = Tree(h, b)
    <3> DEFINE g == made.heap
               c == [ s \in DOMAIN b |-> Readdressed(new, b[s]) ]
    <3>1. Twins(h, g, Reach(h, v), new)
      BY <2>6
    <3> HIDE DEF g
    <3>2. Unfolds(g, Readdressed(new, v), c) /\ Tree(g, c) = Tree(h, b)
      BY <2>3, <2>4, <3>1, TwinsUnfold
    <3> HIDE DEF c
    <3> QED
      BY <2>6, <3>2 DEF g
  <2>8. \A o \in DOMAIN h : SameObject(h, made.heap, o)
    BY <2>6 DEF Twins, SameObject
  <2>9. Unfolds(made.heap, Root, m) /\ Tree(made.heap, m) = Tree(h, m)
    BY <1>1, <2>8, UntouchedUnfolds
  <2>10. /\ Left(m, src) = m /\ Values!Rest(Tree(h, m), src) = Tree(h, m)
         /\ Values!Value(Tree(h, m), src) = Values!Get(Tree(h, m), p)
    BY <1>3 DEF Left, Values!Rest, Values!Value, p
  <2> QED
    BY <2>4, <2>5, <2>7, <2>9, <2>10 DEF Shows
<1>4. CASE src.how = "new"
  <2> DEFINE made == Fresh(h, src.type, src.datum)
  <2>1. src.type # "frame" /\ Made(h, src) = made
    <3>1. src.type \in { "null", "array", "hash" } \cup { "integer", "real", "boolean" } \cup { "string" }
      BY <1>4, JVarTags DEF IsSource
    <3> QED
      BY <1>4, <3>1 DEF Made
  <2>2. src.type \in Owning => Unused(h) # {}
    <3>1. ASSUME src.type \in Owning, Unused(h) = {} PROVE FALSE
      <4>1. Needs(h, src) = 1
        BY <1>4, <3>1 DEF Needs
      <4>2. Cardinality(Unused(h)) = 0
        BY <3>1, FS_EmptySet
      <4> QED
        BY <4>1, <4>2
    <3> QED
      BY <3>1
  <2>3. /\ \A o \in DOMAIN h : SameObject(h, made.heap, o)
        /\ Unfolds(made.heap, made.value, Only(made.value))
        /\ Tree(made.heap, Only(made.value)) = Values!Leaf(src.type, src.datum)
    BY <1>1, <2>1, <2>2, FreshShows
  <2> HIDE DEF made
  <2>4. Unfolds(made.heap, Root, m) /\ Tree(made.heap, m) = Tree(h, m)
    BY <1>1, <2>3, UntouchedUnfolds
  <2>5. /\ Left(m, src) = m /\ Values!Rest(Tree(h, m), src) = Tree(h, m)
        /\ Values!Value(Tree(h, m), src) = Values!Leaf(src.type, src.datum)
    BY <1>4 DEF Left, Values!Rest, Values!Value
  <2> QED
    BY <2>1, <2>3, <2>4, <2>5 DEF Shows
<1> QED
  BY <1>2, <1>3, <1>4 DEF IsSource

-----------------------------------------------------------------------------
(* What has been made is put in a slot.                                    *)

\* A path that a source is not above keeps what it leads to.
LEMMA LeftKeeps ==
  ASSUME NEW m, OverPaths(m), NEW src, src.how = "move" => src.from \in Seq(Key), NEW r \in DOMAIN m,
         ~ (src.how = "move" /\ IsPrefix(src.from, r))
  PROVE  r \in DOMAIN Left(m, src) /\ Left(m, src)[r] = m[r]
<1>1. CASE src.how = "move"
  <2>1. r \in Seq(Key) /\ src.from \in Seq(Key) /\ ~ IsPrefix(src.from, r)
    BY <1>1 DEF OverPaths
  <2>2. OverPaths(Only(Null))
    BY EmptySeq DEF OverPaths, Only
  <2> DEFINE p == src.from
             n == Only(Null)
  <2>3. p \in Seq(Key) /\ OverPaths(n) /\ ~ IsPrefix(p, r)
    BY <2>1, <2>2
  <2> HIDE DEF p, n
  <2>4. (r \in DOMAIN Values!Set(m, p, n) <=> r \in DOMAIN m)
        /\ (r \in DOMAIN Values!Set(m, p, n) => Values!Set(m, p, n)[r] = m[r])
    BY <2>1, <2>3, SetIs
  <2> QED
    BY <1>1, <2>4 DEF Left, p, n
<1>2. CASE src.how # "move"
  BY <1>2 DEF Left
<1> QED
  BY <1>1, <1>2

\* A value made from src is put behind a path: the trees become those of a program whose
\* values are trees, even when it goes into itself.
LEMMA PlacedShows ==
  ASSUME NEW h, Sound(h, Null), NEW m, Unfolds(h, Root, m), NEW src, IsSource(h, src),
         Needs(h, src) <= Cardinality(Unused(h)),
         NEW r \in DOMAIN m, Opens(m[r]), NEW i \in Key,
         NEW g, Changed(Made(h, src).heap, g, m[r].raw, i, Made(h, src).value)
  PROVE  \E k : Unfolds(g, Root, k) /\ Tree(g, k) = Values!Moved(Tree(h, m), Append(r, i), src)
<1> DEFINE made == Made(h, src)
           a == made.heap
           v == made.value
           l == Left(m, src)
           t == Tree(h, m)
<1>1. OverPaths(m) /\ r \in Seq(Key)
  BY DEF Unfolds, OverPaths
<1>2. src.how = "move" => src.from \in Seq(Key)
  BY DEF IsSource, Leads
<1>3. src.how = "move" => (IsStrictPrefix(src.from, Append(r, i)) <=> IsPrefix(src.from, r))
  <2> SUFFICES ASSUME src.how = "move"
               PROVE  IsStrictPrefix(src.from, Append(r, i)) <=> IsPrefix(src.from, r)
    OBVIOUS
  <2> DEFINE p == src.from
  <2>1. p \in Seq(Key)
    BY <1>2
  <2> HIDE DEF p
  <2>2. IsPrefix(p, Append(r, i)) <=> IsPrefix(p, r) \/ p = Append(r, i)
    BY <1>1, <2>1, PrefixOfAppend
  <2>3. p = Append(r, i) => ~ IsPrefix(p, r)
    BY <1>1, PrefixIsShorter
  <2> QED
    BY <2>2, <2>3 DEF IsStrictPrefix, p
<1>4. Sound(a, v)
  BY MadeMakes DEF Makes
<1>5. CASE src.how = "move" /\ IsPrefix(src.from, r)
  <2> DEFINE p == src.from
             n == Values!Get(m, p)
  <2>1. PICK f : Leads(h, p, f)
    BY <1>5 DEF IsSource
  <2>2. p \in Seq(Key)
    BY <1>2, <1>5
  <2>3. Shows(h, m, src, made, n)
    BY <1>5, <2>1, MoveShows
  <2>4. Unfolds(a, Root, l) /\ Tree(a, l) = Values!Rest(t, src) /\ Unfolds(a, v, n)
    BY <2>3 DEF Shows
  <2>5. \E k \in Seq(Key) : r = p \o k
    <3> HIDE DEF p
    <3> QED
      BY <1>1, <1>5, <2>2, PrefixMeans DEF p
  <2>6. PICK k \in Seq(Key) : r = p \o k
    BY <2>5
  <2>7. k \in DOMAIN n /\ n[k] = m[r]
    <3> HIDE DEF p
    <3> QED
      BY <1>1, <2>2, <2>6, GetIs
  <2> HIDE DEF n, p, a, v, l
  <2>8. Unfolds(g, Root, l) /\ Tree(g, l) = Tree(a, l)
    <3>1. Opens(n[k]) /\ Changed(a, g, n[k].raw, i, v)
      BY <2>7 DEF a, v
    <3> QED
      BY <1>4, <2>4, <2>7, <3>1, ElsewhereUnfolds
  <2>9. Values!Moved(t, Append(r, i), src) = Values!Rest(t, src)
    BY <1>3, <1>5, SamePrefix DEF Values!Moved
  <2> QED
    BY <2>4, <2>8, <2>9
<1>6. CASE ~ (src.how = "move" /\ IsPrefix(src.from, r))
  <2>1. PICK n : Shows(h, m, src, made, n)
    BY MadeShows
  <2>2. /\ Unfolds(a, Root, l) /\ Tree(a, l) = Values!Rest(t, src)
        /\ Unfolds(a, v, n) /\ Tree(a, n) = Values!Value(t, src)
    BY <2>1 DEF Shows
  <2>3. r \in DOMAIN l /\ l[r] = m[r]
    BY <1>1, <1>2, <1>6, LeftKeeps
  <2>4. Changed(a, g, l[r].raw, i, v) /\ Opens(l[r])
    BY <2>3
  <2> HIDE DEF a, v, l, t
  <2>5. /\ Unfolds(g, Root, Values!Set(l, Append(r, i), n))
        /\ Tree(g, Values!Set(l, Append(r, i), n)) = Values!Set(Tree(a, l), Append(r, i), Tree(a, n))
    BY <1>4, <2>2, <2>3, <2>4, SetUnfolds
  <2>6. Values!Moved(t, Append(r, i), src) =
          Values!Set(Values!Rest(t, src), Append(r, i), Values!Value(t, src))
    BY <1>3, <1>6, SamePrefix DEF Values!Moved
  <2> DEFINE k == Values!Set(l, Append(r, i), n)
  <2>7. Unfolds(g, Root, k) /\ Tree(g, k) = Values!Moved(t, Append(r, i), src)
    BY <2>2, <2>5, <2>6
  <2> HIDE DEF k
  <2> QED
    BY <2>7 DEF t
<1> QED
  BY <1>5, <1>6

\* An object a source does not make is there when it has been made, with the same slots.
LEMMA MadeKeepsSlots ==
  ASSUME NEW h, Sound(h, Null), NEW src, IsSource(h, src), Needs(h, src) <= Cardinality(Unused(h)),
         NEW x \in DOMAIN h
  PROVE  /\ Typed(Made(h, src).heap) /\ Sound(Made(h, src).heap, Made(h, src).value)
         /\ Made(h, src).value \in JVars /\ x \in DOMAIN Made(h, src).heap
         /\ Made(h, src).heap[x].type = h[x].type
         /\ DOMAIN Made(h, src).heap[x].slots = DOMAIN h[x].slots
<1>1. Makes(h, Made(h, src), Taken(h, src))
  BY MadeMakes
<1> QED
  BY <1>1 DEF Makes, Leaves, Sound, Holds

\* A variable begins.
LEMMA ConstructShows ==
  ASSUME NEW h, Sound(h, Null), NEW v \in Var, v \notin DOMAIN h[Frame].slots,
         NEW src, IsSource(h, src), Needs(h, src) <= Cardinality(Unused(h))
  PROVE  TreeOf(Put(Made(h, src).heap, << Frame, v >>, Made(h, src).value)) =
           Values!Moved(TreeOf(h), << v >>, src)
<1> DEFINE a == Made(h, src).heap
           u == Made(h, src).value
           g == Put(a, << Frame, v >>, u)
           m == Unfolding(h)
<1>1. Unfolds(h, Root, m) /\ TreeOf(h) = Tree(h, m)
  BY HeapUnfolds
<1>2. Sound(g, Null)
  BY ConstructKeeps DEF Keeps
<1>3. << >> \in DOMAIN m /\ Opens(m[<< >>]) /\ m[<< >>].raw = Frame /\ v \in Key
  BY <1>1 DEF Unfolds, Root, Opens, Key
<1>4. Changed(a, g, Frame, v, u)
  <2>1. Frame \in DOMAIN h
    BY DEF Sound, Typed
  <2>2. Typed(a) /\ u \in JVars /\ Frame \in DOMAIN a
    BY <2>1, MadeKeepsSlots
  <2> HIDE DEF a, u
  <2> QED
    BY <2>2, PutChanges DEF MayHave
<1> HIDE DEF g, m
<1> DEFINE r == << >>
<1>5. PICK k : Unfolds(g, Root, k) /\ Tree(g, k) = Values!Moved(Tree(h, m), Append(<< >>, v), src)
  <2>1. r \in DOMAIN m /\ Opens(m[r]) /\ Changed(a, g, m[r].raw, v, u)
    BY <1>3, <1>4
  <2> HIDE DEF r
  <2>2. \E k : Unfolds(g, Root, k) /\ Tree(g, k) = Values!Moved(Tree(h, m), Append(r, v), src)
    BY <1>1, <1>3, <2>1, PlacedShows
  <2> QED
    BY <2>2 DEF r
<1>6. Append(<< >>, v) = << v >>
  OBVIOUS
<1>7. TreeOf(g) = Tree(g, k)
  BY <1>2, <1>5, TreeIs
<1> QED
  BY <1>1, <1>5, <1>6, <1>7 DEF g

\* operator=.
LEMMA AssignShows ==
  ASSUME NEW h, Sound(h, Null), NEW p, NEW f, Leads(h, p, f),
         NEW src, IsSource(h, src), Needs(h, src) <= Cardinality(Unused(h))
  PROVE  TreeOf(Assigned(Made(h, src), Slot(h, p))) = Values!Moved(TreeOf(h), p, src)
<1> DEFINE a == Made(h, src).heap
           u == Made(h, src).value
           s == Slot(h, p)
           g == Put(a, s, u)
           old == At(a, s)
           m == Unfolding(h)
<1>1. Unfolds(h, Root, m) /\ TreeOf(h) = Tree(h, m)
  BY HeapUnfolds
<1>2. Assigned(Made(h, src), s) = Destroyed(g, old)
  BY DEF Assigned
<1>3. Sound(Destroyed(g, old), Null)
  BY <1>2, AssignKeeps DEF Keeps
<1> HIDE DEF m
<1>4. PICK r \in DOMAIN m, i \in Key :
        /\ p = Append(r, i) /\ r \in Seq(Key) /\ Opens(m[r]) /\ s = << m[r].raw, i >>
        /\ m[r].raw \in DOMAIN h /\ i \in DOMAIN h[m[r].raw].slots
  BY <1>1, PathUnfolds
<1> DEFINE x == m[r].raw
<1>5. x \in DOMAIN h /\ i \in DOMAIN h[x].slots /\ s = << x, i >>
  BY <1>4
<1> HIDE DEF x
<1>6. /\ Typed(a) /\ Sound(a, u) /\ u \in JVars /\ x \in DOMAIN a /\ i \in DOMAIN a[x].slots
  BY <1>5, MadeKeepsSlots
<1>7. Changed(a, g, x, i, u) /\ Old(a, x, i) = old
  <2>1. MayHave(a, x, i)
    BY <1>6 DEF MayHave
  <2>2. Changed(a, g, x, i, u)
    <3> HIDE DEF a, u, s
    <3> QED
      BY <1>5, <1>6, <2>1, PutChanges
  <2>3. Old(a, x, i) = old
    BY <1>5, <1>6 DEF Old, At
  <2> QED
    BY <2>2, <2>3
<1>8. Sound(g, old)
  <2> HIDE DEF a, u, g, old
  <2> QED
    BY <1>6, <1>7, ExchangeSound
<1>9. PICK k : Unfolds(g, Root, k) /\ Tree(g, k) = Values!Moved(Tree(h, m), Append(r, i), src)
  <2> HIDE DEF g
  <2> QED
    BY <1>1, <1>4, <1>7, PlacedShows DEF x
<1> HIDE DEF g, old
<1>10. Unfolds(Destroyed(g, old), Root, k) /\ Tree(Destroyed(g, old), k) = Tree(g, k)
  BY <1>8, <1>9, DestroyedUnfolds
<1>11. TreeOf(Destroyed(g, old)) = Tree(g, k)
  BY <1>3, <1>10, TreeIs
<1> QED
  BY <1>1, <1>2, <1>4, <1>9, <1>11

\* A JVar in a new slot of an object that a path leads to.
LEMMA AddedShows ==
  ASSUME NEW h, Sound(h, Null), NEW p, NEW f, Leads(h, p, f), At(h, Slot(h, p)).type \in Owning,
         NEW src, IsSource(h, src), Needs(h, src) <= Cardinality(Unused(h)), NEW i \in Key,
         NEW g, Changed(Made(h, src).heap, g, ObjectAt(h, p), i, Made(h, src).value), Sound(g, Null)
  PROVE  TreeOf(g) = Values!Moved(TreeOf(h), Append(p, i), src)
<1> DEFINE m == Unfolding(h)
<1>1. Unfolds(h, Root, m) /\ TreeOf(h) = Tree(h, m)
  BY HeapUnfolds
<1> HIDE DEF m
<1>2. p \in DOMAIN m /\ m[p] = At(h, Slot(h, p)) /\ ObjectAt(h, p) = m[p].raw
  BY <1>1, PathUnfolds
<1>3. Opens(m[p]) /\ Changed(Made(h, src).heap, g, m[p].raw, i, Made(h, src).value)
  BY <1>2 DEF Opens
<1>4. PICK k : Unfolds(g, Root, k) /\ Tree(g, k) = Values!Moved(Tree(h, m), Append(p, i), src)
  BY <1>1, <1>2, <1>3, PlacedShows
<1> QED
  BY <1>1, <1>4, TreeIs

\* A value that is made and destroyed at once shows only in what it was made from.
LEMMA KeptShows ==
  ASSUME NEW h, Sound(h, Null), NEW src, IsSource(h, src), Needs(h, src) <= Cardinality(Unused(h))
  PROVE  TreeOf(Destroyed(Made(h, src).heap, Made(h, src).value)) = Values!Rest(TreeOf(h), src)
<1> DEFINE a == Made(h, src).heap
           u == Made(h, src).value
           m == Unfolding(h)
<1>1. Unfolds(h, Root, m) /\ TreeOf(h) = Tree(h, m)
  BY HeapUnfolds
<1> HIDE DEF m
<1>2. PICK n : Shows(h, m, src, Made(h, src), n)
  BY <1>1, MadeShows
<1>3. Unfolds(a, Root, Left(m, src)) /\ Tree(a, Left(m, src)) = Values!Rest(Tree(h, m), src)
  BY <1>2 DEF Shows
<1>4. Sound(a, u)
  BY MadeMakes DEF Makes
<1> HIDE DEF a, u
<1>5. /\ Unfolds(Destroyed(a, u), Root, Left(m, src))
      /\ Tree(Destroyed(a, u), Left(m, src)) = Tree(a, Left(m, src))
  BY <1>3, <1>4, DestroyedUnfolds
<1>6. Sound(Destroyed(a, u), Null)
  BY <1>4, DestroyedSound
<1>7. TreeOf(Destroyed(a, u)) = Tree(a, Left(m, src))
  BY <1>5, <1>6, TreeIs
<1> QED
  BY <1>1, <1>3, <1>7 DEF a, u

-----------------------------------------------------------------------------
(* Branches that are set one after the other.                              *)

\* A branch covers what was set in it.
LEMMA SetCovers ==
  ASSUME NEW t, OverPaths(t), NEW p \in Seq(Key), NEW q \in Seq(Key), IsPrefix(p, q),
         NEW n, OverPaths(n), NEW b, OverPaths(b)
  PROVE  Values!Set(Values!Set(t, q, n), p, b) = Values!Set(t, p, b)
<1> DEFINE c == Values!Set(t, q, n)
           d == Values!Set(c, p, b)
           e == Values!Set(t, p, b)
<1>1. OverPaths(c) /\ \A k \in Seq(Key) : ~ IsPrefix(q, k) =>
        (k \in DOMAIN c <=> k \in DOMAIN t) /\ (k \in DOMAIN c => c[k] = t[k])
  BY SetIs
<1> HIDE DEF c
<1>2. /\ OverPaths(d)
      /\ \A s \in Seq(Key) : (p \o s \in DOMAIN d <=> s \in DOMAIN b) /\ (s \in DOMAIN b => d[p \o s] = b[s])
      /\ \A k \in Seq(Key) : ~ IsPrefix(p, k) =>
           (k \in DOMAIN d <=> k \in DOMAIN c) /\ (k \in DOMAIN d => d[k] = c[k])
  BY <1>1, SetIs
<1>3. /\ OverPaths(e)
      /\ \A s \in Seq(Key) : (p \o s \in DOMAIN e <=> s \in DOMAIN b) /\ (s \in DOMAIN b => e[p \o s] = b[s])
      /\ \A k \in Seq(Key) : ~ IsPrefix(p, k) =>
           (k \in DOMAIN e <=> k \in DOMAIN t) /\ (k \in DOMAIN e => e[k] = t[k])
  BY SetIs
<1> HIDE DEF d, e
<1>4. ASSUME NEW k \in Seq(Key)
      PROVE  (k \in DOMAIN d <=> k \in DOMAIN e) /\ (k \in DOMAIN d => d[k] = e[k])
  <2>1. CASE IsPrefix(p, k)
    <3>1. PICK s \in Seq(Key) : k = p \o s
      BY <2>1, PrefixMeans
    <3> QED
      BY <1>2, <1>3, <3>1
  <2>2. CASE ~ IsPrefix(p, k)
    <3>1. ~ IsPrefix(q, k)
      BY <2>2, PrefixTransitive
    <3> QED
      BY <1>1, <1>2, <1>3, <2>2, <3>1
  <2> QED
    BY <2>1, <2>2
<1> QED
  BY <1>2, <1>3, <1>4, PathsEqual DEF d, e, c

\* A branch set with itself changes nothing.
LEMMA SetWithItself ==
  ASSUME NEW t, OverPaths(t), NEW p \in Seq(Key)
  PROVE  Values!Set(t, p, Values!Get(t, p)) = t
<1> DEFINE b == Values!Get(t, p)
           e == Values!Set(t, p, b)
<1>1. /\ OverPaths(b)
      /\ \A s \in Seq(Key) : (s \in DOMAIN b <=> p \o s \in DOMAIN t) /\ (s \in DOMAIN b => b[s] = t[p \o s])
  BY GetIs
<1> HIDE DEF b
<1>2. /\ OverPaths(e)
      /\ \A s \in Seq(Key) : (p \o s \in DOMAIN e <=> s \in DOMAIN b) /\ (s \in DOMAIN b => e[p \o s] = b[s])
      /\ \A k \in Seq(Key) : ~ IsPrefix(p, k) =>
           (k \in DOMAIN e <=> k \in DOMAIN t) /\ (k \in DOMAIN e => e[k] = t[k])
  BY <1>1, SetIs
<1> HIDE DEF e
<1>3. ASSUME NEW k \in Seq(Key)
      PROVE  (k \in DOMAIN e <=> k \in DOMAIN t) /\ (k \in DOMAIN e => e[k] = t[k])
  <2>1. CASE IsPrefix(p, k)
    <3>1. PICK s \in Seq(Key) : k = p \o s
      BY <2>1, PrefixMeans
    <3> QED
      BY <1>1, <1>2, <3>1
  <2>2. CASE ~ IsPrefix(p, k)
    BY <1>2, <2>2
  <2> QED
    BY <2>1, <2>2
<1> QED
  BY <1>2, <1>3, PathsEqual DEF e, b

\* Neither of two paths continues the other.
Beside(p, q) == ~ IsPrefix(p, q) /\ ~ IsPrefix(q, p)

\* A branch is not seen beside it.
LEMMA GetBeside ==
  ASSUME NEW t, OverPaths(t), NEW p \in Seq(Key), NEW q \in Seq(Key), Beside(p, q), NEW n, OverPaths(n)
  PROVE  Values!Get(Values!Set(t, q, n), p) = Values!Get(t, p)
<1> DEFINE c == Values!Set(t, q, n)
           d == Values!Get(c, p)
           e == Values!Get(t, p)
<1>1. OverPaths(c) /\ \A k \in Seq(Key) : ~ IsPrefix(q, k) =>
        (k \in DOMAIN c <=> k \in DOMAIN t) /\ (k \in DOMAIN c => c[k] = t[k])
  BY SetIs
<1> HIDE DEF c
<1>2. /\ OverPaths(d)
      /\ \A s \in Seq(Key) : (s \in DOMAIN d <=> p \o s \in DOMAIN c) /\ (s \in DOMAIN d => d[s] = c[p \o s])
  BY <1>1, GetIs
<1>3. /\ OverPaths(e)
      /\ \A s \in Seq(Key) : (s \in DOMAIN e <=> p \o s \in DOMAIN t) /\ (s \in DOMAIN e => e[s] = t[p \o s])
  BY GetIs
<1> HIDE DEF d, e
<1>4. ASSUME NEW s \in Seq(Key)
      PROVE  (s \in DOMAIN d <=> s \in DOMAIN e) /\ (s \in DOMAIN d => d[s] = e[s])
  <2> DEFINE k == p \o s
  <2>1. k \in Seq(Key)
    BY ConcatProperties
  <2>2. IsPrefix(p, k)
    BY <2>1, PrefixMeans
  <2>3. (s \in DOMAIN d <=> k \in DOMAIN c) /\ (s \in DOMAIN d => d[s] = c[k])
        /\ (s \in DOMAIN e <=> k \in DOMAIN t) /\ (s \in DOMAIN e => e[s] = t[k])
    BY <1>2, <1>3
  <2> HIDE DEF k
  <2>4. ~ IsPrefix(q, k)
    BY <2>1, <2>2, PrefixesNest DEF Beside
  <2> QED
    BY <1>1, <2>1, <2>3, <2>4
<1> QED
  BY <1>2, <1>3, <1>4, PathsEqual DEF d, e, c

\* What is set first and last is set last.
LEMMA SetAround ==
  ASSUME NEW t, OverPaths(t), NEW p \in Seq(Key), NEW q \in Seq(Key), Beside(p, q),
         NEW n, OverPaths(n), NEW a, OverPaths(a), NEW b, OverPaths(b)
  PROVE  Values!Set(Values!Set(Values!Set(t, q, n), p, b), q, a) = Values!Set(Values!Set(t, p, b), q, a)
<1> DEFINE c == Values!Set(t, q, n)
           d == Values!Set(c, p, b)
           e == Values!Set(d, q, a)
           u == Values!Set(t, p, b)
           w == Values!Set(u, q, a)
<1>1. OverPaths(c) /\ \A k \in Seq(Key) : ~ IsPrefix(q, k) =>
        (k \in DOMAIN c <=> k \in DOMAIN t) /\ (k \in DOMAIN c => c[k] = t[k])
  BY SetIs
<1> HIDE DEF c
<1>2. /\ OverPaths(d)
      /\ \A s \in Seq(Key) : (p \o s \in DOMAIN d <=> s \in DOMAIN b) /\ (s \in DOMAIN b => d[p \o s] = b[s])
      /\ \A k \in Seq(Key) : ~ IsPrefix(p, k) =>
           (k \in DOMAIN d <=> k \in DOMAIN c) /\ (k \in DOMAIN d => d[k] = c[k])
  BY <1>1, SetIs
<1> HIDE DEF d
<1>3. /\ OverPaths(e)
      /\ \A s \in Seq(Key) : (q \o s \in DOMAIN e <=> s \in DOMAIN a) /\ (s \in DOMAIN a => e[q \o s] = a[s])
      /\ \A k \in Seq(Key) : ~ IsPrefix(q, k) =>
           (k \in DOMAIN e <=> k \in DOMAIN d) /\ (k \in DOMAIN e => e[k] = d[k])
  BY <1>2, SetIs
<1>4. /\ OverPaths(u)
      /\ \A s \in Seq(Key) : (p \o s \in DOMAIN u <=> s \in DOMAIN b) /\ (s \in DOMAIN b => u[p \o s] = b[s])
      /\ \A k \in Seq(Key) : ~ IsPrefix(p, k) =>
           (k \in DOMAIN u <=> k \in DOMAIN t) /\ (k \in DOMAIN u => u[k] = t[k])
  BY SetIs
<1> HIDE DEF u, e
<1>5. /\ OverPaths(w)
      /\ \A s \in Seq(Key) : (q \o s \in DOMAIN w <=> s \in DOMAIN a) /\ (s \in DOMAIN a => w[q \o s] = a[s])
      /\ \A k \in Seq(Key) : ~ IsPrefix(q, k) =>
           (k \in DOMAIN w <=> k \in DOMAIN u) /\ (k \in DOMAIN w => w[k] = u[k])
  BY <1>4, SetIs
<1> HIDE DEF w
<1>6. ASSUME NEW k \in Seq(Key)
      PROVE  (k \in DOMAIN e <=> k \in DOMAIN w) /\ (k \in DOMAIN e => e[k] = w[k])
  <2>1. CASE IsPrefix(q, k)
    <3>1. PICK s \in Seq(Key) : k = q \o s
      BY <2>1, PrefixMeans
    <3> QED
      BY <1>3, <1>5, <3>1
  <2>2. CASE ~ IsPrefix(q, k) /\ IsPrefix(p, k)
    <3>1. PICK s \in Seq(Key) : k = p \o s
      BY <2>2, PrefixMeans
    <3>2. (k \in DOMAIN e <=> k \in DOMAIN d) /\ (k \in DOMAIN e => e[k] = d[k])
          /\ (k \in DOMAIN w <=> k \in DOMAIN u) /\ (k \in DOMAIN w => w[k] = u[k])
      BY <1>3, <1>5, <2>2
    <3>3. (k \in DOMAIN d <=> k \in DOMAIN u) /\ (k \in DOMAIN d => d[k] = u[k])
      BY <1>2, <1>4, <3>1
    <3> QED
      BY <3>2, <3>3
  <2>3. CASE ~ IsPrefix(q, k) /\ ~ IsPrefix(p, k)
    BY <1>1, <1>2, <1>3, <1>4, <1>5, <2>3
  <2> QED
    BY <2>1, <2>2, <2>3
<1> QED
  BY <1>3, <1>5, <1>6, PathsEqual DEF c, d, e, u, w

-----------------------------------------------------------------------------
(* Swap().                                                                 *)

\* Heaps with the same contents show the same tree.
LEMMA SameObjectsShow ==
  ASSUME NEW h, Sound(h, Null), NEW g, Sound(g, Null), \A o \in DOMAIN h : SameObject(h, g, o)
  PROVE  TreeOf(g) = TreeOf(h)
<1> DEFINE m == Unfolding(h)
<1>1. Unfolds(h, Root, m) /\ TreeOf(h) = Tree(h, m)
  BY HeapUnfolds
<1> HIDE DEF m
<1>2. Unfolds(g, Root, m) /\ Tree(g, m) = Tree(h, m)
  BY <1>1, UntouchedUnfolds DEF Sound, Grounded
<1> QED
  BY <1>1, <1>2, TreeIs

\* Two slots have exchanged their JVars.
LEMMA SwappedIs ==
  ASSUME NEW h, Sound(h, Null), NEW x \in DOMAIN h, NEW i \in DOMAIN h[x].slots,
         NEW y \in DOMAIN h, NEW j \in DOMAIN h[y].slots, ~ (x = y /\ i = j), NEW o \in DOMAIN h
  PROVE  LET g == Swapped(h, << x, i >>, << y, j >>) IN
         /\ g[o].datum = h[o].datum /\ DOMAIN g[o].slots = DOMAIN h[o].slots
         /\ \A k \in DOMAIN h[o].slots :
              g[o].slots[k] = IF o = x /\ k = i THEN h[y].slots[j]
                              ELSE IF o = y /\ k = j THEN h[x].slots[i] ELSE h[o].slots[k]
<1> DEFINE a == h[x].slots[i]
           b == h[y].slots[j]
           h1 == Put(h, << y, j >>, Null)
           h2 == Put(h1, << x, i >>, b)
           g == Swapped(h, << x, i >>, << y, j >>)
<1>1. Changed(h, h1, y, j, Null) /\ Changed(h1, h2, x, i, b) /\ Changed(h2, g, y, j, a)
  BY SwapIsThree
<1> HIDE DEF h1, h2, g
<1>2. DOMAIN h1 = DOMAIN h /\ DOMAIN h2 = DOMAIN h
  BY <1>1 DEF Changed
<1>3. /\ h1[o].datum = h[o].datum /\ DOMAIN h1[o].slots = DOMAIN h[o].slots
      /\ \A k \in DOMAIN h[o].slots : ~ (o = y /\ k = j) => h1[o].slots[k] = h[o].slots[k]
  BY <1>1 DEF Changed
<1>4. DOMAIN h1[x].slots = DOMAIN h[x].slots
  BY <1>1 DEF Changed
<1>5. /\ h2[o].datum = h[o].datum /\ DOMAIN h2[o].slots = DOMAIN h[o].slots
      /\ \A k \in DOMAIN h[o].slots : ~ (o = y /\ k = j) =>
           h2[o].slots[k] = IF o = x /\ k = i THEN b ELSE h[o].slots[k]
  BY <1>1, <1>2, <1>3, <1>4 DEF Changed
<1>6. DOMAIN h2[y].slots = DOMAIN h[y].slots
  <2>1. DOMAIN h1[y].slots = DOMAIN h[y].slots
    BY <1>1 DEF Changed
  <2> QED
    BY <1>1, <1>2, <1>4, <2>1 DEF Changed
<1>7. /\ g[o].datum = h[o].datum /\ DOMAIN g[o].slots = DOMAIN h[o].slots
      /\ \A k \in DOMAIN h[o].slots :
           g[o].slots[k] = IF o = y /\ k = j THEN a ELSE h2[o].slots[k]
  BY <1>1, <1>2, <1>5, <1>6 DEF Changed
<1>8. \A k \in DOMAIN h[o].slots :
        g[o].slots[k] = IF o = x /\ k = i THEN b ELSE IF o = y /\ k = j THEN a ELSE h[o].slots[k]
  <2> SUFFICES ASSUME NEW k \in DOMAIN h[o].slots
               PROVE  g[o].slots[k] = IF o = x /\ k = i THEN b
                                      ELSE IF o = y /\ k = j THEN a ELSE h[o].slots[k]
    OBVIOUS
  <2> HIDE DEF a, b
  <2>1. CASE o = y /\ k = j
    BY <1>7, <2>1
  <2>2. CASE ~ (o = y /\ k = j)
    BY <1>5, <1>7, <2>2
  <2> QED
    BY <2>1, <2>2
<1> QED
  BY <1>7, <1>8 DEF g

\* Swap() of two JVars, the second of which is not above the first.
LEMMA SwapShowsDown ==
  ASSUME NEW h, Sound(h, Null), NEW p, NEW e, Leads(h, p, e), NEW q, NEW f, Leads(h, q, f),
         ~ IsPrefix(q, p)
  PROVE  TreeOf(Swapped(h, Slot(h, p), Slot(h, q))) = Values!Exchanged(TreeOf(h), p, q)
<1> DEFINE m == Unfolding(h)
           t == Tree(h, m)
           h1 == Put(h, Slot(h, q), Null)
           a == At(h, Slot(h, p))
           b == At(h, Slot(h, q))
           h2 == Put(h1, Slot(h, p), b)
           g == Swapped(h, Slot(h, p), Slot(h, q))
           m1 == Values!Set(m, q, Only(Null))
           m2 == Values!Set(m1, p, Values!Get(m, q))
           c == Values!Get(m1, p)
<1>1. Unfolds(h, Root, m) /\ TreeOf(h) = t
  BY HeapUnfolds
<1>2. Sound(g, Null)
  BY SwapKeeps DEF Keeps
<1> HIDE DEF m
<1>3. /\ OverPaths(m) /\ OverPaths(Only(Null)) /\ OverPaths(t) /\ p \in Seq(Key) /\ q \in Seq(Key)
      /\ p \in DOMAIN m /\ q \in DOMAIN m
  BY <1>1, PathUnfolds, TreeOverPaths, NullUnfolds DEF Unfolds
<1>4. PICK r \in DOMAIN m, i \in Key :
        /\ p = Append(r, i) /\ r \in Seq(Key) /\ Opens(m[r]) /\ Slot(h, p) = << m[r].raw, i >>
        /\ m[r].raw \in DOMAIN h /\ i \in DOMAIN h[m[r].raw].slots
  BY <1>1, PathUnfolds
<1>5. PICK k \in DOMAIN m, j \in Key :
        /\ q = Append(k, j) /\ k \in Seq(Key) /\ Opens(m[k]) /\ Slot(h, q) = << m[k].raw, j >>
        /\ m[k].raw \in DOMAIN h /\ j \in DOMAIN h[m[k].raw].slots
  BY <1>1, PathUnfolds
<1> DEFINE x == m[r].raw
           y == m[k].raw
<1>6. ~ IsPrefix(q, r) /\ ~ IsPrefix(q, k)
  <2>1. IsPrefix(q, p) <=> IsPrefix(q, r) \/ q = p
    BY <1>3, <1>4, PrefixOfAppend
  <2>2. ~ IsPrefix(q, k)
    BY <1>5, PrefixIsShorter
  <2> QED
    BY <2>1, <2>2
<1>7. ~ (x = y /\ i = j)
  <2> SUFFICES ASSUME x = y, i = j PROVE FALSE
    OBVIOUS
  <2>1. r = k
    BY <1>1, <1>4, <1>5, LabelsApart
  <2>2. q = p
    BY <1>4, <1>5, <2>1
  <2> QED
    BY <1>3, <1>4, <2>2, PrefixIsShorter
<1>8. /\ Changed(h, h1, y, j, Null) /\ Changed(h1, h2, x, i, b) /\ Changed(h2, g, y, j, a)
      /\ Slot(h, p) = << x, i >> /\ Slot(h, q) = << y, j >> /\ a = h[x].slots[i] /\ b = h[y].slots[j]
  <2>1. /\ x \in DOMAIN h /\ y \in DOMAIN h /\ i \in DOMAIN h[x].slots /\ j \in DOMAIN h[y].slots
        /\ Slot(h, p) = << x, i >> /\ Slot(h, q) = << y, j >>
    BY <1>4, <1>5
  <2> HIDE DEF x, y
  <2>2. a = h[x].slots[i] /\ b = h[y].slots[j]
    BY <2>1 DEF At
  <2> QED
    BY <1>7, <2>1, <2>2, SwapIsThree
<1>9. Old(h, y, j) = b /\ Old(h1, x, i) = a
  <2>1. Old(h, y, j) = b
    BY <1>5, <1>8 DEF Old
  <2>2. h1[x].slots[i] = h[x].slots[i] /\ i \in DOMAIN h1[x].slots
    BY <1>4, <1>7, <1>8 DEF Changed
  <2> QED
    BY <1>8, <2>1, <2>2 DEF Old
<1>10. x \in DOMAIN h /\ y \in DOMAIN h /\ x \in DOMAIN h1
  BY <1>4, <1>5, <1>8 DEF Changed
<1> HIDE DEF h1, h2, g, a, b, x, y
<1>11. Sound(h1, b) /\ Sound(h2, a)
  <2>1. Sound(h1, b)
    BY <1>8, <1>9, <1>10, ExchangeSound
  <2> QED
    BY <1>8, <1>9, <1>10, <2>1, ExchangeSound
<1> DEFINE d == Values!Get(m, q)
<1>12. /\ Unfolds(h1, Root, m1) /\ Tree(h1, m1) = Values!Set(t, q, Values!Null)
       /\ Unfolds(h1, b, d) /\ Tree(h1, d) = Values!Get(t, q)
  <2>1. Unfolds(h, Null, Only(Null)) /\ Tree(h, Only(Null)) = Values!Null
    BY NullUnfolds
  <2>2. Changed(h, h1, m[k].raw, j, Null)
    BY <1>8 DEF y
  <2> HIDE DEF t
  <2>3. /\ Unfolds(h1, Root, Values!Set(m, Append(k, j), Only(Null)))
        /\ Tree(h1, Values!Set(m, Append(k, j), Only(Null))) =
             Values!Set(Tree(h, m), Append(k, j), Tree(h, Only(Null)))
        /\ Append(k, j) \in DOMAIN m =>
             /\ Unfolds(h1, Old(h, m[k].raw, j), Values!Get(m, Append(k, j)))
             /\ Tree(h1, Values!Get(m, Append(k, j))) = Values!Get(Tree(h, m), Append(k, j))
    BY <1>1, <1>5, <2>1, <2>2, SetUnfolds
  <2> QED
    BY <1>3, <1>5, <1>9, <2>1, <2>3 DEF t, y
<1>13. /\ OverPaths(m1)
       /\ \A s \in Seq(Key) : ~ IsPrefix(q, s) =>
            (s \in DOMAIN m1 <=> s \in DOMAIN m) /\ (s \in DOMAIN m1 => m1[s] = m[s])
  <2> HIDE DEF t
  <2> QED
    BY <1>3, SetIs
<1>14. r \in DOMAIN m1 /\ m1[r] = m[r] /\ k \in DOMAIN m1 /\ m1[k] = m[k] /\ p \in DOMAIN m1
  BY <1>3, <1>4, <1>5, <1>6, <1>13
<1> HIDE DEF m1, d
<1>15. OverPaths(d) /\ OverPaths(c)
  BY <1>3, <1>13, GetIs DEF d
<1>16. /\ Unfolds(h2, Root, m2)
       /\ Tree(h2, m2) = Values!Set(Values!Set(t, q, Values!Null), p, Values!Get(t, q))
       /\ Unfolds(h2, a, c) /\ Tree(h2, c) = Values!Get(Values!Set(t, q, Values!Null), p)
  <2>1. Changed(h1, h2, m1[r].raw, i, b) /\ Opens(m1[r])
    BY <1>4, <1>8, <1>14 DEF x
  <2>2. /\ Unfolds(h2, Root, Values!Set(m1, Append(r, i), d))
        /\ Tree(h2, Values!Set(m1, Append(r, i), d)) =
             Values!Set(Tree(h1, m1), Append(r, i), Tree(h1, d))
        /\ Append(r, i) \in DOMAIN m1 =>
             /\ Unfolds(h2, Old(h1, m1[r].raw, i), Values!Get(m1, Append(r, i)))
             /\ Tree(h2, Values!Get(m1, Append(r, i))) = Values!Get(Tree(h1, m1), Append(r, i))
    BY <1>11, <1>12, <1>14, <2>1, SetUnfolds
  <2> QED
    BY <1>4, <1>9, <1>12, <1>14, <2>2 DEF d, x
<1>17. OverPaths(Values!Get(t, q)) /\ OverPaths(Values!Null)
  <2>1. OverPaths(Values!Get(t, q))
    BY <1>3, GetIs
  <2> QED
    BY <1>3, <2>1, NullUnfolds, TreeOverPaths
<1>18. CASE IsPrefix(p, q)
  <2>1. IsPrefix(p, k)
    <3>1. IsPrefix(p, q) <=> IsPrefix(p, k) \/ p = q
      BY <1>3, <1>5, PrefixOfAppend
    <3>2. p # q
      BY <1>18
    <3> QED
      BY <1>18, <3>1, <3>2
  <2>2. PICK s \in Seq(Key) : k = p \o s
    <3>1. p \in Seq(Key) /\ k \in Seq(Key)
      BY <1>3, <1>5
    <3> QED
      BY <2>1, <3>1, PrefixMeans
  <2>3. s \in DOMAIN c /\ c[s] = m[k]
    BY <1>3, <1>13, <1>14, <2>2, GetIs
  <2>4. Opens(c[s]) /\ Changed(h2, g, c[s].raw, j, a)
    BY <1>5, <1>8, <2>3 DEF y
  <2> HIDE DEF m2, c
  <2>5. Unfolds(g, Root, m2) /\ Tree(g, m2) = Tree(h2, m2)
    BY <1>11, <1>16, <2>3, <2>4, ElsewhereUnfolds
  <2>6. TreeOf(g) = Values!Set(Values!Set(t, q, Values!Null), p, Values!Get(t, q))
    BY <1>2, <1>16, <2>5, TreeIs DEF g
  <2> HIDE DEF t
  <2>7. TreeOf(g) = Values!Set(t, p, Values!Get(t, q))
    BY <1>3, <1>17, <1>18, <2>6, SetCovers
  <2>8. Values!Exchanged(t, p, q) = Values!Set(t, p, Values!Get(t, q))
    <3>1. IsStrictPrefix(p, q)
      BY <1>18 DEF IsStrictPrefix
    <3> QED
      BY <3>1, SamePrefix DEF Values!Exchanged
  <2> QED
    BY <1>1, <2>7, <2>8 DEF g
<1>19. CASE ~ IsPrefix(p, q)
  <2>1. ~ IsPrefix(p, k) /\ Beside(p, q)
    <3>1. IsPrefix(p, q) <=> IsPrefix(p, k) \/ p = q
      BY <1>3, <1>5, PrefixOfAppend
    <3> QED
      BY <1>19, <3>1 DEF Beside
  <2>2. k \in DOMAIN m2 /\ m2[k] = m[k]
    BY <1>3, <1>5, <1>13, <1>14, <1>15, <2>1, SetIs DEF d
  <2>3. Opens(m2[k]) /\ Changed(h2, g, m2[k].raw, j, a)
    BY <1>5, <1>8, <2>2 DEF y
  <2> HIDE DEF m2, c
  <2>4. /\ Unfolds(g, Root, Values!Set(m2, Append(k, j), c))
        /\ Tree(g, Values!Set(m2, Append(k, j), c)) =
             Values!Set(Tree(h2, m2), Append(k, j), Tree(h2, c))
    BY <1>11, <1>16, <2>2, <2>3, SetUnfolds
  <2> DEFINE n == Values!Set(m2, Append(k, j), c)
  <2> HIDE DEF n
  <2>5. TreeOf(g) = Values!Set(Tree(h2, m2), q, Tree(h2, c))
    <3>1. Unfolds(g, Root, n) /\ Tree(g, n) = Values!Set(Tree(h2, m2), q, Tree(h2, c))
      BY <1>5, <2>4 DEF n
    <3> QED
      BY <1>2, <3>1, TreeIs DEF g
  <2> HIDE DEF t
  <2>6. Values!Get(Values!Set(t, q, Values!Null), p) = Values!Get(t, p)
    BY <1>3, <1>17, <2>1, GetBeside
  <2>7. OverPaths(Values!Get(t, p))
    BY <1>3, GetIs
  <2>8. Values!Set(Values!Set(Values!Set(t, q, Values!Null), p, Values!Get(t, q)), q, Values!Get(t, p)) =
          Values!Set(Values!Set(t, p, Values!Get(t, q)), q, Values!Get(t, p))
    BY <1>3, <1>17, <2>1, <2>7, SetAround
  <2>9. Values!Exchanged(t, p, q) = Values!Set(Values!Set(t, p, Values!Get(t, q)), q, Values!Get(t, p))
    <3>1. ~ IsStrictPrefix(p, q) /\ ~ IsStrictPrefix(q, p)
      BY <2>1 DEF IsStrictPrefix, Beside
    <3> QED
      BY <3>1, SamePrefix DEF Values!Exchanged
  <2> QED
    BY <1>1, <1>16, <2>5, <2>6, <2>8, <2>9 DEF g
<1> QED
  BY <1>18, <1>19

\* Swap().
LEMMA SwapShows ==
  ASSUME NEW h, Sound(h, Null), NEW p, NEW e, Leads(h, p, e), NEW q, NEW f, Leads(h, q, f)
  PROVE  TreeOf(Swapped(h, Slot(h, p), Slot(h, q))) = Values!Exchanged(TreeOf(h), p, q)
<1> DEFINE g == Swapped(h, Slot(h, p), Slot(h, q))
           w == Swapped(h, Slot(h, q), Slot(h, p))
           m == Unfolding(h)
           t == Tree(h, m)
<1>1. Unfolds(h, Root, m) /\ TreeOf(h) = t
  BY HeapUnfolds
<1>2. Sound(g, Null) /\ Sound(w, Null)
  BY SwapKeeps DEF Keeps
<1> HIDE DEF m
<1>3. p \in Seq(Key) /\ q \in Seq(Key) /\ OverPaths(t)
  BY <1>1, PathUnfolds, TreeOverPaths DEF Unfolds
<1>4. PICK r \in DOMAIN m, i \in Key :
        /\ p = Append(r, i) /\ r \in Seq(Key) /\ Opens(m[r]) /\ Slot(h, p) = << m[r].raw, i >>
        /\ m[r].raw \in DOMAIN h /\ i \in DOMAIN h[m[r].raw].slots
  BY <1>1, PathUnfolds
<1>5. PICK k \in DOMAIN m, j \in Key :
        /\ q = Append(k, j) /\ k \in Seq(Key) /\ Opens(m[k]) /\ Slot(h, q) = << m[k].raw, j >>
        /\ m[k].raw \in DOMAIN h /\ j \in DOMAIN h[m[k].raw].slots
  BY <1>1, PathUnfolds
<1> DEFINE x == m[r].raw
           y == m[k].raw
<1>6. /\ x \in DOMAIN h /\ i \in DOMAIN h[x].slots /\ Slot(h, p) = << x, i >>
      /\ y \in DOMAIN h /\ j \in DOMAIN h[y].slots /\ Slot(h, q) = << y, j >>
  BY <1>4, <1>5
<1>7. p # q => ~ (x = y /\ i = j)
  <2> SUFFICES ASSUME x = y, i = j PROVE p = q
    OBVIOUS
  <2>1. r = k
    BY <1>1, <1>4, <1>5, LabelsApart
  <2> QED
    BY <1>4, <1>5, <2>1
<1> HIDE DEF x, y, t
<1>8. CASE ~ IsPrefix(q, p)
  BY <1>8, SwapShowsDown
<1>9. CASE IsPrefix(q, p) /\ p # q
  <2>1. ~ IsPrefix(p, q)
    BY <1>3, <1>9, PrefixAntisymmetric
  <2>2. TreeOf(w) = Values!Exchanged(TreeOf(h), q, p)
    BY <2>1, SwapShowsDown
  <2>3. \A o \in DOMAIN h : SameObject(w, g, o)
    <3> SUFFICES ASSUME NEW o \in DOMAIN h PROVE SameObject(w, g, o)
      OBVIOUS
    <3> DEFINE c == Swapped(h, << x, i >>, << y, j >>)
               d == Swapped(h, << y, j >>, << x, i >>)
    <3>1. /\ c[o].datum = h[o].datum /\ DOMAIN c[o].slots = DOMAIN h[o].slots
          /\ \A n \in DOMAIN h[o].slots :
               c[o].slots[n] = IF o = x /\ n = i THEN h[y].slots[j]
                               ELSE IF o = y /\ n = j THEN h[x].slots[i] ELSE h[o].slots[n]
      BY <1>6, <1>7, <1>9, SwappedIs
    <3>2. /\ d[o].datum = h[o].datum /\ DOMAIN d[o].slots = DOMAIN h[o].slots
          /\ \A n \in DOMAIN h[o].slots :
               d[o].slots[n] = IF o = y /\ n = j THEN h[x].slots[i]
                               ELSE IF o = x /\ n = i THEN h[y].slots[j] ELSE h[o].slots[n]
      BY <1>6, <1>7, <1>9, SwappedIs
    <3>3. c = g /\ d = w
      BY <1>6
    <3> HIDE DEF c, d, g, w
    <3>4. \A n \in DOMAIN h[o].slots : c[o].slots[n] = d[o].slots[n]
      BY <1>7, <1>9, <3>1, <3>2
    <3>5. SameObject(d, c, o)
      BY <3>1, <3>2, <3>4 DEF SameObject
    <3> QED
      BY <3>3, <3>5
  <2>4. DOMAIN w = DOMAIN h
    <3> DEFINE d == Swapped(h, << y, j >>, << x, i >>)
               h1 == Put(h, << x, i >>, Null)
               h2 == Put(h1, << y, j >>, h[x].slots[i])
    <3>1. ~ (y = x /\ j = i)
      BY <1>7, <1>9
    <3>2. /\ Changed(h, h1, x, i, Null) /\ Changed(h1, h2, y, j, h[x].slots[i])
          /\ Changed(h2, d, x, i, h[y].slots[j])
      BY <1>6, <3>1, SwapIsThree
    <3>3. d = w
      BY <1>6
    <3> HIDE DEF d, h1, h2, w
    <3> QED
      BY <3>2, <3>3 DEF Changed
  <2>5. TreeOf(g) = TreeOf(w)
    BY <1>2, <2>3, <2>4, SameObjectsShow
  <2>6. Values!Exchanged(TreeOf(h), q, p) = Values!Exchanged(TreeOf(h), p, q)
    <3>1. IsStrictPrefix(q, p) /\ ~ IsStrictPrefix(p, q)
      BY <1>9, <2>1 DEF IsStrictPrefix
    <3> QED
      BY <3>1, SamePrefix DEF Values!Exchanged
  <2> QED
    BY <2>2, <2>5, <2>6
<1>10. CASE p = q
  <2> DEFINE a == h[x].slots[i]
             h1 == Put(h, << x, i >>, a)
             h2 == Put(h1, << x, i >>, a)
  <2>1. g = h2
    BY <1>6, <1>10 DEF Swapped, At
  <2>2. a \in JVars /\ Typed(h) /\ MayHave(h, x, i) /\ Holds(h, a)
    BY <1>6 DEF Sound, Typed, Holds, MayHave
  <2> HIDE DEF a
  <2>3. Changed(h, h1, x, i, a)
    BY <1>6, <2>2, PutChanges
  <2> HIDE DEF h1
  <2>4. Typed(h1)
    BY <1>6, <2>2, <2>3, ChangeTyped
  <2>5. x \in DOMAIN h1 /\ MayHave(h1, x, i)
    BY <1>6, <2>3 DEF Changed, MayHave
  <2>6. Changed(h1, h2, x, i, a)
    BY <2>2, <2>4, <2>5, PutChanges
  <2> HIDE DEF h2
  <2>7. \A o \in DOMAIN h : SameObject(h, h2, o)
    BY <1>6, <2>3, <2>6 DEF Changed, SameObject, a
  <2>8. TreeOf(g) = TreeOf(h)
    <3> HIDE DEF g
    <3> QED
      BY <1>2, <2>1, <2>7, SameObjectsShow
  <2>9. Values!Exchanged(t, p, p) = t
    <3>1. ~ IsStrictPrefix(p, p)
      BY DEF IsStrictPrefix
    <3>2. Values!Exchanged(t, p, p) = Values!Set(Values!Set(t, p, Values!Get(t, p)), p, Values!Get(t, p))
      BY <3>1, SamePrefix DEF Values!Exchanged
    <3>3. Values!Set(t, p, Values!Get(t, p)) = t
      BY <1>3, SetWithItself
    <3> QED
      BY <3>2, <3>3
  <2> QED
    BY <1>1, <1>10, <2>8, <2>9
<1> QED
  BY <1>8, <1>9, <1>10

-----------------------------------------------------------------------------
(* Add() and operator[].                                                   *)

\* The tree has at a path what the JVar there holds, and behind it the slots of its object.
LEMMA TreeShows ==
  ASSUME NEW h, Sound(h, Null), NEW p, NEW f, Leads(h, p, f)
  PROVE  /\ p \in DOMAIN TreeOf(h) /\ TreeOf(h)[p] = Held(h, At(h, Slot(h, p)))
         /\ TreeOf(h)[p].type = At(h, Slot(h, p)).type
         /\ At(h, Slot(h, p)).type \in Owning =>
              \A k \in Key : Append(p, k) \in DOMAIN TreeOf(h) <=> k \in DOMAIN h[ObjectAt(h, p)].slots
<1> DEFINE m == Unfolding(h)
           u == At(h, Slot(h, p))
           o == ObjectAt(h, p)
<1>1. Unfolds(h, Root, m) /\ TreeOf(h) = Tree(h, m)
  BY HeapUnfolds
<1> HIDE DEF m
<1>2. p \in DOMAIN m /\ p \in Seq(Key) /\ p # << >> /\ m[p] = u /\ o = m[p].raw
  BY <1>1, PathUnfolds
<1>3. Holds(h, u)
  BY <1>1, <1>2, LabelsHold DEF Sound, Grounded
<1> HIDE DEF u, o
<1>4. u.type # "frame"
  BY <1>3, NoneIsFrame
<1>5. DOMAIN Tree(h, m) = DOMAIN m /\ Tree(h, m)[p] = Held(h, u)
  BY <1>2, <1>4 DEF Tree, Shown
<1>6. Held(h, u).type = u.type
  BY DEF Held
<1>7. ASSUME u.type \in Owning, NEW k \in Key
      PROVE  Append(p, k) \in DOMAIN m <=> k \in DOMAIN h[o].slots
  BY <1>1, <1>2, <1>7 DEF Unfolds, Opens
<1> QED
  BY <1>1, <1>2, <1>5, <1>6, <1>7 DEF u, o

\* The cardinality the abstract specification counts with is the one of this module.
LEMMA SameCardinality ==
  ASSUME NEW S
  PROVE  Values!Cardinality(S) = Cardinality(S)
BY DEF Cardinality, Values!Cardinality

\* The elements of an array are as many in the tree.
LEMMA ElementsShow ==
  ASSUME NEW h, Sound(h, Null), NEW p, NEW f, Leads(h, p, f), At(h, Slot(h, p)).type = "array"
  PROVE  /\ h[ObjectAt(h, p)].slots \in Seq(JVars)
         /\ Values!Elements(TreeOf(h), p) = Len(h[ObjectAt(h, p)].slots)
<1> DEFINE t == TreeOf(h)
           m == Unfolding(h)
           c == h[ObjectAt(h, p)].slots
           n == Len(c)
           E == { q \in Values!Below(t, p) : Len(q) = Len(p) + 1 }
           b == [ i \in 1 .. n |-> Append(p, i) ]
<1>1. c \in Seq(JVars)
  BY ObjectIs DEF Owning, Sound, Typed, Fits
<1>2. n \in Nat /\ DOMAIN c = 1 .. n
  BY <1>1
<1>3. p \in Seq(Key) /\ Unfolds(h, Root, m) /\ t = Tree(h, m) /\ DOMAIN t = DOMAIN m
  BY HeapUnfolds, PathUnfolds DEF Tree
<1>4. \A k \in Key : Append(p, k) \in DOMAIN t <=> k \in DOMAIN c
  BY TreeShows DEF Owning
<1> HIDE DEF t, m, c, n
<1>5. 1 .. n \subseteq Key
  BY <1>2 DEF Key
<1>6. ASSUME NEW i \in 1 .. n PROVE Append(p, i) \in E
  <2>1. i \in Key /\ Append(p, i) \in DOMAIN t
    BY <1>2, <1>4, <1>5
  <2>2. IsPrefix(p, Append(p, i))
    BY <1>3, <2>1, PrefixOfAppend, PrefixIsShorter
  <2>3. Len(Append(p, i)) = Len(p) + 1
    BY <1>3, <2>1
  <2> QED
    BY <2>1, <2>2, <2>3, SamePrefix DEF Values!Below
<1>7. ASSUME NEW q \in E PROVE \E i \in 1 .. n : q = Append(p, i)
  <2>1. q \in DOMAIN m /\ IsPrefix(p, q) /\ Len(q) = Len(p) + 1
    BY <1>3, SamePrefix DEF Values!Below
  <2>2. q # << >>
    BY <1>3, <2>1
  <2> HIDE DEF E
  <2>3. PICK r \in DOMAIN m, i \in Key :
          /\ q = Append(r, i) /\ r \in Seq(Key) /\ Opens(m[r])
          /\ i \in DOMAIN h[m[r].raw].slots /\ m[q] = h[m[r].raw].slots[i]
    <3>1. Unfolds(h, Root, m) /\ q \in DOMAIN m /\ q # << >>
      BY <1>3, <2>1, <2>2
    <3> QED
      BY <3>1, LabelBefore
  <2>4. Len(r) = Len(p)
    BY <1>3, <2>1, <2>3
  <2>5. p # Append(r, i)
    BY <2>1, <2>3, <1>3
  <2>6. IsPrefix(p, r)
    BY <1>3, <2>1, <2>3, <2>5, PrefixOfAppend
  <2>7. PICK s \in Seq(Key) : r = p \o s
    BY <1>3, <2>3, <2>6, PrefixMeans
  <2>8. s = << >>
    BY <1>3, <2>4, <2>7
  <2>9. r = p
    BY <1>3, <2>7, <2>8
  <2>10. i \in DOMAIN c
    BY <1>3, <1>4, <2>1, <2>3, <2>9
  <2> QED
    BY <1>2, <2>3, <2>9, <2>10
<1>8. ASSUME NEW i \in 1 .. n, NEW j \in 1 .. n, Append(p, i) = Append(p, j) PROVE i = j
  <2>1. i \in Key /\ j \in Key
    BY <1>5
  <2>2. Append(p, i)[Len(p) + 1] = i /\ Append(p, j)[Len(p) + 1] = j
    BY <1>3, <2>1
  <2> QED
    BY <1>8, <2>2
<1> HIDE DEF E
<1>9. b \in Bijection(1 .. n, E)
  <2>1. b \in [1 .. n -> E]
    BY <1>6
  <2>2. \A i, j \in 1 .. n : b[i] = b[j] => i = j
    BY <1>8
  <2>3. \A q \in E : \E i \in 1 .. n : b[i] = q
    BY <1>7
  <2> HIDE DEF b
  <2> QED
    BY <2>1, <2>2, <2>3 DEF Bijection, Injection, Surjection, IsInjective
<1>10. ExistsBijection(1 .. n, E)
  BY <1>9 DEF ExistsBijection
<1>11. IsFiniteSet(1 .. n) /\ Cardinality(1 .. n) = n
  BY <1>2, FS_Interval
<1>12. Cardinality(E) = n
  BY <1>10, <1>11, FS_Bijection
<1> QED
  BY <1>1, <1>12, SameCardinality DEF Values!Elements, E, t, c, n

\* A new JVar of a type, as a source.
Blank(type) == [how |-> "new", type |-> type, datum |-> NoDatum]

\* It is one, and makes nothing but a new JVar.
LEMMA BlankIs ==
  ASSUME NEW h, Sound(h, Null), NEW type \in { "null", "array", "hash" },
         type \in Owning => Unused(h) # {}
  PROVE  /\ IsSource(h, Blank(type)) /\ Made(h, Blank(type)) = Fresh(h, type, NoDatum)
         /\ Needs(h, Blank(type)) <= Cardinality(Unused(h))
         /\ \A t, p : Values!Moved(t, p, Blank(type)) = Values!Set(t, p, Values!Leaf(type, "none"))
<1> DEFINE src == Blank(type)
<1>1. src.how = "new" /\ src.type = type /\ src.datum = NoDatum
  BY DEF Blank
<1> HIDE DEF src
<1>2. IsSource(h, src) /\ Made(h, src) = Fresh(h, type, NoDatum)
  BY <1>1 DEF IsSource, Made
<1>3. Needs(h, src) = IF type \in Owning THEN 1 ELSE 0
  BY <1>1 DEF Needs
<1>4. IsFiniteSet(Unused(h))
  BY JVarBounds, FS_Subset DEF Unused
<1>5. Cardinality(Unused(h)) \in Nat /\ (Unused(h) # {} => Cardinality(Unused(h)) # 0)
  BY <1>4, FS_CardinalityType, FS_EmptySet
<1>6. Needs(h, src) <= Cardinality(Unused(h))
  BY <1>3, <1>5
<1>7. \A t, p : Values!Moved(t, p, src) = Values!Set(t, p, Values!Leaf(type, "none"))
  BY <1>1 DEF Values!Moved, Values!Rest, Values!Value, NoDatum
<1> QED
  BY <1>2, <1>6, <1>7 DEF src

\* Add() to null.
LEMMA ReadyShows ==
  ASSUME NEW h, Sound(h, Null), NEW p, NEW f, Leads(h, p, f), NEW type \in { "array", "hash" },
         At(h, Slot(h, p)).type = "null" => Unused(h) # {}
  PROVE  TreeOf(Ready(h, p, type)) =
           IF TreeOf(h)[p].type = "null" THEN Values!Set(TreeOf(h), p, Values!Leaf(type, "none"))
           ELSE TreeOf(h)
<1>1. TreeOf(h)[p].type = At(h, Slot(h, p)).type
  BY TreeShows
<1>2. CASE At(h, Slot(h, p)).type = "null"
  <2>1. /\ IsSource(h, Blank(type)) /\ Made(h, Blank(type)) = Fresh(h, type, NoDatum)
        /\ Needs(h, Blank(type)) <= Cardinality(Unused(h))
        /\ \A t, q : Values!Moved(t, q, Blank(type)) = Values!Set(t, q, Values!Leaf(type, "none"))
    BY <1>2, BlankIs
  <2>2. Ready(h, p, type) = Assigned(Made(h, Blank(type)), Slot(h, p))
    BY <1>2, <2>1 DEF Ready, Composed
  <2> DEFINE src == Blank(type)
  <2> HIDE DEF src
  <2>3. IsSource(h, src) /\ Needs(h, src) <= Cardinality(Unused(h))
    BY <2>1 DEF src
  <2>4. TreeOf(Assigned(Made(h, src), Slot(h, p))) = Values!Moved(TreeOf(h), p, src)
    BY <2>3, AssignShows
  <2>5. TreeOf(Ready(h, p, type)) = Values!Moved(TreeOf(h), p, Blank(type))
    BY <2>2, <2>4 DEF src
  <2>6. Values!Moved(TreeOf(h), p, Blank(type)) = Values!Set(TreeOf(h), p, Values!Leaf(type, "none"))
    BY <2>1
  <2> QED
    BY <1>1, <1>2, <2>5, <2>6
<1>3. CASE At(h, Slot(h, p)).type # "null"
  BY <1>1, <1>3 DEF Ready, Composed
<1> QED
  BY <1>2, <1>3

\* emplace_back.
LEMMA AppendShows ==
  ASSUME NEW h, Sound(h, Null), NEW p, NEW f, Leads(h, p, f), At(h, Slot(h, p)).type = "array",
         NEW src, IsSource(h, src), Needs(h, src) <= Cardinality(Unused(h))
  PROVE  TreeOf(Appended(Made(h, src), ObjectAt(h, p))) =
           Values!Moved(TreeOf(h), Append(p, Values!Elements(TreeOf(h), p) + 1), src)
<1> DEFINE o == ObjectAt(h, p)
           a == Made(h, src).heap
           v == Made(h, src).value
           c == h[o].slots
           d == a[o].slots
           n == Len(d) + 1
           g == [a EXCEPT ![o].slots = Append(@, v)]
<1>1. o \in DOMAIN h /\ h[o].type = "array"
  BY ObjectIs DEF Owning
<1>2. g = Appended(Made(h, src), o)
  BY DEF Appended
<1>3. Sound(g, Null)
  BY <1>2, AppendKeeps DEF Keeps
<1>4. /\ Typed(a) /\ v \in JVars /\ o \in DOMAIN a /\ a[o].type = "array"
      /\ DOMAIN d = DOMAIN c
  BY <1>1, MadeKeepsSlots
<1>5. d \in Seq(JVars)
  BY <1>4 DEF Typed, Fits
<1>6. c \in Seq(JVars) /\ Values!Elements(TreeOf(h), p) = Len(c)
  BY ElementsShow
<1> HIDE DEF o, a, v
<1>7. Changed(a, g, o, n, v)
  BY <1>4, AppendChanges
<1> HIDE DEF c, d, g
<1>8. n = Len(c) + 1 /\ n \in Key
  BY <1>4, <1>5, <1>6 DEF Key
<1> HIDE DEF n
<1>9. TreeOf(g) = Values!Moved(TreeOf(h), Append(p, n), src)
  <2>1. At(h, Slot(h, p)).type \in Owning
    BY DEF Owning
  <2> QED
    BY <1>3, <1>7, <1>8, <2>1, AddedShows DEF o, a, v
<1> QED
  BY <1>2, <1>6, <1>8, <1>9 DEF o

\* A new key of a hash.
LEMMA EmplaceShows ==
  ASSUME NEW h, Sound(h, Null), NEW p, NEW f, Leads(h, p, f), At(h, Slot(h, p)).type = "hash",
         NEW src, IsSource(h, src), Needs(h, src) <= Cardinality(Unused(h)),
         NEW k \in Name, k \notin DOMAIN h[ObjectAt(h, p)].slots
  PROVE  TreeOf(Put(Made(h, src).heap, << ObjectAt(h, p), k >>, Made(h, src).value)) =
           Values!Moved(TreeOf(h), Append(p, k), src)
<1> DEFINE o == ObjectAt(h, p)
           a == Made(h, src).heap
           v == Made(h, src).value
           g == Put(a, << o, k >>, v)
<1>1. o \in DOMAIN h /\ h[o].type = "hash"
  BY ObjectIs DEF Owning
<1>2. Sound(g, Null)
  BY EmplaceKeeps DEF Keeps
<1>3. Typed(a) /\ v \in JVars /\ o \in DOMAIN a /\ a[o].type = "hash"
  BY <1>1, MadeKeepsSlots
<1> HIDE DEF o, a, v
<1>4. Changed(a, g, o, k, v)
  BY <1>3, PutChanges DEF MayHave
<1> HIDE DEF g
<1>5. TreeOf(g) = Values!Moved(TreeOf(h), Append(p, k), src)
  <2>1. At(h, Slot(h, p)).type \in Owning /\ k \in Key
    BY DEF Owning, Key
  <2> QED
    BY <1>2, <1>4, <2>1, AddedShows DEF o, a, v
<1> QED
  BY <1>5 DEF g, o, a, v

\* operator[] of a hash, with a new key.
LEMMA IndexShows ==
  ASSUME NEW h, Sound(h, Null), NEW p, NEW f, Leads(h, p, f), At(h, Slot(h, p)).type = "hash",
         NEW k \in Name, k \notin DOMAIN h[ObjectAt(h, p)].slots
  PROVE  TreeOf(Put(h, << ObjectAt(h, p), k >>, Null)) =
           Values!Set(TreeOf(h), Append(p, k), Values!Null)
<1> DEFINE src == Blank("null")
<1>1. /\ IsSource(h, src) /\ Made(h, src) = Fresh(h, "null", NoDatum)
      /\ Needs(h, src) <= Cardinality(Unused(h))
      /\ \A t, q : Values!Moved(t, q, src) = Values!Set(t, q, Values!Leaf("null", "none"))
  BY BlankIs, Tags DEF Owning
<1> HIDE DEF src
<1>2. Made(h, src).heap = h /\ Made(h, src).value = Null
  BY <1>1 DEF Fresh, Owning, Null
<1>3. TreeOf(Put(Made(h, src).heap, << ObjectAt(h, p), k >>, Made(h, src).value)) =
        Values!Moved(TreeOf(h), Append(p, k), src)
  BY <1>1, EmplaceShows
<1>4. Values!Moved(TreeOf(h), Append(p, k), src) = Values!Set(TreeOf(h), Append(p, k), Values!Null)
  BY <1>1 DEF Values!Null
<1> QED
  BY <1>2, <1>3, <1>4

-----------------------------------------------------------------------------
(* Clear(), writes and destructors.                                        *)

\* What the JVar at a path reaches is what the paths behind it open.
LEMMA ReachIsBehind ==
  ASSUME NEW h, Sound(h, Null), NEW m, Unfolds(h, Root, m), NEW p \in DOMAIN m, Holds(h, m[p]),
         NEW q \in DOMAIN m, Opens(m[q]), ~ IsPrefix(p, q)
  PROVE  m[q].raw \notin Reach(h, m[p])
<1> DEFINE S == { r \in DOMAIN m : IsPrefix(p, r) /\ Opens(m[r]) }
           T == { m[r].raw : r \in S }
<1>1. OverPaths(m) /\ p \in Seq(Key)
  BY DEF Unfolds, OverPaths
<1>2. Owned(m[p]) \subseteq T
  <2> SUFFICES ASSUME m[p].type \in Owning PROVE m[p].raw \in T
    BY DEF Owned
  <2>1. IsPrefix(p, p)
    BY <1>1, PrefixTransitive, EmptySeq DEF IsPrefix
  <2> QED
    BY <2>1 DEF Opens
<1>3. ASSUME NEW r \in S, NEW i \in DOMAIN h[m[r].raw].slots
      PROVE  Owned(h[m[r].raw].slots[i]) \subseteq T
  <2> DEFINE u == h[m[r].raw].slots[i]
             e == Append(r, i)
  <2>1. r \in Seq(Key) /\ r \in DOMAIN m /\ IsPrefix(p, r) /\ Opens(m[r])
    BY <1>1 DEF OverPaths
  <2>2. m[r].raw \in DOMAIN h
    BY <2>1, LabelsHold DEF Sound, Grounded
  <2>3. i \in Key
    BY <2>2, SlotsHaveKeys DEF Sound
  <2>4. e \in DOMAIN m /\ m[e] = u
    BY <2>1, <2>3 DEF Unfolds
  <2>5. IsPrefix(p, e)
    BY <1>1, <2>1, <2>3, PrefixOfAppend
  <2> HIDE DEF e, u
  <2>6. ASSUME u.type \in Owning PROVE u.raw \in T
    <3>1. e \in S /\ m[e].raw = u.raw
      BY <2>4, <2>5, <2>6 DEF Opens
    <3> QED
      BY <3>1
  <2> QED
    BY <2>6 DEF Owned, u
<1>4. Closed(h, T)
  <2> HIDE DEF S
  <2> QED
    BY <1>3 DEF Closed
<1> HIDE DEF T
<1>5. Reach(h, m[p]) \subseteq T
  BY <1>2, <1>4, ReachIsLeast DEF Sound
<1> SUFFICES ASSUME m[q].raw \in T PROVE FALSE
  BY <1>5
<1>6. PICK r \in S : m[q].raw = m[r].raw
  BY DEF T
<1>7. q = r
  BY <1>6, LabelsApart
<1> QED
  BY <1>6, <1>7

\* An object is emptied, and what only it reaches may be gone.
LEMMA EmptiedShows ==
  ASSUME NEW h, Sound(h, Null), NEW p, NEW f, Leads(h, p, f), NEW v, v = At(h, Slot(h, p)),
         v.type \in { "array", "hash" }, NEW g, Sound(g, Null),
         v.raw \in DOMAIN g, g[v.raw] = Contents(v.type, NoDatum),
         \A o \in DOMAIN h \ Reach(h, v) : o \in DOMAIN g /\ g[o] = h[o]
  PROVE  TreeOf(g) = Values!Set(TreeOf(h), p, Values!Leaf(v.type, "none"))
<1> DEFINE m == Unfolding(h)
           k == Values!Set(m, p, Only(v))
<1>1. Unfolds(h, Root, m) /\ TreeOf(h) = Tree(h, m)
  BY HeapUnfolds
<1> HIDE DEF m
<1>3. OverPaths(m) /\ p \in DOMAIN m /\ p \in Seq(Key) /\ p # << >> /\ m[p] = v
  BY <1>1, PathUnfolds DEF Unfolds
<1>4. Holds(h, v)
  BY <1>1, <1>3, LabelsHold DEF Sound, Grounded
<1>6. DOMAIN g[v.raw].slots = {} /\ g[v.raw].datum = NoDatum
  BY DEF Contents
<1>7. ASSUME NEW q \in DOMAIN m, ~ IsPrefix(p, q), Opens(m[q])
      PROVE  m[q].raw \in DOMAIN g /\ g[m[q].raw] = h[m[q].raw]
  <2>1. m[q].raw \notin Reach(h, v) /\ m[q].raw \in DOMAIN h
    BY <1>1, <1>3, <1>4, <1>7, ReachIsBehind, LabelsHold DEF Sound, Grounded
  <2> QED
    BY <2>1
<1>8. OverPaths(Only(v)) /\ Unfolds(g, v, Only(v)) /\ Tree(g, Only(v)) = Values!Leaf(v.type, "none")
  <2>1. Shown(g, v) = [type |-> v.type, datum |-> "none"]
    BY <1>6 DEF Shown, Held, Owning, NoDatum
  <2>2. Opens(v) => DOMAIN g[v.raw].slots = {}
    BY <1>6
  <2>3. /\ Unfolds(g, v, Only(v)) /\ OverPaths(Only(v))
        /\ \A type, datum : Shown(g, v) = [type |-> type, datum |-> datum] =>
             Tree(g, Only(v)) = Values!Leaf(type, datum)
    BY <2>2, OnlyUnfolds
  <2> QED
    BY <2>1, <2>3
<1>9. /\ OverPaths(k)
      /\ \A s \in Seq(Key) : /\ p \o s \in DOMAIN k <=> s = << >>
                             /\ s = << >> => k[p \o s] = v
      /\ \A q \in Seq(Key) : ~ IsPrefix(p, q) =>
           /\ q \in DOMAIN k <=> q \in DOMAIN m
           /\ q \in DOMAIN k => k[q] = m[q]
  <2>1. DOMAIN Only(v) = { << >> } /\ Only(v)[<< >>] = v
    BY DEF Only
  <2> QED
    BY <1>3, <1>8, <2>1, SetIs
<1> HIDE DEF k
<1>10. p \in DOMAIN k /\ k[p] = v
  <2>1. << >> \in Seq(Key)
    BY EmptySeq
  <2>2. p \o << >> \in DOMAIN k /\ k[p \o << >>] = v
    BY <1>9, <2>1
  <2>3. p \o << >> = p
    BY <1>3
  <2> QED
    BY <2>2, <2>3
<1>11. ASSUME NEW s \in Seq(Key), NEW i \in Key
       PROVE  /\ Append(s, i) \in DOMAIN k <=>
                   s \in DOMAIN k /\ Opens(k[s]) /\ i \in DOMAIN g[k[s].raw].slots
              /\ Append(s, i) \in DOMAIN k => k[Append(s, i)] = g[k[s].raw].slots[i]
  <2> DEFINE e == Append(s, i)
  <2>1. e \in Seq(Key) /\ (IsPrefix(p, e) <=> IsPrefix(p, s) \/ p = e)
    BY <1>3, PrefixOfAppend
  <2>2. /\ e \in DOMAIN m <=> s \in DOMAIN m /\ Opens(m[s]) /\ i \in DOMAIN h[m[s].raw].slots
        /\ e \in DOMAIN m => m[e] = h[m[s].raw].slots[i]
    BY <1>1 DEF Unfolds
  <2>3. CASE IsPrefix(p, s)
    <3>1. PICK b \in Seq(Key) : s = p \o b
      BY <1>3, <2>3, PrefixMeans
    <3>2. Append(p \o b, i) = p \o Append(b, i) /\ Append(b, i) \in Seq(Key) /\ Append(b, i) # << >>
      <4>1. p \in Seq(Key) /\ b \in Seq(Key) /\ i \in Key
        BY <1>3
      <4>2. p \o Append(b, i) = Append(p \o b, i)
        BY <4>1, ConcatAppend
      <4>3. Append(b, i) \in Seq(Key) /\ Append(b, i) # << >>
        BY <4>1, AppendProperties
      <4> QED
        BY <4>2, <4>3
    <3>3. e \notin DOMAIN k
      BY <1>9, <3>1, <3>2
    <3>4. s \in DOMAIN k => k[s] = v
      BY <1>9, <3>1
    <3> QED
      BY <1>6, <3>3, <3>4
  <2>4. CASE ~ IsPrefix(p, s)
    <3>1. (s \in DOMAIN k <=> s \in DOMAIN m) /\ (s \in DOMAIN k => k[s] = m[s])
      BY <1>9, <2>4
    <3>2. s \in DOMAIN m /\ Opens(m[s]) => g[m[s].raw] = h[m[s].raw]
      BY <1>7, <2>4
    <3>3. (e \in DOMAIN k <=> e \in DOMAIN m) /\ (e \in DOMAIN k => k[e] = m[e])
      <4>1. CASE p = e
        BY <1>3, <1>10, <4>1
      <4>2. CASE p # e
        BY <1>9, <2>1, <2>4, <4>2
      <4> QED
        BY <4>1, <4>2
    <3> HIDE DEF e
    <3>4. /\ e \in DOMAIN k <=> s \in DOMAIN k /\ Opens(k[s]) /\ i \in DOMAIN g[k[s].raw].slots
          /\ e \in DOMAIN k => k[e] = g[k[s].raw].slots[i]
      BY <2>2, <3>1, <3>2, <3>3
    <3> QED
      BY <3>4 DEF e
  <2> QED
    BY <2>3, <2>4
<1>12. Unfolds(g, Root, k)
  <2>1. << >> \in Seq(Key) /\ ~ IsPrefix(p, << >>)
    <3>1. << >> \in Seq(Key)
      BY EmptySeq
    <3>2. ASSUME IsPrefix(p, << >>) PROVE FALSE
      <4>1. PICK b \in Seq(Key) : << >> = p \o b
        BY <1>3, <3>1, <3>2, PrefixMeans
      <4> QED
        BY <1>3, <4>1
    <3> QED
      BY <3>1, <3>2
  <2>2. << >> \in DOMAIN k /\ k[<< >>] = Root
    BY <1>1, <1>9, <2>1 DEF Unfolds
  <2> QED
    BY <1>9, <1>11, <2>2 DEF Unfolds
<1>13. Tree(g, k) = Values!Set(Tree(h, m), p, Tree(g, Only(v)))
  <2>1. ASSUME NEW q \in DOMAIN m, ~ IsPrefix(p, q) PROVE Shown(g, m[q]) = Shown(h, m[q])
    BY <1>7, <2>1, ShownKept DEF Opens
  <2> DEFINE n == Only(v)
  <2>2. OverPaths(n) /\ \A s \in DOMAIN n : Shown(g, n[s]) = Shown(g, n[s])
    BY <1>8
  <2> HIDE DEF n
  <2>3. Tree(g, Values!Set(m, p, n)) = Values!Set(Tree(h, m), p, Tree(g, n))
    BY <1>3, <2>1, <2>2, TreeOfSet
  <2> QED
    BY <2>3 DEF n, k
<1>14. TreeOf(g) = Tree(g, k)
  BY <1>12, TreeIs
<1> QED
  BY <1>1, <1>8, <1>13, <1>14

\* Clear() of an array or a hash.
LEMMA ClearShows ==
  ASSUME NEW h, Sound(h, Null), NEW p, NEW f, Leads(h, p, f), NEW v, v = At(h, Slot(h, p)),
         v.type \in { "array", "hash" }, NEW g,
         g = [ o \in DOMAIN h \ (Reach(h, v) \ { v.raw }) |->
                 IF o = v.raw THEN Contents(v.type, NoDatum) ELSE h[o] ]
  PROVE  TreeOf(g) = Values!Set(TreeOf(h), p, Values!Leaf(v.type, "none"))
<1>1. Sound(g, Null)
  BY ClearKeeps DEF Keeps
<1>2. Holds(h, v)
  BY SlotIs DEF Sound, Typed
<1>3. v.raw \in DOMAIN h /\ v.raw \in Reach(h, v)
  BY <1>2, ReachIsLeast DEF Sound, Owned, Owning, Holds
<1>4. v.raw \in DOMAIN g /\ g[v.raw] = Contents(v.type, NoDatum)
  BY <1>3
<1>5. \A o \in DOMAIN h \ Reach(h, v) : o \in DOMAIN g /\ g[o] = h[o]
  BY <1>3
<1> QED
  BY <1>1, <1>4, <1>5, EmptiedShows

\* A write to a string.
LEMMA WriteStringShows ==
  ASSUME NEW h, Sound(h, Null), NEW p, NEW f, Leads(h, p, f), NEW v, v = At(h, Slot(h, p)),
         v.type = "string", NEW d \in Datum
  PROVE  TreeOf([h EXCEPT ![v.raw].datum = d]) = Values!Set(TreeOf(h), p, Values!Leaf("string", d))
<1> DEFINE m == Unfolding(h)
           g == [h EXCEPT ![v.raw].datum = d]
           n == Only(v)
<1>1. Unfolds(h, Root, m) /\ TreeOf(h) = Tree(h, m)
  BY HeapUnfolds
<1>2. Sound(g, Null)
  BY WriteKeeps DEF Keeps
<1> HIDE DEF m
<1>3. OverPaths(m) /\ p \in DOMAIN m /\ p \in Seq(Key) /\ p # << >> /\ m[p] = v
  BY <1>1, PathUnfolds DEF Unfolds
<1>4. Holds(h, v) /\ Opens(v)
  BY <1>1, <1>3, LabelsHold, NoneIsFrame DEF Sound, Grounded, Owning
<1>5. v.raw \in DOMAIN h /\ h[v.raw].type = "string"
  BY <1>4 DEF Holds, Owning
<1>6. Fits(v.raw, h[v.raw])
  BY <1>5 DEF Sound, Typed
<1>7. DOMAIN h[v.raw].slots = {}
  BY <1>5, <1>6 DEF Fits
<1>8. /\ \A o \in DOMAIN h : g[o].slots = h[o].slots /\ (o # v.raw => g[o] = h[o])
      /\ g[v.raw].datum = d
  BY <1>5, <1>6 DEF Fits
<1> HIDE DEF g
<1>9. Unfolds(h, v, n) /\ OverPaths(n)
  BY <1>7, OnlyUnfolds
<1>10. Tree(g, n) = Values!Leaf("string", d)
  <2>1. Shown(g, v) = [type |-> "string", datum |-> d]
    BY <1>8 DEF Shown, Held, Owning
  <2>2. DOMAIN g[v.raw].slots = {}
    BY <1>5, <1>7, <1>8
  <2>3. \A type, datum : Shown(g, v) = [type |-> type, datum |-> datum] =>
          Tree(g, Only(v)) = Values!Leaf(type, datum)
    BY <2>2, OnlyUnfolds
  <2> QED
    BY <2>1, <2>3
<1> HIDE DEF n
<1>11. Values!Set(m, p, n) = m
  <2>1. Unfolds(h, v, Values!Get(m, p))
    BY <1>1, <1>3, BranchUnfolds
  <2>2. Values!Get(m, p) = n
    BY <1>9, <2>1, UnfoldsOnce
  <2> QED
    BY <1>3, <2>2, SetWithItself
<1>12. Unfolds(g, Root, m)
  <2>1. \A s \in DOMAIN m : Opens(m[s]) => g[m[s].raw].slots = h[m[s].raw].slots
    BY <1>1, <1>8, LabelsHold DEF Sound, Grounded
  <2> QED
    BY <1>1, <2>1 DEF Unfolds
<1>13. ASSUME NEW q \in DOMAIN m, ~ IsPrefix(p, q) PROVE Shown(g, m[q]) = Shown(h, m[q])
  <2>1. ASSUME m[q].type \in Owning PROVE g[m[q].raw].datum = h[m[q].raw].datum
    <3>1. Opens(m[q]) /\ m[q].raw \in DOMAIN h
      BY <1>1, <2>1, LabelsHold DEF Sound, Grounded, Opens
    <3>2. m[q].raw # v.raw
      <4> SUFFICES ASSUME m[q].raw = v.raw PROVE FALSE
        OBVIOUS
      <4>1. q = p
        BY <1>1, <1>3, <1>4, <3>1, LabelsApart
      <4>2. IsPrefix(p, p)
        BY <1>3, PrefixMeans, EmptySeq DEF IsPrefix
      <4> QED
        BY <1>13, <4>1, <4>2
    <3> QED
      BY <1>8, <3>1, <3>2
  <2> QED
    BY <2>1, ShownKept
<1>14. Tree(g, Values!Set(m, p, n)) = Values!Set(Tree(h, m), p, Tree(g, n))
  BY <1>3, <1>9, <1>13, TreeOfSet
<1>15. TreeOf(g) = Tree(g, m)
  BY <1>2, <1>12, TreeIs
<1> QED
  BY <1>1, <1>10, <1>11, <1>14, <1>15 DEF g

\* A write to a JVar without an object.
LEMMA WriteSimpleShows ==
  ASSUME NEW h, Sound(h, Null), NEW p, NEW f, Leads(h, p, f), NEW v, v = At(h, Slot(h, p)),
         v.type \in Simple, NEW d \in Datum
  PROVE  TreeOf(Put(h, Slot(h, p), [v EXCEPT !.raw = d])) =
           Values!Set(TreeOf(h), p, Values!Leaf(v.type, d))
<1> DEFINE m == Unfolding(h)
           w == [v EXCEPT !.raw = d]
           g == Put(h, Slot(h, p), w)
           n == Only(w)
<1>1. Unfolds(h, Root, m) /\ TreeOf(h) = Tree(h, m)
  BY HeapUnfolds
<1>2. Sound(g, Null)
  BY WriteKeeps DEF Keeps
<1> HIDE DEF m
<1>3. Holds(h, v)
  BY SlotIs DEF Sound, Typed
<1>4. w \in JVars /\ w.type = v.type /\ w.raw = d /\ w.type \notin Owning \cup { "frame", "null" }
  BY <1>3, Tags, JVarTags DEF Holds, JVars
<1> HIDE DEF w
<1>5. Holds(h, w)
  BY <1>4 DEF Holds
<1>6. Sound(h, w)
  BY <1>4, <1>5, PlainFloats, NullFits, Tags DEF Owning
<1>7. Unfolds(h, w, n) /\ OverPaths(n) /\ Tree(h, n) = Values!Leaf(v.type, d)
  <2>1. ~ Opens(w) /\ Shown(h, w) = [type |-> v.type, datum |-> d]
    BY <1>4 DEF Opens, Shown, Held
  <2>2. /\ Unfolds(h, w, Only(w)) /\ OverPaths(Only(w))
        /\ \A type, datum : Shown(h, w) = [type |-> type, datum |-> datum] =>
             Tree(h, Only(w)) = Values!Leaf(type, datum)
    BY <2>1, OnlyUnfolds
  <2> QED
    BY <2>1, <2>2
<1> HIDE DEF n
<1>8. PICK r \in DOMAIN m, i \in Key :
        /\ p = Append(r, i) /\ r \in Seq(Key) /\ Opens(m[r]) /\ Slot(h, p) = << m[r].raw, i >>
        /\ m[r].raw \in DOMAIN h /\ i \in DOMAIN h[m[r].raw].slots
        /\ Old(h, m[r].raw, i) = At(h, Slot(h, p))
        /\ Changed(h, g, m[r].raw, i, w)
  BY <1>1, <1>4, PutAtPath
<1> HIDE DEF g
<1>9. /\ Unfolds(g, Root, Values!Set(m, Append(r, i), n))
      /\ Tree(g, Values!Set(m, Append(r, i), n)) = Values!Set(Tree(h, m), Append(r, i), Tree(h, n))
  BY <1>1, <1>6, <1>7, <1>8, SetUnfolds
<1>10. TreeOf(g) = Tree(g, Values!Set(m, p, n))
  BY <1>2, <1>8, <1>9, TreeIs
<1> QED
  BY <1>1, <1>7, <1>8, <1>9, <1>10 DEF g, w

\* A variable that ends, when its value floats.
LEMMA LeftShows ==
  ASSUME NEW h, Sound(h, Null), NEW m, Unfolds(h, Root, m), NEW v \in DOMAIN h[Frame].slots, NEW g,
         g = [h EXCEPT ![Frame].slots = [ x \in DOMAIN @ \ { v } |-> @[x] ]]
  PROVE  /\ Unfolds(g, Root, Values!Without(m, << v >>))
         /\ Tree(g, Values!Without(m, << v >>)) = Values!Without(Tree(h, m), << v >>)
<1> DEFINE p == << v >>
           k == Values!Without(m, p)
           c == [ x \in DOMAIN h[Frame].slots \ { v } |-> h[Frame].slots[x] ]
<1>1. Frame \in DOMAIN h /\ DOMAIN h[Frame] = { "type", "datum", "slots" }
  BY DEF Sound, Typed, Fits
<1>2. v \in Key /\ p \in Seq(Key) /\ p = Append(<< >>, v)
  BY <1>1, SlotsHaveKeys DEF Sound
<1>3. /\ \A o \in DOMAIN h : o # Frame => g[o] = h[o]
      /\ g[Frame].slots = c /\ g[Frame].datum = h[Frame].datum
  BY <1>1, OtherSlots
<1>4. DOMAIN c = DOMAIN h[Frame].slots \ { v } /\ \A x \in DOMAIN c : c[x] = h[Frame].slots[x]
  OBVIOUS
<1> HIDE DEF c, p
<1>5. OverPaths(m) /\ << >> \in DOMAIN m /\ m[<< >>] = Root
  BY DEF Unfolds
<1>6. DOMAIN k = { q \in DOMAIN m : ~ IsPrefix(p, q) } /\ \A q \in DOMAIN k : k[q] = m[q]
  BY SamePrefix DEF Values!Without, Values!Below
<1>7. OverPaths(k)
  BY <1>5, <1>6 DEF OverPaths, Values!Without
<1> HIDE DEF k
<1>8. ASSUME NEW s \in Seq(Key), NEW i \in Key
      PROVE  /\ Append(s, i) \in DOMAIN k <=>
                  s \in DOMAIN k /\ Opens(k[s]) /\ i \in DOMAIN g[k[s].raw].slots
             /\ Append(s, i) \in DOMAIN k => k[Append(s, i)] = g[k[s].raw].slots[i]
  <2> DEFINE e == Append(s, i)
  <2>1. IsPrefix(p, e) <=> IsPrefix(p, s) \/ p = e
    BY <1>2, PrefixOfAppend
  <2>2. p = e <=> s = << >> /\ i = v
    BY <1>2
  <2>3. /\ e \in DOMAIN m <=> s \in DOMAIN m /\ Opens(m[s]) /\ i \in DOMAIN h[m[s].raw].slots
        /\ e \in DOMAIN m => m[e] = h[m[s].raw].slots[i]
    BY DEF Unfolds
  <2> HIDE DEF e
  <2>4. e \in DOMAIN k <=> e \in DOMAIN m /\ ~ IsPrefix(p, s) /\ p # e
    BY <1>6, <2>1
  <2>5. s \in DOMAIN k <=> s \in DOMAIN m /\ ~ IsPrefix(p, s)
    BY <1>6
  <2>6. CASE s = << >>
    <3>1. ~ IsPrefix(p, s) /\ m[s].raw = Frame /\ s \in DOMAIN m /\ Opens(m[s])
      <4>1. ~ IsPrefix(Append(<< >>, v), << >>)
        BY <1>2, EmptySeq, PrefixIsShorter
      <4> QED
        BY <1>2, <1>5, <2>6, <4>1 DEF Root, Opens
    <3>2. e \in DOMAIN k <=> i \in DOMAIN c
      BY <1>4, <2>2, <2>3, <2>4, <2>6, <3>1
    <3>3. s \in DOMAIN k /\ k[s] = m[s]
      BY <1>6, <2>5, <3>1
    <3>4. i \in DOMAIN c => k[e] = c[i]
      BY <1>4, <1>6, <2>3, <3>1, <3>2
    <3> QED
      BY <1>3, <3>1, <3>2, <3>3, <3>4 DEF e
  <2>7. CASE s # << >>
    <3>1. s \in DOMAIN m /\ Opens(m[s]) => m[s].raw \in DOMAIN h \ { Frame }
      <4> SUFFICES ASSUME s \in DOMAIN m, Opens(m[s]) PROVE m[s].raw \in DOMAIN h \ { Frame }
        OBVIOUS
      <4>1. m[s].raw \in DOMAIN h
        BY LabelsHold DEF Sound, Grounded
      <4>2. m[s].raw # Frame
        <5> SUFFICES ASSUME m[s].raw = Frame PROVE FALSE
          OBVIOUS
        <5> DEFINE r == << >>
        <5>1. r \in DOMAIN m /\ Opens(m[r]) /\ m[s].raw = m[r].raw /\ s # r
          BY <1>5, <2>7 DEF Root, Opens
        <5> HIDE DEF r
        <5> QED
          BY <5>1, LabelsApart
      <4> QED
        BY <4>1, <4>2
    <3>2. s \in DOMAIN m /\ Opens(m[s]) => g[m[s].raw] = h[m[s].raw]
      BY <1>3, <3>1
    <3>3. p # e
      BY <2>2, <2>7
    <3>4. /\ e \in DOMAIN k <=> s \in DOMAIN k /\ Opens(m[s]) /\ i \in DOMAIN g[m[s].raw].slots
          /\ e \in DOMAIN k => k[e] = g[m[s].raw].slots[i]
      BY <1>6, <2>3, <2>4, <2>5, <3>2, <3>3
    <3>5. s \in DOMAIN k => k[s] = m[s]
      BY <1>6
    <3> QED
      BY <2>3, <2>4, <3>4, <3>5 DEF e
  <2> QED
    BY <2>6, <2>7
<1>9. << >> \in DOMAIN k /\ k[<< >>] = Root
  <2>1. ~ IsPrefix(Append(<< >>, v), << >>)
    BY <1>2, EmptySeq, PrefixIsShorter
  <2> QED
    BY <1>2, <1>5, <1>6, <2>1
<1>10. Unfolds(g, Root, k)
  BY <1>7, <1>8, <1>9 DEF Unfolds
<1>11. ASSUME NEW q \in DOMAIN m PROVE Shown(g, m[q]) = Shown(h, m[q])
  <2>1. Opens(m[q]) => m[q].raw \in DOMAIN h
    BY LabelsHold DEF Sound, Grounded
  <2>2. m[q].type \in Owning => g[m[q].raw].datum = h[m[q].raw].datum
    BY <1>3, <2>1 DEF Opens
  <2> QED
    BY <2>2, ShownKept
<1>12. Tree(g, k) = Values!Without(Tree(h, m), p)
  <2> DEFINE t == Tree(h, m)
             b == Values!Without(t, p)
  <2>1. DOMAIN t = DOMAIN m /\ \A q \in DOMAIN m : t[q] = Shown(h, m[q])
    BY DEF Tree
  <2>2. /\ b = [ q \in DOMAIN b |-> b[q] ]
        /\ DOMAIN b = { q \in DOMAIN t : ~ IsPrefix(p, q) } /\ \A q \in DOMAIN b : b[q] = t[q]
    BY SamePrefix DEF Values!Without, Values!Below
  <2>3. Tree(g, k) = [ q \in DOMAIN k |-> Shown(g, k[q]) ]
    BY DEF Tree
  <2> HIDE DEF t, b
  <2>4. DOMAIN b = DOMAIN k /\ \A q \in DOMAIN k : b[q] = Shown(g, k[q])
    BY <1>6, <1>11, <2>1, <2>2
  <2>5. Tree(g, k) = b
    BY <2>2, <2>3, <2>4
  <2> QED
    BY <2>5 DEF b, t
<1> QED
  BY <1>10, <1>12 DEF k, p

\* A variable ends.
LEMMA DestructShows ==
  ASSUME NEW h, Sound(h, Null), NEW v \in DOMAIN h[Frame].slots
  PROVE  TreeOf(Destroyed([h EXCEPT ![Frame].slots = [ x \in DOMAIN @ \ { v } |-> @[x] ]],
                          h[Frame].slots[v])) =
           Values!Without(TreeOf(h), << v >>)
<1> DEFINE g == [h EXCEPT ![Frame].slots = [ x \in DOMAIN @ \ { v } |-> @[x] ]]
           w == h[Frame].slots[v]
           m == Unfolding(h)
           k == Values!Without(m, << v >>)
<1>1. Unfolds(h, Root, m) /\ TreeOf(h) = Tree(h, m)
  BY HeapUnfolds
<1> HIDE DEF m
<1>2. Unfolds(g, Root, k) /\ Tree(g, k) = Values!Without(Tree(h, m), << v >>)
  BY <1>1, LeftShows
<1>3. Sound(g, w)
  BY LeftFloats
<1> HIDE DEF g, w, k
<1>4. Unfolds(Destroyed(g, w), Root, k) /\ Tree(Destroyed(g, w), k) = Tree(g, k)
  BY <1>2, <1>3, DestroyedUnfolds
<1>5. Sound(Destroyed(g, w), Null)
  BY <1>3, DestroyedSound
<1>6. TreeOf(Destroyed(g, w)) = Tree(g, k)
  BY <1>4, <1>5, TreeIs
<1> QED
  BY <1>1, <1>2, <1>4, <1>6 DEF g, w

-----------------------------------------------------------------------------
(* The refinement.                                                         *)

\* What the abstract specification says of each statement.
LEMMA EffectIs ==
  ASSUME Defined, NEW t, t = TreeOf(heap), NEW op, op = did'.op, NEW at, at = did'.at,
         NEW src, src = did'.src
  PROVE  /\ op \in { "JVar", "=" } => Values!Effect = { Values!Moved(t, at, src) }
         /\ op = "~JVar" => Values!Effect = { Values!Without(t, at) }
         /\ op = "Swap" => Values!Effect = { Values!Exchanged(t, at, src.from) }
         /\ op = "Add" =>
              LET b == Values!Holder(at, "array") IN
              Values!Effect = { Values!Moved(b, Append(at, Values!Elements(b, at) + 1), src) }
         /\ op = "AddKey" =>
              LET b == Values!Holder(Front(at), "hash") IN
              Values!Effect = IF at \in DOMAIN b THEN { b, Values!Rest(b, src) }
                              ELSE { Values!Moved(b, at, src) }
         /\ op = "[]" =>
              Values!Effect = { IF at \in DOMAIN t THEN t ELSE Values!Set(t, at, Values!Null) }
         /\ op = "Clear" =>
              Values!Effect = { IF t[at].type \in { "array", "hash" }
                                THEN Values!Set(t, at, Values!Leaf(t[at].type, "none")) ELSE t }
         /\ op = "As" => Values!Effect = { Values!Set(t, at, Values!Leaf(src.type, src.datum)) }
<1> DEFINE E == Values!Effect
<1>1. op \in { "JVar", "=" } => E = { Values!Moved(t, at, src) }
  BY DEF Values!Effect
<1>2. op = "~JVar" => E = { Values!Without(t, at) }
  BY DEF Values!Effect
<1>3. op = "Swap" => E = { Values!Exchanged(t, at, src.from) }
  BY DEF Values!Effect
<1>4. op = "Add" =>
        LET b == Values!Holder(at, "array") IN
        E = { Values!Moved(b, Append(at, Values!Elements(b, at) + 1), src) }
  BY DEF Values!Effect
<1>5. op = "AddKey" =>
        LET b == Values!Holder(Front(at), "hash") IN
        E = IF at \in DOMAIN b THEN { b, Values!Rest(b, src) } ELSE { Values!Moved(b, at, src) }
  BY DEF Values!Effect, Front, Values!Front
<1>6. op = "[]" => E = { IF at \in DOMAIN t THEN t ELSE Values!Set(t, at, Values!Null) }
  BY DEF Values!Effect
<1>7. op = "Clear" => E = { IF t[at].type \in { "array", "hash" }
                            THEN Values!Set(t, at, Values!Leaf(t[at].type, "none")) ELSE t }
  BY DEF Values!Effect
<1>8. op = "As" => E = { Values!Set(t, at, Values!Leaf(src.type, src.datum)) }
  BY DEF Values!Effect
<1> QED
  BY <1>1, <1>2, <1>3, <1>4, <1>5, <1>6, <1>7, <1>8

\* A statement that is done has its effect.
LEMMA DoneIsNext ==
  ASSUME did'.result = "done", TreeOf(heap') \in Values!Effect
  PROVE  Values!Next
BY DEF Values!Next, Defined

\* Variables that begin.
LEMMA ConstructIsNext ==
  ASSUME Defined, Sound(heap, Null), NEW src \in Source(Places(heap)), NEW v \in Var, Construct(v, src)
  PROVE  Values!Next
<1>1. /\ v \notin DOMAIN heap[Frame].slots /\ Needs(heap, src) <= Cardinality(Unused(heap))
      /\ heap' = Put(Made(heap, src).heap, << Frame, v >>, Made(heap, src).value)
  BY DEF Construct
<1>2. did'.op = "JVar" /\ did'.at = << v >> /\ did'.src = src /\ did'.result = "done"
  BY DEF Construct, Does
<1>3. TreeOf(heap') = Values!Moved(TreeOf(heap), << v >>, src)
  BY <1>1, SourcesAre, ConstructShows
<1>4. Values!Effect = { Values!Moved(TreeOf(heap), << v >>, src) }
  BY <1>2, EffectIs
<1> QED
  BY <1>2, <1>3, <1>4, DoneIsNext

\* Variables that end.
LEMMA DestructIsNext ==
  ASSUME Defined, Sound(heap, Null), NEW v \in Var, Destruct(v)
  PROVE  Values!Next
<1>1. /\ v \in DOMAIN heap[Frame].slots
      /\ heap' = Destroyed([heap EXCEPT ![Frame].slots = [ x \in DOMAIN @ \ { v } |-> @[x] ]],
                           heap[Frame].slots[v])
  BY DEF Destruct
<1>2. did'.op = "~JVar" /\ did'.at = << v >> /\ did'.result = "done"
  BY DEF Destruct, Does
<1>3. TreeOf(heap') = Values!Without(TreeOf(heap), << v >>)
  BY <1>1, DestructShows
<1>4. Values!Effect = { Values!Without(TreeOf(heap), << v >>) }
  BY <1>2, EffectIs
<1> QED
  BY <1>2, <1>3, <1>4, DoneIsNext

\* operator=.
LEMMA AssignIsNext ==
  ASSUME Defined, Sound(heap, Null), NEW p \in Places(heap), NEW src \in Source(Places(heap)), Assign(p, src)
  PROVE  Values!Next
<1>1. Needs(heap, src) <= Cardinality(Unused(heap)) /\ heap' = Assigned(Made(heap, src), Slot(heap, p))
  BY DEF Assign
<1>2. did'.op = "=" /\ did'.at = p /\ did'.src = src /\ did'.result = "done"
  BY DEF Assign, Does
<1>3. TreeOf(heap') = Values!Moved(TreeOf(heap), p, src)
  BY <1>1, SourcesAre, PlacesLead, AssignShows
<1>4. Values!Effect = { Values!Moved(TreeOf(heap), p, src) }
  BY <1>2, EffectIs
<1> QED
  BY <1>2, <1>3, <1>4, DoneIsNext

\* Swap().
LEMMA SwapIsNext ==
  ASSUME Defined, Sound(heap, Null), NEW p \in Places(heap), NEW q \in Places(heap), Swap(p, q)
  PROVE  Values!Next
<1>1. heap' = Swapped(heap, Slot(heap, p), Slot(heap, q))
  BY DEF Swap
<1>2. did'.op = "Swap" /\ did'.at = p /\ did'.src.from = q /\ did'.result = "done"
  BY DEF Swap, Does
<1>3. TreeOf(heap') = Values!Exchanged(TreeOf(heap), p, q)
  BY <1>1, PlacesLead, SwapShows
<1>4. Values!Effect = { Values!Exchanged(TreeOf(heap), p, q) }
  BY <1>2, EffectIs
<1> QED
  BY <1>2, <1>3, <1>4, DoneIsNext

\* The heap on which Add() makes its element shows the tree with something to add to.
LEMMA HolderIs ==
  ASSUME Defined, Sound(heap, Null), NEW p \in Places(heap), NEW type \in { "array", "hash" },
         NEW src \in Source(Places(heap)), At(heap, Slot(heap, p)).type \in { "null", type },
         CanAdd(p, src, type)
  PROVE  LET h == Ready(heap, p, type) IN
         /\ Values!Holder(p, type) = TreeOf(h)
         /\ Sound(h, Null) /\ At(h, Slot(h, p)).type = type /\ (\E f : Leads(h, p, f))
         /\ IsSource(h, src) /\ Needs(h, src) <= Cardinality(Unused(h))
<1> DEFINE h == Ready(heap, p, type)
<1>1. PICK f : Leads(heap, p, f)
  BY PlacesLead
<1>2. /\ At(heap, Slot(heap, p)).type = "null" => Unused(heap) # {}
      /\ Needs(h, src) <= Cardinality(Unused(h))
  BY DEF CanAdd
<1>3. /\ Keeps(heap, h, FALSE)
      /\ \A q, u : Leads(heap, q, u) => Leads(h, q, u)
      /\ At(h, Slot(h, p)).type = type
  BY <1>1, <1>2, ReadyKeeps
<1>4. TreeOf(h) = IF TreeOf(heap)[p].type = "null"
                  THEN Values!Set(TreeOf(heap), p, Values!Leaf(type, "none")) ELSE TreeOf(heap)
  BY <1>1, <1>2, ReadyShows
<1> HIDE DEF h
<1>5. Values!Holder(p, type) = TreeOf(h)
  BY <1>4 DEF Values!Holder
<1>6. IsSource(h, src)
  BY <1>3, SourcesAre, ReadyHasSource
<1>7. Sound(h, Null) /\ \E u : Leads(h, p, u)
  BY <1>1, <1>3 DEF Keeps
<1> QED
  BY <1>2, <1>3, <1>5, <1>6, <1>7 DEF h

\* Add() of an element.
LEMMA AddIsNext ==
  ASSUME Defined, Sound(heap, Null), NEW p \in Places(heap), NEW src \in Source(Places(heap)), Add(p, src)
  PROVE  Values!Next
<1> DEFINE h == Ready(heap, p, "array")
           t == TreeOf(h)
<1>1. /\ At(heap, Slot(heap, p)).type \in { "null", "array" } /\ CanAdd(p, src, "array")
      /\ heap' = Appended(Made(h, src), ObjectAt(h, p))
  BY DEF Add
<1>2. did'.op = "Add" /\ did'.at = p /\ did'.src = src /\ did'.result = "done"
  BY DEF Add, Does
<1>3. /\ Values!Holder(p, "array") = t
      /\ Sound(h, Null) /\ At(h, Slot(h, p)).type = "array" /\ (\E f : Leads(h, p, f))
      /\ IsSource(h, src) /\ Needs(h, src) <= Cardinality(Unused(h))
  BY <1>1, HolderIs
<1> HIDE DEF h
<1>4. TreeOf(heap') = Values!Moved(t, Append(p, Values!Elements(t, p) + 1), src)
  BY <1>1, <1>3, AppendShows
<1>5. Values!Effect = { Values!Moved(t, Append(p, Values!Elements(t, p) + 1), src) }
  <2> DEFINE b == Values!Holder(p, "array")
  <2>1. Values!Effect = { Values!Moved(b, Append(p, Values!Elements(b, p) + 1), src) }
    BY <1>2, EffectIs
  <2>2. b = t
    BY <1>3
  <2> HIDE DEF b, t
  <2> QED
    BY <2>1, <2>2
<1> QED
  BY <1>2, <1>4, <1>5, DoneIsNext

\* Add() under a key.
LEMMA AddKeyIsNext ==
  ASSUME Defined, Sound(heap, Null), NEW p \in Places(heap), NEW k \in Name,
         NEW src \in Source(Places(heap)), AddKey(p, k, src)
  PROVE  Values!Next
<1> DEFINE h == Ready(heap, p, "hash")
           o == ObjectAt(h, p)
           made == Made(h, src)
           t == TreeOf(h)
           e == Append(p, k)
<1>1. /\ At(heap, Slot(heap, p)).type \in { "null", "hash" } /\ CanAdd(p, src, "hash")
      /\ \/ k \notin DOMAIN h[o].slots /\ heap' = Put(made.heap, << o, k >>, made.value)
         \/ k \in DOMAIN h[o].slots /\ heap' \in Kept(h, made, << o, k >>)
  BY DEF AddKey
<1>2. /\ did'.op = "AddKey" /\ did'.at = e /\ did'.src = src
      /\ did'.result \in { "done", "undefined" }
  BY DEF AddKey, Does
<1>3. /\ Values!Holder(p, "hash") = t
      /\ Sound(h, Null) /\ At(h, Slot(h, p)).type = "hash" /\ (\E f : Leads(h, p, f))
      /\ IsSource(h, src) /\ Needs(h, src) <= Cardinality(Unused(h))
  BY <1>1, HolderIs
<1> HIDE DEF h
<1>4. p \in Seq(Key) /\ k \in Key
  BY <1>3 DEF Leads, Key
<1>5. Front(e) = p
  BY <1>4, FrontOfAppend
<1>6. e \in DOMAIN t <=> k \in DOMAIN h[o].slots
  BY <1>3, <1>4, TreeShows DEF Owning
<1>7. Values!Effect = IF e \in DOMAIN t THEN { t, Values!Rest(t, src) } ELSE { Values!Moved(t, e, src) }
  <2> DEFINE b == Values!Holder(Front(e), "hash")
  <2>1. Values!Effect = IF e \in DOMAIN b THEN { b, Values!Rest(b, src) } ELSE { Values!Moved(b, e, src) }
    <3> HIDE DEF e
    <3> QED
      BY <1>2, EffectIs
  <2>2. b = t
    BY <1>3, <1>5
  <2> HIDE DEF b, t, e
  <2> QED
    BY <2>1, <2>2
<1>8. CASE k \notin DOMAIN h[o].slots /\ heap' = Put(made.heap, << o, k >>, made.value)
  <2>1. TreeOf(Put(made.heap, << o, k >>, made.value)) = Values!Moved(t, e, src)
    BY <1>3, <1>8, EmplaceShows
  <2> HIDE DEF made, o, t, e
  <2>2. TreeOf(heap') \in Values!Effect
    BY <1>6, <1>7, <1>8, <2>1
  <2> QED
    BY <1>2, <2>2, DoneIsNext DEF Values!Next
<1>9. CASE k \in DOMAIN h[o].slots /\ heap' \in Kept(h, made, << o, k >>)
  <2>1. TreeOf(Destroyed(made.heap, made.value)) = Values!Rest(t, src)
    BY <1>3, KeptShows
  <2>2. heap' \in { Destroyed(made.heap, made.value), h }
    BY <1>9 DEF Kept
  <2> HIDE DEF made, o, e
  <2>3. TreeOf(heap') \in { t, Values!Rest(t, src) }
    BY <2>1, <2>2
  <2> HIDE DEF t
  <2>4. TreeOf(heap') \in Values!Effect
    BY <1>6, <1>7, <1>9, <2>3
  <2> QED
    BY <1>2, <2>4, DoneIsNext DEF Values!Next
<1> QED
  BY <1>1, <1>8, <1>9

\* operator[] of a hash.
LEMMA IndexIsNext ==
  ASSUME Defined, Sound(heap, Null), NEW p \in Places(heap), NEW k \in Name, Index(p, k)
  PROVE  Values!Next
<1> DEFINE o == ObjectAt(heap, p)
           t == TreeOf(heap)
           e == Append(p, k)
<1>1. /\ At(heap, Slot(heap, p)).type = "hash"
      /\ heap' = IF k \in DOMAIN heap[o].slots THEN heap ELSE Put(heap, << o, k >>, Null)
  BY DEF Index
<1>2. did'.op = "[]" /\ did'.at = e /\ did'.result = "done"
  BY DEF Index, Does
<1>3. PICK f : Leads(heap, p, f)
  BY PlacesLead
<1>4. e \in DOMAIN t <=> k \in DOMAIN heap[o].slots
  BY <1>1, <1>3, TreeShows DEF Owning, Key
<1>5. k \notin DOMAIN heap[o].slots =>
        TreeOf(Put(heap, << o, k >>, Null)) = Values!Set(t, e, Values!Null)
  BY <1>1, <1>3, IndexShows
<1>6. Values!Effect = { IF e \in DOMAIN t THEN t ELSE Values!Set(t, e, Values!Null) }
  <2> HIDE DEF e
  <2> QED
    BY <1>2, EffectIs
<1>7. TreeOf(heap') = IF e \in DOMAIN t THEN t ELSE Values!Set(t, e, Values!Null)
  BY <1>1, <1>4, <1>5
<1> HIDE DEF t, e
<1> QED
  BY <1>2, <1>6, <1>7, DoneIsNext

\* Clear().
LEMMA ClearIsNext ==
  ASSUME Defined, Sound(heap, Null), NEW p \in Places(heap), Clear(p)
  PROVE  Values!Next
<1> DEFINE v == At(heap, Slot(heap, p))
           t == TreeOf(heap)
           g == [ o \in DOMAIN heap \ (Reach(heap, v) \ { v.raw }) |->
                    IF o = v.raw THEN Contents(v.type, NoDatum) ELSE heap[o] ]
<1>1. heap' = IF v.type \notin { "array", "hash" } THEN heap ELSE g
  BY DEF Clear
<1>2. did'.op = "Clear" /\ did'.at = p /\ did'.result = "done"
  BY DEF Clear, Does
<1>3. PICK f : Leads(heap, p, f)
  BY PlacesLead
<1>4. t[p].type = v.type
  BY <1>3, TreeShows
<1>5. v.type \in { "array", "hash" } => TreeOf(g) = Values!Set(t, p, Values!Leaf(v.type, "none"))
  BY <1>3, ClearShows
<1>6. Values!Effect = { IF t[p].type \in { "array", "hash" }
                        THEN Values!Set(t, p, Values!Leaf(t[p].type, "none")) ELSE t }
  BY <1>2, EffectIs
<1> HIDE DEF g, v
<1>7. TreeOf(heap') = IF t[p].type \in { "array", "hash" }
                      THEN Values!Set(t, p, Values!Leaf(t[p].type, "none")) ELSE t
  BY <1>1, <1>4, <1>5
<1> HIDE DEF t
<1> QED
  BY <1>2, <1>6, <1>7, DoneIsNext

\* Writes.
LEMMA WriteIsNext ==
  ASSUME Defined, Sound(heap, Null), NEW p \in Places(heap), NEW d \in Datum, Write(p, d)
  PROVE  Values!Next
<1> DEFINE v == At(heap, Slot(heap, p))
           t == TreeOf(heap)
<1>1. /\ heap' = IF v.type = "string" THEN [heap EXCEPT ![v.raw].datum = d]
                 ELSE Put(heap, Slot(heap, p), [v EXCEPT !.raw = d])
      /\ v.type \in Simple \cup { "string" }
  BY DEF Write
<1>2. /\ did'.op = "As" /\ did'.at = p /\ did'.src.type = v.type /\ did'.src.datum = d
      /\ did'.result = "done"
  BY DEF Write, Does
<1>3. PICK f : Leads(heap, p, f)
  BY PlacesLead
<1>4. TreeOf(heap') = Values!Set(t, p, Values!Leaf(v.type, d))
  <2>1. CASE v.type = "string"
    <3>1. TreeOf([heap EXCEPT ![v.raw].datum = d]) = Values!Set(t, p, Values!Leaf("string", d))
      BY <1>3, <2>1, WriteStringShows
    <3> QED
      BY <1>1, <2>1, <3>1
  <2>2. CASE v.type \in Simple /\ v.type # "string"
    <3>1. TreeOf(Put(heap, Slot(heap, p), [v EXCEPT !.raw = d])) = Values!Set(t, p, Values!Leaf(v.type, d))
      BY <1>3, <2>2, WriteSimpleShows
    <3> QED
      BY <1>1, <2>2, <3>1
  <2> QED
    BY <1>1, <2>1, <2>2
<1>5. Values!Effect = { Values!Set(t, p, Values!Leaf(v.type, d)) }
  BY <1>2, EffectIs
<1> QED
  BY <1>2, <1>4, <1>5, DoneIsNext

\* What throws changes nothing.
LEMMA ThrowsIsNext ==
  ASSUME Defined, NEW p, Throws(p)
  PROVE  Values!Next
<1>1. did'.result = "thrown" /\ heap' = heap
  BY DEF Throws
<1>2. Defined'
  BY <1>1 DEF Defined
<1> QED
  BY <1>1, <1>2 DEF Values!Next

\* A program begins with an empty tree.
LEMMA BeginsEmpty == Init => Values!Init
<1> SUFFICES ASSUME Init PROVE Values!Init
  OBVIOUS
<1>1. Defined /\ did.op = "none"
  BY DEF Init, Defined
<1>2. Sound(heap, Null)
  BY <1>1, HeapInit DEF HeapInv
<1>3. heap[Frame].slots = << >>
  BY DEF Init, Contents
<1>4. Opens(Root) => DOMAIN heap[Root.raw].slots = {}
  BY <1>3 DEF Root
<1>5. Shown(heap, Root) = [type |-> "frame", datum |-> "none"]
  BY DEF Shown, Root, NoDatum
<1>6. /\ Unfolds(heap, Root, Only(Root))
      /\ \A type, datum : Shown(heap, Root) = [type |-> type, datum |-> datum] =>
           Tree(heap, Only(Root)) = Values!Leaf(type, datum)
  BY <1>4, OnlyUnfolds
<1>7. TreeOf(heap) = Values!Leaf("frame", "none")
  BY <1>2, <1>5, <1>6, TreeIs
<1> QED
  BY <1>1, <1>7 DEF Values!Init

\* Every statement does to the trees what it promises.
LEMMA StepIsPromised == HeapInv /\ [Next]_vars => [Values!Next]_Values!vars
<1> SUFFICES ASSUME HeapInv, [Next]_vars PROVE [Values!Next]_Values!vars
  OBVIOUS
<1>1. CASE UNCHANGED vars
  BY <1>1 DEF vars, Values!vars, Defined
<1>2. CASE Next
  <2>1. Defined
    BY <1>2 DEF Next, Defined
  <2>2. Sound(heap, Null)
    BY <2>1 DEF HeapInv
  <2>3. ASSUME NEW v \in Var, NEW src \in Source(Places(heap)), Construct(v, src) PROVE Values!Next
    BY <2>1, <2>2, <2>3, ConstructIsNext
  <2>4. ASSUME NEW v \in Var, Destruct(v) \/ ConstructFromVector(v) PROVE Values!Next
    <3>1. CASE Destruct(v)
      BY <2>1, <2>2, <3>1, DestructIsNext
    <3>2. CASE ConstructFromVector(v)
      BY <3>2 DEF ConstructFromVector, Values!Next
    <3> QED
      BY <2>4, <3>1, <3>2
  <2>5. ASSUME NEW p \in Places(heap), NEW src \in Source(Places(heap)), Assign(p, src) \/ Add(p, src)
        PROVE  Values!Next
    BY <2>1, <2>2, <2>5, AssignIsNext, AddIsNext
  <2>6. ASSUME NEW p \in Places(heap), NEW k \in Name, NEW src \in Source(Places(heap)), AddKey(p, k, src)
        PROVE  Values!Next
    BY <2>1, <2>2, <2>6, AddKeyIsNext
  <2>7. ASSUME NEW p \in Places(heap), NEW q \in Places(heap), Swap(p, q) PROVE Values!Next
    BY <2>1, <2>2, <2>7, SwapIsNext
  <2>8. ASSUME NEW p \in Places(heap), NEW k \in Name, Index(p, k) PROVE Values!Next
    BY <2>1, <2>2, <2>8, IndexIsNext
  <2>9. ASSUME NEW p \in Places(heap), Clear(p) \/ Throws(p) PROVE Values!Next
    BY <2>1, <2>2, <2>9, ClearIsNext, ThrowsIsNext
  <2>10. ASSUME NEW p \in Places(heap), NEW d \in Datum, Write(p, d) PROVE Values!Next
    BY <2>1, <2>2, <2>10, WriteIsNext
  <2>11. Values!Next
    BY <1>2, <2>3, <2>4, <2>5, <2>6, <2>7, <2>8, <2>9, <2>10 DEF Next
  <2> QED
    BY <2>11
<1> QED
  BY <1>1, <1>2

\* A JVar is a value: whatever is shared, copied or reused on the heap, no statement is seen
\* through a JVar it does not name, and what it names becomes what a tree of values would become.
THEOREM ValuesCorrect == Spec => ValuesPromised
<1>1. Spec => []HeapInv
  BY HeapInvariant
<1>2. Init => Values!Init
  BY BeginsEmpty
<1>3. HeapInv /\ [Next]_vars => [Values!Next]_Values!vars
  BY StepIsPromised
<1> QED
  BY <1>1, <1>2, <1>3, PTL DEF Spec, ValuesPromised, Values!Spec
=============================================================================
