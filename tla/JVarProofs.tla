----------------------------- MODULE JVarProofs -----------------------------
(***************************************************************************)
(* Theorems about JVar, for any variables, keys and data, a heap of any    *)
(* size, arrays of any length and paths of any length.                     *)
(*                                                                         *)
(* Most statements are proved with one JVar that lies in no slot yet, or   *)
(* no more: the value a constructor has made, or what an assignment is     *)
(* about to destroy.  Such a JVar floats; it is Null when there is none.   *)
(***************************************************************************)
EXTENDS JVar, DataLemmas, FiniteSetTheorems

-----------------------------------------------------------------------------
(* The invariant.                                                          *)

JVars == [type : Type, raw : Datum \cup { NoDatum } \cup Object]

\* The JVar v owns the object o.
Owns(v, o) == v.type \in Owning /\ v.raw = o

\* The contents c are those an object o can have.
Fits(o, c) ==
  /\ DOMAIN c = { "type", "datum", "slots" }
  /\ c.type \in { "frame" } \cup Owning
  /\ c.type = "frame" <=> o = Frame
  /\ c.datum \in (IF c.type = "string" THEN Datum ELSE { NoDatum })
  /\ c.type = "array" => c.slots \in Seq(JVars)
  /\ c.type = "hash" => DOMAIN c.slots \subseteq Name
  /\ c.type = "string" => DOMAIN c.slots = {}
  /\ c.type = "frame" => DOMAIN c.slots \subseteq Var

\* The tag of v goes with its contents.
Holds(h, v) ==
  /\ v \in JVars
  /\ v.type \in Simple => v.raw \in Datum
  /\ v.type = "null" => v.raw = NoDatum
  /\ v.type \in Owning => v.raw \in DOMAIN h /\ h[v.raw].type = v.type

Typed(h) ==
  /\ Frame \in DOMAIN h /\ DOMAIN h \subseteq Object \cup { Frame }
  /\ \A o \in DOMAIN h : Fits(o, h[o])
  /\ \A o \in DOMAIN h : \A i \in DOMAIN h[o].slots : Holds(h, h[o].slots[i])

\* Each object has one owner, among the slots and the floating v.
Single(h, v) ==
  /\ \A x, y \in DOMAIN h : \A i \in DOMAIN h[x].slots, j \in DOMAIN h[y].slots :
       h[x].slots[i].type \in Owning /\ Owns(h[y].slots[j], h[x].slots[i].raw)
         => x = y /\ i = j
  /\ \A x \in DOMAIN h : \A i \in DOMAIN h[x].slots :
       ~ (v.type \in Owning /\ Owns(h[x].slots[i], v.raw))
  /\ \A o \in DOMAIN h \ { Frame } :
       Owns(v, o) \/ \E x \in DOMAIN h : \E i \in DOMAIN h[x].slots : Owns(h[x].slots[i], o)

Sound(h, v) == Typed(h) /\ Holds(h, v) /\ Single(h, v)

\* What an object of T owns is in T.
Closed(h, T) == \A x \in T : \A i \in DOMAIN h[x].slots : Owned(h[x].slots[i]) \subseteq T

\* There are no objects but those below the frame and v.
Rooted(h, v) ==
  \A T \in SUBSET DOMAIN h :
    Frame \in T /\ Owned(v) \subseteq T /\ Closed(h, T) => T = DOMAIN h

\* The object x is below the frame.
Rests(h, x) == \A T \in SUBSET DOMAIN h : Frame \in T /\ Closed(h, T) => x \in T

HeapInv == Defined => Sound(heap, Null) /\ (~ knotted => Rooted(heap, Null))

-----------------------------------------------------------------------------
(* Tags.                                                                   *)

\* The tags of simple values, null, the owning ones and the frame's are different.
LEMMA Tags ==
  /\ Simple \cap Owning = {} /\ "null" \notin Simple \cup Owning /\ "frame" \notin Owning
  /\ Frame \notin Object /\ Object \subseteq Nat
BY JVarTags, JVarBounds DEF Owning, Frame

\* A JVar owns the object it points to, and nothing else.
LEMMA OwnedMeans ==
  ASSUME NEW v, NEW o
  PROVE  o \in Owned(v) <=> Owns(v, o)
BY DEF Owned, Owns

\* Null owns nothing, and fits everywhere.
LEMMA NullFits ==
  ASSUME NEW h
  PROVE  Holds(h, Null) /\ Owned(Null) = {} /\ Null \in JVars /\ Null.type = "null"
BY Tags DEF Holds, Null, Owned, JVars, Type, NoDatum, Owning

\* A JVar whose tag is null is Null.
LEMMA NullIsOne ==
  ASSUME NEW v \in JVars, v.type = "null", v.raw = NoDatum
  PROVE  v = Null
BY DEF JVars, Null

\* Nobody owns the frame.
LEMMA FrameIsFree ==
  ASSUME NEW h, Typed(h), NEW v, Holds(h, v)
  PROVE  ~ Owns(v, Frame)
BY Tags DEF Typed, Holds, Owns, Fits

\* Two slots that own an object are one.
LEMMA OwnersAreOne ==
  ASSUME NEW h, NEW v, Sound(h, v), NEW o,
         NEW x \in DOMAIN h, NEW i \in DOMAIN h[x].slots, Owns(h[x].slots[i], o),
         NEW y \in DOMAIN h, NEW j \in DOMAIN h[y].slots, Owns(h[y].slots[j], o)
  PROVE  x = y /\ i = j
BY DEF Sound, Single, Owns

-----------------------------------------------------------------------------
(* Changes of one slot.                                                    *)

\* In g the slot i of x holds v; nothing else has changed since h.
Changed(h, g, x, i, v) ==
  /\ DOMAIN g = DOMAIN h
  /\ \A o \in DOMAIN h : o # x => g[o] = h[o]
  /\ Fits(x, g[x]) /\ g[x].type = h[x].type /\ g[x].datum = h[x].datum
  /\ DOMAIN g[x].slots = DOMAIN h[x].slots \cup { i }
  /\ g[x].slots[i] = v
  /\ \A j \in DOMAIN h[x].slots : j # i => g[x].slots[j] = h[x].slots[j]

\* What the slot i of x held.
Old(h, x, i) == IF i \in DOMAIN h[x].slots THEN h[x].slots[i] ELSE Null

\* The slot i of x is there, or may be made.
MayHave(h, x, i) ==
  \/ i \in DOMAIN h[x].slots
  \/ x = Frame /\ i \in Var
  \/ h[x].type = "hash" /\ i \in Name

\* Contents with other slots.
LEMMA OtherSlots ==
  ASSUME NEW h, NEW x \in DOMAIN h, DOMAIN h[x] = { "type", "datum", "slots" }, NEW f
  PROVE  LET g == [h EXCEPT ![x].slots = f] IN
         /\ DOMAIN g = DOMAIN h
         /\ \A o \in DOMAIN h : o # x => g[o] = h[o]
         /\ DOMAIN g[x] = { "type", "datum", "slots" }
         /\ g[x].slots = f /\ g[x].type = h[x].type /\ g[x].datum = h[x].datum
OBVIOUS

\* Put changes one slot.
LEMMA PutChanges ==
  ASSUME NEW h, Typed(h), NEW x \in DOMAIN h, NEW i, MayHave(h, x, i), NEW v \in JVars
  PROVE  Changed(h, Put(h, << x, i >>, v), x, i, v)
<1> DEFINE f == With(h[x].slots, i, v)
           g == Put(h, << x, i >>, v)
<1>1. Fits(x, h[x])
  BY DEF Typed
<1>2. DOMAIN f = DOMAIN h[x].slots \cup { i } /\ f[i] = v
      /\ \A j \in DOMAIN h[x].slots : j # i => f[j] = h[x].slots[j]
  BY DEF With
<1>3. g = [h EXCEPT ![x].slots = f]
  BY DEF Put
<1>4. h[x].type = "array" => f \in Seq(JVars)
  <2> SUFFICES ASSUME h[x].type = "array" PROVE f \in Seq(JVars)
    OBVIOUS
  <2>1. h[x].slots \in Seq(JVars) /\ x # Frame
    BY <1>1 DEF Fits
  <2>2. i \in 1 .. Len(h[x].slots)
    BY <2>1 DEF MayHave
  <2>3. f = [j \in 1 .. Len(h[x].slots) |-> IF j = i THEN v ELSE h[x].slots[j]]
    BY <2>1, <2>2 DEF With
  <2>4. f \in [1 .. Len(h[x].slots) -> JVars]
    BY <2>1, <2>3
  <2> QED
    BY <2>1, <2>4
<1> HIDE DEF f, g
<1>5. /\ DOMAIN g = DOMAIN h
      /\ \A o \in DOMAIN h : o # x => g[o] = h[o]
      /\ DOMAIN g[x] = { "type", "datum", "slots" }
      /\ g[x].slots = f /\ g[x].type = h[x].type /\ g[x].datum = h[x].datum
  BY <1>1, <1>3, OtherSlots DEF Fits
<1>6. Fits(x, g[x])
  BY <1>1, <1>2, <1>4, <1>5, Tags DEF Fits, MayHave, Owning
<1>7. Changed(h, g, x, i, v)
  BY <1>2, <1>5, <1>6 DEF Changed
<1> QED
  BY <1>7 DEF g

\* emplace_back makes the slot behind the last.
LEMMA AppendChanges ==
  ASSUME NEW h, Typed(h), NEW x \in DOMAIN h, h[x].type = "array", NEW v \in JVars
  PROVE  Changed(h, [h EXCEPT ![x].slots = Append(@, v)], x, Len(h[x].slots) + 1, v)
<1> DEFINE s == h[x].slots
           f == Append(s, v)
           g == [h EXCEPT ![x].slots = f]
           i == Len(s) + 1
<1>1. Fits(x, h[x]) /\ s \in Seq(JVars)
  BY DEF Typed, Fits
<1>2. /\ f \in Seq(JVars) /\ DOMAIN f = DOMAIN s \cup { i } /\ f[i] = v
      /\ \A j \in DOMAIN s : j # i => f[j] = s[j]
  BY <1>1
<1> HIDE DEF f, i
<1>3. /\ DOMAIN g = DOMAIN h
      /\ \A o \in DOMAIN h : o # x => g[o] = h[o]
      /\ DOMAIN g[x] = { "type", "datum", "slots" }
      /\ g[x].slots = f /\ g[x].type = h[x].type /\ g[x].datum = h[x].datum
  BY <1>1, OtherSlots DEF Fits
<1> HIDE DEF g
<1>4. Fits(x, g[x])
  BY <1>1, <1>2, <1>3 DEF Fits
<1>5. Changed(h, g, x, i, v)
  BY <1>2, <1>3, <1>4 DEF Changed
<1> QED
  BY <1>5 DEF g, f, i

\* A JVar still fits when objects keep their tags.
LEMMA HoldsKept ==
  ASSUME NEW h, NEW g, NEW v, Holds(h, v),
         v.type \in Owning => v.raw \in DOMAIN g /\ g[v.raw].type = h[v.raw].type
  PROVE  Holds(g, v)
BY DEF Holds

\* A change keeps the types.
LEMMA ChangeTyped ==
  ASSUME NEW h, NEW g, NEW v, NEW x \in DOMAIN h, NEW i,
         Typed(h), Holds(h, v), Changed(h, g, x, i, v)
  PROVE  Typed(g) /\ \A u : Holds(h, u) => Holds(g, u)
<1>1. /\ DOMAIN g = DOMAIN h /\ \A o \in DOMAIN h : g[o].type = h[o].type /\ Fits(o, g[o])
  BY DEF Changed, Typed
<1>2. \A u : Holds(h, u) => Holds(g, u)
  BY <1>1, HoldsKept DEF Holds
<1>3. \A o \in DOMAIN g : \A j \in DOMAIN g[o].slots : Holds(g, g[o].slots[j])
  BY <1>1, <1>2 DEF Typed, Changed
<1> QED
  BY <1>1, <1>2, <1>3 DEF Typed

\* What a changed slot held floats instead of what it holds now.
LEMMA ExchangeSound ==
  ASSUME NEW h, NEW g, NEW v, NEW x \in DOMAIN h, NEW i,
         Sound(h, v), Changed(h, g, x, i, v)
  PROVE  Sound(g, Old(h, x, i))
<1> DEFINE w == Old(h, x, i)
<1>1. DOMAIN g = DOMAIN h
  BY DEF Changed
<1>2. Typed(g) /\ \A u : Holds(h, u) => Holds(g, u)
  BY ChangeTyped DEF Sound
<1>3. Holds(h, w)
  BY NullFits DEF Old, Sound, Typed
<1>4. ASSUME NEW y \in DOMAIN g, NEW j \in DOMAIN g[y].slots
      PROVE  \/ y = x /\ j = i /\ g[y].slots[j] = v
             \/ /\ ~ (y = x /\ j = i) /\ y \in DOMAIN h /\ j \in DOMAIN h[y].slots
                /\ g[y].slots[j] = h[y].slots[j]
  BY <1>1 DEF Changed
<1>5. Single(g, w)
  <2>1. ASSUME NEW y \in DOMAIN g, NEW z \in DOMAIN g,
               NEW j \in DOMAIN g[y].slots, NEW k \in DOMAIN g[z].slots,
               g[y].slots[j].type \in Owning, Owns(g[z].slots[k], g[y].slots[j].raw)
        PROVE  y = z /\ j = k
    BY <1>4, <2>1 DEF Sound, Single, Owns
  <2>2. ASSUME NEW y \in DOMAIN g, NEW j \in DOMAIN g[y].slots,
               w.type \in Owning, Owns(g[y].slots[j], w.raw)
        PROVE  FALSE
    <3>1. i \in DOMAIN h[x].slots /\ w = h[x].slots[i]
      BY <2>2, NullFits, Tags DEF Old
    <3> QED
      BY <1>4, <2>2, <3>1 DEF Sound, Single, Owns
  <2>3. ASSUME NEW o \in DOMAIN g \ { Frame }
        PROVE  Owns(w, o) \/ \E y \in DOMAIN g : \E j \in DOMAIN g[y].slots : Owns(g[y].slots[j], o)
    <3>1. CASE Owns(v, o)
      <4>1. x \in DOMAIN g /\ i \in DOMAIN g[x].slots /\ g[x].slots[i] = v
        BY DEF Changed
      <4> QED
        BY <3>1, <4>1
    <3>2. CASE \E y \in DOMAIN h : \E j \in DOMAIN h[y].slots : Owns(h[y].slots[j], o)
      <4>1. PICK y \in DOMAIN h : \E j \in DOMAIN h[y].slots : Owns(h[y].slots[j], o)
        BY <3>2
      <4>2. PICK j \in DOMAIN h[y].slots : Owns(h[y].slots[j], o)
        BY <4>1
      <4>3. CASE y = x /\ j = i
        BY <4>2, <4>3 DEF Old
      <4>4. CASE ~ (y = x /\ j = i)
        <5>1. y \in DOMAIN g /\ j \in DOMAIN g[y].slots /\ g[y].slots[j] = h[y].slots[j]
          BY <4>4 DEF Changed
        <5> QED
          BY <4>2, <5>1
      <4> QED
        BY <4>3, <4>4
    <3> QED
      BY <1>1, <3>1, <3>2 DEF Sound, Single
  <2> HIDE DEF w
  <2> QED
    BY <2>1, <2>2, <2>3 DEF Single
<1> QED
  BY <1>2, <1>3, <1>5 DEF Sound

\* Nothing becomes unreachable if the changed slot lies below the frame.
LEMMA ExchangeRooted ==
  ASSUME NEW h, NEW g, NEW v, NEW x \in DOMAIN h, NEW i,
         Rooted(h, v), Changed(h, g, x, i, v), Rests(h, x)
  PROVE  Rooted(g, Old(h, x, i))
<1> DEFINE w == Old(h, x, i)
<1> SUFFICES ASSUME NEW T \in SUBSET DOMAIN g, Frame \in T, Owned(w) \subseteq T, Closed(g, T)
             PROVE  T = DOMAIN g
  BY DEF Rooted
<1>1. DOMAIN g = DOMAIN h
  BY DEF Changed
<1>2. Closed(h, T)
  <2> SUFFICES ASSUME NEW y \in T, NEW j \in DOMAIN h[y].slots
               PROVE  Owned(h[y].slots[j]) \subseteq T
    BY DEF Closed
  <2>1. CASE y = x /\ j = i
    BY <2>1 DEF Old
  <2>2. CASE ~ (y = x /\ j = i)
    <3>1. j \in DOMAIN g[y].slots /\ g[y].slots[j] = h[y].slots[j]
      BY <1>1, <2>2 DEF Changed
    <3> QED
      BY <3>1 DEF Closed
  <2> QED
    BY <2>1, <2>2
<1>3. x \in T
  BY <1>1, <1>2 DEF Rests
<1>4. Owned(v) \subseteq T
  <2>1. i \in DOMAIN g[x].slots /\ g[x].slots[i] = v
    BY DEF Changed
  <2> QED
    BY <1>3, <2>1 DEF Closed
<1> QED
  BY <1>1, <1>2, <1>4 DEF Rooted

\* The frame lies below itself.
LEMMA FrameRests ==
  ASSUME NEW h
  PROVE  Rests(h, Frame)
BY DEF Rests

-----------------------------------------------------------------------------
(* What a JVar reaches.                                                    *)

\* The objects of a heap are finitely many.
LEMMA HeapIsFinite ==
  ASSUME NEW h, Typed(h)
  PROVE  IsFiniteSet(DOMAIN h) /\ Cardinality(DOMAIN h) \in Nat
<1>1. IsFiniteSet(Object \cup { Frame })
  BY JVarBounds, FS_AddElement
<1>2. IsFiniteSet(DOMAIN h)
  BY <1>1, FS_Subset DEF Typed
<1> QED
  BY <1>2, FS_CardinalityType

\* The objects of S and those they own.
Wider(h, S) == S \cup UNION { Inside(h, o) : o \in S }

\* Nothing is wider than S just when S is closed.
LEMMA WiderMeans ==
  ASSUME NEW h, NEW S
  PROVE  /\ S \subseteq Wider(h, S)
         /\ Closed(h, S) <=> Wider(h, S) = S
         /\ \A T : S \subseteq T /\ Closed(h, T) => Wider(h, S) \subseteq T
BY DEF Wider, Closed, Inside

\* The widening does not leave the objects that somebody may own.
LEMMA WiderStays ==
  ASSUME NEW h, Typed(h), NEW S \in SUBSET (DOMAIN h \ { Frame })
  PROVE  Wider(h, S) \in SUBSET (DOMAIN h \ { Frame })
<1> SUFFICES ASSUME NEW o \in S, NEW i \in DOMAIN h[o].slots, NEW q, q \in Owned(h[o].slots[i])
             PROVE  q \in DOMAIN h \ { Frame }
  BY DEF Wider, Inside
<1>1. Holds(h, h[o].slots[i])
  BY DEF Typed
<1> QED
  BY <1>1, FrameIsFree, OwnedMeans DEF Holds, Owns

\* How Reach is computed: one widening after the other.
LEMMA ReachIsIterated ==
  ASSUME NEW h, Typed(h), NEW v, Holds(h, v)
  PROVE  \E f \in [Nat -> SUBSET (DOMAIN h \ { Frame })] :
           /\ f[0] = Owned(v) /\ \A n \in Nat : f[n + 1] = Wider(h, f[n])
           /\ Reach(h, v) = f[Cardinality(DOMAIN h)]
<1> DEFINE A == SUBSET (DOMAIN h \ { Frame })
           Within[n \in Nat] == IF n = 0 THEN Owned(v)
                                ELSE Within[n - 1] \cup UNION { Inside(h, o) : o \in Within[n - 1] }
           F == [S \in A |-> Wider(h, S)]
<1>1. Owned(v) \in A
  <2> SUFFICES ASSUME NEW o, o \in Owned(v) PROVE o \in DOMAIN h \ { Frame }
    OBVIOUS
  <2> QED
    BY FrameIsFree, OwnedMeans DEF Holds, Owns
<1>2. F \in [A -> A]
  BY WiderStays
<1>3. PICK f \in [Nat -> A] : Iterates(f, F, Owned(v))
  <2> HIDE DEF A, F
  <2> QED
    BY <1>1, <1>2, Iteration
<1>4. f[0] = Owned(v) /\ \A n \in Nat : f[n + 1] = Wider(h, f[n])
  BY <1>3 DEF Iterates
<1>5. \A n \in Nat : f[n] = IF n = 0 THEN Owned(v)
                            ELSE f[n - 1] \cup UNION { Inside(h, o) : o \in f[n - 1] }
  <2> SUFFICES ASSUME NEW n \in Nat, n # 0
               PROVE  f[n] = Wider(h, f[n - 1])
    BY <1>4 DEF Wider
  <2>1. n - 1 \in Nat /\ (n - 1) + 1 = n
    OBVIOUS
  <2>2. f[(n - 1) + 1] = Wider(h, f[n - 1])
    BY <1>4, <2>1
  <2> QED
    BY <2>1, <2>2
<1>6. f = [n \in Nat |-> IF n = 0 THEN Owned(v)
                         ELSE f[n - 1] \cup UNION { Inside(h, o) : o \in f[n - 1] }]
  <2> HIDE DEF A
  <2> QED
    BY <1>3, <1>5
<1>7. Within = [n \in Nat |-> IF n = 0 THEN Owned(v)
                         ELSE Within[n - 1] \cup UNION { Inside(h, o) : o \in Within[n - 1] }]
  <2> HIDE DEF A, F
  <2> QED
    BY <1>6
<1>8. Nat \subseteq { n \in Nat : Within[n] = f[n] }
  <2> DEFINE P == { n \in Nat : Within[n] = f[n] }
  <2> HIDE DEF A, F, Within
  <2>1. 0 \in P
    BY <1>4, <1>7
  <2>2. \A n \in Nat : n \in P => n + 1 \in P
    <3> SUFFICES ASSUME NEW n \in Nat, Within[n] = f[n] PROVE Within[n + 1] = f[n + 1]
      OBVIOUS
    <3>1. n + 1 \in Nat /\ n + 1 # 0 /\ (n + 1) - 1 = n
      OBVIOUS
    <3>2. Within[n + 1] = Within[n] \cup UNION { Inside(h, o) : o \in Within[n] }
      BY <1>7, <3>1
    <3> QED
      BY <1>4, <3>2 DEF Wider
  <2> HIDE DEF P
  <2>3. Nat \subseteq P
    BY <2>1, <2>2, SetInduction
  <2> QED
    BY <2>3 DEF P
<1>9. Reach(h, v) = Within[Cardinality(DOMAIN h)]
  BY DEF Reach
<1> HIDE DEF Within, A
<1>10. Reach(h, v) = f[Cardinality(DOMAIN h)]
  BY <1>8, <1>9, HeapIsFinite
<1> QED
  BY <1>4, <1>10 DEF A

\* Reach(h, v) is the least set with what v owns and what its members own: a widening either
\* adds nothing, or one object at least, and there are no more than the heap has.
LEMMA ReachIsLeast ==
  ASSUME NEW h, Typed(h), NEW v, Holds(h, v)
  PROVE  /\ Reach(h, v) \subseteq DOMAIN h \ { Frame }
         /\ Owned(v) \subseteq Reach(h, v) /\ Closed(h, Reach(h, v))
         /\ \A T : Owned(v) \subseteq T /\ Closed(h, T) => Reach(h, v) \subseteq T
<1> DEFINE D == DOMAIN h \ { Frame }
           m == Cardinality(DOMAIN h)
<1>1. PICK f \in [Nat -> SUBSET D] :
           /\ f[0] = Owned(v) /\ \A n \in Nat : f[n + 1] = Wider(h, f[n])
           /\ Reach(h, v) = f[m]
  BY ReachIsIterated
<1>2. m \in Nat /\ IsFiniteSet(DOMAIN h) /\ \A n \in Nat : IsFiniteSet(f[n]) /\ f[n] \subseteq DOMAIN h
  BY HeapIsFinite, FS_Subset
<1> HIDE DEF D, m
<1>3. Nat \subseteq { n \in Nat : Owned(v) \subseteq f[n] }
  <2> DEFINE P == { n \in Nat : Owned(v) \subseteq f[n] }
  <2>1. 0 \in P /\ \A n \in Nat : n \in P => n + 1 \in P
    BY <1>1, WiderMeans
  <2> HIDE DEF P
  <2>2. Nat \subseteq P
    BY <2>1, SetInduction
  <2> QED
    BY <2>2 DEF P
<1>4. Nat \subseteq { n \in Nat : Closed(h, f[n]) \/ Cardinality(f[n]) >= n }
  <2> DEFINE P == { n \in Nat : Closed(h, f[n]) \/ Cardinality(f[n]) >= n }
  <2>1. 0 \in P
    BY <1>2, FS_CardinalityType
  <2>2. ASSUME NEW n \in Nat, n \in P PROVE n + 1 \in P
    <3>1. n + 1 \in Nat /\ f[n + 1] = Wider(h, f[n])
      BY <1>1
    <3>2. CASE Closed(h, f[n])
      <4>1. f[n + 1] = f[n]
        BY <3>1, <3>2, WiderMeans
      <4> QED
        BY <3>1, <3>2, <4>1
    <3>3. CASE ~ Closed(h, f[n])
      <4>1. f[n] \subseteq f[n + 1] /\ f[n] # f[n + 1]
        BY <3>1, <3>3, WiderMeans
      <4>2. IsFiniteSet(f[n + 1])
        BY <1>2, <3>1
      <4>3. Cardinality(f[n]) <= Cardinality(f[n + 1]) /\ Cardinality(f[n]) # Cardinality(f[n + 1])
        BY <4>1, <4>2, FS_Subset
      <4>4. Cardinality(f[n]) \in Nat /\ Cardinality(f[n + 1]) \in Nat /\ Cardinality(f[n]) >= n
        BY <1>2, <2>2, <3>1, <3>3, FS_CardinalityType
      <4>5. Cardinality(f[n + 1]) >= n + 1
        BY <4>3, <4>4
      <4> QED
        BY <3>1, <4>5
    <3> QED
      BY <3>2, <3>3
  <2> HIDE DEF P
  <2>3. Nat \subseteq P
    BY <2>1, <2>2, SetInduction
  <2> QED
    BY <2>3 DEF P
<1>5. Closed(h, f[m])
  <2> SUFFICES ASSUME ~ Closed(h, f[m]) PROVE FALSE
    OBVIOUS
  <2>1. Cardinality(f[m]) >= m
    BY <1>2, <1>4
  <2>2. Cardinality(f[m]) <= m /\ (m = Cardinality(f[m]) => DOMAIN h = f[m])
    BY <1>2, FS_Subset DEF m
  <2>3. Cardinality(f[m]) \in Nat
    BY <1>2, FS_CardinalityType
  <2>4. DOMAIN h = f[m]
    BY <1>2, <2>1, <2>2, <2>3
  <2>5. Frame \in f[m] /\ f[m] \subseteq D
    BY <1>1, <1>2, <2>4 DEF Typed
  <2> QED
    BY <2>5 DEF D
<1>6. ASSUME NEW T, Owned(v) \subseteq T, Closed(h, T)
      PROVE  f[m] \subseteq T
  <2> DEFINE P == { n \in Nat : f[n] \subseteq T }
  <2>1. 0 \in P /\ \A n \in Nat : n \in P => n + 1 \in P
    BY <1>1, <1>6, WiderMeans
  <2> HIDE DEF P
  <2>2. Nat \subseteq P
    BY <2>1, SetInduction
  <2> QED
    BY <1>2, <2>2 DEF P
<1>7. f[m] \subseteq D /\ Owned(v) \subseteq f[m]
  BY <1>1, <1>2, <1>3
<1> QED
  BY <1>1, <1>5, <1>6, <1>7 DEF D

\* What is reached is owned by v or by something reached.
LEMMA ReachIsOwned ==
  ASSUME NEW h, Typed(h), NEW v, Holds(h, v), NEW o \in Reach(h, v)
  PROVE  Owns(v, o) \/ \E x \in Reach(h, v) : \E i \in DOMAIN h[x].slots : Owns(h[x].slots[i], o)
<1> DEFINE R == Reach(h, v)
           T == { q \in R : Owns(v, q) \/ \E x \in R : \E i \in DOMAIN h[x].slots :
                                                         Owns(h[x].slots[i], q) }
<1>1. Owned(v) \subseteq R /\ Closed(h, R) /\ (\A S : Owned(v) \subseteq S /\ Closed(h, S) => R \subseteq S)
  BY ReachIsLeast
<1> HIDE DEF R
<1>2. Owned(v) \subseteq T
  BY <1>1, OwnedMeans
<1>3. Closed(h, T)
  BY <1>1, OwnedMeans DEF Closed
<1>4. R \subseteq T
  <2> HIDE DEF T
  <2> QED
    BY <1>1, <1>2, <1>3
<1> QED
  BY <1>4 DEF R

\* No slot outside what v reaches owns any of it.
LEMMA OutsideOwnsOutside ==
  ASSUME NEW h, NEW v, Sound(h, v), NEW o \in Reach(h, v),
         NEW x \in DOMAIN h, x \notin Reach(h, v), NEW i \in DOMAIN h[x].slots
  PROVE  ~ Owns(h[x].slots[i], o)
<1> SUFFICES ASSUME Owns(h[x].slots[i], o) PROVE FALSE
  OBVIOUS
<1>1. Reach(h, v) \subseteq DOMAIN h
  BY ReachIsLeast DEF Sound
<1>2. CASE Owns(v, o)
  BY <1>2 DEF Sound, Single, Owns
<1>3. CASE \E y \in Reach(h, v) : \E j \in DOMAIN h[y].slots : Owns(h[y].slots[j], o)
  BY <1>1, <1>3 DEF Sound, Single, Owns
<1> QED
  BY <1>2, <1>3, ReachIsOwned DEF Sound

\* A destroyed JVar takes all it reaches with it, and leaves nothing that points there.
LEMMA DestroyedSound ==
  ASSUME NEW h, NEW v, Sound(h, v)
  PROVE  Sound(Destroyed(h, v), Null)
<1> DEFINE R == Reach(h, v)
           g == Destroyed(h, v)
<1>1. R \subseteq DOMAIN h \ { Frame } /\ Owned(v) \subseteq R /\ Closed(h, R)
  BY ReachIsLeast DEF Sound
<1>2. DOMAIN g = DOMAIN h \ R /\ \A o \in DOMAIN g : g[o] = h[o]
  BY DEF Destroyed
<1>3. \A x \in DOMAIN g : \A i \in DOMAIN h[x].slots, o \in R : ~ Owns(h[x].slots[i], o)
  BY <1>2, OutsideOwnsOutside
<1> HIDE DEF R, g
<1>4. Typed(g)
  <2>1. ASSUME NEW x \in DOMAIN g, NEW i \in DOMAIN g[x].slots
        PROVE  Holds(g, g[x].slots[i])
    <3>1. Holds(h, h[x].slots[i])
      BY <1>2, <2>1 DEF Sound, Typed
    <3>2. h[x].slots[i].type \in Owning => h[x].slots[i].raw \notin R
      BY <1>2, <1>3, <2>1 DEF Owns
    <3>3. h[x].slots[i].type \in Owning => h[x].slots[i].raw \in DOMAIN g
      BY <1>2, <3>1, <3>2 DEF Holds
    <3> QED
      BY <1>2, <2>1, <3>1, <3>3, HoldsKept
  <2> QED
    BY <1>1, <1>2, <2>1 DEF Sound, Typed
<1>5. Single(g, Null)
  <2>1. ASSUME NEW o \in DOMAIN g \ { Frame }
        PROVE  \E x \in DOMAIN g : \E i \in DOMAIN g[x].slots : Owns(g[x].slots[i], o)
    <3>1. ~ Owns(v, o)
      BY <1>1, <1>2, <2>1, OwnedMeans
    <3>2. PICK x \in DOMAIN h : \E i \in DOMAIN h[x].slots : Owns(h[x].slots[i], o)
      BY <1>2, <2>1, <3>1 DEF Sound, Single
    <3>3. x \notin R
      BY <1>1, <1>2, <2>1, <3>2, OwnedMeans DEF Closed
    <3> QED
      BY <1>2, <3>2, <3>3
  <2>2. Null.type \notin Owning
    BY NullFits, Tags
  <2>3. ASSUME NEW x \in DOMAIN g, NEW y \in DOMAIN g,
               NEW i \in DOMAIN g[x].slots, NEW j \in DOMAIN g[y].slots,
               g[x].slots[i].type \in Owning, Owns(g[y].slots[j], g[x].slots[i].raw)
        PROVE  x = y /\ i = j
    BY <1>2, <2>3 DEF Sound, Single
  <2> QED
    BY <2>1, <2>2, <2>3 DEF Single
<1> QED
  BY <1>4, <1>5, NullFits DEF Sound, g

\* What is left lies below the frame, if all of it did below the frame and v.
LEMMA DestroyedRooted ==
  ASSUME NEW h, NEW v, Sound(h, v), Rooted(h, v)
  PROVE  Rooted(Destroyed(h, v), Null)
<1> DEFINE R == Reach(h, v)
           g == Destroyed(h, v)
<1>1. R \subseteq DOMAIN h \ { Frame } /\ Owned(v) \subseteq R /\ Closed(h, R)
  BY ReachIsLeast DEF Sound
<1>2. DOMAIN g = DOMAIN h \ R /\ \A o \in DOMAIN g : g[o] = h[o]
  BY DEF Destroyed
<1> HIDE DEF R, g
<1>3. ASSUME NEW T \in SUBSET DOMAIN g, Frame \in T, Closed(g, T)
      PROVE  T = DOMAIN g
  <2>1. Closed(h, T \cup R)
    BY <1>1, <1>2, <1>3 DEF Closed
  <2>2. T \cup R = DOMAIN h
    BY <1>1, <1>2, <1>3, <2>1 DEF Rooted
  <2> QED
    BY <1>2, <2>2
<1>4. Rooted(g, Null)
  BY <1>3 DEF Rooted
<1> QED
  BY <1>4 DEF g

-----------------------------------------------------------------------------
(* Paths.                                                                  *)

Key == Var \cup Name \cup Nat

\* The path p leads from the frame through the objects g to a slot.
Leads(h, p, g) ==
  /\ p \in Seq(Key) /\ Len(p) \in Nat \ { 0 }
  /\ g \in [0 .. Len(p) - 1 -> DOMAIN h] /\ g[0] = Frame
  /\ \A k \in 1 .. Len(p) : p[k] \in DOMAIN h[g[k - 1]].slots
  /\ \A k \in 1 .. Len(p) - 1 : Owns(h[g[k - 1]].slots[p[k]], g[k])

\* The object a path ends in, and the index of its slot.
LEMMA SlotIs ==
  ASSUME NEW h, NEW p, NEW g, Leads(h, p, g)
  PROVE  /\ Slot(h, p) = << g[Len(p) - 1], p[Len(p)] >>
         /\ At(h, Slot(h, p)) = h[g[Len(p) - 1]].slots[p[Len(p)]]
         /\ ObjectAt(h, p) = At(h, Slot(h, p)).raw
         /\ g[Len(p) - 1] \in DOMAIN h
         /\ p[Len(p)] \in DOMAIN h[g[Len(p) - 1]].slots
<1> DEFINE m == Len(p)
           v == h[g[m - 1]].slots[p[m]]
<1>1. p # << >> /\ m \in Nat /\ m >= 1 /\ m \in 1 .. m /\ m - 1 \in 0 .. m - 1
  BY DEF Leads
<1>2. /\ Last(p) = p[m] /\ Front(p) \in Seq(Key) /\ Len(Front(p)) = m - 1
      /\ \A k \in 1 .. m - 1 : Front(p)[k] = p[k]
  BY <1>1, FrontProperties DEF Leads
<1>3. ASSUME NEW q \in Seq(Key), NEW n \in Nat, n = Len(q),
             NEW t \in [0 .. n -> DOMAIN h \cup { v.raw }],
             \A k \in 0 .. n : t[k] = IF k = 0 THEN Frame ELSE h[t[k - 1]].slots[q[k]].raw
      PROVE  ObjectAt(h, q) = t[n]
  <2> DEFINE Down[k \in 0 .. n] == IF k = 0 THEN Frame ELSE h[Down[k - 1]].slots[q[k]].raw
  <2>1. t = [k \in 0 .. n |-> IF k = 0 THEN Frame ELSE h[t[k - 1]].slots[q[k]].raw]
    <3> HIDE DEF v
    <3> QED
      BY <1>3
  <2>2. Down = [k \in 0 .. n |-> IF k = 0 THEN Frame ELSE h[Down[k - 1]].slots[q[k]].raw]
    <3> HIDE DEF v
    <3> QED
      BY <2>1
  <2> HIDE DEF Down
  <2>3. Nat \subseteq { k \in Nat : k \in 0 .. n => Down[k] = t[k] }
    <3> DEFINE P == { k \in Nat : k \in 0 .. n => Down[k] = t[k] }
    <3> HIDE DEF v
    <3>1. 0 \in P
      BY <1>3, <2>2
    <3>2. ASSUME NEW k \in Nat, k \in P, k + 1 \in 0 .. n PROVE Down[k + 1] = t[k + 1]
      <4>1. k \in 0 .. n /\ k + 1 # 0 /\ (k + 1) - 1 = k
        BY <3>2
      <4>2. Down[k] = t[k]
        BY <3>2, <4>1
      <4>3. Down[k + 1] = h[Down[k]].slots[q[k + 1]].raw
        BY <2>2, <3>2, <4>1
      <4>4. t[k + 1] = h[t[k]].slots[q[k + 1]].raw
        BY <1>3, <3>2, <4>1
      <4> QED
        BY <4>2, <4>3, <4>4
    <3>3. \A k \in Nat : k \in P => k + 1 \in P
      BY <3>2
    <3> HIDE DEF P
    <3>4. Nat \subseteq P
      BY <3>1, <3>3, SetInduction
    <3> QED
      BY <3>4 DEF P
  <2>4. Down[n] = t[n]
    BY <2>3
  <2> QED
    BY <1>3, <2>4 DEF ObjectAt, Down
<1>4. ObjectAt(h, Front(p)) = g[m - 1]
  <2> DEFINE t == [k \in 0 .. m - 1 |-> g[k]]
  <2>1. t \in [0 .. m - 1 -> DOMAIN h \cup { v.raw }]
    BY DEF Leads
  <2>2. ASSUME NEW k \in 0 .. m - 1
        PROVE  t[k] = IF k = 0 THEN Frame ELSE h[t[k - 1]].slots[Front(p)[k]].raw
    <3>1. k # 0 => k \in 1 .. m - 1 /\ k - 1 \in 0 .. m - 1
      BY <1>1
    <3> QED
      BY <1>2, <3>1 DEF Leads, Owns
  <2>3. t[m - 1] = g[m - 1] /\ m - 1 \in Nat
    BY <1>1
  <2> HIDE DEF t, v, m
  <2>4. ObjectAt(h, Front(p)) = t[m - 1]
    BY <1>2, <1>3, <2>1, <2>2, <2>3
  <2> QED
    BY <2>3, <2>4
<1>5. ObjectAt(h, p) = v.raw
  <2> DEFINE t == [k \in 0 .. m |-> IF k = m THEN v.raw ELSE g[k]]
  <2>1. t \in [0 .. m -> DOMAIN h \cup { v.raw }]
    BY <1>1 DEF Leads
  <2>2. ASSUME NEW k \in 0 .. m
        PROVE  t[k] = IF k = 0 THEN Frame ELSE h[t[k - 1]].slots[p[k]].raw
    <3>1. CASE k = 0
      BY <1>1, <3>1 DEF Leads
    <3>2. CASE k = m
      <4>1. t[k] = v.raw /\ t[k - 1] = g[m - 1] /\ k # 0
        BY <1>1, <3>2
      <4> HIDE DEF t
      <4> QED
        BY <3>2, <4>1
    <3>3. CASE k \in 1 .. m - 1
      <4>1. t[k] = g[k] /\ t[k - 1] = g[k - 1]
        BY <1>1, <3>3
      <4> QED
        BY <3>3, <4>1 DEF Leads, Owns
    <3>4. k = 0 \/ k = m \/ k \in 1 .. m - 1
      BY <1>1
    <3> QED
      BY <3>1, <3>2, <3>3, <3>4
  <2>3. t[m] = v.raw /\ p \in Seq(Key)
    BY <1>1 DEF Leads
  <2> HIDE DEF t, v
  <2>4. ObjectAt(h, p) = t[m]
    BY <1>1, <1>3, <2>1, <2>2, <2>3
  <2> QED
    BY <2>3, <2>4
<1> QED
  BY <1>1, <1>2, <1>4, <1>5 DEF Slot, At, Leads

\* Two paths that come to the same object have come the same way.
LEMMA PathsMeet ==
  ASSUME NEW h, Sound(h, Null), NEW p, NEW g, Leads(h, p, g), NEW q, NEW f, Leads(h, q, f),
         NEW a \in 0 .. Len(p) - 1, NEW b \in 0 .. Len(q) - 1, g[a] = f[b]
  PROVE  a = b /\ \A i \in 1 .. a : p[i] = q[i]
<1> DEFINE P == { n \in Nat : n \in 0 .. Len(p) - 1 =>
                    \A k \in 0 .. Len(q) - 1 :
                      g[n] = f[k] => n = k /\ \A i \in 1 .. n : p[i] = q[i] }
<1>1. /\ \A k \in 1 .. Len(q) - 1 : Owns(h[f[k - 1]].slots[q[k]], f[k])
      /\ \A k \in 1 .. Len(p) - 1 : Owns(h[g[k - 1]].slots[p[k]], g[k])
      /\ \A k \in 0 .. Len(q) - 1 : f[k] \in DOMAIN h
      /\ \A k \in 0 .. Len(p) - 1 : g[k] \in DOMAIN h
      /\ \A k \in 1 .. Len(q) : q[k] \in DOMAIN h[f[k - 1]].slots
      /\ \A k \in 1 .. Len(p) : p[k] \in DOMAIN h[g[k - 1]].slots
      /\ f[0] = Frame /\ g[0] = Frame /\ Len(p) \in Nat \ { 0 } /\ Len(q) \in Nat \ { 0 }
  BY DEF Leads
<1>2. ASSUME NEW x \in DOMAIN h, NEW i \in DOMAIN h[x].slots
      PROVE  ~ Owns(h[x].slots[i], Frame)
  BY FrameIsFree DEF Sound, Typed
<1>3. \A k \in 1 .. Len(q) - 1 : f[k] # Frame
  <2> SUFFICES ASSUME NEW k \in 1 .. Len(q) - 1 PROVE f[k] # Frame
    OBVIOUS
  <2>1. k - 1 \in 0 .. Len(q) - 1 /\ k \in 1 .. Len(q)
    BY <1>1
  <2> QED
    BY <1>1, <1>2, <2>1
<1>4. 0 \in P
  <2> SUFFICES ASSUME NEW k \in 0 .. Len(q) - 1, f[k] = Frame PROVE k = 0
    BY <1>1
  <2>1. k = 0 \/ k \in 1 .. Len(q) - 1
    BY <1>1
  <2> QED
    BY <1>3, <2>1
<1>5. ASSUME NEW n \in Nat, n \in P, n + 1 \in 0 .. Len(p) - 1,
             NEW k \in 0 .. Len(q) - 1, g[n + 1] = f[k]
      PROVE  n + 1 = k /\ \A i \in 1 .. n + 1 : p[i] = q[i]
  <2>1. /\ n + 1 \in 1 .. Len(p) - 1 /\ n + 1 \in 1 .. Len(p) /\ n \in 0 .. Len(p) - 1
        /\ (n + 1) - 1 = n
    BY <1>1, <1>5
  <2>2. Owns(h[g[n]].slots[p[n + 1]], f[k]) /\ p[n + 1] \in DOMAIN h[g[n]].slots /\ g[n] \in DOMAIN h
    BY <1>1, <1>5, <2>1
  <2>3. k # 0
    BY <1>1, <1>2, <2>2
  <2>4. k \in 1 .. Len(q) - 1 /\ k \in 1 .. Len(q) /\ k - 1 \in 0 .. Len(q) - 1
    BY <1>1, <2>3
  <2>5. Owns(h[f[k - 1]].slots[q[k]], f[k]) /\ q[k] \in DOMAIN h[f[k - 1]].slots /\ f[k - 1] \in DOMAIN h
    BY <1>1, <2>4
  <2>6. g[n] = f[k - 1] /\ p[n + 1] = q[k]
    <3> DEFINE x == g[n]  i == p[n + 1]  y == f[k - 1]  j == q[k]  o == f[k]
    <3>1. /\ x \in DOMAIN h /\ i \in DOMAIN h[x].slots /\ Owns(h[x].slots[i], o)
          /\ y \in DOMAIN h /\ j \in DOMAIN h[y].slots /\ Owns(h[y].slots[j], o)
      BY <2>2, <2>5
    <3> HIDE DEF x, i, y, j, o
    <3>2. x = y /\ i = j
      BY <3>1, OwnersAreOne
    <3> QED
      BY <3>2 DEF x, i, y, j
  <2>7. n = k - 1 /\ \A i \in 1 .. n : p[i] = q[i]
    BY <1>5, <2>1, <2>4, <2>6
  <2>8. n + 1 = k /\ \A i \in 1 .. n + 1 : i \in 1 .. n \/ i = n + 1
    BY <2>4, <2>7
  <2> QED
    BY <2>6, <2>7, <2>8
<1>6. \A n \in Nat : n \in P => n + 1 \in P
  <2> SUFFICES ASSUME NEW n \in Nat, n \in P PROVE n + 1 \in P
    OBVIOUS
  <2>1. ASSUME n + 1 \in 0 .. Len(p) - 1
        PROVE  \A k \in 0 .. Len(q) - 1 :
                 g[n + 1] = f[k] => n + 1 = k /\ \A i \in 1 .. n + 1 : p[i] = q[i]
    <3> HIDE DEF P
    <3> QED
      BY <1>5, <2>1
  <2> QED
    BY <2>1
<1> HIDE DEF P
<1>7. Nat \subseteq P
  BY <1>4, <1>6, SetInduction
<1> QED
  BY <1>7 DEF P

\* A path that goes through the slot of another continues it.
LEMMA PathsShare ==
  ASSUME NEW h, Sound(h, Null), NEW p, NEW g, Leads(h, p, g), NEW q, NEW f, Leads(h, q, f),
         NEW k \in 1 .. Len(p), g[k - 1] = f[Len(q) - 1], p[k] = q[Len(q)]
  PROVE  k = Len(q) /\ IsPrefix(q, p)
<1>1. Len(p) \in Nat \ { 0 } /\ Len(q) \in Nat \ { 0 } /\ p \in Seq(Key) /\ q \in Seq(Key)
  BY DEF Leads
<1>2. k - 1 \in 0 .. Len(p) - 1 /\ Len(q) - 1 \in 0 .. Len(q) - 1
  BY <1>1
<1>3. k - 1 = Len(q) - 1 /\ \A i \in 1 .. k - 1 : p[i] = q[i]
  BY <1>2, PathsMeet
<1>4. k = Len(q) /\ Len(q) <= Len(p) /\ \A i \in 1 .. Len(q) : i \in 1 .. k - 1 \/ i = k
  BY <1>1, <1>3
<1>5. \A i \in 1 .. Len(q) : p[i] = q[i]
  BY <1>3, <1>4
<1>6. /\ SubSeq(q, 1, Len(q)) = [i \in 1 .. Len(q) |-> q[i]]
      /\ SubSeq(p, 1, Len(q)) = [i \in 1 .. Len(q) |-> p[i]]
  BY <1>1, <1>4
<1>7. [i \in 1 .. Len(q) |-> q[i]] = [i \in 1 .. Len(q) |-> p[i]]
  BY <1>5
<1> QED
  BY <1>4, <1>6, <1>7 DEF IsPrefix

\* The objects above a JVar are not among those it reaches.
LEMMA AboveIsNotReached ==
  ASSUME NEW h, Sound(h, Null), NEW p, NEW g, Leads(h, p, g), NEW n \in 0 .. Len(p) - 1
  PROVE  g[n] \notin Reach(h, At(h, Slot(h, p)))
<1> DEFINE m == Len(p)
           v == At(h, Slot(h, p))
           R == Reach(h, v)
           P == { k \in Nat : k \in 0 .. m - 1 => g[k] \notin R }
<1>1. /\ m \in Nat \ { 0 } /\ g[0] = Frame
      /\ \A k \in 1 .. m : p[k] \in DOMAIN h[g[k - 1]].slots
      /\ \A k \in 1 .. m - 1 : Owns(h[g[k - 1]].slots[p[k]], g[k])
      /\ \A k \in 0 .. m - 1 : g[k] \in DOMAIN h
  BY DEF Leads
<1>2. v = h[g[m - 1]].slots[p[m]]
  BY SlotIs
<1>3. Holds(h, v)
  <2>1. m - 1 \in 0 .. m - 1 /\ m \in 1 .. m
    BY <1>1
  <2>2. g[m - 1] \in DOMAIN h /\ p[m] \in DOMAIN h[g[m - 1]].slots
    BY <1>1, <2>1
  <2> QED
    BY <1>2, <2>2 DEF Sound, Typed
<1>4. R \subseteq DOMAIN h \ { Frame }
  BY <1>3, ReachIsLeast DEF Sound
<1>5. \A o \in R : Owns(v, o) \/ \E x \in R : \E i \in DOMAIN h[x].slots : Owns(h[x].slots[i], o)
  BY <1>3, ReachIsOwned DEF Sound
<1> HIDE DEF m, v, R
<1>6. 0 \in P
  BY <1>1, <1>4
<1>7. ASSUME NEW k \in Nat, k \in P, k + 1 \in 0 .. m - 1, g[k + 1] \in R
      PROVE  FALSE
  <2>1. /\ k + 1 \in 1 .. m - 1 /\ k + 1 \in 1 .. m /\ (k + 1) - 1 = k /\ k \in 0 .. m - 1
        /\ m \in 1 .. m /\ m - 1 \in 0 .. m - 1 /\ k # m - 1
    BY <1>1, <1>7
  <2>2. /\ g[k] \in DOMAIN h /\ p[k + 1] \in DOMAIN h[g[k]].slots
        /\ Owns(h[g[k]].slots[p[k + 1]], g[k + 1])
    BY <1>1, <2>1
  <2>3. g[k] \notin R
    BY <1>7, <2>1
  <2>4. CASE Owns(v, g[k + 1])
    <3>1. g[m - 1] \in DOMAIN h /\ p[m] \in DOMAIN h[g[m - 1]].slots
      BY <1>1, <2>1
    <3>2. g[k] = g[m - 1]
      <4> DEFINE x == g[k]  i == p[k + 1]  y == g[m - 1]  j == p[m]  o == g[k + 1]
      <4>1. /\ x \in DOMAIN h /\ i \in DOMAIN h[x].slots /\ Owns(h[x].slots[i], o)
            /\ y \in DOMAIN h /\ j \in DOMAIN h[y].slots /\ Owns(h[y].slots[j], o)
        BY <1>2, <2>2, <2>4, <3>1
      <4> HIDE DEF x, i, y, j, o
      <4>2. x = y /\ i = j
        BY <4>1, OwnersAreOne
      <4> QED
        BY <4>2 DEF x, y
    <3>3. k = m - 1
      BY <2>1, <3>2, PathsMeet DEF m
    <3> QED
      BY <2>1, <3>3
  <2>5. CASE \E x \in R : \E i \in DOMAIN h[x].slots : Owns(h[x].slots[i], g[k + 1])
    BY <1>4, <2>2, <2>3, <2>5 DEF Sound, Single, Owns
  <2> QED
    BY <1>5, <1>7, <2>4, <2>5
<1>8. \A k \in Nat : k \in P => k + 1 \in P
  BY <1>7
<1> HIDE DEF P
<1>9. Nat \subseteq P
  BY <1>6, <1>8, SetInduction
<1>10. n \in Nat /\ n \in 0 .. m - 1
  BY <1>1 DEF m
<1>11. g[n] \notin R
  BY <1>9, <1>10 DEF P
<1> QED
  BY <1>11 DEF R, v

\* What can be come to step by step lies below the frame.
LEMMA StepsRest ==
  ASSUME NEW h, NEW n \in Nat, NEW t, t[0] = Frame,
         \A k \in 1 .. n : \E i \in DOMAIN h[t[k - 1]].slots : Owns(h[t[k - 1]].slots[i], t[k])
  PROVE  Rests(h, t[n])
<1> SUFFICES ASSUME NEW T \in SUBSET DOMAIN h, Frame \in T, Closed(h, T)
             PROVE  t[n] \in T
  BY DEF Rests
<1> DEFINE P == { k \in Nat : k \in 0 .. n => t[k] \in T }
<1>1. 0 \in P
  OBVIOUS
<1>2. ASSUME NEW k \in Nat, k \in P, k + 1 \in 0 .. n
      PROVE  t[k + 1] \in T
  <2>1. k + 1 \in 1 .. n /\ (k + 1) - 1 = k /\ k \in 0 .. n
    BY <1>2
  <2>2. t[k] \in T
    BY <1>2, <2>1
  <2>3. PICK i \in DOMAIN h[t[k]].slots : Owns(h[t[k]].slots[i], t[k + 1])
    BY <2>1
  <2> QED
    BY <2>2, <2>3, OwnedMeans DEF Closed
<1>3. \A k \in Nat : k \in P => k + 1 \in P
  BY <1>2
<1> HIDE DEF P
<1>4. Nat \subseteq P
  BY <1>1, <1>3, SetInduction
<1> QED
  BY <1>4 DEF P

\* Indexes, keys and variables are what slots are called.
LEMMA SlotsHaveKeys ==
  ASSUME NEW h, Typed(h), NEW o \in DOMAIN h
  PROVE  DOMAIN h[o].slots \subseteq Key
<1>1. Fits(o, h[o])
  BY DEF Typed
<1>2. h[o].type = "array" => DOMAIN h[o].slots \subseteq Nat
  BY <1>1 DEF Fits
<1> QED
  BY <1>1, <1>2 DEF Fits, Owning, Key

\* A variable is a path.
LEMMA VariableLeads ==
  ASSUME NEW h, Typed(h), NEW i \in DOMAIN h[Frame].slots
  PROVE  Leads(h, Append(<< >>, i), [k \in 0 .. 0 |-> Frame])
<1>1. Frame \in DOMAIN h /\ i \in Key
  BY SlotsHaveKeys DEF Typed
<1>2. /\ Append(<< >>, i) \in Seq(Key) /\ Len(Append(<< >>, i)) = 1 /\ Append(<< >>, i)[1] = i
  BY <1>1
<1> DEFINE p == Append(<< >>, i)
           g == [k \in 0 .. 0 |-> Frame]
<1>3. g \in [0 .. 0 -> DOMAIN h] /\ g[0] = Frame /\ 1 - 1 = 0
  BY <1>1
<1> HIDE DEF p, g
<1>4. p \in Seq(Key) /\ Len(p) = 1 /\ p[1] = i
  BY <1>2 DEF p
<1>5. Leads(h, p, g)
  BY <1>3, <1>4 DEF Leads
<1> QED
  BY <1>5 DEF p, g

\* A path goes on into the array or the hash it leads to.
LEMMA PathGoesOn ==
  ASSUME NEW h, Sound(h, Null), NEW p, NEW g, Leads(h, p, g),
         At(h, Slot(h, p)).type \in Owning, NEW i \in DOMAIN h[ObjectAt(h, p)].slots
  PROVE  Leads(h, Append(p, i), [k \in 0 .. Len(p) |-> IF k = Len(p) THEN ObjectAt(h, p) ELSE g[k]])
<1> DEFINE m == Len(p)
           o == ObjectAt(h, p)
           q == Append(p, i)
           f == [k \in 0 .. m |-> IF k = m THEN o ELSE g[k]]
<1>1. /\ m \in Nat \ { 0 } /\ g \in [0 .. m - 1 -> DOMAIN h] /\ g[0] = Frame /\ p \in Seq(Key)
      /\ \A k \in 1 .. m : p[k] \in DOMAIN h[g[k - 1]].slots
      /\ \A k \in 1 .. m - 1 : Owns(h[g[k - 1]].slots[p[k]], g[k])
  BY DEF Leads
<1>2. /\ Owns(h[g[m - 1]].slots[p[m]], o) /\ Holds(h, h[g[m - 1]].slots[p[m]])
  BY SlotIs DEF Owns, Sound, Typed
<1>3. o \in DOMAIN h /\ i \in Key
  BY <1>2, SlotsHaveKeys DEF Owns, Holds, Sound
<1>4. q \in Seq(Key) /\ Len(q) = m + 1 /\ q[m + 1] = i /\ \A k \in 1 .. m : q[k] = p[k]
  BY <1>1, <1>3
<1>5. /\ f \in [0 .. m -> DOMAIN h] /\ f[0] = Frame /\ f[m] = o
      /\ \A k \in 0 .. m - 1 : f[k] = g[k]
  BY <1>1, <1>3
<1> HIDE DEF q, f, m
<1>6. ASSUME NEW k \in 1 .. m + 1
      PROVE  q[k] \in DOMAIN h[f[k - 1]].slots
  <2>1. CASE k = m + 1
    <3>1. f[k - 1] = o /\ q[k] = i
      BY <1>1, <1>4, <1>5, <2>1
    <3> QED
      BY <3>1
  <2>2. CASE k \in 1 .. m
    <3>1. f[k - 1] = g[k - 1] /\ q[k] = p[k]
      BY <1>1, <1>4, <1>5, <2>2
    <3> QED
      BY <1>1, <2>2, <3>1
  <2> QED
    BY <1>1, <2>1, <2>2
<1>7. ASSUME NEW k \in 1 .. m
      PROVE  Owns(h[f[k - 1]].slots[q[k]], f[k])
  <2>1. f[k - 1] = g[k - 1] /\ q[k] = p[k]
    BY <1>1, <1>4, <1>5
  <2>2. CASE k = m
    BY <1>2, <1>5, <2>1, <2>2
  <2>3. CASE k \in 1 .. m - 1
    <3>1. f[k] = g[k]
      BY <1>1, <1>5, <2>3
    <3> QED
      BY <1>1, <2>1, <2>3, <3>1
  <2> QED
    BY <1>1, <2>2, <2>3
<1>8. (m + 1) - 1 = m /\ m + 1 \in Nat \ { 0 }
  BY <1>1
<1>9. Leads(h, q, f)
  BY <1>4, <1>5, <1>6, <1>7, <1>8 DEF Leads
<1> QED
  BY <1>9 DEF q, f, m

\* A path of more than one step comes from another, in an array or a hash.
LEMMA PathGoesBack ==
  ASSUME NEW h, Sound(h, Null), NEW p, NEW g, Leads(h, p, g), Len(p) > 1
  PROVE  /\ \E f : Leads(h, Front(p), f)
         /\ Front(p) # << >> /\ Len(Front(p)) = Len(p) - 1
         /\ At(h, Slot(h, Front(p))).type \in { "array", "hash" }
         /\ Last(p) \in DOMAIN h[ObjectAt(h, Front(p))].slots
<1> DEFINE q == Front(p)
           n == Len(p)
           f == [k \in 0 .. n - 2 |-> g[k]]
<1>1. p \in Seq(Key) /\ n \in Nat /\ n > 1 /\ p # << >>
  BY DEF Leads
<1>2. q \in Seq(Key) /\ Len(q) = n - 1 /\ Last(p) = p[n] /\ \A i \in 1 .. n - 1 : q[i] = p[i]
  BY <1>1, FrontProperties
<1> HIDE DEF q, n
<1>3. /\ g \in [0 .. n - 1 -> DOMAIN h] /\ g[0] = Frame
      /\ \A k \in 1 .. n : p[k] \in DOMAIN h[g[k - 1]].slots
      /\ \A k \in 1 .. n - 1 : Owns(h[g[k - 1]].slots[p[k]], g[k])
  BY DEF Leads, n
<1>4. \A k \in 0 .. n - 2 : f[k] = g[k] /\ k \in 0 .. n - 1
  BY <1>1
<1>5. Leads(h, q, f)
  <2>1. f \in [0 .. Len(q) - 1 -> DOMAIN h] /\ f[0] = Frame /\ Len(q) \in Nat \ { 0 }
    BY <1>1, <1>2, <1>3
  <2>2. ASSUME NEW k \in 1 .. Len(q) PROVE q[k] \in DOMAIN h[f[k - 1]].slots
    <3>1. k \in 1 .. n - 1 /\ k \in 1 .. n /\ k - 1 \in 0 .. n - 2
      BY <1>1, <1>2
    <3> QED
      BY <3>1, <1>2, <1>3, <1>4
  <2>3. ASSUME NEW k \in 1 .. Len(q) - 1 PROVE Owns(h[f[k - 1]].slots[q[k]], f[k])
    <3>1. k \in 1 .. n - 1 /\ k \in 0 .. n - 2 /\ k - 1 \in 0 .. n - 2
      BY <1>1, <1>2
    <3> QED
      BY <3>1, <1>2, <1>3, <1>4
  <2> QED
    BY <2>1, <2>2, <2>3, <1>2 DEF Leads
<1>6. At(h, Slot(h, q)) = h[g[n - 2]].slots[p[n - 1]] /\ ObjectAt(h, q) = At(h, Slot(h, q)).raw
  <2>1. Len(q) - 1 = n - 2 /\ f[n - 2] = g[n - 2] /\ q[n - 1] = p[n - 1]
    BY <1>1, <1>2, <1>4
  <2> HIDE DEF f
  <2> QED
    BY <2>1, <1>2, <1>5, SlotIs
<1>7. Owns(At(h, Slot(h, q)), g[n - 1])
  <2>1. n - 1 \in 1 .. n - 1 /\ (n - 1) - 1 = n - 2
    BY <1>1
  <2> QED
    BY <2>1, <1>3, <1>6
<1>8. p[n] \in DOMAIN h[ObjectAt(h, q)].slots
  <2>1. n \in 1 .. n
    BY <1>1
  <2> QED
    BY <2>1, <1>3, <1>6, <1>7 DEF Owns
<1>9. At(h, Slot(h, q)).type # "string"
  <2> SUFFICES ASSUME At(h, Slot(h, q)).type = "string" PROVE FALSE
    OBVIOUS
  <2>1. Holds(h, At(h, Slot(h, q)))
    <3>1. At(h, Slot(h, q)) = h[f[Len(q) - 1]].slots[q[Len(q)]] /\ f[Len(q) - 1] \in DOMAIN h
          /\ q[Len(q)] \in DOMAIN h[f[Len(q) - 1]].slots
      BY <1>5, SlotIs
    <3> QED
      BY <3>1 DEF Sound, Typed
  <2>2. ObjectAt(h, q) \in DOMAIN h /\ h[ObjectAt(h, q)].type = "string"
    BY <2>1, <1>6 DEF Holds, Owning
  <2> QED
    BY <2>2, <1>8 DEF Sound, Typed, Fits
<1>10. At(h, Slot(h, q)).type \in { "array", "hash" }
  BY <1>7, <1>9 DEF Owns, Owning
<1>11. q # << >>
  BY <1>1, <1>2
<1> QED
  BY <1>2, <1>5, <1>8, <1>10, <1>11 DEF q, n

\* Paths finds the paths, and no others.
LEMMA PathsAre ==
  ASSUME NEW h, Sound(h, Null), NEW max \in Nat
  PROVE  Paths(h, max) = { p \in Seq(Key) : Len(p) \in 1 .. max /\ \E g : Leads(h, p, g) }
<1> DEFINE Below(q) == IF q = << >> THEN DOMAIN h[Frame].slots
                       ELSE IF At(h, Slot(h, q)).type \in { "array", "hash" }
                       THEN DOMAIN h[ObjectAt(h, q)].slots ELSE {}
           Further(S) == UNION { { Append(q, i) : i \in Below(q) } : q \in S }
           Long[n \in Nat] == IF n = 0 THEN { << >> }
                              ELSE UNION { { Append(q, i) : i \in Below(q) } : q \in Long[n - 1] }
           Ways == { q \in Seq(Key) : \E g : Leads(h, q, g) }
           W(n) == { q \in Ways \cup { << >> } : Len(q) = n }
           A == SUBSET (Ways \cup { << >> })
           F == [S \in A |-> UNION { { Append(q, i) : i \in Below(q) } : q \in S }]
<1>1. ASSUME NEW q \in Ways \cup { << >> }, NEW i \in Below(q)
      PROVE  Append(q, i) \in Ways /\ Len(Append(q, i)) = Len(q) + 1
  <2>1. CASE q = << >>
    <3>1. Leads(h, Append(<< >>, i), [k \in 0 .. 0 |-> Frame])
      BY <1>1, <2>1, VariableLeads DEF Sound
    <3>2. Append(<< >>, i) \in Seq(Key) /\ Append(<< >>, i) \in Ways
      <4> HIDE DEF F, Long, A, W
      <4> QED
        BY <3>1 DEF Leads
    <3>3. Append(<< >>, i) = << i >> /\ Len(<< i >>) = 1 /\ Len(<< >>) = 0
      OBVIOUS
    <3> HIDE DEF Ways
    <3>4. Len(Append(<< >>, i)) = Len(<< >>) + 1
      BY <3>3
    <3> QED
      BY <2>1, <3>2, <3>4
  <2>2. CASE q # << >>
    <3>1. PICK g : Leads(h, q, g)
      BY <2>2
    <3>2. At(h, Slot(h, q)).type \in Owning /\ i \in DOMAIN h[ObjectAt(h, q)].slots
      BY <1>1, <2>2 DEF Owning
    <3>3. Leads(h, Append(q, i), [k \in 0 .. Len(q) |-> IF k = Len(q) THEN ObjectAt(h, q) ELSE g[k]])
      BY <3>1, <3>2, PathGoesOn
    <3>4. q \in Seq(Key) /\ Append(q, i) \in Seq(Key)
      BY <3>1, <3>3 DEF Leads
    <3>5. Len(Append(q, i)) = Len(q) + 1
      BY <3>4
    <3> QED
      BY <3>3, <3>4, <3>5
  <2> QED
    BY <2>1, <2>2
<1>2. ASSUME NEW n \in Nat, NEW q \in W(n + 1)
      PROVE  \E r \in W(n) : \E i \in Below(r) : q = Append(r, i)
  <2>1. q # << >> /\ q \in Ways /\ Len(q) = n + 1 /\ q \in Seq(Key)
    <3>1. Len(<< >>) = 0 /\ n + 1 # 0
      OBVIOUS
    <3> QED
      BY <3>1
  <2>2. PICK g : Leads(h, q, g)
    BY <2>1
  <2>3. Append(Front(q), Last(q)) = q
    BY <2>1, FrontThenLast
  <2>4. CASE n = 0
    <3>1. Len(Front(q)) = 0 /\ Front(q) \in Seq(Key)
      BY <2>1, <2>4, FrontProperties
    <3>2. Front(q) = << >>
      BY <3>1, EmptySeq
    <3>3. Last(q) = q[Len(q)]
      BY <2>1, FrontProperties
    <3>4. q[1] \in DOMAIN h[g[1 - 1]].slots /\ g[0] = Frame
      <4>1. 1 \in 1 .. Len(q)
        BY <2>1, <2>4
      <4> HIDE DEF F, Long, A, W, Ways, Below
      <4> QED
        BY <4>1, <2>2 DEF Leads
    <3>5. Last(q) \in DOMAIN h[Frame].slots
      <4>1. Len(q) = 1 /\ 1 - 1 = 0
        BY <2>1, <2>4
      <4> QED
        BY <4>1, <3>3, <3>4
    <3>6. << >> \in W(n)
      <4>1. Len(<< >>) = 0
        OBVIOUS
      <4> QED
        BY <4>1, <2>4
    <3>7. Last(q) \in Below(<< >>)
      BY <3>5
    <3> QED
      BY <2>3, <3>2, <3>6, <3>7
  <2>5. CASE n > 0
    <3>1. Len(q) > 1
      BY <2>1, <2>5
    <3>2. /\ \E f : Leads(h, Front(q), f)
          /\ Front(q) # << >> /\ Len(Front(q)) = Len(q) - 1
          /\ At(h, Slot(h, Front(q))).type \in { "array", "hash" }
          /\ Last(q) \in DOMAIN h[ObjectAt(h, Front(q))].slots
      BY <2>2, <3>1, PathGoesBack
    <3>3. Front(q) \in W(n)
      <4>1. PICK f : Leads(h, Front(q), f)
        BY <3>2
      <4>2. Front(q) \in Seq(Key)
        BY <4>1 DEF Leads
      <4>3. Len(Front(q)) = n
        BY <2>1, <3>2
      <4>4. Front(q) \in Ways
        BY <4>1, <4>2
      <4> HIDE DEF Ways
      <4> QED
        BY <4>3, <4>4
    <3>4. Last(q) \in Below(Front(q))
      BY <3>2
    <3> QED
      BY <2>3, <3>3, <3>4
  <2> QED
    BY <2>4, <2>5
<1> HIDE DEF Below, Ways
<1>3. ASSUME NEW S, S \subseteq Ways \cup { << >> }, NEW r \in Further(S)
      PROVE  r \in Ways /\ \E q \in S : \E i \in Below(q) : r = Append(q, i) /\ Len(r) = Len(q) + 1
  <2>1. PICK q \in S : r \in { Append(q, i) : i \in Below(q) }
    OBVIOUS
  <2>2. PICK i \in Below(q) : r = Append(q, i)
    BY <2>1
  <2> QED
    BY <1>1, <1>3, <2>2
<1>4. F \in [A -> A] /\ { << >> } \in A
  <2>1. \A S \in A : Further(S) \in A
    BY <1>3
  <2> QED
    BY <2>1
<1>5. PICK f \in [Nat -> A] : Iterates(f, F, { << >> })
  <2> HIDE DEF A, F
  <2> QED
    BY <1>4, Iteration
<1>6. \A n \in Nat : f[n] = IF n = 0 THEN { << >> }
                            ELSE UNION { { Append(q, i) : i \in Below(q) } : q \in f[n - 1] }
  <2> SUFFICES ASSUME NEW n \in Nat, n # 0
               PROVE  f[n] = UNION { { Append(q, i) : i \in Below(q) } : q \in f[n - 1] }
    BY <1>5 DEF Iterates
  <2>1. n - 1 \in Nat /\ (n - 1) + 1 = n
    OBVIOUS
  <2>2. f[(n - 1) + 1] = F[f[n - 1]] /\ f[n - 1] \in A
    BY <1>5, <2>1 DEF Iterates
  <2> HIDE DEF A
  <2> QED
    BY <2>1, <2>2
<1>7. f = [n \in Nat |-> IF n = 0 THEN { << >> }
                         ELSE UNION { { Append(q, i) : i \in Below(q) } : q \in f[n - 1] }]
  <2> HIDE DEF A, F
  <2> QED
    BY <1>5, <1>6
<1>8. Long = [n \in Nat |-> IF n = 0 THEN { << >> }
                         ELSE UNION { { Append(q, i) : i \in Below(q) } : q \in Long[n - 1] }]
  <2> HIDE DEF A, F
  <2> QED
    BY <1>7
<1> HIDE DEF Long, F, A
<1>9. \A n \in Nat : Long[n] = W(n)
  <2> DEFINE P == { n \in Nat : Long[n] = W(n) }
  <2>1. 0 \in P
    <3>1. Long[0] = { << >> }
      BY <1>8
    <3>2. ASSUME NEW q \in Ways, Len(q) = 0 PROVE q = << >>
      BY <3>2, EmptySeq DEF Ways
    <3>3. W(0) = { << >> }
      BY <3>2
    <3> QED
      BY <3>1, <3>3
  <2>2. ASSUME NEW n \in Nat, n \in P PROVE n + 1 \in P
    <3>1. n + 1 \in Nat /\ n + 1 # 0 /\ (n + 1) - 1 = n
      OBVIOUS
    <3>2. Long[n + 1] = Further(W(n))
      BY <1>8, <2>2, <3>1
    <3>3. W(n) \subseteq Ways \cup { << >> }
      OBVIOUS
    <3>4. ASSUME NEW q \in Further(W(n)) PROVE q \in W(n + 1)
      <4>1. /\ q \in Ways
            /\ \E r \in W(n) : \E i \in Below(r) : q = Append(r, i) /\ Len(q) = Len(r) + 1
        <5> HIDE DEF W, Further
        <5> QED
          BY <1>3, <3>3, <3>4
      <4>2. PICK r \in W(n) : \E i \in Below(r) : q = Append(r, i) /\ Len(q) = Len(r) + 1
        BY <4>1
      <4> QED
        BY <4>1, <4>2
    <3>5. ASSUME NEW q \in W(n + 1) PROVE q \in Further(W(n))
      <4>1. PICK r \in W(n) : \E i \in Below(r) : q = Append(r, i)
        BY <1>2, <3>5
      <4>2. PICK i \in Below(r) : q = Append(r, i)
        BY <4>1
      <4>3. q \in { Append(r, j) : j \in Below(r) }
        BY <4>2
      <4> QED
        BY <4>3
    <3>6. Long[n + 1] = W(n + 1)
      <4> HIDE DEF Further, W
      <4> QED
        BY <3>2, <3>4, <3>5
    <3> QED
      BY <3>1, <3>6
  <2> HIDE DEF P
  <2>3. Nat \subseteq P
    BY <2>1, <2>2, SetInduction
  <2> QED
    BY <2>3 DEF P
<1>10. Paths(h, max) = UNION { Long[n] : n \in 1 .. max }
  BY DEF Paths, Below, Long
<1>11. ASSUME NEW p PROVE p \in Paths(h, max) <=> p \in Ways /\ Len(p) \in 1 .. max
  <2>1. p \in Paths(h, max) <=> \E n \in 1 .. max : p \in W(n)
    BY <1>9, <1>10
  <2>2. << >> \notin Ways
    <3>1. Len(<< >>) = 0
      OBVIOUS
    <3> QED
      BY <3>1 DEF Ways, Leads
  <2>3. \A n \in 1 .. max : p \in W(n) <=> p \in Ways /\ Len(p) = n
    <3>1. \A n \in 1 .. max : n # 0
      OBVIOUS
    <3>2. Len(<< >>) = 0
      OBVIOUS
    <3> QED
      BY <2>2, <3>1, <3>2
  <2> HIDE DEF W
  <2> QED
    BY <2>1, <2>3
<1> QED
  BY <1>11 DEF Ways

\* Places finds paths.
LEMMA PlacesLead ==
  ASSUME NEW h, Sound(h, Null), NEW p \in Places(h)
  PROVE  \E g : Leads(h, p, g)
BY PathsAre, JVarBounds DEF Places

-----------------------------------------------------------------------------
(* Constructors.                                                           *)

\* Every object of h is in g, of the same type and with the same slots, which hold what they
\* held but for those in S.
Leaves(h, g, S) ==
  /\ DOMAIN h \subseteq DOMAIN g
  /\ \A o \in DOMAIN h : g[o].type = h[o].type /\ DOMAIN g[o].slots = DOMAIN h[o].slots
  /\ \A o \in DOMAIN h : \A i \in DOMAIN h[o].slots :
       << o, i >> \notin S => g[o].slots[i] = h[o].slots[i]

\* What a constructor promises: its value floats, and it takes what is in S.
Makes(h, made, S) ==
  /\ Sound(made.heap, made.value) /\ Leaves(h, made.heap, S)
  /\ Rooted(h, Null) => Rooted(made.heap, made.value)

\* A JVar that owns nothing may float instead of another.
LEMMA PlainFloats ==
  ASSUME NEW h, NEW v, NEW u, v.type \notin Owning, u.type \notin Owning, Holds(h, u)
  PROVE  /\ Sound(h, v) => Sound(h, u)
         /\ Rooted(h, v) => Rooted(h, u)
<1>1. Owned(v) = {} /\ Owned(u) = {} /\ \A o : ~ Owns(v, o) /\ ~ Owns(u, o)
  BY DEF Owned, Owns
<1>2. Single(h, v) => Single(h, u)
  BY <1>1 DEF Single
<1>3. Rooted(h, v) => Rooted(h, u)
  BY <1>1 DEF Rooted
<1> QED
  BY <1>2, <1>3 DEF Sound

\* A slot that a path leads to lies in an object below the frame.
LEMMA PathRests ==
  ASSUME NEW h, NEW p, NEW g, Leads(h, p, g), NEW n \in 0 .. Len(p) - 1
  PROVE  Rests(h, g[n])
<1>1. n \in Nat /\ \A k \in 1 .. n : k \in 1 .. Len(p) - 1 /\ k \in 1 .. Len(p)
  BY DEF Leads
<1>2. \A k \in 1 .. n : \E i \in DOMAIN h[g[k - 1]].slots : Owns(h[g[k - 1]].slots[i], g[k])
  BY <1>1 DEF Leads
<1>3. g[0] = Frame
  BY DEF Leads
<1> QED
  BY <1>1, <1>2, <1>3, StepsRest

\* The move constructor leaves null behind.
LEMMA MoveMakes ==
  ASSUME NEW h, Sound(h, Null), NEW p, NEW t, Leads(h, p, t)
  PROVE  Makes(h, Move(h, Slot(h, p)), { Slot(h, p) })
<1> DEFINE x == t[Len(p) - 1]
           i == p[Len(p)]
           g == Put(h, << x, i >>, Null)
<1>1. Slot(h, p) = << x, i >> /\ At(h, Slot(h, p)) = h[x].slots[i] /\ x \in DOMAIN h /\ i \in DOMAIN h[x].slots
  BY SlotIs
<1>2. Rests(h, x)
  <2>1. Len(p) - 1 \in 0 .. Len(p) - 1
    BY DEF Leads
  <2> QED
    BY <2>1, PathRests
<1> HIDE DEF x, i
<1>3. Changed(h, g, x, i, Null)
  BY <1>1, PutChanges, NullFits DEF MayHave, Sound
<1>4. Old(h, x, i) = h[x].slots[i]
  BY <1>1 DEF Old
<1> HIDE DEF g
<1>5. Sound(g, h[x].slots[i]) /\ (Rooted(h, Null) => Rooted(g, h[x].slots[i]))
  BY <1>1, <1>2, <1>3, <1>4, ExchangeSound, ExchangeRooted
<1>6. Leaves(h, g, { << x, i >> })
  <2>1. \A o \in DOMAIN h : g[o].type = h[o].type /\ DOMAIN g[o].slots = DOMAIN h[o].slots
    BY <1>1, <1>3 DEF Changed
  <2>2. ASSUME NEW o \in DOMAIN h, NEW j \in DOMAIN h[o].slots, << o, j >> # << x, i >>
        PROVE  g[o].slots[j] = h[o].slots[j]
    BY <1>3, <2>2 DEF Changed
  <2>3. DOMAIN g = DOMAIN h
    BY <1>3 DEF Changed
  <2> QED
    BY <2>1, <2>2, <2>3 DEF Leaves
<1>7. Move(h, Slot(h, p)) = [heap |-> g, value |-> h[x].slots[i]]
  BY <1>1 DEF Move, g
<1> QED
  BY <1>1, <1>5, <1>6, <1>7 DEF Makes

\* A constructor from a tag and contents of its kind makes one object at most.
LEMMA FreshMakes ==
  ASSUME NEW h, Sound(h, Null), NEW type, NEW datum,
         \/ type \in { "null", "array", "hash" } /\ datum = NoDatum
         \/ type \in Simple \cup { "string" } /\ datum \in Datum,
         type \in Owning => Unused(h) # {}
  PROVE  /\ Makes(h, Fresh(h, type, datum), {})
         /\ Fresh(h, type, datum).value.type = type
<1>1. CASE type \notin Owning
  <2> DEFINE v == [type |-> type, raw |-> datum]
  <2>1. Fresh(h, type, datum) = [heap |-> h, value |-> v]
    BY <1>1 DEF Fresh
  <2>2. Holds(h, v)
    BY <1>1, Tags DEF Holds, JVars, Type, Owning
  <2>3. Sound(h, v) /\ (Rooted(h, Null) => Rooted(h, v))
    BY <1>1, <2>2, PlainFloats, NullFits, Tags
  <2> QED
    BY <2>1, <2>3 DEF Makes, Leaves
<1>2. CASE type \in Owning
  <2> DEFINE o == CHOOSE x \in Unused(h) : TRUE
             c == Contents(type, datum)
             g == With(h, o, c)
             v == [type |-> type, raw |-> o]
  <2>1. o \in Object /\ o \notin DOMAIN h /\ o # Frame
    BY <1>2, Tags DEF Unused
  <2>2. Fresh(h, type, datum) = [heap |-> g, value |-> v]
    BY <1>2 DEF Fresh
  <2>3. /\ DOMAIN c = { "type", "datum", "slots" } /\ c.type = type /\ c.datum = datum
        /\ c.slots = << >> /\ c.slots \in Seq(JVars) /\ DOMAIN c.slots = {}
    BY DEF Contents
  <2>4. Fits(o, c)
    BY <1>2, <2>1, <2>3, Tags DEF Fits, Owning
  <2> HIDE DEF o, c
  <2>5. DOMAIN g = DOMAIN h \cup { o } /\ g[o] = c /\ \A x \in DOMAIN h : g[x] = h[x]
    BY <2>1 DEF With
  <2>6. v.type = type /\ v.raw = o /\ Owned(v) = { o } /\ \A x : Owns(v, x) <=> x = o
    BY <1>2 DEF Owned, Owns
  <2>7. Holds(g, v)
    BY <1>2, <2>1, <2>3, <2>5, Tags DEF Holds, JVars, Type, Owning
  <2> HIDE DEF g, v
  <2>8. \A u : Holds(h, u) => Holds(g, u)
    BY <2>5, HoldsKept DEF Holds
  <2>9. Typed(g)
    BY <2>1, <2>3, <2>4, <2>5, <2>8 DEF Sound, Typed
  <2>10. ASSUME NEW x \in DOMAIN g, NEW i \in DOMAIN g[x].slots
         PROVE  x \in DOMAIN h /\ g[x] = h[x] /\ ~ Owns(g[x].slots[i], o)
    <3>1. x # o
      BY <2>3, <2>5, <2>10
    <3>2. Holds(h, h[x].slots[i]) /\ x \in DOMAIN h /\ g[x] = h[x]
      BY <2>5, <2>10, <3>1 DEF Sound, Typed
    <3> QED
      BY <2>1, <3>2 DEF Holds, Owns
  <2>11. Single(g, v)
    <3>1. ASSUME NEW x \in DOMAIN g, NEW y \in DOMAIN g,
                 NEW i \in DOMAIN g[x].slots, NEW j \in DOMAIN g[y].slots,
                 g[x].slots[i].type \in Owning, Owns(g[y].slots[j], g[x].slots[i].raw)
          PROVE  x = y /\ i = j
      BY <2>10, <3>1 DEF Sound, Single
    <3>2. ASSUME NEW q \in DOMAIN g \ { Frame }
          PROVE  Owns(v, q) \/ \E x \in DOMAIN g : \E i \in DOMAIN g[x].slots : Owns(g[x].slots[i], q)
      <4>1. CASE q = o
        BY <2>6, <4>1
      <4>2. CASE q # o
        <5>1. ~ Owns(Null, q)
          BY NullFits, OwnedMeans
        <5>2. \E x \in DOMAIN h : \E i \in DOMAIN h[x].slots : Owns(h[x].slots[i], q)
          BY <2>5, <3>2, <4>2, <5>1 DEF Sound, Single
        <5> QED
          BY <2>5, <5>2
      <4> QED
        BY <4>1, <4>2
    <3> QED
      BY <2>6, <2>10, <3>1, <3>2 DEF Single
  <2>12. ASSUME Rooted(h, Null), NEW T \in SUBSET DOMAIN g, Frame \in T, Owned(v) \subseteq T, Closed(g, T)
         PROVE  T = DOMAIN g
    <3>1. Closed(h, T \ { o })
      BY <2>5, <2>10, <2>12, OwnedMeans DEF Closed
    <3>2. T \ { o } = DOMAIN h
      BY <2>1, <2>5, <2>12, <3>1, NullFits DEF Rooted
    <3> QED
      BY <2>5, <2>6, <2>12, <3>2
  <2>13. Leaves(h, g, {})
    BY <2>5 DEF Leaves
  <2> QED
    BY <2>2, <2>6, <2>7, <2>9, <2>11, <2>12, <2>13 DEF Makes, Sound, Rooted
<1> QED
  BY <1>1, <1>2

\* A set can be mapped into one that is not smaller.
LEMMA InjectionExists ==
  ASSUME NEW S, NEW T, IsFiniteSet(S), IsFiniteSet(T), Cardinality(S) <= Cardinality(T)
  PROVE  \E f \in [S -> T] : IsInjective(f)
<1> DEFINE m == Cardinality(S)
           n == Cardinality(T)
<1>1. m \in Nat /\ n \in Nat /\ ExistsBijection(1 .. m, S) /\ ExistsBijection(1 .. n, T)
  BY FS_CardinalityType
<1>2. PICK b \in [1 .. m -> S] : \A s \in S : \E k \in 1 .. m : b[k] = s
  BY <1>1 DEF ExistsBijection, Bijection, Surjection
<1>3. PICK c \in [1 .. n -> T] : \A k, l \in 1 .. n : c[k] = c[l] => k = l
  BY <1>1 DEF ExistsBijection, Bijection, Injection, IsInjective
<1> DEFINE at(s) == CHOOSE k \in 1 .. m : b[k] = s
           f == [s \in S |-> c[at(s)]]
<1> HIDE DEF m, n
<1>4. \A s \in S : at(s) \in 1 .. m /\ b[at(s)] = s
  BY <1>2
<1>5. 1 .. m \subseteq 1 .. n
  BY <1>1 DEF m, n
<1> HIDE DEF at
<1>6. f \in [S -> T]
  BY <1>3, <1>4, <1>5
<1>7. IsInjective(f)
  <2> SUFFICES ASSUME NEW s \in S, NEW t \in S, c[at(s)] = c[at(t)] PROVE s = t
    BY DEF IsInjective
  <2>1. at(s) = at(t)
    BY <1>3, <1>4, <1>5
  <2> QED
    BY <1>4, <2>1
<1> QED
  BY <1>6, <1>7

\* The JVar u with the new address of what it owns.
Readdressed(new, u) == IF u.type \in Owning THEN [u EXCEPT !.raw = new[@]] ELSE u

\* g is h with a twin new[x] for each object x of R.
Twins(h, g, R, new) ==
  /\ new \in [R -> Unused(h)] /\ IsInjective(new)
  /\ DOMAIN g = DOMAIN h \cup { new[x] : x \in R }
  /\ \A o \in DOMAIN h : g[o] = h[o]
  /\ \A x \in R : /\ DOMAIN g[new[x]] = { "type", "datum", "slots" }
                  /\ g[new[x]].type = h[x].type /\ g[new[x]].datum = h[x].datum
                  /\ g[new[x]].slots = [ i \in DOMAIN h[x].slots |-> Readdressed(new, h[x].slots[i]) ]

\* The copy constructor makes twins.
LEMMA CopyTwins ==
  ASSUME NEW h, Typed(h), NEW v, Holds(h, v), Cardinality(Reach(h, v)) <= Cardinality(Unused(h))
  PROVE  \E new : /\ Twins(h, DeepCopy(h, v).heap, Reach(h, v), new)
                  /\ DeepCopy(h, v).value = Readdressed(new, v)
<1> DEFINE R == Reach(h, v)
           new == CHOOSE f \in [R -> Unused(h)] : IsInjective(f)
           Copy(x) == IF x.type \in Owning THEN [x EXCEPT !.raw = new[@]] ELSE x
           Twin(o) == [h[o] EXCEPT !.slots = [ i \in DOMAIN @ |-> Copy(@[i]) ]]
           g == [ o \in DOMAIN h \cup { new[x] : x \in R } |->
                    IF o \in DOMAIN h THEN h[o] ELSE Twin(CHOOSE x \in R : new[x] = o) ]
<1>1. DeepCopy(h, v) = [heap |-> g, value |-> Copy(v)]
  BY DEF DeepCopy
<1>2. R \subseteq DOMAIN h /\ IsFiniteSet(R) /\ IsFiniteSet(Unused(h))
  <2>1. R \subseteq DOMAIN h
    BY ReachIsLeast
  <2>2. IsFiniteSet(DOMAIN h) /\ Unused(h) \subseteq Object
    BY HeapIsFinite DEF Unused
  <2> QED
    BY <2>1, <2>2, FS_Subset, JVarBounds
<1>3. new \in [R -> Unused(h)] /\ IsInjective(new)
  <2> HIDE DEF R
  <2>1. \E f \in [R -> Unused(h)] : IsInjective(f)
    BY <1>2, InjectionExists DEF R
  <2> QED
    BY <2>1
<1>4. \A u : Copy(u) = Readdressed(new, u)
  BY DEF Readdressed
<1> HIDE DEF R, new, Copy
<1>5. ASSUME NEW x \in R
      PROVE  /\ DOMAIN Twin(x) = { "type", "datum", "slots" }
             /\ Twin(x).type = h[x].type /\ Twin(x).datum = h[x].datum
             /\ Twin(x).slots = [ i \in DOMAIN h[x].slots |-> Copy(h[x].slots[i]) ]
  <2>1. DOMAIN h[x] = { "type", "datum", "slots" }
    BY <1>2 DEF Typed, Fits
  <2> QED
    BY <2>1
<1>6. ASSUME NEW x \in R
      PROVE  (CHOOSE y \in R : new[y] = new[x]) = x /\ new[x] \notin DOMAIN h
  BY <1>3 DEF IsInjective, Unused
<1> HIDE DEF Twin
<1>7. DOMAIN g = DOMAIN h \cup { new[x] : x \in R } /\ \A o \in DOMAIN h : g[o] = h[o]
  OBVIOUS
<1>8. \A x \in R : g[new[x]] = Twin(x)
  BY <1>6
<1> HIDE DEF g
<1>9. Twins(h, g, R, new)
  BY <1>3, <1>4, <1>5, <1>7, <1>8 DEF Twins
<1> QED
  BY <1>1, <1>4, <1>9 DEF R

\* A readdressed JVar owns the twin of what the JVar owns.
LEMMA ReaddressedOwns ==
  ASSUME NEW h, NEW g, NEW R, NEW new, Twins(h, g, R, new), R \subseteq DOMAIN h,
         NEW u, Holds(h, u), Owned(u) \subseteq R
  PROVE  /\ Holds(g, Readdressed(new, u))
         /\ Readdressed(new, u).type = u.type
         /\ u.type \in Owning => u.raw \in R /\ Readdressed(new, u).raw = new[u.raw]
<1> DEFINE w == Readdressed(new, u)
<1>1. CASE u.type \notin Owning
  BY <1>1, Tags DEF Readdressed, Holds
<1>2. CASE u.type \in Owning
  <2>1. u.raw \in R /\ w = [u EXCEPT !.raw = new[u.raw]] /\ u \in JVars
    BY <1>2 DEF Readdressed, Owned, Holds
  <2>2. /\ new[u.raw] \in Object /\ new[u.raw] \in DOMAIN g
        /\ g[new[u.raw]].type = u.type
    BY <1>2, <2>1 DEF Twins, Unused, Holds
  <2>3. w \in JVars /\ w.type = u.type /\ w.raw = new[u.raw]
    BY <2>1, <2>2 DEF JVars
  <2> HIDE DEF w
  <2>4. Holds(g, w)
    BY <1>2, <2>2, <2>3, Tags DEF Holds
  <2> QED
    BY <2>1, <2>3, <2>4 DEF w
<1> QED
  BY <1>1, <1>2

\* Twins stand in no slot of h, and own twins.
LEMMA TwinSlots ==
  ASSUME NEW h, Sound(h, Null), NEW v, Holds(h, v), NEW g, NEW new, Twins(h, g, Reach(h, v), new),
         NEW x \in Reach(h, v), NEW i \in DOMAIN g[new[x]].slots
  PROVE  /\ x \in DOMAIN h /\ i \in DOMAIN h[x].slots
         /\ g[new[x]].slots[i] = Readdressed(new, h[x].slots[i])
         /\ g[new[x]].slots[i].type = h[x].slots[i].type
         /\ Holds(g, g[new[x]].slots[i])
         /\ h[x].slots[i].type \in Owning =>
              /\ h[x].slots[i].raw \in Reach(h, v)
              /\ g[new[x]].slots[i].raw = new[h[x].slots[i].raw]
<1> DEFINE R == Reach(h, v)
           u == h[x].slots[i]
<1>1. R \subseteq DOMAIN h /\ Closed(h, R)
  BY ReachIsLeast DEF Sound
<1>2. x \in DOMAIN h /\ i \in DOMAIN h[x].slots /\ g[new[x]].slots[i] = Readdressed(new, u)
  BY <1>1 DEF Twins
<1>3. Holds(h, u) /\ Owned(u) \subseteq R
  BY <1>1, <1>2 DEF Sound, Typed, Closed
<1> HIDE DEF R, u
<1>4. /\ Holds(g, Readdressed(new, u))
      /\ Readdressed(new, u).type = u.type
      /\ u.type \in Owning => u.raw \in R /\ Readdressed(new, u).raw = new[u.raw]
  BY <1>1, <1>3, ReaddressedOwns DEF R
<1> QED
  BY <1>2, <1>4 DEF R, u

\* The twin of an object is of its kind.
LEMMA TwinFits ==
  ASSUME NEW h, Sound(h, Null), NEW v, Holds(h, v), NEW g, NEW new, Twins(h, g, Reach(h, v), new),
         NEW x \in Reach(h, v)
  PROVE  Fits(new[x], g[new[x]]) /\ new[x] \in Object
<1> DEFINE c == g[new[x]]
<1>1. x \in DOMAIN h /\ x # Frame /\ new[x] \in Object /\ new[x] # Frame
  BY ReachIsLeast, Tags DEF Twins, Unused, Sound
<1>2. /\ DOMAIN c = { "type", "datum", "slots" } /\ c.type = h[x].type /\ c.datum = h[x].datum
      /\ DOMAIN c.slots = DOMAIN h[x].slots
      /\ c.slots = [ i \in DOMAIN h[x].slots |-> Readdressed(new, h[x].slots[i]) ]
  BY DEF Twins
<1>3. \A i \in DOMAIN h[x].slots : Readdressed(new, h[x].slots[i]) \in JVars
  BY <1>2, TwinSlots DEF Holds
<1>4. Fits(x, h[x])
  BY <1>1 DEF Sound, Typed
<1> HIDE DEF c
<1>5. c.type = "array" => c.slots \in Seq(JVars)
  <2> SUFFICES ASSUME c.type = "array" PROVE c.slots \in Seq(JVars)
    OBVIOUS
  <2>1. h[x].slots \in Seq(JVars)
    BY <1>2, <1>4 DEF Fits
  <2>2. DOMAIN h[x].slots = 1 .. Len(h[x].slots) /\ Len(h[x].slots) \in Nat
    BY <2>1
  <2>3. c.slots \in [1 .. Len(h[x].slots) -> JVars]
    BY <1>2, <1>3, <2>2
  <2> QED
    BY <2>2, <2>3
<1>6. Fits(new[x], c)
  BY <1>1, <1>2, <1>4, <1>5 DEF Fits
<1> QED
  BY <1>1, <1>6 DEF c

\* The copy constructor makes a JVar and objects of its own, provided nothing below the JVar
\* owns what it owns.
LEMMA CopyMakes ==
  ASSUME NEW h, Sound(h, Null), NEW p, NEW t, Leads(h, p, t),
         Cardinality(Reach(h, At(h, Slot(h, p)))) <= Cardinality(Unused(h))
  PROVE  Makes(h, DeepCopy(h, At(h, Slot(h, p))), {})
<1> DEFINE v == At(h, Slot(h, p))
           R == Reach(h, v)
           y == t[Len(p) - 1]
           l == p[Len(p)]
<1>1. y \in DOMAIN h /\ l \in DOMAIN h[y].slots /\ v = h[y].slots[l]
  BY SlotIs
<1>2. y \notin R
  <2>1. Len(p) - 1 \in 0 .. Len(p) - 1
    BY DEF Leads
  <2> QED
    BY <2>1, AboveIsNotReached
<1>3. Holds(h, v)
  BY <1>1 DEF Sound, Typed
<1> HIDE DEF v, y, l
<1>4. PICK new : Twins(h, DeepCopy(h, v).heap, R, new) /\ DeepCopy(h, v).value = Readdressed(new, v)
  BY <1>3, CopyTwins DEF Sound, v
<1> DEFINE g == DeepCopy(h, v).heap
           w == DeepCopy(h, v).value
<1> HIDE DEF g, w
<1>5. Twins(h, g, R, new) /\ w = Readdressed(new, v)
  BY <1>4 DEF g, w
<1>6. /\ R \subseteq DOMAIN h \ { Frame } /\ Owned(v) \subseteq R /\ Closed(h, R)
      /\ \A T : Owned(v) \subseteq T /\ Closed(h, T) => R \subseteq T
  BY <1>3, ReachIsLeast DEF Sound
<1>7. /\ Holds(g, w) /\ w.type = v.type
      /\ v.type \in Owning => v.raw \in R /\ w.raw = new[v.raw]
  BY <1>3, <1>5, <1>6, ReaddressedOwns
<1>8. ASSUME NEW x \in R, NEW i \in DOMAIN g[new[x]].slots
      PROVE  /\ x \in DOMAIN h /\ i \in DOMAIN h[x].slots
             /\ g[new[x]].slots[i].type = h[x].slots[i].type
             /\ Holds(g, g[new[x]].slots[i])
             /\ h[x].slots[i].type \in Owning =>
                  h[x].slots[i].raw \in R /\ g[new[x]].slots[i].raw = new[h[x].slots[i].raw]
  BY <1>3, <1>5, TwinSlots
<1>9. \A x \in R : DOMAIN g[new[x]].slots = DOMAIN h[x].slots
  BY <1>5 DEF Twins
<1>10. \A x \in R : Fits(new[x], g[new[x]]) /\ new[x] \in Object
  BY <1>3, <1>5, TwinFits
<1>11. /\ \A x \in R : new[x] \notin DOMAIN h /\ new[x] \in DOMAIN g
       /\ \A x, z \in R : new[x] = new[z] => x = z
       /\ DOMAIN g = DOMAIN h \cup { new[x] : x \in R } /\ \A o \in DOMAIN h : g[o] = h[o]
  BY <1>5 DEF Twins, Unused, IsInjective
<1> HIDE DEF R
<1>12. \A u : Holds(h, u) => Holds(g, u)
  BY <1>11, HoldsKept DEF Holds
<1>13. Typed(g)
  <2>1. ASSUME NEW o \in DOMAIN g
        PROVE  Fits(o, g[o]) /\ o \in Object \cup { Frame } /\ \A i \in DOMAIN g[o].slots : Holds(g, g[o].slots[i])
    BY <1>8, <1>10, <1>11, <1>12 DEF Sound, Typed
  <2> QED
    BY <1>11, <2>1 DEF Sound, Typed
<1>14. \A o \in DOMAIN h : \A i \in DOMAIN h[o].slots :
         h[o].slots[i].type \in Owning => h[o].slots[i].raw \in DOMAIN h
  BY DEF Sound, Typed, Holds
<1>15. Single(g, w)
  <2>1. ASSUME NEW x \in DOMAIN g, NEW z \in DOMAIN g,
               NEW i \in DOMAIN g[x].slots, NEW j \in DOMAIN g[z].slots,
               g[x].slots[i].type \in Owning, Owns(g[z].slots[j], g[x].slots[i].raw)
        PROVE  x = z /\ i = j
    <3>1. CASE x \in DOMAIN h /\ z \in DOMAIN h
      BY <1>11, <2>1, <3>1 DEF Sound, Single
    <3>2. CASE x \in DOMAIN h /\ z \notin DOMAIN h
      BY <1>8, <1>11, <1>14, <2>1, <3>2 DEF Owns
    <3>3. CASE x \notin DOMAIN h /\ z \in DOMAIN h
      BY <1>8, <1>11, <1>14, <2>1, <3>3 DEF Owns
    <3>4. CASE x \notin DOMAIN h /\ z \notin DOMAIN h
      <4>1. PICK a \in R : x = new[a]
        BY <1>11, <3>4
      <4>2. PICK b \in R : z = new[b]
        BY <1>11, <3>4
      <4>3. a \in DOMAIN h /\ b \in DOMAIN h /\ i \in DOMAIN h[a].slots /\ j \in DOMAIN h[b].slots
        BY <1>8, <2>1, <4>1, <4>2
      <4>4. h[a].slots[i].type \in Owning /\ h[b].slots[j].type \in Owning
        BY <1>8, <2>1, <4>1, <4>2 DEF Owns
      <4>5. /\ h[a].slots[i].raw \in R /\ h[b].slots[j].raw \in R
            /\ new[h[a].slots[i].raw] = new[h[b].slots[j].raw]
        BY <1>8, <2>1, <4>1, <4>2, <4>4 DEF Owns
      <4>6. Owns(h[b].slots[j], h[a].slots[i].raw)
        BY <1>11, <4>4, <4>5 DEF Owns
      <4> QED
        BY <4>1, <4>2, <4>3, <4>4, <4>6 DEF Sound, Single
    <3> QED
      BY <3>1, <3>2, <3>3, <3>4
  <2>2. ASSUME NEW x \in DOMAIN g, NEW i \in DOMAIN g[x].slots, w.type \in Owning, Owns(g[x].slots[i], w.raw)
        PROVE  FALSE
    <3>1. CASE x \in DOMAIN h
      BY <1>7, <1>11, <1>14, <2>2, <3>1 DEF Owns
    <3>2. CASE x \notin DOMAIN h
      <4>1. PICK a \in R : x = new[a]
        BY <1>11, <3>2
      <4>2. a \in DOMAIN h /\ i \in DOMAIN h[a].slots /\ h[a].slots[i].type \in Owning
        BY <1>8, <2>2, <4>1 DEF Owns
      <4>3. h[a].slots[i].raw = v.raw /\ v.type \in Owning
        BY <1>7, <1>8, <1>11, <2>2, <4>1, <4>2 DEF Owns
      <4>4. Owns(h[a].slots[i], v.raw) /\ Owns(h[y].slots[l], v.raw)
        BY <1>1, <4>2, <4>3 DEF Owns
      <4>5. a = y
        BY <1>1, <4>2, <4>4, OwnersAreOne
      <4> QED
        BY <1>2, <4>1, <4>5 DEF R
    <3> QED
      BY <3>1, <3>2
  <2>3. ASSUME NEW o \in DOMAIN g \ { Frame }
        PROVE  Owns(w, o) \/ \E x \in DOMAIN g : \E i \in DOMAIN g[x].slots : Owns(g[x].slots[i], o)
    <3>1. CASE o \in DOMAIN h
      <4>1. ~ Owns(Null, o)
        BY NullFits, OwnedMeans
      <4>2. \E x \in DOMAIN h : \E i \in DOMAIN h[x].slots : Owns(h[x].slots[i], o)
        BY <2>3, <3>1, <4>1 DEF Sound, Single
      <4> QED
        BY <1>11, <4>2
    <3>2. CASE o \notin DOMAIN h
      <4>1. PICK a \in R : o = new[a]
        BY <1>11, <3>2
      <4>2. CASE Owns(v, a)
        BY <1>7, <4>1, <4>2 DEF Owns
      <4>3. CASE \E x \in R : \E i \in DOMAIN h[x].slots : Owns(h[x].slots[i], a)
        <5>1. PICK x \in R : \E i \in DOMAIN h[x].slots : Owns(h[x].slots[i], a)
          BY <4>3
        <5>2. PICK i \in DOMAIN h[x].slots : Owns(h[x].slots[i], a)
          BY <5>1
        <5>3. Owns(g[new[x]].slots[i], o) /\ new[x] \in DOMAIN g /\ i \in DOMAIN g[new[x]].slots
          BY <1>8, <1>9, <1>11, <4>1, <5>2 DEF Owns
        <5> QED
          BY <5>3
      <4> QED
        BY <1>3, <4>2, <4>3, ReachIsOwned DEF R, Sound
    <3> QED
      BY <3>1, <3>2
  <2> QED
    BY <2>1, <2>2, <2>3 DEF Single
<1>16. ASSUME Rooted(h, Null), NEW T \in SUBSET DOMAIN g, Frame \in T, Owned(w) \subseteq T, Closed(g, T)
       PROVE  T = DOMAIN g
  <2>1. Closed(h, T \cap DOMAIN h)
    <3> SUFFICES ASSUME NEW x \in T \cap DOMAIN h, NEW i \in DOMAIN h[x].slots,
                        NEW o, Owns(h[x].slots[i], o)
                 PROVE  o \in T \cap DOMAIN h
      BY OwnedMeans DEF Closed
    <3>1. o \in DOMAIN h
      BY <1>14 DEF Owns
    <3>2. o \in T
      BY <1>11, <1>16, OwnedMeans DEF Closed
    <3> QED
      BY <3>1, <3>2
  <2>2. T \cap DOMAIN h = DOMAIN h
    BY <1>16, <2>1, NullFits DEF Rooted, Sound, Typed
  <2> DEFINE S == { x \in R : new[x] \in T }
  <2>3. Owned(v) \subseteq S
    BY <1>6, <1>7, <1>16, OwnedMeans DEF Owns, R
  <2>4. Closed(h, S)
    <3> SUFFICES ASSUME NEW x \in S, NEW i \in DOMAIN h[x].slots, NEW o, Owns(h[x].slots[i], o)
                 PROVE  o \in S
      BY OwnedMeans DEF Closed
    <3>1. o \in R /\ Owns(g[new[x]].slots[i], new[o]) /\ i \in DOMAIN g[new[x]].slots
      BY <1>8, <1>9 DEF Owns
    <3> QED
      BY <1>16, <3>1, OwnedMeans DEF Closed
  <2>5. R \subseteq S
    <3> HIDE DEF S
    <3> QED
      BY <1>6, <2>3, <2>4 DEF R
  <2> QED
    BY <1>11, <2>2, <2>5
<1>17. Leaves(h, g, {})
  BY <1>11 DEF Leaves
<1>18. Makes(h, DeepCopy(h, v), {})
  BY <1>7, <1>13, <1>15, <1>16, <1>17 DEF Makes, Sound, Rooted, g, w
<1> QED
  BY <1>18 DEF v

\* A statement can make its JVar from src.
IsSource(h, src) ==
  \/ src.how \in { "copy", "move" } /\ \E t : Leads(h, src.from, t)
  \/ /\ src.how = "new"
     /\ \/ src.type \in { "null", "array", "hash" } /\ src.datum = NoDatum
        \/ src.type \in Simple \cup { "string" } /\ src.datum \in Datum

\* The slots that making it changes.
Taken(h, src) == IF src.how = "move" THEN { Slot(h, src.from) } ELSE {}

\* Source has the sources.
LEMMA SourcesAre ==
  ASSUME NEW h, Sound(h, Null), NEW src \in Source(Places(h))
  PROVE  IsSource(h, src)
<1>1. CASE src \in [how : { "copy", "move" }, from : Places(h)]
  BY <1>1, PlacesLead DEF IsSource
<1>2. CASE src \in [how : { "new" }, type : { "null", "array", "hash" }, datum : { NoDatum }]
  BY <1>2 DEF IsSource
<1>3. CASE src \in [how : { "new" }, type : Simple \cup { "string" }, datum : Datum]
  BY <1>3 DEF IsSource
<1> QED
  BY <1>1, <1>2, <1>3 DEF Source

\* Whatever a JVar is made from.
LEMMA MadeMakes ==
  ASSUME NEW h, Sound(h, Null), NEW src, IsSource(h, src),
         Needs(h, src) <= Cardinality(Unused(h))
  PROVE  Makes(h, Made(h, src), Taken(h, src))
<1>1. CASE src.how = "copy"
  <2>1. PICK t : Leads(h, src.from, t)
    BY <1>1 DEF IsSource
  <2>2. /\ Made(h, src) = DeepCopy(h, At(h, Slot(h, src.from))) /\ Taken(h, src) = {}
        /\ Needs(h, src) = Cardinality(Reach(h, At(h, Slot(h, src.from))))
    BY <1>1 DEF Made, Taken, Needs
  <2> QED
    BY <2>1, <2>2, CopyMakes
<1>2. CASE src.how = "move"
  <2>1. PICK t : Leads(h, src.from, t)
    BY <1>2 DEF IsSource
  <2>2. Made(h, src) = Move(h, Slot(h, src.from)) /\ Taken(h, src) = { Slot(h, src.from) }
    BY <1>2 DEF Made, Taken
  <2> QED
    BY <2>1, <2>2, MoveMakes
<1>3. CASE src.how = "new"
  <2>1. /\ Made(h, src) = Fresh(h, src.type, src.datum) /\ Taken(h, src) = {}
        /\ src.type \in Owning => Needs(h, src) = 1
    BY <1>3 DEF Made, Taken, Needs
  <2>2. src.type \in Owning => Unused(h) # {}
    <3>1. Cardinality({}) = 0
      BY FS_EmptySet
    <3> QED
      BY <2>1, <3>1
  <2>3. \/ src.type \in { "null", "array", "hash" } /\ src.datum = NoDatum
        \/ src.type \in Simple \cup { "string" } /\ src.datum \in Datum
    BY <1>3 DEF IsSource
  <2> QED
    BY <2>1, <2>2, <2>3, FreshMakes
<1> QED
  BY <1>1, <1>2, <1>3 DEF IsSource

\* A path whose slots a constructor does not take still leads down.
LEMMA PathStays ==
  ASSUME NEW h, NEW p, NEW t, Leads(h, p, t), NEW g, NEW S, Leaves(h, g, S),
         NEW n \in 0 .. Len(p) - 1, \A k \in 1 .. n : << t[k - 1], p[k] >> \notin S
  PROVE  Rests(g, t[n])
<1>1. n \in Nat /\ \A k \in 1 .. n : k \in 1 .. Len(p) - 1 /\ k \in 1 .. Len(p) /\ k - 1 \in 0 .. Len(p) - 1
  BY DEF Leads
<1>2. ASSUME NEW k \in 1 .. n
      PROVE  \E i \in DOMAIN g[t[k - 1]].slots : Owns(g[t[k - 1]].slots[i], t[k])
  <2>1. /\ t[k - 1] \in DOMAIN h /\ p[k] \in DOMAIN h[t[k - 1]].slots
        /\ Owns(h[t[k - 1]].slots[p[k]], t[k])
    BY <1>1 DEF Leads
  <2>2. p[k] \in DOMAIN g[t[k - 1]].slots /\ g[t[k - 1]].slots[p[k]] = h[t[k - 1]].slots[p[k]]
    BY <2>1 DEF Leaves
  <2> QED
    BY <2>1, <2>2
<1>3. t[0] = Frame
  BY DEF Leads
<1> QED
  BY <1>1, <1>2, <1>3, StepsRest

\* A path does not go through the slot of another unless it continues it.
LEMMA PathAvoids ==
  ASSUME NEW h, Sound(h, Null), NEW p, NEW t, Leads(h, p, t), NEW q, NEW f, Leads(h, q, f),
         ~ IsStrictPrefix(q, p), NEW k \in 1 .. Len(p) - 1
  PROVE  << t[k - 1], p[k] >> # Slot(h, q)
<1> SUFFICES ASSUME << t[k - 1], p[k] >> = Slot(h, q) PROVE FALSE
  OBVIOUS
<1>1. Slot(h, q) = << f[Len(q) - 1], q[Len(q)] >>
  BY SlotIs
<1>2. t[k - 1] = f[Len(q) - 1] /\ p[k] = q[Len(q)]
  BY <1>1
<1>3. k \in 1 .. Len(p) /\ Len(p) \in Nat
  BY DEF Leads
<1>4. k = Len(q) /\ IsPrefix(q, p)
  BY <1>2, <1>3, PathsShare
<1>5. q # p
  BY <1>3, <1>4
<1> QED
  BY <1>4, <1>5 DEF IsStrictPrefix

\* Only a move from something above the end of a path takes the path away.
LEMMA PathSurvives ==
  ASSUME NEW h, Sound(h, Null), NEW p, NEW t, Leads(h, p, t), NEW src, IsSource(h, src),
         ~ (src.how = "move" /\ IsStrictPrefix(src.from, p)), NEW k \in 1 .. Len(p) - 1
  PROVE  << t[k - 1], p[k] >> \notin Taken(h, src)
<1> SUFFICES ASSUME src.how = "move" PROVE << t[k - 1], p[k] >> # Slot(h, src.from)
  BY DEF Taken
<1>1. PICK f : Leads(h, src.from, f)
  BY DEF IsSource
<1> QED
  BY <1>1, PathAvoids

-----------------------------------------------------------------------------
(* Members.                                                                *)

\* operator= puts what has been made in place of what it destroys.
LEMMA AssignedSound ==
  ASSUME NEW h, Sound(h, Null), NEW made, NEW S, Makes(h, made, S),
         NEW x \in DOMAIN h, NEW i \in DOMAIN h[x].slots
  PROVE  /\ Sound(Assigned(made, << x, i >>), Null)
         /\ Rooted(h, Null) /\ Rests(made.heap, x) => Rooted(Assigned(made, << x, i >>), Null)
<1> DEFINE f == made.heap
           v == made.value
           g == Put(f, << x, i >>, v)
           w == f[x].slots[i]
<1>1. Sound(f, v) /\ x \in DOMAIN f /\ i \in DOMAIN f[x].slots /\ (Rooted(h, Null) => Rooted(f, v))
  BY DEF Makes, Leaves
<1>2. Assigned(made, << x, i >>) = Destroyed(g, w)
  BY DEF Assigned, At
<1> HIDE DEF f, v
<1>3. Changed(f, g, x, i, v)
  BY <1>1, PutChanges DEF Sound, Holds, MayHave
<1>4. Old(f, x, i) = w
  BY <1>1 DEF Old
<1> HIDE DEF g, w
<1>5. Sound(g, w)
  BY <1>1, <1>3, <1>4, ExchangeSound
<1>6. Rooted(f, v) /\ Rests(f, x) => Rooted(g, w)
  BY <1>1, <1>3, <1>4, ExchangeRooted
<1>7. Sound(Destroyed(g, w), Null) /\ (Rooted(g, w) => Rooted(Destroyed(g, w), Null))
  BY <1>5, DestroyedSound, DestroyedRooted
<1> QED
  BY <1>1, <1>2, <1>6, <1>7 DEF f

\* A value put into a new slot of an object below the frame.
LEMMA PlacedSound ==
  ASSUME NEW h, Sound(h, Null), NEW made, NEW S, Makes(h, made, S),
         NEW x \in DOMAIN h, NEW i, i \notin DOMAIN h[x].slots, MayHave(h, x, i)
  PROVE  /\ Sound(Put(made.heap, << x, i >>, made.value), Null)
         /\ Rooted(h, Null) /\ Rests(made.heap, x)
              => Rooted(Put(made.heap, << x, i >>, made.value), Null)
<1> DEFINE f == made.heap
           v == made.value
           g == Put(f, << x, i >>, v)
<1>1. Sound(f, v) /\ x \in DOMAIN f /\ i \notin DOMAIN f[x].slots /\ (Rooted(h, Null) => Rooted(f, v))
  BY DEF Makes, Leaves
<1>2. MayHave(f, x, i)
  BY DEF MayHave, Makes, Leaves
<1> HIDE DEF f, v
<1>3. Changed(f, g, x, i, v)
  BY <1>1, <1>2, PutChanges DEF Sound, Holds
<1>4. Old(f, x, i) = Null
  BY <1>1 DEF Old
<1> HIDE DEF g
<1>5. Sound(g, Null) /\ (Rooted(f, v) /\ Rests(f, x) => Rooted(g, Null))
  BY <1>1, <1>3, <1>4, ExchangeSound, ExchangeRooted
<1> QED
  BY <1>1, <1>5 DEF f, g, v

-----------------------------------------------------------------------------
(* Statements.                                                             *)

\* From the heap h to g the heap stays sound, and no object becomes unreachable unless a
\* JVar went into itself.
Keeps(h, g, knot) == Sound(g, Null) /\ (~ knot /\ Rooted(h, Null) => Rooted(g, Null))

\* A variable begins.
LEMMA ConstructKeeps ==
  ASSUME NEW h, Sound(h, Null), NEW v \in Var, v \notin DOMAIN h[Frame].slots,
         NEW src, IsSource(h, src), Needs(h, src) <= Cardinality(Unused(h))
  PROVE  Keeps(h, Put(Made(h, src).heap, << Frame, v >>, Made(h, src).value), FALSE)
<1>1. Makes(h, Made(h, src), Taken(h, src))
  BY MadeMakes
<1>2. Frame \in DOMAIN h /\ MayHave(h, Frame, v)
  BY DEF Sound, Typed, MayHave
<1> QED
  BY <1>1, <1>2, FrameRests, PlacedSound DEF Keeps

\* The value of a variable that ends floats.
LEMMA LeftFloats ==
  ASSUME NEW h, Sound(h, Null), NEW v \in DOMAIN h[Frame].slots, NEW g,
         g = [h EXCEPT ![Frame].slots = [ x \in DOMAIN @ \ { v } |-> @[x] ]]
  PROVE  /\ Sound(g, h[Frame].slots[v])
         /\ Rooted(h, Null) => Rooted(g, h[Frame].slots[v])
<1> DEFINE w == h[Frame].slots[v]
           s == [ x \in DOMAIN h[Frame].slots \ { v } |-> h[Frame].slots[x] ]
<1>1. Frame \in DOMAIN h /\ Fits(Frame, h[Frame])
  BY DEF Sound, Typed
<1>2. g = [h EXCEPT ![Frame].slots = s]
  OBVIOUS
<1>3. DOMAIN s = DOMAIN h[Frame].slots \ { v } /\ \A x \in DOMAIN s : s[x] = h[Frame].slots[x]
  OBVIOUS
<1> HIDE DEF s
<1>4. /\ DOMAIN g = DOMAIN h /\ \A o \in DOMAIN h : o # Frame => g[o] = h[o]
      /\ DOMAIN g[Frame] = { "type", "datum", "slots" }
      /\ g[Frame].slots = s /\ g[Frame].type = h[Frame].type /\ g[Frame].datum = h[Frame].datum
  BY <1>1, <1>2, OtherSlots DEF Fits
<1>5. \A o \in DOMAIN h : /\ g[o].type = h[o].type
                          /\ DOMAIN g[o].slots \subseteq DOMAIN h[o].slots
                          /\ \A i \in DOMAIN g[o].slots : g[o].slots[i] = h[o].slots[i]
  BY <1>3, <1>4
<1>6. \A o \in DOMAIN h : \A i \in DOMAIN h[o].slots :
        i \in DOMAIN g[o].slots \/ (o = Frame /\ i = v)
  BY <1>3, <1>4
<1>7. v \notin DOMAIN g[Frame].slots
  BY <1>3, <1>4
<1>8. ASSUME NEW u, Holds(h, u) PROVE Holds(g, u)
  BY <1>4, <1>5, <1>8, HoldsKept DEF Holds
<1>9. Typed(g)
  <2>1. Fits(Frame, g[Frame])
    BY <1>1, <1>3, <1>4, Tags DEF Fits
  <2>2. \A o \in DOMAIN g : Fits(o, g[o])
    BY <2>1, <1>4 DEF Sound, Typed
  <2>3. ASSUME NEW o \in DOMAIN g, NEW i \in DOMAIN g[o].slots PROVE Holds(g, g[o].slots[i])
    <3>1. o \in DOMAIN h /\ i \in DOMAIN h[o].slots /\ g[o].slots[i] = h[o].slots[i]
      BY <1>4, <1>5
    <3>2. Holds(h, h[o].slots[i])
      BY <3>1 DEF Sound, Typed
    <3> QED
      BY <3>1, <3>2, <1>8
  <2> QED
    BY <2>2, <2>3, <1>4 DEF Sound, Typed
<1>10. Holds(g, w)
  BY <1>1, <1>8 DEF Sound, Typed
<1>11. Single(g, w)
  <2>1. \A x, y \in DOMAIN g : \A i \in DOMAIN g[x].slots, j \in DOMAIN g[y].slots :
          g[x].slots[i].type \in Owning /\ Owns(g[y].slots[j], g[x].slots[i].raw)
            => x = y /\ i = j
    BY <1>4, <1>5 DEF Sound, Single
  <2>2. ASSUME NEW x \in DOMAIN g, NEW i \in DOMAIN g[x].slots,
               w.type \in Owning, Owns(g[x].slots[i], w.raw)
        PROVE  FALSE
    <3>1. x \in DOMAIN h /\ i \in DOMAIN h[x].slots /\ Owns(h[x].slots[i], w.raw)
      BY <2>2, <1>4, <1>5
    <3>2. x = Frame /\ i = v
      BY <3>1, <2>2, <1>1 DEF Sound, Single
    <3> QED
      BY <3>2, <2>2, <1>7
  <2>3. ASSUME NEW o \in DOMAIN g \ { Frame }
        PROVE  Owns(w, o) \/ \E x \in DOMAIN g : \E i \in DOMAIN g[x].slots : Owns(g[x].slots[i], o)
    <3>1. PICK x \in DOMAIN h : \E i \in DOMAIN h[x].slots : Owns(h[x].slots[i], o)
      BY <1>4, NullFits, OwnedMeans DEF Sound, Single
    <3>2. PICK i \in DOMAIN h[x].slots : Owns(h[x].slots[i], o)
      BY <3>1
    <3> QED
      BY <3>2, <1>4, <1>5, <1>6
  <2> QED
    BY <2>1, <2>2, <2>3 DEF Single
<1>12. ASSUME Rooted(h, Null), NEW T \in SUBSET DOMAIN g, Frame \in T, Owned(w) \subseteq T, Closed(g, T)
       PROVE  T = DOMAIN g
  <2>1. ASSUME NEW x \in T, NEW i \in DOMAIN h[x].slots PROVE Owned(h[x].slots[i]) \subseteq T
    <3>1. x \in DOMAIN h
      BY <1>4
    <3>2. CASE i \in DOMAIN g[x].slots
      BY <3>1, <3>2, <1>5, <1>12 DEF Closed
    <3>3. CASE x = Frame /\ i = v
      BY <3>3, <1>12
    <3> QED
      BY <3>1, <3>2, <3>3, <1>6
  <2>2. Closed(h, T)
    BY <2>1 DEF Closed
  <2> QED
    BY <2>2, <1>4, <1>12, NullFits DEF Rooted
<1> HIDE DEF w
<1>13. Sound(g, w) /\ (Rooted(h, Null) => Rooted(g, w))
  BY <1>9, <1>10, <1>11, <1>12 DEF Sound, Rooted
<1> QED
  BY <1>13 DEF w

\* A variable ends.
LEMMA DestructKeeps ==
  ASSUME NEW h, Sound(h, Null), NEW v \in DOMAIN h[Frame].slots
  PROVE  Keeps(h, Destroyed([h EXCEPT ![Frame].slots = [ x \in DOMAIN @ \ { v } |-> @[x] ]],
                            h[Frame].slots[v]), FALSE)
<1> DEFINE g == [h EXCEPT ![Frame].slots = [ x \in DOMAIN @ \ { v } |-> @[x] ]]
<1>1. /\ Sound(g, h[Frame].slots[v])
      /\ Rooted(h, Null) => Rooted(g, h[Frame].slots[v])
  BY LeftFloats
<1> HIDE DEF g
<1>2. Keeps(h, Destroyed(g, h[Frame].slots[v]), FALSE)
  BY <1>1, DestroyedSound, DestroyedRooted DEF Keeps
<1> QED
  BY <1>2 DEF g

\* operator=.
LEMMA AssignKeeps ==
  ASSUME NEW h, Sound(h, Null), NEW p, NEW t, Leads(h, p, t), NEW src, IsSource(h, src),
         Needs(h, src) <= Cardinality(Unused(h))
  PROVE  Keeps(h, Assigned(Made(h, src), Slot(h, p)), src.how = "move" /\ IsStrictPrefix(src.from, p))
<1> DEFINE x == t[Len(p) - 1]
           i == p[Len(p)]
           S == Taken(h, src)
           knot == src.how = "move" /\ IsStrictPrefix(src.from, p)
<1>1. Makes(h, Made(h, src), S)
  BY MadeMakes
<1>2. Slot(h, p) = << x, i >> /\ x \in DOMAIN h /\ i \in DOMAIN h[x].slots
  BY SlotIs
<1>3. ASSUME ~ knot PROVE Rests(Made(h, src).heap, x)
  <2>1. \A k \in 1 .. Len(p) - 1 : << t[k - 1], p[k] >> \notin S
    BY <1>3, PathSurvives
  <2>2. Len(p) - 1 \in 0 .. Len(p) - 1
    BY DEF Leads
  <2>3. Leaves(h, Made(h, src).heap, S)
    BY <1>1 DEF Makes
  <2> HIDE DEF S
  <2> QED
    BY <2>1, <2>2, <2>3, PathStays
<1> HIDE DEF x, i, S
<1>4. /\ Sound(Assigned(Made(h, src), << x, i >>), Null)
      /\ Rooted(h, Null) /\ Rests(Made(h, src).heap, x) => Rooted(Assigned(Made(h, src), << x, i >>), Null)
  BY <1>1, <1>2, AssignedSound
<1> QED
  BY <1>2, <1>3, <1>4 DEF Keeps

\* Swapped puts the values of two slots in each other's place: one after the other, the first
\* is taken out, put in place of the second, and the second in place of the first.
LEMMA SwapIsThree ==
  ASSUME NEW h, Sound(h, Null), NEW x \in DOMAIN h, NEW i \in DOMAIN h[x].slots,
         NEW y \in DOMAIN h, NEW j \in DOMAIN h[y].slots, ~ (x = y /\ i = j)
  PROVE  LET a == h[x].slots[i]
             b == h[y].slots[j]
             h1 == Put(h, << y, j >>, Null)
             h2 == Put(h1, << x, i >>, b)
         IN /\ Changed(h, h1, y, j, Null) /\ Changed(h1, h2, x, i, b)
            /\ Changed(h2, Swapped(h, << x, i >>, << y, j >>), y, j, a)
<1> DEFINE a == h[x].slots[i]
           b == h[y].slots[j]
           h1 == Put(h, << y, j >>, Null)
           h2 == Put(h1, << x, i >>, b)
           g1 == Put(h, << x, i >>, b)
           g == Put(g1, << y, j >>, a)
<1>1. Typed(h) /\ Holds(h, a) /\ Holds(h, b) /\ a \in JVars /\ b \in JVars
  BY DEF Sound, Typed, Holds
<1>2. Swapped(h, << x, i >>, << y, j >>) = g
  BY DEF Swapped, At
<1>3. x # y => h1[x] = h[x]
  BY DEF Put
<1>4. x # y => h2[x] = [h1[x] EXCEPT !.slots = With(@, i, b)] /\ g1[x] = [h[x] EXCEPT !.slots = With(@, i, b)]
  BY DEF Put
<1>5. x # y => h2[x] = g1[x]
  BY <1>3, <1>4
<1> HIDE DEF a, b
<1>6. Changed(h, h1, y, j, Null)
  BY <1>1, PutChanges, NullFits DEF MayHave
<1> HIDE DEF h1
<1>7. Typed(h1) /\ x \in DOMAIN h1 /\ i \in DOMAIN h1[x].slots
  BY <1>1, <1>6, ChangeTyped, NullFits DEF Changed
<1>8. Changed(h1, h2, x, i, b)
  BY <1>1, <1>7, PutChanges DEF MayHave
<1>9. Changed(h, g1, x, i, b)
  BY <1>1, PutChanges DEF MayHave
<1> HIDE DEF g1, h2
<1>10. Typed(g1) /\ y \in DOMAIN g1 /\ j \in DOMAIN g1[y].slots
  BY <1>1, <1>9, ChangeTyped DEF Changed
<1>11. Changed(g1, g, y, j, a)
  BY <1>1, <1>10, PutChanges DEF MayHave
<1> HIDE DEF g
<1>12. Changed(h2, g, y, j, a)
  <2>1. DOMAIN g = DOMAIN h2 /\ DOMAIN h2 = DOMAIN h
    BY <1>6, <1>8, <1>9, <1>11 DEF Changed
  <2>2. \A o \in DOMAIN h2 : o # y => g[o] = h2[o]
    BY <2>1, <1>5, <1>6, <1>8, <1>9, <1>11 DEF Changed
  <2>3. Fits(y, g[y]) /\ g[y].type = h2[y].type /\ g[y].datum = h2[y].datum
    BY <2>1, <1>6, <1>8, <1>9, <1>11 DEF Changed
  <2>4. DOMAIN g[y].slots = DOMAIN h[y].slots /\ DOMAIN h2[y].slots = DOMAIN h[y].slots
    BY <1>6, <1>8, <1>9, <1>11 DEF Changed
  <2>5. \A k \in DOMAIN h2[y].slots : k # j => g[y].slots[k] = h2[y].slots[k]
    <3> SUFFICES ASSUME NEW k \in DOMAIN h[y].slots, k # j PROVE g[y].slots[k] = h2[y].slots[k]
      BY <2>4
    <3>1. g[y].slots[k] = g1[y].slots[k]
      BY <1>9, <1>11 DEF Changed
    <3>2. h1[y].slots[k] = h[y].slots[k] /\ DOMAIN h1[y].slots = DOMAIN h[y].slots /\ y \in DOMAIN h1
      BY <1>6 DEF Changed
    <3>3. g1[y].slots[k] = IF x = y /\ k = i THEN b ELSE h[y].slots[k]
      BY <1>9 DEF Changed
    <3>4. h2[y].slots[k] = IF x = y /\ k = i THEN b ELSE h1[y].slots[k]
      BY <3>2, <1>8 DEF Changed
    <3> QED
      BY <3>1, <3>2, <3>3, <3>4
  <2>6. g[y].slots[j] = a
    BY <1>11 DEF Changed
  <2> QED
    BY <2>1, <2>2, <2>3, <2>4, <2>5, <2>6 DEF Changed
<1> QED
  BY <1>2, <1>6, <1>8, <1>12 DEF a, b, h1, h2

\* Swap().
LEMMA SwapKeeps ==
  ASSUME NEW h, Sound(h, Null), NEW p, NEW t, Leads(h, p, t), NEW q, NEW u, Leads(h, q, u)
  PROVE  Keeps(h, Swapped(h, Slot(h, p), Slot(h, q)), IsStrictPrefix(p, q) \/ IsStrictPrefix(q, p))
<1> DEFINE x == t[Len(p) - 1]
           i == p[Len(p)]
           y == u[Len(q) - 1]
           j == q[Len(q)]
           a == h[x].slots[i]
           b == h[y].slots[j]
           h1 == Put(h, << y, j >>, Null)
           h2 == Put(h1, << x, i >>, b)
           g == Swapped(h, << x, i >>, << y, j >>)
           knot == IsStrictPrefix(p, q) \/ IsStrictPrefix(q, p)
<1>1. /\ Slot(h, p) = << x, i >> /\ x \in DOMAIN h /\ i \in DOMAIN h[x].slots
      /\ Slot(h, q) = << y, j >> /\ y \in DOMAIN h /\ j \in DOMAIN h[y].slots
  BY SlotIs
<1>2. Typed(h) /\ Holds(h, a) /\ a \in JVars
  BY <1>1 DEF Sound, Typed, Holds
<1>3. Rests(h, y) /\ Rests(h, x)
  <2>1. Len(p) - 1 \in 0 .. Len(p) - 1 /\ Len(q) - 1 \in 0 .. Len(q) - 1
    BY DEF Leads
  <2> QED
    BY <2>1, PathRests
<1>4. Changed(h, h1, y, j, Null)
  BY <1>1, <1>2, PutChanges, NullFits DEF MayHave
<1>5. Sound(h1, b) /\ (Rooted(h, Null) => Rooted(h1, b))
  <2>1. Old(h, y, j) = b
    BY <1>1 DEF Old
  <2> HIDE DEF h1, b, y, j
  <2> QED
    BY <2>1, <1>1, <1>3, <1>4, ExchangeSound, ExchangeRooted
<1>6. Leaves(h, h1, { << y, j >> })
  <2> HIDE DEF h1, y, j
  <2> QED
    BY <1>1, <1>4 DEF Leaves, Changed
<1>7. CASE x = y /\ i = j
  <2> DEFINE f == Put(h, << y, j >>, a)
             k == Put(f, << y, j >>, a)
  <2>1. g = k /\ a = b
    BY <1>7 DEF Swapped, At
  <2>2. Rests(h1, y)
    <3>1. ~ IsStrictPrefix(q, q) /\ Len(q) - 1 \in 0 .. Len(q) - 1
      BY DEF IsStrictPrefix, Leads
    <3>2. \A n \in 1 .. Len(q) - 1 : << u[n - 1], q[n] >> \notin { << y, j >> }
      BY <3>1, <1>1, PathAvoids
    <3> HIDE DEF h1, j
    <3> QED
      BY <3>1, <3>2, <1>6, PathStays
  <2> HIDE DEF a, b, h1, g, x, i, y, j
  <2>3. Changed(h, f, y, j, a)
    BY <1>1, <1>2, PutChanges DEF MayHave
  <2> HIDE DEF f
  <2>4. Typed(f) /\ y \in DOMAIN f /\ j \in DOMAIN f[y].slots
    BY <1>1, <1>2, <2>3, ChangeTyped DEF Changed
  <2>5. Changed(f, k, y, j, a)
    BY <1>2, <2>4, PutChanges DEF MayHave
  <2> HIDE DEF k
  <2>6. Changed(h1, k, y, j, a)
    BY <1>1, <1>4, <2>3, <2>5 DEF Changed
  <2>7. Old(h1, y, j) = Null /\ y \in DOMAIN h1
    BY <1>1, <1>4 DEF Old, Changed
  <2>8. Sound(k, Null) /\ (Rooted(h, Null) => Rooted(k, Null))
    BY <2>1, <2>2, <2>6, <2>7, <1>5, ExchangeSound, ExchangeRooted
  <2> QED
    BY <2>1, <2>8, <1>1 DEF Keeps, g
<1>8. CASE ~ (x = y /\ i = j)
  <2>1. Changed(h1, h2, x, i, b) /\ Changed(h2, g, y, j, a)
    BY <1>1, <1>8, SwapIsThree
  <2>2. ASSUME ~ knot PROVE Rests(h1, x)
    <3>1. Len(p) - 1 \in 0 .. Len(p) - 1
      BY DEF Leads
    <3>2. \A n \in 1 .. Len(p) - 1 : << t[n - 1], p[n] >> \notin { << y, j >> }
      BY <2>2, <1>1, PathAvoids
    <3> HIDE DEF h1, y, j
    <3> QED
      BY <3>1, <3>2, <1>6, PathStays
  <2>3. Leaves(h, h2, { << y, j >>, << x, i >> })
    <3> HIDE DEF h1, h2, x, i, y, j
    <3>1. DOMAIN h2 = DOMAIN h
      BY <1>4, <2>1 DEF Changed
    <3>2. \A o \in DOMAIN h : h2[o].type = h[o].type /\ DOMAIN h2[o].slots = DOMAIN h[o].slots
      <4>1. \A o \in DOMAIN h : h1[o].type = h[o].type /\ DOMAIN h1[o].slots = DOMAIN h[o].slots
        BY <1>1, <1>4 DEF Changed
      <4>2. DOMAIN h1 = DOMAIN h
        BY <1>4 DEF Changed
      <4>3. \A o \in DOMAIN h1 : h2[o].type = h1[o].type /\ DOMAIN h2[o].slots = DOMAIN h1[o].slots
        BY <1>1, <4>1, <4>2, <2>1 DEF Changed
      <4> QED
        BY <4>1, <4>2, <4>3
    <3>3. ASSUME NEW o \in DOMAIN h, NEW n \in DOMAIN h[o].slots, << o, n >> # << y, j >>, << o, n >> # << x, i >>
          PROVE  h2[o].slots[n] = h[o].slots[n]
      <4>1. o \in DOMAIN h1 /\ n \in DOMAIN h1[o].slots /\ h1[o].slots[n] = h[o].slots[n]
        BY <3>3, <1>4 DEF Changed
      <4> QED
        BY <3>3, <4>1, <2>1 DEF Changed
    <3> QED
      BY <3>1, <3>2, <3>3 DEF Leaves
  <2>4. ASSUME ~ knot PROVE Rests(h2, y)
    <3>1. Len(q) - 1 \in 0 .. Len(q) - 1 /\ ~ IsStrictPrefix(q, q)
      BY DEF Leads, IsStrictPrefix
    <3>2. \A n \in 1 .. Len(q) - 1 : << u[n - 1], q[n] >> \notin { << y, j >>, << x, i >> }
      BY <2>4, <3>1, <1>1, PathAvoids
    <3> HIDE DEF h2, x, i, j
    <3> QED
      BY <3>1, <3>2, <2>3, PathStays
  <2>5. a = h[x].slots[i]
    OBVIOUS
  <2> HIDE DEF a, b, h1, h2, g, x, i, y, j
  <2>6. x \in DOMAIN h1 /\ i \in DOMAIN h1[x].slots /\ Old(h1, x, i) = a
    BY <1>1, <1>4, <1>8, <2>5 DEF Changed, Old
  <2>7. y \in DOMAIN h2 /\ Old(h2, y, j) = Null
    <3>1. h1[y].slots[j] = Null /\ y \in DOMAIN h1 /\ j \in DOMAIN h1[y].slots
      BY <1>1, <1>4 DEF Changed
    <3>2. h2[y].slots[j] = Null /\ y \in DOMAIN h2 /\ j \in DOMAIN h2[y].slots
      BY <3>1, <1>8, <2>1 DEF Changed
    <3> QED
      BY <3>2 DEF Old
  <2>8. Sound(h2, a) /\ (~ knot /\ Rooted(h, Null) => Rooted(h2, a))
    <3>1. Sound(h2, a)
      BY <1>5, <2>1, <2>6, ExchangeSound
    <3>2. Rooted(h1, b) /\ Rests(h1, x) => Rooted(h2, a)
      BY <2>1, <2>6, ExchangeRooted
    <3> QED
      BY <3>1, <3>2, <2>2, <1>5
  <2>9. Sound(g, Null)
    BY <2>1, <2>7, <2>8, ExchangeSound
  <2>10. Rooted(h2, a) /\ Rests(h2, y) => Rooted(g, Null)
    BY <2>1, <2>7, ExchangeRooted
  <2> QED
    BY <2>4, <2>8, <2>9, <2>10, <1>1 DEF Keeps, g
<1> QED
  BY <1>7, <1>8

\* The object of an array, a hash or a string at the end of a path.
LEMMA ObjectIs ==
  ASSUME NEW h, Sound(h, Null), NEW p, NEW t, Leads(h, p, t), At(h, Slot(h, p)).type \in Owning
  PROVE  LET o == ObjectAt(h, p) IN
         /\ o \in DOMAIN h /\ o # Frame /\ h[o].type = At(h, Slot(h, p)).type
         /\ Owns(At(h, Slot(h, p)), o) /\ Rests(h, o)
<1> DEFINE x == t[Len(p) - 1]
           i == p[Len(p)]
           o == ObjectAt(h, p)
           v == At(h, Slot(h, p))
<1>1. v = h[x].slots[i] /\ o = v.raw /\ x \in DOMAIN h /\ i \in DOMAIN h[x].slots
  BY SlotIs
<1>2. Rests(h, x)
  <2>1. Len(p) - 1 \in 0 .. Len(p) - 1
    BY DEF Leads
  <2> QED
    BY <2>1, PathRests
<1> HIDE DEF x, i, o, v
<1>3. Holds(h, v) /\ Typed(h)
  BY <1>1 DEF Sound, Typed
<1>4. Owns(v, o)
  BY <1>1 DEF Owns, v
<1>5. o \in DOMAIN h /\ h[o].type = v.type /\ o # Frame
  BY <1>1, <1>3, <1>4, FrameIsFree DEF Holds, v
<1>6. Rests(h, o)
  <2> SUFFICES ASSUME NEW T \in SUBSET DOMAIN h, Frame \in T, Closed(h, T) PROVE o \in T
    BY DEF Rests
  <2>1. x \in T
    BY <1>2 DEF Rests
  <2>2. Owned(v) \subseteq T
    BY <1>1, <2>1 DEF Closed
  <2> QED
    BY <2>2, <1>4, OwnedMeans
<1> QED
  BY <1>4, <1>5, <1>6 DEF o, v

\* operator[](key).
LEMMA IndexKeeps ==
  ASSUME NEW h, Sound(h, Null), NEW p, NEW t, Leads(h, p, t), At(h, Slot(h, p)).type = "hash",
         NEW k \in Name, k \notin DOMAIN h[ObjectAt(h, p)].slots
  PROVE  Keeps(h, Put(h, << ObjectAt(h, p), k >>, Null), FALSE)
<1> DEFINE o == ObjectAt(h, p)
           g == Put(h, << o, k >>, Null)
<1>1. o \in DOMAIN h /\ h[o].type = "hash" /\ Rests(h, o)
  BY ObjectIs DEF Owning
<1> HIDE DEF o
<1>2. MayHave(h, o, k) /\ Old(h, o, k) = Null
  BY <1>1 DEF MayHave, Old, o
<1>3. Changed(h, g, o, k, Null)
  BY <1>1, <1>2, PutChanges, NullFits DEF Sound
<1> HIDE DEF g
<1>4. Sound(g, Null) /\ (Rooted(h, Null) => Rooted(g, Null))
  BY <1>1, <1>2, <1>3, ExchangeSound, ExchangeRooted
<1> QED
  BY <1>4 DEF Keeps, g, o

\* A heap with the same objects and the same slots.
LEMMA SameSlotsKeep ==
  ASSUME NEW h, Sound(h, Null), NEW g, DOMAIN g = DOMAIN h,
         \A o \in DOMAIN h : Fits(o, g[o]) /\ g[o].type = h[o].type /\ g[o].slots = h[o].slots
  PROVE  Keeps(h, g, FALSE)
<1>1. \A u : Holds(h, u) => Holds(g, u)
  BY HoldsKept DEF Holds
<1>2. Typed(g)
  <2>1. ASSUME NEW o \in DOMAIN g, NEW i \in DOMAIN g[o].slots PROVE Holds(g, g[o].slots[i])
    BY <1>1 DEF Sound, Typed
  <2> QED
    BY <2>1 DEF Sound, Typed
<1>3. Single(g, Null)
  BY DEF Sound, Single
<1>4. \A T \in SUBSET DOMAIN g : Closed(g, T) => Closed(h, T)
  BY DEF Closed
<1>5. Rooted(h, Null) => Rooted(g, Null)
  BY <1>4 DEF Rooted
<1> QED
  BY <1>2, <1>3, <1>5, NullFits DEF Sound, Keeps

\* A write to a string, or to a simple JVar.
LEMMA WriteKeeps ==
  ASSUME NEW h, Sound(h, Null), NEW p, NEW t, Leads(h, p, t), NEW d \in Datum
  PROVE  LET s == Slot(h, p)
             v == At(h, s)
         IN /\ v.type = "string" => Keeps(h, [h EXCEPT ![v.raw].datum = d], FALSE)
            /\ v.type \in Simple => Keeps(h, Put(h, s, [v EXCEPT !.raw = d]), FALSE)
<1> DEFINE x == t[Len(p) - 1]
           i == p[Len(p)]
           v == h[x].slots[i]
<1>1. /\ Slot(h, p) = << x, i >> /\ At(h, Slot(h, p)) = v /\ ObjectAt(h, p) = v.raw
      /\ x \in DOMAIN h /\ i \in DOMAIN h[x].slots
  BY SlotIs
<1>2. Holds(h, v) /\ v \in JVars /\ Typed(h)
  BY <1>1 DEF Sound, Typed, Holds
<1>3. ASSUME v.type = "string" PROVE Keeps(h, [h EXCEPT ![v.raw].datum = d], FALSE)
  <2> DEFINE r == v.raw
             g == [h EXCEPT ![r].datum = d]
  <2>1. r \in DOMAIN h /\ h[r].type = "string" /\ Fits(r, h[r])
    BY <1>2, <1>3 DEF Holds, Typed, Owning
  <2> HIDE DEF v, r
  <2>2. DOMAIN g = DOMAIN h /\ \A o \in DOMAIN h : o # r => g[o] = h[o]
    OBVIOUS
  <2>3. g[r] = [h[r] EXCEPT !.datum = d]
    BY <2>1
  <2>4. DOMAIN g[r] = { "type", "datum", "slots" } /\ g[r].type = h[r].type /\ g[r].slots = h[r].slots /\ g[r].datum = d
    BY <2>1, <2>3 DEF Fits
  <2> HIDE DEF g
  <2>5. Fits(r, g[r])
    BY <2>1, <2>4 DEF Fits
  <2>6. \A o \in DOMAIN h : Fits(o, g[o]) /\ g[o].type = h[o].type /\ g[o].slots = h[o].slots
    BY <2>2, <2>4, <2>5, <1>2 DEF Typed
  <2>7. Keeps(h, g, FALSE)
    BY <2>2, <2>6, SameSlotsKeep
  <2> QED
    BY <2>7 DEF g, r
<1>4. ASSUME v.type \in Simple PROVE Keeps(h, Put(h, << x, i >>, [v EXCEPT !.raw = d]), FALSE)
  <2> DEFINE w == [v EXCEPT !.raw = d]
             g == Put(h, << x, i >>, w)
  <2>1. DOMAIN v = { "type", "raw" }
    BY <1>2 DEF JVars
  <2>2. w \in JVars /\ w.type = v.type /\ w.raw = d
    BY <1>2, <2>1 DEF JVars
  <2>3. Rests(h, x)
    <3>1. Len(p) - 1 \in 0 .. Len(p) - 1
      BY DEF Leads
    <3> QED
      BY <3>1, PathRests
  <2> HIDE DEF v, w, x, i
  <2>4. v.type \notin Owning /\ v.type # "null"
    BY <1>4, Tags
  <2>5. Holds(h, w)
    BY <2>2, <2>4 DEF Holds
  <2>6. Sound(h, w) /\ (Rooted(h, Null) => Rooted(h, w))
    BY <2>2, <2>4, <2>5, Tags, NullFits, PlainFloats
  <2>7. Changed(h, g, x, i, w)
    BY <1>1, <1>2, <2>2, PutChanges DEF MayHave
  <2>8. Old(h, x, i) = v
    BY <1>1 DEF Old, v
  <2> HIDE DEF g
  <2>9. Sound(g, v) /\ (Rooted(h, w) => Rooted(g, v))
    BY <1>1, <2>3, <2>6, <2>7, <2>8, ExchangeSound, ExchangeRooted
  <2>10. Sound(g, Null) /\ (Rooted(g, v) => Rooted(g, Null))
    BY <2>4, <2>9, Tags, NullFits, PlainFloats
  <2>11. Keeps(h, g, FALSE)
    BY <2>6, <2>9, <2>10 DEF Keeps
  <2> QED
    BY <2>11 DEF g, w
<1> HIDE DEF v, x, i
<1> QED
  BY <1>1, <1>3, <1>4

\* Clear() of an array or a hash.
LEMMA ClearKeeps ==
  ASSUME NEW h, Sound(h, Null), NEW p, NEW t, Leads(h, p, t), NEW v, v = At(h, Slot(h, p)),
         v.type \in { "array", "hash" }, NEW g,
         g = [ o \in DOMAIN h \ (Reach(h, v) \ { v.raw }) |->
                 IF o = v.raw THEN Contents(v.type, NoDatum) ELSE h[o] ]
  PROVE  Keeps(h, g, FALSE)
<1> DEFINE x == t[Len(p) - 1]
           i == p[Len(p)]
           R == Reach(h, v)
           c == v.raw
<1>1. x \in DOMAIN h /\ i \in DOMAIN h[x].slots /\ h[x].slots[i] = v /\ x \notin R
  <2>1. Len(p) - 1 \in 0 .. Len(p) - 1
    BY DEF Leads
  <2> QED
    BY <2>1, SlotIs, AboveIsNotReached
<1>2. Owns(v, c) /\ v.type \in Owning
  BY DEF Owns, Owning
<1>3. Holds(h, v) /\ Typed(h) /\ c \in DOMAIN h /\ h[c].type = v.type /\ c # Frame
  <2>1. Holds(h, v) /\ Typed(h)
    BY <1>1 DEF Sound, Typed
  <2> QED
    BY <2>1, <1>2, FrameIsFree DEF Holds
<1>4. R \subseteq DOMAIN h \ { Frame } /\ c \in R /\ Closed(h, R)
  BY <1>2, <1>3, ReachIsLeast, OwnedMeans
<1>5. ASSUME NEW o \in DOMAIN h, NEW n \in DOMAIN h[o].slots, NEW r \in R, r # c, Owns(h[o].slots[n], r)
      PROVE  o \in R
  <2>1. PICK z \in R : \E m \in DOMAIN h[z].slots : Owns(h[z].slots[m], r)
    BY <1>3, <1>5, ReachIsOwned DEF Owns
  <2>2. PICK m \in DOMAIN h[z].slots : Owns(h[z].slots[m], r)
    BY <2>1
  <2>3. z \in DOMAIN h
    BY <1>4
  <2>4. o = z
    BY <1>5, <2>2, <2>3, OwnersAreOne
  <2> QED
    BY <2>4
<1>6. /\ DOMAIN g = (DOMAIN h \ R) \cup { c }
      /\ \A o \in DOMAIN g : o # c => g[o] = h[o] /\ o \in DOMAIN h /\ o \notin R
      /\ g[c] = Contents(v.type, NoDatum)
  <2>1. DOMAIN g = DOMAIN h \ (R \ { c })
    OBVIOUS
  <2>2. DOMAIN h \ (R \ { c }) = (DOMAIN h \ R) \cup { c }
    BY <1>3, <1>4
  <2> QED
    BY <1>3, <2>1, <2>2
<1> HIDE DEF x, i, R, c
<1>7. DOMAIN g[c].slots = {} /\ g[c].type = v.type /\ Fits(c, g[c])
  <2> DEFINE k == Contents(v.type, NoDatum)
  <2>1. /\ DOMAIN k = { "type", "datum", "slots" } /\ k.type = v.type /\ k.datum = NoDatum
        /\ k.slots = << >>
    BY DEF Contents
  <2>2. DOMAIN k.slots = {} /\ k.slots \in Seq(JVars)
    BY <2>1
  <2> HIDE DEF k
  <2>3. k.type \in { "array", "hash" } /\ k.type \in Owning /\ k.type # "frame" /\ k.type # "string"
    BY <2>1 DEF Owning
  <2>4. Fits(c, k)
    BY <2>1, <2>2, <2>3, <1>3 DEF Fits
  <2> QED
    BY <2>1, <2>2, <2>4, <1>6 DEF k
<1>8. ASSUME NEW o \in DOMAIN g, NEW n \in DOMAIN g[o].slots
      PROVE  /\ o \in DOMAIN h /\ o \notin R /\ n \in DOMAIN h[o].slots /\ g[o].slots[n] = h[o].slots[n]
             /\ Holds(g, g[o].slots[n])
  <2>1. o # c
    BY <1>7
  <2>2. o \in DOMAIN h /\ o \notin R /\ g[o] = h[o]
    BY <1>6, <2>1
  <2> DEFINE u == h[o].slots[n]
  <2>3. n \in DOMAIN h[o].slots /\ g[o].slots[n] = u /\ Holds(h, u)
    BY <2>2, <1>3 DEF Typed
  <2>4. ASSUME u.type \in Owning PROVE u.raw \in DOMAIN g /\ g[u.raw].type = h[u.raw].type
    <3>1. Owns(u, u.raw) /\ u.raw \in DOMAIN h
      BY <2>3, <2>4 DEF Owns, Holds
    <3>2. u.raw \in R => u.raw = c
      BY <1>5, <2>2, <2>3, <3>1
    <3> HIDE DEF u
    <3> QED
      BY <3>1, <3>2, <1>3, <1>6, <1>7
  <2> HIDE DEF u
  <2>5. Holds(g, u)
    BY <2>3, <2>4, HoldsKept
  <2> QED
    BY <2>2, <2>3, <2>5 DEF u
<1>9. Typed(g)
  <2>1. Frame \in DOMAIN g /\ DOMAIN g \subseteq Object \cup { Frame }
    BY <1>3, <1>4, <1>6 DEF Typed
  <2>2. \A o \in DOMAIN g : Fits(o, g[o])
    BY <1>3, <1>6, <1>7 DEF Typed
  <2> QED
    BY <2>1, <2>2, <1>8 DEF Typed
<1>10. x \in DOMAIN g /\ i \in DOMAIN g[x].slots /\ g[x].slots[i] = v
  BY <1>1, <1>4, <1>6
<1>11. Single(g, Null)
  <2>1. ASSUME NEW y \in DOMAIN g, NEW z \in DOMAIN g,
               NEW j \in DOMAIN g[y].slots, NEW k \in DOMAIN g[z].slots,
               g[y].slots[j].type \in Owning, Owns(g[z].slots[k], g[y].slots[j].raw)
        PROVE  y = z /\ j = k
    <3>1. y \in DOMAIN h /\ j \in DOMAIN h[y].slots /\ g[y].slots[j] = h[y].slots[j]
      BY <1>8
    <3>2. z \in DOMAIN h /\ k \in DOMAIN h[z].slots /\ g[z].slots[k] = h[z].slots[k]
      BY <1>8
    <3>3. Owns(h[y].slots[j], h[y].slots[j].raw)
      BY <2>1, <3>1 DEF Owns
    <3> QED
      BY <2>1, <3>1, <3>2, <3>3, OwnersAreOne
  <2>2. ASSUME NEW o \in DOMAIN g \ { Frame }
        PROVE  \E y \in DOMAIN g : \E j \in DOMAIN g[y].slots : Owns(g[y].slots[j], o)
    <3>1. CASE o = c
      BY <3>1, <1>2, <1>10
    <3>2. CASE o # c
      <4>1. o \in DOMAIN h \ { Frame } /\ o \notin R
        BY <3>2, <1>6
      <4>2. PICK y \in DOMAIN h : \E j \in DOMAIN h[y].slots : Owns(h[y].slots[j], o)
        BY <4>1, NullFits, OwnedMeans DEF Sound, Single
      <4>3. PICK j \in DOMAIN h[y].slots : Owns(h[y].slots[j], o)
        BY <4>2
      <4>4. y \notin R
        BY <4>1, <4>3, <1>4, OwnedMeans DEF Closed
      <4>5. y \in DOMAIN g /\ g[y] = h[y]
        BY <4>4, <1>4, <1>6
      <4> QED
        BY <4>3, <4>5
    <3> QED
      BY <3>1, <3>2
  <2>3. Null.type \notin Owning
    BY NullFits, Tags
  <2> QED
    BY <2>1, <2>2, <2>3 DEF Single
<1>12. ASSUME Rooted(h, Null), NEW T \in SUBSET DOMAIN g, Frame \in T, Closed(g, T)
       PROVE  T = DOMAIN g
  <2> DEFINE U == T \cup R
  <2>1. U \in SUBSET DOMAIN h /\ Frame \in U
    BY <1>3, <1>4, <1>6, <1>12
  <2>2. ASSUME NEW o \in U, NEW n \in DOMAIN h[o].slots PROVE Owned(h[o].slots[n]) \subseteq U
    <3>1. CASE o \in R
      BY <3>1, <1>4 DEF Closed
    <3>2. CASE o \notin R
      <4>1. o \in T /\ o \in DOMAIN g /\ o # c
        BY <3>2, <1>4
      <4>2. g[o] = h[o]
        BY <4>1, <1>6
      <4> QED
        BY <4>1, <4>2, <1>12 DEF Closed
    <3> QED
      BY <3>1, <3>2
  <2>3. Closed(h, U)
    BY <2>2 DEF Closed
  <2>4. U = DOMAIN h
    <3> HIDE DEF U
    <3> QED
      BY <2>1, <2>3, <1>12, NullFits DEF Rooted
  <2>5. x \in T
    BY <2>4, <1>1
  <2>6. c \in T
    BY <2>5, <1>2, <1>10, <1>12, OwnedMeans DEF Closed
  <2> QED
    BY <2>4, <2>6, <1>6
<1>13. Sound(g, Null) /\ (Rooted(h, Null) => Rooted(g, Null))
  BY <1>9, <1>11, <1>12, NullFits DEF Sound, Rooted
<1> QED
  BY <1>13 DEF Keeps

\* A path none of whose slots but the last is in S leads on when only those in S change.
LEMMA PathStillLeads ==
  ASSUME NEW h, NEW p, NEW t, Leads(h, p, t), NEW g, NEW S, Leaves(h, g, S),
         \A k \in 1 .. Len(p) - 1 : << t[k - 1], p[k] >> \notin S
  PROVE  Leads(g, p, t)
<1>1. Len(p) \in Nat \ { 0 } /\ \A k \in 1 .. Len(p) : k - 1 \in 0 .. Len(p) - 1
  BY DEF Leads
<1>2. t \in [0 .. Len(p) - 1 -> DOMAIN g]
  BY DEF Leads, Leaves
<1>3. ASSUME NEW k \in 1 .. Len(p) PROVE p[k] \in DOMAIN g[t[k - 1]].slots
  BY <1>1 DEF Leads, Leaves
<1>4. ASSUME NEW k \in 1 .. Len(p) - 1 PROVE Owns(g[t[k - 1]].slots[p[k]], t[k])
  <2>1. k \in 1 .. Len(p)
    BY <1>1
  <2>2. t[k - 1] \in DOMAIN h /\ p[k] \in DOMAIN h[t[k - 1]].slots /\ Owns(h[t[k - 1]].slots[p[k]], t[k])
    BY <1>1, <2>1 DEF Leads
  <2>3. g[t[k - 1]].slots[p[k]] = h[t[k - 1]].slots[p[k]]
    BY <2>2 DEF Leaves
  <2> QED
    BY <2>2, <2>3
<1> QED
  BY <1>2, <1>3, <1>4 DEF Leads

\* An object that a path leads to lies below the frame, unless it is moved, or what it is in.
LEMMA ObjectRests ==
  ASSUME NEW h, Sound(h, Null), NEW p, NEW t, Leads(h, p, t), At(h, Slot(h, p)).type \in Owning,
         NEW src, IsSource(h, src), NEW g, Leaves(h, g, Taken(h, src)),
         ~ (src.how = "move" /\ IsPrefix(src.from, p))
  PROVE  Rests(g, ObjectAt(h, p))
<1> DEFINE x == t[Len(p) - 1]
           i == p[Len(p)]
           o == ObjectAt(h, p)
           S == Taken(h, src)
<1>1. Len(p) - 1 \in 0 .. Len(p) - 1 /\ Len(p) \in 1 .. Len(p)
  BY DEF Leads
<1>2. /\ x \in DOMAIN h /\ i \in DOMAIN h[x].slots /\ At(h, Slot(h, p)) = h[x].slots[i]
      /\ Owns(h[x].slots[i], o)
  BY SlotIs, ObjectIs
<1>3. Rests(g, x)
  <2>1. ~ (src.how = "move" /\ IsStrictPrefix(src.from, p))
    BY DEF IsStrictPrefix
  <2>2. \A k \in 1 .. Len(p) - 1 : << t[k - 1], p[k] >> \notin S
    BY <2>1, PathSurvives
  <2> HIDE DEF S
  <2> QED
    BY <1>1, <2>2, PathStays DEF S
<1>4. << x, i >> \notin S
  <2> SUFFICES ASSUME src.how = "move", << x, i >> = Slot(h, src.from) PROVE FALSE
    BY DEF Taken
  <2> DEFINE q == src.from
  <2>1. PICK f : Leads(h, q, f)
    BY DEF IsSource
  <2>2. x = f[Len(q) - 1] /\ i = q[Len(q)]
    BY <2>1, SlotIs
  <2> HIDE DEF q
  <2>3. IsPrefix(q, p)
    BY <1>1, <2>1, <2>2, PathsShare
  <2> QED
    BY <2>3 DEF q
<1> HIDE DEF x, i, o, S
<1>5. x \in DOMAIN g /\ i \in DOMAIN g[x].slots /\ Owns(g[x].slots[i], o)
  BY <1>2, <1>4 DEF Leaves, S
<1>6. Rests(g, o)
  <2> SUFFICES ASSUME NEW T \in SUBSET DOMAIN g, Frame \in T, Closed(g, T) PROVE o \in T
    BY DEF Rests
  <2>1. x \in T
    BY <1>3 DEF Rests
  <2>2. Owned(g[x].slots[i]) \subseteq T
    BY <1>5, <2>1 DEF Closed
  <2> QED
    BY <2>2, <1>5, OwnedMeans
<1> QED
  BY <1>6 DEF o

\* Nothing reaches from a JVar that owns nothing.
LEMMA PlainReachesNothing ==
  ASSUME NEW h, Typed(h), NEW v, Holds(h, v), v.type \notin Owning
  PROVE  Reach(h, v) = {}
<1>1. Owned(v) \subseteq {} /\ Closed(h, {})
  BY DEF Owned, Closed
<1> QED
  BY <1>1, ReachIsLeast

\* Add() first makes an array or a hash of null; every path still leads where it did.
LEMMA ReadyKeeps ==
  ASSUME NEW h, Sound(h, Null), NEW p, NEW t, Leads(h, p, t), NEW type \in { "array", "hash" },
         At(h, Slot(h, p)).type \in { "null", type },
         At(h, Slot(h, p)).type = "null" => Unused(h) # {}
  PROVE  /\ Keeps(h, Ready(h, p, type), FALSE)
         /\ \A q, u : Leads(h, q, u) => Leads(Ready(h, p, type), q, u)
         /\ At(Ready(h, p, type), Slot(Ready(h, p, type), p)).type = type
<1> DEFINE x == t[Len(p) - 1]
           i == p[Len(p)]
           made == Fresh(h, type, NoDatum)
           f == made.heap
           v == made.value
           g == Put(f, << x, i >>, v)
           w == h[x].slots[i]
           r == Ready(h, p, type)
<1>1. /\ Slot(h, p) = << x, i >> /\ At(h, Slot(h, p)) = w
      /\ x \in DOMAIN h /\ i \in DOMAIN h[x].slots
  BY SlotIs
<1>2. CASE w.type # "null"
  <2>1. r = h
    BY <1>1, <1>2 DEF Ready, Composed
  <2>2. At(r, Slot(r, p)).type = type
    BY <1>1, <1>2, <2>1
  <2> HIDE DEF r
  <2>3. Keeps(h, r, FALSE)
    BY <2>1 DEF Keeps
  <2> QED
    BY <2>1, <2>2, <2>3 DEF r
<1>3. CASE w.type = "null"
  <2>1. Unused(h) # {}
    BY <1>1, <1>3
  <2>2. Makes(h, made, {}) /\ v.type = type
    BY <2>1, FreshMakes
  <2> HIDE DEF made
  <2>3. Leaves(h, f, {}) /\ Sound(f, v) /\ (Rooted(h, Null) => Rooted(f, v))
    BY <2>2 DEF Makes
  <2>4. Rests(f, x)
    <3>1. Len(p) - 1 \in 0 .. Len(p) - 1
      BY DEF Leads
    <3> HIDE DEF f
    <3> QED
      BY <3>1, <2>3, PathStays
  <2>5. r = Destroyed(g, f[x].slots[i])
    BY <1>1, <1>3 DEF Ready, Composed, Assigned, At, made
  <2>6. Sound(r, Null) /\ (Rooted(h, Null) => Rooted(r, Null))
    <3>1. r = Assigned(made, << x, i >>)
      BY <1>1, <1>3 DEF Ready, Composed, made
    <3> HIDE DEF x, i, r
    <3> QED
      BY <3>1, <1>1, <2>2, <2>4, AssignedSound
  <2> HIDE DEF x, i, f, v, w, r
  <2>7. x \in DOMAIN f /\ i \in DOMAIN f[x].slots /\ f[x].slots[i] = w
    BY <1>1, <2>3 DEF Leaves, w
  <2>8. Changed(f, g, x, i, v)
    BY <2>3, <2>7, PutChanges DEF MayHave, Sound, Holds
  <2> HIDE DEF g
  <2>9. Sound(g, w)
    <3>1. Old(f, x, i) = w
      BY <2>7 DEF Old
    <3> QED
      BY <3>1, <2>3, <2>7, <2>8, ExchangeSound
  <2>10. Reach(g, w) = {}
    <3>1. w.type \notin Owning
      BY <1>3, Tags
    <3> QED
      BY <3>1, <2>9, PlainReachesNothing DEF Sound
  <2>11. DOMAIN r = DOMAIN f /\ \A o \in DOMAIN f : r[o] = g[o]
    <3>1. r = [o \in DOMAIN g |-> g[o]]
      BY <2>5, <2>7, <2>10 DEF Destroyed
    <3> QED
      BY <3>1, <2>8 DEF Changed
  <2>12. Leaves(h, r, { << x, i >> })
    <3>1. DOMAIN h \subseteq DOMAIN r
      BY <2>3, <2>11 DEF Leaves
    <3>2. ASSUME NEW o \in DOMAIN h
          PROVE  /\ r[o].type = h[o].type /\ DOMAIN r[o].slots = DOMAIN h[o].slots
                 /\ \A n \in DOMAIN h[o].slots : << o, n >> # << x, i >> => r[o].slots[n] = h[o].slots[n]
      <4>1. /\ o \in DOMAIN f /\ r[o] = g[o]
            /\ f[o].type = h[o].type /\ DOMAIN f[o].slots = DOMAIN h[o].slots
            /\ \A n \in DOMAIN h[o].slots : f[o].slots[n] = h[o].slots[n]
        BY <2>3, <2>11 DEF Leaves
      <4>2. CASE o = x
        BY <4>1, <4>2, <2>7, <2>8 DEF Changed
      <4>3. CASE o # x
        BY <4>1, <4>3, <2>8 DEF Changed
      <4> QED
        BY <4>2, <4>3
    <3> QED
      BY <3>1, <3>2 DEF Leaves
  <2>13. ASSUME NEW q, NEW u, Leads(h, q, u) PROVE Leads(r, q, u)
    <3>1. ASSUME NEW k \in 1 .. Len(q) - 1 PROVE << u[k - 1], q[k] >> # << x, i >>
      <4>1. Owns(h[u[k - 1]].slots[q[k]], u[k])
        BY <2>13 DEF Leads
      <4>2. ~ Owns(w, u[k])
        BY <1>3, Tags DEF Owns
      <4> QED
        BY <4>1, <4>2 DEF w
    <3> QED
      BY <3>1, <2>12, <2>13, PathStillLeads
  <2>14. At(r, Slot(r, p)).type = type
    <3>1. At(r, Slot(r, p)) = r[x].slots[i]
      <4>1. Leads(r, p, t)
        BY <2>13
      <4> QED
        BY <4>1, SlotIs DEF x, i
    <3>2. r[x].slots[i] = v
      BY <2>7, <2>8, <2>11 DEF Changed
    <3> QED
      BY <3>1, <3>2, <2>2
  <2> QED
    BY <2>6, <2>13, <2>14 DEF r, Keeps
<1> QED
  BY <1>2, <1>3

\* A source is one on the heap that Add() makes.
LEMMA ReadyHasSource ==
  ASSUME NEW h, NEW g, NEW src, IsSource(h, src), \A q, u : Leads(h, q, u) => Leads(g, q, u)
  PROVE  IsSource(g, src)
BY DEF IsSource

\* emplace_back.
LEMMA AppendKeeps ==
  ASSUME NEW h, Sound(h, Null), NEW p, NEW t, Leads(h, p, t), At(h, Slot(h, p)).type = "array",
         NEW src, IsSource(h, src), Needs(h, src) <= Cardinality(Unused(h))
  PROVE  Keeps(h, Appended(Made(h, src), ObjectAt(h, p)), src.how = "move" /\ IsPrefix(src.from, p))
<1> DEFINE o == ObjectAt(h, p)
           made == Made(h, src)
           f == made.heap
           v == made.value
           n == Len(f[o].slots) + 1
           g == [f EXCEPT ![o].slots = Append(@, v)]
           knot == src.how = "move" /\ IsPrefix(src.from, p)
<1>1. o \in DOMAIN h /\ h[o].type = "array"
  BY ObjectIs DEF Owning
<1>2. Makes(h, made, Taken(h, src))
  BY MadeMakes
<1>3. Appended(made, o) = g
  BY DEF Appended
<1> HIDE DEF made
<1>4. Sound(f, v) /\ Leaves(h, f, Taken(h, src)) /\ (Rooted(h, Null) => Rooted(f, v))
  BY <1>2 DEF Makes
<1>5. ASSUME ~ knot PROVE Rests(f, o)
  <2>1. At(h, Slot(h, p)).type \in Owning
    BY DEF Owning
  <2> HIDE DEF f
  <2> QED
    BY <2>1, <1>4, <1>5, ObjectRests
<1> HIDE DEF o, f, v, knot
<1>6. o \in DOMAIN f /\ f[o].type = "array"
  BY <1>1, <1>4 DEF Leaves
<1>7. Changed(f, g, o, n, v)
  BY <1>4, <1>6, AppendChanges DEF Sound, Holds
<1>8. Old(f, o, n) = Null
  <2>1. f[o].slots \in Seq(JVars)
    BY <1>4, <1>6 DEF Sound, Typed, Fits
  <2>2. n \notin DOMAIN f[o].slots
    BY <2>1
  <2> QED
    BY <2>2 DEF Old
<1> HIDE DEF g, n
<1>9. Sound(g, Null) /\ (Rooted(f, v) /\ Rests(f, o) => Rooted(g, Null))
  BY <1>4, <1>6, <1>7, <1>8, ExchangeSound, ExchangeRooted
<1>10. Keeps(h, g, knot)
  BY <1>4, <1>5, <1>9 DEF Keeps
<1> QED
  BY <1>3, <1>10 DEF o, made, knot

\* emplace under a new key.
LEMMA EmplaceKeeps ==
  ASSUME NEW h, Sound(h, Null), NEW p, NEW t, Leads(h, p, t), At(h, Slot(h, p)).type = "hash",
         NEW src, IsSource(h, src), Needs(h, src) <= Cardinality(Unused(h)),
         NEW k \in Name, k \notin DOMAIN h[ObjectAt(h, p)].slots
  PROVE  Keeps(h, Put(Made(h, src).heap, << ObjectAt(h, p), k >>, Made(h, src).value),
               src.how = "move" /\ IsPrefix(src.from, p))
<1> DEFINE o == ObjectAt(h, p)
           made == Made(h, src)
           knot == src.how = "move" /\ IsPrefix(src.from, p)
<1>1. o \in DOMAIN h /\ h[o].type = "hash" /\ MayHave(h, o, k)
  BY ObjectIs DEF Owning, MayHave
<1>2. Makes(h, made, Taken(h, src))
  BY MadeMakes
<1> HIDE DEF made
<1>3. Leaves(h, made.heap, Taken(h, src))
  BY <1>2 DEF Makes
<1>4. ASSUME ~ knot PROVE Rests(made.heap, o)
  <2>1. At(h, Slot(h, p)).type \in Owning
    BY DEF Owning
  <2> QED
    BY <2>1, <1>3, <1>4, ObjectRests
<1>5. k \notin DOMAIN h[o].slots
  OBVIOUS
<1> HIDE DEF o, knot
<1>6. Keeps(h, Put(made.heap, << o, k >>, made.value), knot)
  BY <1>1, <1>2, <1>4, <1>5, PlacedSound DEF Keeps
<1> QED
  BY <1>6 DEF o, made, knot

\* emplace under a key that is there.
LEMMA KeptKeeps ==
  ASSUME NEW h, Sound(h, Null), NEW src, IsSource(h, src), Needs(h, src) <= Cardinality(Unused(h)),
         NEW s, NEW g \in Kept(h, Made(h, src), s)
  PROVE  Keeps(h, g, FALSE)
<1>1. Makes(h, Made(h, src), Taken(h, src))
  BY MadeMakes
<1>2. CASE g = h
  BY <1>2 DEF Keeps
<1>3. CASE g = Destroyed(Made(h, src).heap, Made(h, src).value)
  BY <1>1, <1>3, DestroyedSound, DestroyedRooted DEF Keeps, Makes
<1> QED
  BY <1>2, <1>3 DEF Kept

-----------------------------------------------------------------------------
(* Steps.                                                                  *)

\* A statement that keeps the heap in order, or leaves it undefined.
Orderly == \E knot \in BOOLEAN : Keeps(heap, heap', knot) /\ (knotted' <=> (knotted \/ knot))

\* Statements that make a JVar.
LEMMA MakingIsOrderly ==
  ASSUME Sound(heap, Null), NEW src \in Source(Places(heap))
  PROVE  /\ \A v \in Var : Construct(v, src) => Orderly
         /\ \A p \in Places(heap) : Assign(p, src) => Orderly
         /\ \A p \in Places(heap) : Add(p, src) => Orderly
         /\ \A p \in Places(heap), k \in Name : AddKey(p, k, src) => Orderly \/ ~ Defined'
<1>1. IsSource(heap, src)
  BY SourcesAre
<1>2. ASSUME NEW v \in Var, Construct(v, src) PROVE Orderly
  <2>1. heap' = Put(Made(heap, src).heap, << Frame, v >>, Made(heap, src).value) /\ knotted' = knotted
    BY <1>2 DEF Construct
  <2>2. Keeps(heap, heap', FALSE)
    BY <1>1, <1>2, <2>1, ConstructKeeps DEF Construct
  <2> QED
    BY <2>1, <2>2 DEF Orderly
<1>3. ASSUME NEW p \in Places(heap), Assign(p, src) PROVE Orderly
  <2> DEFINE knot == src.how = "move" /\ IsStrictPrefix(src.from, p)
  <2>1. PICK t : Leads(heap, p, t)
    BY PlacesLead
  <2>2. heap' = Assigned(Made(heap, src), Slot(heap, p)) /\ knotted' = (knotted \/ knot)
    BY <1>3 DEF Assign, Ties
  <2>3. Needs(heap, src) <= Cardinality(Unused(heap))
    BY <1>3 DEF Assign
  <2>4. Keeps(heap, heap', knot)
    BY <1>1, <2>1, <2>2, <2>3, AssignKeeps
  <2> HIDE DEF knot
  <2>5. knot \in BOOLEAN
    BY DEF knot
  <2> QED
    BY <2>2, <2>4, <2>5 DEF Orderly
<1>4. ASSUME NEW p \in Places(heap), NEW type \in { "array", "hash" },
             At(heap, Slot(heap, p)).type \in { "null", type }, CanAdd(p, src, type)
      PROVE  LET h == Ready(heap, p, type) IN
             /\ Keeps(heap, h, FALSE) /\ Sound(h, Null) /\ IsSource(h, src)
             /\ \E t : Leads(h, p, t)
             /\ At(h, Slot(h, p)).type = type /\ Needs(h, src) <= Cardinality(Unused(h))
  <2>1. PICK t : Leads(heap, p, t)
    BY PlacesLead
  <2> DEFINE h == Ready(heap, p, type)
  <2>2. Needs(h, src) <= Cardinality(Unused(h)) /\ (At(heap, Slot(heap, p)).type = "null" => Unused(heap) # {})
    BY <1>4 DEF CanAdd
  <2>3. /\ Keeps(heap, h, FALSE) /\ \A q, u : Leads(heap, q, u) => Leads(h, q, u)
        /\ At(h, Slot(h, p)).type = type
    BY <1>4, <2>1, <2>2, ReadyKeeps
  <2> HIDE DEF h
  <2>4. IsSource(h, src)
    BY <1>1, <2>3, ReadyHasSource
  <2>5. Leads(h, p, t) /\ Sound(h, Null)
    BY <2>1, <2>3 DEF Keeps
  <2> QED
    BY <2>2, <2>3, <2>4, <2>5 DEF h
<1>5. ASSUME NEW p \in Places(heap), Add(p, src) PROVE Orderly
  <2> DEFINE h == Ready(heap, p, "array")
             knot == src.how = "move" /\ IsPrefix(src.from, p)
  <2>1. /\ heap' = Appended(Made(h, src), ObjectAt(h, p)) /\ knotted' = (knotted \/ knot)
        /\ At(heap, Slot(heap, p)).type \in { "null", "array" } /\ CanAdd(p, src, "array")
    BY <1>5 DEF Add, Ties
  <2>2. /\ Keeps(heap, h, FALSE) /\ Sound(h, Null) /\ IsSource(h, src) /\ \E t : Leads(h, p, t)
        /\ At(h, Slot(h, p)).type = "array" /\ Needs(h, src) <= Cardinality(Unused(h))
    BY <1>4, <2>1
  <2> HIDE DEF h
  <2>3. Keeps(h, heap', knot)
    BY <2>1, <2>2, AppendKeeps
  <2>4. knot \in BOOLEAN
    OBVIOUS
  <2> HIDE DEF knot
  <2>5. Keeps(heap, heap', knot)
    BY <2>2, <2>3 DEF Keeps
  <2> QED
    BY <2>1, <2>4, <2>5 DEF Orderly
<1>6. ASSUME NEW p \in Places(heap), NEW k \in Name, AddKey(p, k, src) PROVE Orderly \/ ~ Defined'
  <2> DEFINE h == Ready(heap, p, "hash")
             o == ObjectAt(h, p)
             made == Made(h, src)
             knot == src.how = "move" /\ IsPrefix(src.from, p)
  <2>1. /\ At(heap, Slot(heap, p)).type \in { "null", "hash" } /\ CanAdd(p, src, "hash")
        /\ knotted' = (knotted \/ knot)
    BY <1>6 DEF AddKey, Ties
  <2>2. \/ k \notin DOMAIN h[o].slots /\ heap' = Put(made.heap, << o, k >>, made.value)
        \/ k \in DOMAIN h[o].slots /\ heap' \in Kept(h, made, << o, k >>)
    BY <1>6 DEF AddKey
  <2>3. /\ Keeps(heap, h, FALSE) /\ Sound(h, Null) /\ IsSource(h, src) /\ \E t : Leads(h, p, t)
        /\ At(h, Slot(h, p)).type = "hash" /\ Needs(h, src) <= Cardinality(Unused(h))
    BY <1>4, <2>1
  <2> HIDE DEF h
  <2>4. ASSUME k \notin DOMAIN h[o].slots, heap' = Put(made.heap, << o, k >>, made.value)
        PROVE  Keeps(h, heap', knot)
    BY <2>3, <2>4, EmplaceKeeps
  <2>5. ASSUME heap' \in Kept(h, made, << o, k >>) PROVE Keeps(h, heap', FALSE)
    BY <2>3, <2>5, KeptKeeps
  <2>6. knot \in BOOLEAN
    OBVIOUS
  <2> HIDE DEF o, made, knot
  <2>7. Keeps(h, heap', knot)
    BY <2>2, <2>4, <2>5 DEF Keeps
  <2>8. Keeps(heap, heap', knot)
    BY <2>3, <2>7 DEF Keeps
  <2> QED
    BY <2>1, <2>6, <2>8 DEF Orderly
<1> QED
  BY <1>2, <1>3, <1>5, <1>6

\* The others.
LEMMA OthersAreOrderly ==
  ASSUME Sound(heap, Null)
  PROVE  /\ \A v \in Var : Destruct(v) => Orderly
         /\ \A v \in Var : ConstructFromVector(v) => ~ Defined'
         /\ \A p, q \in Places(heap) : Swap(p, q) => Orderly
         /\ \A p \in Places(heap), k \in Name : Index(p, k) => Orderly
         /\ \A p \in Places(heap) : Clear(p) => Orderly
         /\ \A p \in Places(heap) : Throws(p) => Orderly
         /\ \A p \in Places(heap), d \in Datum : Write(p, d) => Orderly
<1>1. Keeps(heap, heap, FALSE)
  BY DEF Keeps
<1>2. ASSUME knotted' = knotted, Keeps(heap, heap', FALSE) PROVE Orderly
  BY <1>2 DEF Orderly
<1>3. ASSUME NEW v \in Var, Destruct(v) PROVE Orderly
  <2> DEFINE left == [heap EXCEPT ![Frame].slots = [ x \in DOMAIN @ \ { v } |-> @[x] ]]
  <2>1. heap' = Destroyed(left, heap[Frame].slots[v]) /\ knotted' = knotted /\ v \in DOMAIN heap[Frame].slots
    BY <1>3 DEF Destruct
  <2>2. Keeps(heap, heap', FALSE)
    BY <2>1, DestructKeeps
  <2> QED
    BY <1>2, <2>1, <2>2
<1>4. ASSUME NEW v \in Var, ConstructFromVector(v) PROVE ~ Defined'
  BY <1>4 DEF ConstructFromVector, Defined
<1>5. ASSUME NEW p \in Places(heap), NEW q \in Places(heap), Swap(p, q) PROVE Orderly
  <2> DEFINE knot == IsStrictPrefix(p, q) \/ IsStrictPrefix(q, p)
  <2>1. heap' = Swapped(heap, Slot(heap, p), Slot(heap, q)) /\ knotted' = (knotted \/ knot)
    BY <1>5 DEF Swap, Ties
  <2>2. (\E t : Leads(heap, p, t)) /\ \E u : Leads(heap, q, u)
    BY PlacesLead
  <2>3. Keeps(heap, heap', knot)
    BY <2>1, <2>2, SwapKeeps
  <2>4. knot \in BOOLEAN
    BY DEF IsStrictPrefix
  <2> HIDE DEF knot
  <2> QED
    BY <2>1, <2>3, <2>4 DEF Orderly
<1>6. ASSUME NEW p \in Places(heap), NEW k \in Name, Index(p, k) PROVE Orderly
  <2>1. PICK t : Leads(heap, p, t)
    BY PlacesLead
  <2> DEFINE o == ObjectAt(heap, p)
  <2>2. /\ At(heap, Slot(heap, p)).type = "hash" /\ knotted' = knotted
        /\ heap' = IF k \in DOMAIN heap[o].slots THEN heap ELSE Put(heap, << o, k >>, Null)
    BY <1>6 DEF Index
  <2>3. CASE k \in DOMAIN heap[o].slots
    BY <1>1, <1>2, <2>2, <2>3
  <2>4. CASE k \notin DOMAIN heap[o].slots
    <3>1. Keeps(heap, heap', FALSE)
      BY <2>1, <2>2, <2>4, IndexKeeps
    <3> QED
      BY <1>2, <2>2, <3>1
  <2> QED
    BY <2>3, <2>4
<1>7. ASSUME NEW p \in Places(heap), Clear(p) PROVE Orderly
  <2>1. PICK t : Leads(heap, p, t)
    BY PlacesLead
  <2> DEFINE v == At(heap, Slot(heap, p))
  <2>2. /\ knotted' = knotted
        /\ heap' = IF v.type \notin { "array", "hash" } THEN heap
                   ELSE [ o \in DOMAIN heap \ (Reach(heap, v) \ { v.raw }) |->
                            IF o = v.raw THEN Contents(v.type, NoDatum) ELSE heap[o] ]
    BY <1>7 DEF Clear
  <2>3. CASE v.type \notin { "array", "hash" }
    BY <1>1, <1>2, <2>2, <2>3
  <2>4. CASE v.type \in { "array", "hash" }
    <3>1. Keeps(heap, heap', FALSE)
      BY <2>1, <2>2, <2>4, ClearKeeps
    <3> QED
      BY <1>2, <2>2, <3>1
  <2> QED
    BY <2>3, <2>4
<1>8. ASSUME NEW p \in Places(heap), Throws(p) PROVE Orderly
  BY <1>1, <1>2, <1>8 DEF Throws
<1>9. ASSUME NEW p \in Places(heap), NEW d \in Datum, Write(p, d) PROVE Orderly
  <2>1. PICK t : Leads(heap, p, t)
    BY PlacesLead
  <2> DEFINE s == Slot(heap, p)
             v == At(heap, s)
  <2>2. /\ knotted' = knotted /\ v.type \in Simple \cup { "string" }
        /\ heap' = IF v.type = "string" THEN [heap EXCEPT ![v.raw].datum = d]
                   ELSE Put(heap, s, [v EXCEPT !.raw = d])
    BY <1>9 DEF Write
  <2>3. Keeps(heap, heap', FALSE)
    BY <2>1, <2>2, WriteKeeps
  <2> QED
    BY <1>2, <2>2, <2>3
<1> QED
  BY <1>3, <1>4, <1>5, <1>6, <1>7, <1>8, <1>9

\* A program begins with an empty frame.
LEMMA HeapInit == Init => HeapInv
<1> SUFFICES ASSUME Init PROVE HeapInv
  OBVIOUS
<1>1. DOMAIN heap = { Frame } /\ heap[Frame] = Contents("frame", NoDatum)
  BY DEF Init
<1>2. /\ DOMAIN heap[Frame] = { "type", "datum", "slots" } /\ heap[Frame].type = "frame"
      /\ heap[Frame].datum = NoDatum /\ heap[Frame].slots = << >>
  BY <1>1 DEF Contents
<1>3. DOMAIN heap[Frame].slots = {}
  BY <1>2
<1>4. Fits(Frame, heap[Frame])
  BY <1>2, <1>3 DEF Fits
<1>5. Typed(heap)
  BY <1>1, <1>3, <1>4 DEF Typed
<1>6. Single(heap, Null)
  BY <1>1, <1>3, NullFits, Tags DEF Single
<1>7. Rooted(heap, Null)
  BY <1>1 DEF Rooted
<1> QED
  BY <1>5, <1>6, <1>7, NullFits DEF HeapInv, Sound

\* Every step keeps the invariant.
LEMMA HeapStep == HeapInv /\ [Next]_vars => HeapInv'
<1> SUFFICES ASSUME HeapInv, [Next]_vars PROVE HeapInv'
  OBVIOUS
<1>1. CASE UNCHANGED vars
  BY <1>1 DEF vars, HeapInv, Defined
<1>2. CASE Next
  <2>1. Defined
    BY <1>2 DEF Next, Defined
  <2>2. Sound(heap, Null) /\ (~ knotted => Rooted(heap, Null))
    BY <2>1 DEF HeapInv
  <2>3. Orderly \/ ~ Defined'
    BY <1>2, <2>2, MakingIsOrderly, OthersAreOrderly DEF Next
  <2>4. ASSUME Orderly PROVE Sound(heap', Null) /\ (~ knotted' => Rooted(heap', Null))
    BY <2>2, <2>4 DEF Orderly, Keeps
  <2> QED
    BY <2>3, <2>4 DEF HeapInv
<1> QED
  BY <1>1, <1>2

-----------------------------------------------------------------------------
(* What the invariant says about the properties.                           *)

\* Contents that fit have the slots of their kind.
LEMMA InvImpliesTypeOK == HeapInv => TypeOK
<1> SUFFICES ASSUME HeapInv, Defined, NEW o \in DOMAIN heap
             PROVE  /\ o \in Object \cup { Frame }
                    /\ heap[o].type \in { "frame" } \cup Owning
                    /\ heap[o].datum \in (IF heap[o].type = "string" THEN Datum ELSE { NoDatum })
                    /\ DOMAIN heap[o].slots = CASE heap[o].type = "array" -> 1 .. Len(heap[o].slots)
                                                [] heap[o].type = "hash" -> DOMAIN heap[o].slots \cap Name
                                                [] heap[o].type = "string" -> {}
                                                [] OTHER -> DOMAIN heap[o].slots \cap Var
                    /\ \A i \in DOMAIN heap[o].slots :
                         LET v == heap[o].slots[i] IN
                         /\ v.type \in Type
                         /\ v.type \in Simple => v.raw \in Datum
                         /\ v = Null \/ v.type # "null"
  BY DEF TypeOK
<1> DEFINE c == heap[o]
<1>1. Typed(heap) /\ Fits(o, c) /\ o \in Object \cup { Frame }
  BY DEF HeapInv, Sound, Typed
<1>2. ASSUME NEW i \in DOMAIN heap[o].slots
      PROVE  LET v == heap[o].slots[i] IN
             v.type \in Type /\ (v.type \in Simple => v.raw \in Datum) /\ (v = Null \/ v.type # "null")
  <2> DEFINE v == heap[o].slots[i]
  <2>1. Holds(heap, v)
    BY <1>1 DEF Typed
  <2> HIDE DEF v
  <2>2. v \in JVars /\ (v.type = "null" => v.raw = NoDatum)
    BY <2>1 DEF Holds
  <2>3. v.type \in Type
    BY <2>2 DEF JVars
  <2>4. v.type = "null" => v = Null
    BY <2>2, NullIsOne
  <2> QED
    BY <2>1, <2>3, <2>4 DEF Holds, v
<1> HIDE DEF c
<1>3. /\ c.type \in { "frame", "string", "array", "hash" }
      /\ c.datum \in (IF c.type = "string" THEN Datum ELSE { NoDatum })
  BY <1>1 DEF Fits, Owning
<1>4. DOMAIN c.slots = CASE c.type = "array" -> 1 .. Len(c.slots)
                         [] c.type = "hash" -> DOMAIN c.slots \cap Name
                         [] c.type = "string" -> {}
                         [] OTHER -> DOMAIN c.slots \cap Var
  <2>1. c.type = "array" => DOMAIN c.slots = 1 .. Len(c.slots)
    BY <1>1 DEF Fits
  <2>2. c.type = "hash" => DOMAIN c.slots = DOMAIN c.slots \cap Name
    BY <1>1 DEF Fits
  <2>3. c.type = "string" => DOMAIN c.slots = {}
    BY <1>1 DEF Fits
  <2>4. c.type = "frame" => DOMAIN c.slots = DOMAIN c.slots \cap Var
    BY <1>1 DEF Fits
  <2> QED
    BY <2>1, <2>2, <2>3, <2>4, <1>3
<1> QED
  BY <1>1, <1>2, <1>3, <1>4 DEF c, Owning

\* The owners of an object are one slot.
LEMMA InvImpliesOneOwner == HeapInv => OneOwner
<1> SUFFICES ASSUME HeapInv, Defined PROVE OneOwner
  BY DEF OneOwner
<1>1. Sound(heap, Null) /\ Typed(heap)
  BY DEF HeapInv, Sound
<1>2. ASSUME NEW o \in DOMAIN heap \ { Frame } PROVE Cardinality(Owner(o)) = 1
  <2>1. PICK x \in DOMAIN heap : \E i \in DOMAIN heap[x].slots : Owns(heap[x].slots[i], o)
    BY <1>1, NullFits, OwnedMeans DEF Sound, Single
  <2>2. PICK i \in DOMAIN heap[x].slots : Owns(heap[x].slots[i], o)
    BY <2>1
  <2>3. << x, i >> \in Owner(o)
    <3>1. << x, i >> \in { x } \X DOMAIN heap[x].slots
      OBVIOUS
    <3>2. << x, i >> \in UNION { { z } \X DOMAIN heap[z].slots : z \in DOMAIN heap }
      BY <3>1
    <3>3. o \in Owned(At(heap, << x, i >>))
      BY <2>2, OwnedMeans DEF At
    <3> QED
      BY <3>2, <3>3 DEF Owner
  <2>4. ASSUME NEW s \in Owner(o) PROVE s = << x, i >>
    <3>1. PICK y \in DOMAIN heap : s \in { y } \X DOMAIN heap[y].slots
      BY DEF Owner
    <3>2. PICK j \in DOMAIN heap[y].slots : s = << y, j >>
      BY <3>1
    <3>3. o \in Owned(At(heap, s))
      BY DEF Owner
    <3>4. Owns(heap[y].slots[j], o)
      BY <3>2, <3>3, OwnedMeans DEF At
    <3>5. y = x /\ j = i
      BY <1>1, <2>2, <3>4, OwnersAreOne
    <3> QED
      BY <3>2, <3>5
  <2>5. Owner(o) = { << x, i >> }
    BY <2>3, <2>4
  <2> QED
    BY <2>5, FS_Singleton
<1>3. ASSUME NEW x \in DOMAIN heap, NEW i \in DOMAIN heap[x].slots, heap[x].slots[i].type \in Owning
      PROVE  /\ heap[x].slots[i].raw \in DOMAIN heap
             /\ heap[heap[x].slots[i].raw].type = heap[x].slots[i].type
  BY <1>1, <1>3 DEF Typed, Holds
<1> QED
  BY <1>2, <1>3 DEF OneOwner

\* The frame and what its slots reach is closed, and so it is all there is.
LEMMA InvImpliesNoLeak == HeapInv => NoLeak
<1> SUFFICES ASSUME HeapInv, Defined, ~ knotted
             PROVE  DOMAIN heap = { Frame } \cup UNION { Reach(heap, heap[Frame].slots[v]) :
                                                       v \in DOMAIN heap[Frame].slots }
  BY DEF NoLeak
<1> DEFINE B(v) == Reach(heap, heap[Frame].slots[v])
           U == UNION { B(v) : v \in DOMAIN heap[Frame].slots }
           T == { Frame } \cup U
<1>1. Typed(heap) /\ Rooted(heap, Null) /\ Frame \in DOMAIN heap
  BY DEF HeapInv, Sound, Typed
<1>2. ASSUME NEW v \in DOMAIN heap[Frame].slots
      PROVE  B(v) \subseteq DOMAIN heap /\ Owned(heap[Frame].slots[v]) \subseteq B(v) /\ Closed(heap, B(v))
  <2>1. Holds(heap, heap[Frame].slots[v])
    BY <1>1 DEF Typed
  <2> QED
    BY <1>1, <2>1, ReachIsLeast
<1> HIDE DEF B
<1>3. T \in SUBSET DOMAIN heap /\ Frame \in T
  BY <1>1, <1>2
<1>4. ASSUME NEW x \in T, NEW i \in DOMAIN heap[x].slots PROVE Owned(heap[x].slots[i]) \subseteq T
  <2>1. CASE x = Frame
    BY <1>2, <2>1
  <2>2. CASE x \in U
    <3>1. PICK v \in DOMAIN heap[Frame].slots : x \in B(v)
      BY <2>2
    <3>2. Owned(heap[x].slots[i]) \subseteq B(v)
      BY <1>2, <3>1 DEF Closed
    <3> QED
      BY <3>2
  <2> QED
    BY <2>1, <2>2
<1>5. Closed(heap, T)
  BY <1>4 DEF Closed
<1>6. T = DOMAIN heap
  <2> HIDE DEF T
  <2> QED
    BY <1>1, <1>3, <1>5, NullFits DEF Rooted
<1> QED
  BY <1>6 DEF B

\* The invariant holds in every state.
LEMMA HeapInvariant == Spec => []HeapInv
BY HeapInit, HeapStep, PTL DEF Spec

\* Every tag goes with contents of its kind: no member of the union is read as another, and no
\* object is used as one of another type.
THEOREM JVarTypeCorrect == Spec => []TypeOK
BY HeapInvariant, InvImpliesTypeOK, PTL

\* Nothing is deleted twice, or used after it was deleted: each object has one owner, and each
\* owner its object, whatever is copied, moved, swapped, added or cleared.
THEOREM OneOwnerCorrect == Spec => []OneOwner
BY HeapInvariant, InvImpliesOneOwner, PTL

\* Nothing leaks, unless a JVar was moved or swapped into itself: every object lies below a
\* variable, whose destructor will delete it.
THEOREM NoLeakCorrect == Spec => []NoLeak
BY HeapInvariant, InvImpliesNoLeak, PTL
=============================================================================
