---------------------------- MODULE JsonParserProofs ----------------------------
(***************************************************************************)
(* Theorems about JsonParser, for every structure of builders, every text  *)
(* and every way of cutting it into pieces, and any number of documents.   *)
(***************************************************************************)
EXTENDS JsonParser, JsonCheckerProofs, FiniteSetTheorems

-----------------------------------------------------------------------------
(* Addresses.                                                              *)

Place == Nat \cup Key \cup [type : { "element" }, nth : Nat \ {0}]
Address == Seq(Place)

\* The builder of what lies at a place in an object of builder b.
Under(b, x) == IF b = Mock THEN Mock
               ELSE IF Kind[b] = "vector" THEN Visitor[b]
               ELSE IF Kind[b] = "object" THEN MemberOf(b, x)
               ELSE Mock

\* The builder of an address: the root's, or the one found one place further down.
IsBuilderAt(t) ==
  /\ t \in [Address -> Builder \cup { Mock }]
  /\ \A a \in Address : t[a] = IF Len(a) <= 1 THEN Root ELSE Under(t[Front(a)], Last(a))
BuilderAt == CHOOSE t : IsBuilderAt(t)

\* Below a builder's object lie objects of builders, or nothing that has one.
LEMMA UnderIsBuilder ==
  ASSUME NEW b \in Builder \cup { Mock }, NEW x
  PROVE  Under(b, x) \in Builder \cup { Mock }
BY BuilderTree DEF Under, MemberOf

\* There is such a function: apply the definition as often as an address is long.
LEMMA BuilderAtExists == IsBuilderAt(BuilderAt)
<1> DEFINE S == [Address -> Builder \cup { Mock }]
           Deeper(t) == [a \in Address |-> IF Len(a) <= 1 THEN Root ELSE Under(t[Front(a)], Last(a))]
           F == [t \in S |-> Deeper(t)]
           x == [a \in Address |-> Root]
<1>1. \A a \in Address : Len(a) \in Nat /\ (Len(a) > 1 => Front(a) \in Address /\ Len(Front(a)) = Len(a) - 1)
  <2> SUFFICES ASSUME NEW a \in Address
               PROVE  Len(a) \in Nat /\ (Len(a) > 1 => Front(a) \in Address /\ Len(Front(a)) = Len(a) - 1)
    OBVIOUS
  <2>1. Len(a) \in Nat /\ (Len(a) > 1 => a # << >>)
    BY EmptySeq DEF Address
  <2> QED
    BY <2>1, FrontProperties DEF Address
<1>2. \A t \in S : Deeper(t) \in S
  <2> SUFFICES ASSUME NEW t \in S, NEW a \in Address
               PROVE  (IF Len(a) <= 1 THEN Root ELSE Under(t[Front(a)], Last(a))) \in Builder \cup { Mock }
    OBVIOUS
  <2>1. CASE Len(a) <= 1
    BY <2>1, BuilderTree
  <2>2. CASE ~ (Len(a) <= 1)
    <3>1. Front(a) \in Address
      BY <1>1, <2>2
    <3>2. t[Front(a)] \in Builder \cup { Mock }
      BY <3>1
    <3> QED
      BY <2>2, <3>2, UnderIsBuilder
  <2> QED
    BY <2>1, <2>2
<1>3. F \in [S -> S] /\ x \in S
  BY <1>2, BuilderTree
<1>4. PICK f \in [Nat -> S] : f[0] = x /\ \A n \in Nat : f[n + 1] = F[f[n]]
  <2> HIDE DEF F, S, x
  <2>1. \E f \in [Nat -> S] : Iterates(f, F, x)
    BY <1>3, Iteration
  <2> QED
    BY <2>1 DEF Iterates
<1>5. \A n \in Nat : f[n] \in S /\ f[n + 1] = Deeper(f[n])
  BY <1>4
<1> DEFINE t == [a \in Address |-> f[Len(a)][a]]
<1>6. t \in S
  BY <1>1, <1>5
<1>7. ASSUME NEW a \in Address
      PROVE  t[a] = IF Len(a) <= 1 THEN Root ELSE Under(t[Front(a)], Last(a))
  <2>1. CASE Len(a) = 0
    BY <1>4, <2>1
  <2>2. CASE Len(a) > 0
    <3> DEFINE n == Len(a) - 1
    <3>1. n \in Nat /\ n + 1 = Len(a)
      BY <1>1, <2>2
    <3>2. t[a] = Deeper(f[n])[a]
      BY <1>5, <3>1
    <3>3. t[a] = IF Len(a) <= 1 THEN Root ELSE Under(f[n][Front(a)], Last(a))
      BY <3>2
    <3>4. Len(a) > 1 => t[Front(a)] = f[n][Front(a)]
      BY <1>1
    <3> HIDE DEF t, n
    <3> QED
      BY <1>1, <3>3, <3>4
  <2> QED
    BY <1>1, <2>1, <2>2
<1>8. IsBuilderAt(t)
  <2> HIDE DEF t
  <2> QED
    BY <1>6, <1>7 DEF IsBuilderAt
<1> QED
  <2> HIDE DEF t
  <2> QED
    BY <1>8 DEF BuilderAt

-----------------------------------------------------------------------------
(* Cursors and elements.                                                   *)

CursorSet == [key : Key, obj : Address, type : Builder \cup { "other", "void" },
              rec : Builder \cup { Mock }]

\* A cursor into the target t, at an address of its builder.
GoodCursor(c, t) ==
  /\ c \in CursorSet /\ IsCursor(c)
  /\ c.rec # Mock => c.obj # Nowhere /\ c.obj[1] = t /\ BuilderAt[c.obj] = c.rec

Siblings(a, elements) == { e \in elements : Front(e) = a }

\* An element of a vector.
IsElement(e) == /\ e \in Address /\ e # << >> /\ Front(e) # Nowhere
                /\ Last(e) \in [type : { "element" }, nth : Nat \ {0}]
                /\ BuilderAt[Front(e)] \in Builder /\ Kind[BuilderAt[Front(e)]] = "vector"

\* The elements of a vector are numbered from 1 and none is left out.
Numbered(elements) ==
  /\ IsFiniteSet(elements)
  /\ \A e \in elements : IsElement(e) /\ Last(e).nth <= Cardinality(Siblings(Front(e), elements))

\* An address one place longer.
LEMMA LongerAddress ==
  ASSUME NEW a \in Address, a # Nowhere, NEW x \in Place
  PROVE  LET b == Append(a, x) IN
         /\ b \in Address /\ b # Nowhere /\ Len(b) = Len(a) + 1 /\ b[1] = a[1]
         /\ Front(b) = a /\ Last(b) = x /\ BuilderAt[b] = Under(BuilderAt[a], x)
<1> DEFINE b == Append(a, x)
<1>1. a \in Seq(Place) /\ Len(a) \in Nat \ {0}
  BY EmptySeq DEF Address, Nowhere
<1>2. /\ b \in Seq(Place) /\ Len(b) = Len(a) + 1 /\ b # << >>
      /\ \A i \in 1 .. Len(a) : b[i] = a[i]
  BY <1>1, AppendProperties
<1>3. Front(b) = a /\ Last(b) = x
  BY <1>1, FrontOfAppend, LastOfAppend
<1> HIDE DEF b
<1>4. b[1] = a[1]
  BY <1>1, <1>2
<1>5. BuilderAt[b] = Under(BuilderAt[a], x)
  <2>1. b \in Address /\ ~ (Len(b) <= 1)
    BY <1>1, <1>2 DEF Address
  <2> QED
    BY <1>3, <2>1, BuilderAtExists DEF IsBuilderAt
<1> QED
  BY <1>2, <1>3, <1>4, <1>5 DEF b, Address, Nowhere

\* emplace_back: the new element has a number above all others of its vector.
LEMMA NewElementIsLast ==
  ASSUME NEW elements, Numbered(elements), NEW a \in Address, a # Nowhere,
         BuilderAt[a] \in Builder, Kind[BuilderAt[a]] = "vector"
  PROVE  LET e == NewElement(a, elements) IN
         /\ IsElement(e) /\ e \notin elements
         /\ Front(e) = a /\ Len(e) = Len(a) + 1 /\ e[1] = a[1]
         /\ Last(e) = Element(1 + Cardinality(Siblings(a, elements)))
         /\ \A f \in Siblings(a, elements) : Last(f).nth < Last(e).nth
         /\ BuilderAt[e] = Visitor[BuilderAt[a]]
<1> DEFINE n == 1 + Cardinality(Siblings(a, elements))
           e == NewElement(a, elements)
<1>1. n \in Nat \ {0} /\ Cardinality(Siblings(a, elements)) \in Nat
  <2>1. Siblings(a, elements) \in SUBSET elements
    BY DEF Siblings
  <2>2. Cardinality(Siblings(a, elements)) \in Nat
    BY <2>1, FS_Subset, FS_CardinalityType DEF Numbered
  <2> QED
    BY <2>2
<1>2. e = Append(a, Element(n))
  BY DEF NewElement, Siblings
<1> HIDE DEF n, e
<1>3. Element(n) \in [type : { "element" }, nth : Nat \ {0}] /\ Element(n) \in Place /\ Element(n).nth = n
  BY <1>1 DEF Element, Place
<1>4. /\ e \in Address /\ e # Nowhere /\ Len(e) = Len(a) + 1 /\ e[1] = a[1]
      /\ Front(e) = a /\ Last(e) = Element(n) /\ BuilderAt[e] = Under(BuilderAt[a], Element(n))
  BY <1>2, <1>3, LongerAddress
<1>5. IsElement(e)
  BY <1>3, <1>4 DEF IsElement, Nowhere
<1>6. \A f \in Siblings(a, elements) : Last(f).nth < n
  <2> SUFFICES ASSUME NEW f \in Siblings(a, elements) PROVE Last(f).nth < n
    OBVIOUS
  <2>1. Front(f) = a /\ f \in elements
    BY DEF Siblings
  <2>2. Last(f).nth <= Cardinality(Siblings(a, elements)) /\ Last(f).nth \in Nat
    BY <2>1 DEF Numbered, IsElement
  <2> QED
    BY <1>1, <2>2 DEF n
<1>7. e \notin elements
  <2>1. e \in elements => Last(e).nth < n
    BY <1>4, <1>6 DEF Siblings
  <2> QED
    BY <1>1, <1>3, <1>4, <2>1
<1>8. BuilderAt[e] = Visitor[BuilderAt[a]]
  BY <1>4, BuilderTree DEF Under
<1> QED
  BY <1>3, <1>4, <1>5, <1>6, <1>7, <1>8 DEF e, n

\* Elements that are new in each of some vectors keep the elements numbered.
LEMMA NewElementsAreNumbered ==
  ASSUME NEW elements, Numbered(elements), NEW made, IsFiniteSet(made),
         \A e \in made : IsElement(e) /\ e = NewElement(Front(e), elements)
  PROVE  Numbered(elements \cup made)
<1>1. IsFiniteSet(elements \cup made)
  BY FS_Union DEF Numbered
<1>2. ASSUME NEW a
      PROVE  /\ IsFiniteSet(Siblings(a, elements)) /\ Cardinality(Siblings(a, elements)) \in Nat
             /\ IsFiniteSet(Siblings(a, elements \cup made))
             /\ Cardinality(Siblings(a, elements \cup made)) \in Nat
             /\ Cardinality(Siblings(a, elements)) <= Cardinality(Siblings(a, elements \cup made))
  <2>1. /\ Siblings(a, elements) \in SUBSET elements
        /\ Siblings(a, elements \cup made) \in SUBSET (elements \cup made)
        /\ Siblings(a, elements) \in SUBSET Siblings(a, elements \cup made)
    BY DEF Siblings
  <2>2. IsFiniteSet(elements)
    BY DEF Numbered
  <2>3. IsFiniteSet(Siblings(a, elements)) /\ IsFiniteSet(Siblings(a, elements \cup made))
    BY <1>1, <2>1, <2>2, FS_Subset
  <2> QED
    BY <2>1, <2>3, FS_Subset, FS_CardinalityType
<1>3. ASSUME NEW e \in elements
      PROVE  IsElement(e) /\ Last(e).nth <= Cardinality(Siblings(Front(e), elements \cup made))
  <2>1. IsElement(e) /\ Last(e).nth <= Cardinality(Siblings(Front(e), elements)) /\ Last(e).nth \in Nat
    BY DEF Numbered, IsElement
  <2> QED
    BY <1>2, <2>1
<1>4. ASSUME NEW e \in made
      PROVE  IsElement(e) /\ Last(e).nth <= Cardinality(Siblings(Front(e), elements \cup made))
  <2> DEFINE a == Front(e)
  <2>1. /\ IsElement(e) /\ e = NewElement(a, elements)
        /\ a \in Address /\ a # Nowhere /\ BuilderAt[a] \in Builder /\ Kind[BuilderAt[a]] = "vector"
    <3>1. Front(e) \in Address
      BY FrontProperties DEF IsElement, Address
    <3> QED
      BY <3>1 DEF IsElement
  <2> HIDE DEF a
  <2>2. e \notin elements /\ Last(e) = Element(1 + Cardinality(Siblings(a, elements)))
    BY <2>1, NewElementIsLast
  <2>3. Siblings(a, elements) \cup { e } \in SUBSET Siblings(a, elements \cup made)
    BY DEF Siblings, a
  <2>4. Cardinality(Siblings(a, elements) \cup { e }) = Cardinality(Siblings(a, elements)) + 1
    <3>1. e \notin Siblings(a, elements)
      BY <2>2 DEF Siblings
    <3> QED
      BY <1>2, <3>1, FS_AddElement
  <2>5. Cardinality(Siblings(a, elements) \cup { e }) <= Cardinality(Siblings(a, elements \cup made))
    BY <1>2, <2>3, FS_Subset
  <2>6. Last(e).nth = 1 + Cardinality(Siblings(a, elements))
    BY <2>2 DEF Element
  <2> QED
    BY <1>2, <2>1, <2>4, <2>5, <2>6 DEF a
<1> QED
  BY <1>1, <1>3, <1>4 DEF Numbered

-----------------------------------------------------------------------------
(* What the builders do with a good cursor.                                *)

\* A mock is a good cursor with any key.
LEMMA MockIsGood ==
  ASSUME NEW k \in Key, NEW t
  PROVE  GoodCursor(MockCursor(k), t) /\ MockCursor(k).rec = Mock /\ MockCursor(k).key = k
<1>1. MockCursor(k) \in CursorSet
  <2>1. << >> \in Address
    BY DEF Address
  <2> QED
    BY <2>1 DEF MockCursor, CursorSet, Nowhere
<1> QED
  BY <1>1 DEF GoodCursor, IsCursor, MockCursor

\* A cursor made for a builder at its address is good.
LEMMA CursorIsGood ==
  ASSUME NEW k \in Key, NEW t, NEW a \in Address, a # Nowhere, a[1] = t,
         BuilderAt[a] \in Builder
  PROVE  LET c == Cursor(k, a, BuilderAt[a]) IN
         /\ GoodCursor(c, t) /\ c.key = k /\ c.obj = a /\ c.rec = BuilderAt[a] /\ c.type = c.rec
         /\ c.rec # Mock
<1>1. Cursor(k, a, BuilderAt[a]) \in CursorSet
  BY DEF Cursor, CursorSet
<1> QED
  BY <1>1, BuilderTree DEF GoodCursor, IsCursor, Cursor

\* Advance: the cursor of a container inside the object of c keeps the key, and points one
\* place further down, or is a mock.
LEMMA AdvanceIsGood ==
  ASSUME NEW t, NEW c, GoodCursor(c, t), NEW elements, Numbered(elements)
  PROVE  /\ GoodCursor(Advance(c, elements), t) /\ Advance(c, elements).key = c.key
         /\ Advance(c, elements).rec # Mock =>
              /\ c.rec # Mock /\ Advance(c, elements).type = Advance(c, elements).rec
              /\ Len(Advance(c, elements).obj) = Len(c.obj) + 1
              /\ \/ Kind[c.rec] = "vector" /\ Advance(c, elements).obj = NewElement(c.obj, elements)
                 \/ Kind[c.rec] = "object" /\ Advance(c, elements).obj = Append(c.obj, c.key)
         /\ \A e \in AdvanceMakes(c, elements) :
              /\ c.rec # Mock /\ IsElement(e) /\ e = NewElement(Front(e), elements)
              /\ Len(e) = Len(c.obj) + 1 /\ e = Advance(c, elements).obj
         /\ IsFiniteSet(AdvanceMakes(c, elements))
<1>1. c.key \in Key /\ c.obj \in Address /\ c.rec \in Builder \cup { Mock } /\ Mock \notin Builder
  BY BuilderTree DEF GoodCursor, CursorSet
<1>2. IsFiniteSet(AdvanceMakes(c, elements))
  BY FS_Singleton, FS_EmptySet DEF AdvanceMakes
<1>3. CASE c.rec = Mock \/ Kind[c.rec] \in SimpleKind
  <2>1. Advance(c, elements) = MockCursor(c.key) /\ AdvanceMakes(c, elements) = {}
    BY <1>3 DEF Advance, AdvanceMakes, SimpleKind
  <2> QED
    BY <1>1, <1>2, <2>1, MockIsGood
<1>4. CASE c.rec # Mock /\ Kind[c.rec] = "vector"
  <2> DEFINE e == NewElement(c.obj, elements)
  <2>1. c.rec \in Builder /\ c.obj # Nowhere /\ c.obj[1] = t /\ BuilderAt[c.obj] = c.rec
    BY <1>1, <1>4 DEF GoodCursor
  <2>2. /\ IsElement(e) /\ Front(e) = c.obj /\ Len(e) = Len(c.obj) + 1 /\ e[1] = t
        /\ BuilderAt[e] = Visitor[c.rec]
    BY <1>1, <1>4, <2>1, NewElementIsLast
  <2>3. Visitor[c.rec] \in Builder
    BY <1>4, <2>1, BuilderTree
  <2>4. Advance(c, elements) = Cursor(c.key, e, BuilderAt[e]) /\ AdvanceMakes(c, elements) = { e }
    BY <1>4, <2>2 DEF Advance, AdvanceMakes, SimpleKind
  <2>5. e = NewElement(Front(e), elements)
    BY <2>2
  <2> HIDE DEF e
  <2>6. e \in Address /\ e # Nowhere
    BY <2>2 DEF IsElement, Nowhere
  <2>7. /\ GoodCursor(Advance(c, elements), t) /\ Advance(c, elements).key = c.key
        /\ Advance(c, elements).type = Advance(c, elements).rec /\ Advance(c, elements).obj = e
    BY <1>1, <2>2, <2>3, <2>4, <2>6, CursorIsGood
  <2> QED
    BY <1>2, <1>4, <2>2, <2>4, <2>5, <2>7 DEF e
<1>5. CASE c.rec # Mock /\ Kind[c.rec] = "object"
  <2>1. c.rec \in Builder /\ c.obj # Nowhere /\ c.obj[1] = t /\ BuilderAt[c.obj] = c.rec
    BY <1>1, <1>5 DEF GoodCursor
  <2>2. AdvanceMakes(c, elements) = {}
    BY <1>5 DEF AdvanceMakes
  <2>3. CASE MemberOf(c.rec, c.key) = Mock
    <3>1. Advance(c, elements) = MockCursor(c.key)
      BY <1>5, <2>3 DEF Advance, SimpleKind
    <3> QED
      BY <1>1, <1>2, <2>2, <3>1, MockIsGood
  <2>4. CASE MemberOf(c.rec, c.key) # Mock
    <3> DEFINE a == Append(c.obj, c.key)
    <3>1. /\ a \in Address /\ a # Nowhere /\ Len(a) = Len(c.obj) + 1 /\ a[1] = t
          /\ BuilderAt[a] = Under(c.rec, c.key)
      BY <1>1, <2>1, LongerAddress DEF Place
    <3>2. Under(c.rec, c.key) = MemberOf(c.rec, c.key)
      BY <1>5 DEF Under
    <3>3. BuilderAt[a] \in Builder
      BY <1>1, <2>4, <3>1, <3>2, UnderIsBuilder
    <3>4. Advance(c, elements) = Cursor(c.key, a, BuilderAt[a])
      BY <1>5, <2>4, <3>1, <3>2 DEF Advance, SimpleKind
    <3> HIDE DEF a
    <3>5. /\ GoodCursor(Advance(c, elements), t) /\ Advance(c, elements).key = c.key
          /\ Advance(c, elements).type = Advance(c, elements).rec /\ Advance(c, elements).obj = a
      BY <1>1, <3>1, <3>3, <3>4, CursorIsGood
    <3> QED
      BY <1>2, <1>5, <2>2, <3>1, <3>5 DEF a
  <2> QED
    BY <2>3, <2>4
<1> QED
  BY <1>1, <1>3, <1>4, <1>5, BuilderTree

\* The calls of Data() inside one another end where they cannot leave once they are in.
LEMMA RouteIsReached ==
  ASSUME NEW S, NEW c, NEW elements, PassedOn([cursor |-> c, made |-> {}], elements) \in S,
         \A s \in S : PassedOn(s, elements) \in S
  PROVE  DataRoute(c, elements) \in S
<1> DEFINE first == [cursor |-> c, made |-> {}]
           T == S \cup { first }
           Calls[n \in Nat] == IF n = 0 THEN first ELSE PassedOn(Calls[n - 1], elements)
<1> HIDE DEF first
<1>1. PassedOn(first, elements) \in S
  BY DEF first
<1>2. \A s \in T : PassedOn(s, elements) \in S
  BY <1>1
<1>3. Calls = [n \in Nat |-> IF n = 0 THEN first ELSE PassedOn(Calls[n - 1], elements)]
  <2> DEFINE F == [s \in T |-> PassedOn(s, elements)]
  <2>1. F \in [T -> T] /\ first \in T
    BY <1>2
  <2>2. PICK f \in [Nat -> T] : Iterates(f, F, first)
    <3> HIDE DEF T, F
    <3> QED
      BY <2>1, Iteration
  <2>3. \A n \in Nat : f[n] = IF n = 0 THEN first ELSE PassedOn(f[n - 1], elements)
    <3> HIDE DEF T
    <3> SUFFICES ASSUME NEW n \in Nat, n # 0 PROVE f[n] = PassedOn(f[n - 1], elements)
      BY <2>2 DEF Iterates
    <3>1. n - 1 \in Nat /\ (n - 1) + 1 = n
      OBVIOUS
    <3>2. f[(n - 1) + 1] = F[f[n - 1]] /\ f[n - 1] \in T
      BY <2>2, <3>1 DEF Iterates
    <3> QED
      BY <3>1, <3>2
  <2>4. f = [n \in Nat |-> IF n = 0 THEN first ELSE PassedOn(f[n - 1], elements)]
    <3> HIDE DEF T
    <3> QED
      BY <2>2, <2>3
  <2> QED
    BY <2>4
<1>4. Nat \subseteq { n \in Nat : Calls[n + 1] \in S }
  <2> DEFINE P == { n \in Nat : Calls[n + 1] \in S }
  <2> HIDE DEF T, Calls
  <2>1. \A n \in Nat : Calls[n + 1] = PassedOn(Calls[n], elements)
    <3>1. \A n \in Nat : n + 1 \in Nat /\ n + 1 # 0 /\ (n + 1) - 1 = n
      OBVIOUS
    <3> QED
      BY <1>3, <3>1
  <2>2. 0 \in P
    <3>1. Calls[0] = first
      BY <1>3
    <3> QED
      BY <1>1, <2>1, <3>1
  <2>3. \A n \in Nat : n \in P => n + 1 \in P
    BY <2>1
  <2> HIDE DEF P
  <2>4. Nat \subseteq P
    BY <2>2, <2>3, SetInduction
  <2> QED
    BY <2>4 DEF P
<1>5. DataRoute(c, elements) = Calls[Cardinality(Builder)]
  BY DEF DataRoute, first
<1>6. PICK n \in Nat : Cardinality(Builder) = n + 1
  <2>1. Cardinality(Builder) \in Nat /\ Cardinality(Builder) # 0
    BY BuilderTree, FS_CardinalityType, FS_EmptySet
  <2>2. Cardinality(Builder) - 1 \in Nat /\ Cardinality(Builder) = (Cardinality(Builder) - 1) + 1
    BY <2>1
  <2> QED
    BY <2>2
<1> QED
  <2> HIDE DEF T, Calls
  <2> QED
    BY <1>4, <1>5, <1>6

\* The calls of Data() inside one another: they end at a good cursor with the same key, and
\* each vector on the way has one new element.
LEMMA RouteIsGood ==
  ASSUME NEW t, NEW c, GoodCursor(c, t), NEW elements, Numbered(elements)
  PROVE  LET route == DataRoute(c, elements) IN
         /\ GoodCursor(route.cursor, t)
         /\ IsFiniteSet(route.made)
         /\ \A e \in route.made : /\ IsElement(e) /\ e = NewElement(Front(e), elements)
                                  /\ c.rec # Mock /\ Len(e) > Len(c.obj)
<1> DEFINE S == { s \in [cursor : CursorSet, made : SUBSET Address] :
                   /\ GoodCursor(s.cursor, t)
                   /\ s.cursor.rec # Mock => c.rec # Mock /\ Len(s.cursor.obj) >= Len(c.obj)
                   /\ IsFiniteSet(s.made)
                   /\ \A e \in s.made : /\ IsElement(e) /\ e = NewElement(Front(e), elements)
                                        /\ c.rec # Mock /\ Len(e) > Len(c.obj) }
           first == [cursor |-> c, made |-> {}]
<1>1. first \in S
  <2>1. c \in CursorSet /\ Len(c.obj) \in Nat
    BY DEF GoodCursor, CursorSet, Address
  <2>2. first \in [cursor : CursorSet, made : SUBSET Address] /\ first.cursor = c /\ first.made = {}
    BY <2>1
  <2>3. /\ GoodCursor(first.cursor, t)
        /\ first.cursor.rec # Mock => c.rec # Mock /\ Len(first.cursor.obj) >= Len(c.obj)
    BY <2>1, <2>2
  <2>4. IsFiniteSet(first.made) /\ \A e \in first.made : FALSE
    BY <2>2, FS_EmptySet
  <2> HIDE DEF first
  <2> QED
    BY <2>2, <2>3, <2>4
<1>2. ASSUME NEW s \in S PROVE PassedOn(s, elements) \in S
  <2> DEFINE d == s.cursor
             made == AdvanceMakes(d, elements)
             next == PassedOn(s, elements)
  <2>1. /\ GoodCursor(d, t) /\ (d.rec # Mock => c.rec # Mock /\ Len(d.obj) >= Len(c.obj))
        /\ IsFiniteSet(s.made) /\ s.made \subseteq Address
        /\ \A e \in s.made : /\ IsElement(e) /\ e = NewElement(Front(e), elements)
                             /\ c.rec # Mock /\ Len(e) > Len(c.obj)
    BY <1>2
  <2>2. /\ GoodCursor(Advance(d, elements), t)
        /\ Advance(d, elements).rec # Mock =>
             d.rec # Mock /\ Len(Advance(d, elements).obj) = Len(d.obj) + 1
        /\ \A e \in made : /\ IsElement(e) /\ e = NewElement(Front(e), elements)
                           /\ d.rec # Mock /\ Len(e) = Len(d.obj) + 1
        /\ IsFiniteSet(made)
    BY <2>1, AdvanceIsGood
  <2>3. Len(d.obj) \in Nat /\ Len(c.obj) \in Nat
    BY <2>1 DEF GoodCursor, CursorSet, Address
  <2>4. /\ next.cursor = d \/ next.cursor = Advance(d, elements)
        /\ next.made = s.made \/ next.made = s.made \cup made
        /\ next = [cursor |-> next.cursor, made |-> next.made]
    BY DEF PassedOn, Passed
  <2>5. /\ GoodCursor(next.cursor, t) /\ next.cursor \in CursorSet
        /\ next.cursor.rec # Mock => c.rec # Mock /\ Len(next.cursor.obj) >= Len(c.obj)
    <3> HIDE DEF d, next, made, S
    <3>1. GoodCursor(next.cursor, t)
      BY <2>1, <2>2, <2>4
    <3>2. next.cursor.rec # Mock => c.rec # Mock /\ Len(next.cursor.obj) >= Len(c.obj)
      BY <2>1, <2>2, <2>3, <2>4
    <3> QED
      BY <3>1, <3>2 DEF GoodCursor
  <2>6. IsFiniteSet(next.made)
    <3> HIDE DEF d, next, made, S
    <3>1. IsFiniteSet(s.made \cup made)
      BY <2>1, <2>2, FS_Union
    <3> QED
      BY <2>1, <2>4, <3>1
  <2>7. \A e \in next.made : /\ IsElement(e) /\ e = NewElement(Front(e), elements)
                             /\ c.rec # Mock /\ Len(e) > Len(c.obj)
    <3> HIDE DEF d, next, made, S
    <3> SUFFICES ASSUME NEW e \in made
                 PROVE  /\ IsElement(e) /\ e = NewElement(Front(e), elements)
                        /\ c.rec # Mock /\ Len(e) > Len(c.obj)
      BY <2>1, <2>4
    <3> QED
      BY <2>1, <2>2, <2>3
  <2>8. next.made \subseteq Address
    BY <2>7 DEF IsElement
  <2> HIDE DEF d, next, made
  <2>9. next \in [cursor : CursorSet, made : SUBSET Address]
    BY <2>4, <2>5, <2>8
  <2> QED
    BY <2>5, <2>6, <2>7, <2>9 DEF next
<1>3. DataRoute(c, elements) \in S
  <2>1. PassedOn(first, elements) \in S
    BY <1>1, <1>2
  <2> HIDE DEF S
  <2> QED
    BY <1>2, <2>1, RouteIsReached
<1> QED
  BY <1>3

-----------------------------------------------------------------------------
(* The callback.                                                           *)

\* An exception keeps the first value of a tag: the expected type is not overwritten.
LEMMA ExpectedIsKept ==
  ASSUME NEW x, NEW y
  PROVE  Get(Added(Added(NoInfo, "ExpectedTypeInfo", x), "ActualTypeInfo", y), "ExpectedTypeInfo") = x
<1> DEFINE one == Added(NoInfo, "ExpectedTypeInfo", x)
<1>1. Tag["ExpectedTypeInfo"] = "ExpectedType" /\ Tag["ActualTypeInfo"] = "ExpectedType"
  BY DEF Tag
<1>2. DOMAIN NoInfo = {}
  BY DEF NoInfo
<1>3. DOMAIN one = { "ExpectedType" } /\ one["ExpectedType"] = x
  BY <1>1, <1>2 DEF Added
<1> HIDE DEF one
<1> QED
  BY <1>1, <1>3 DEF Added, Get, one

Fields == { "parser", "thrown", "key", "stack", "items", "wrote", "seen" }

\* q is p, but for what the callback decided.
Becomes(p, q, how, key, s, elements, wrote_) ==
  /\ DOMAIN q = Fields
  /\ q.parser = how /\ q.key = key /\ q.stack = s /\ q.items = elements /\ q.wrote = wrote_

\* An exception and a failed assertion leave all else as it was.
LEMMA StopsKeepsRest ==
  ASSUME NEW p, DOMAIN p = Fields, NEW how, NEW c
  PROVE  /\ Becomes(p, Stops(p, how), how, p.key, p.stack, p.items, p.wrote)
         /\ Becomes(p, Mismatched(p, c), "TypeMismatch", p.key, p.stack, p.items, p.wrote)
         /\ Get(Mismatched(p, c).thrown, "ExpectedTypeInfo") = c.rec
<1>1. Becomes(p, Stops(p, how), how, p.key, p.stack, p.items, p.wrote)
  BY DEF Stops, Fields, Becomes
<1>2. /\ Becomes(p, Mismatched(p, c), "TypeMismatch", p.key, p.stack, p.items, p.wrote)
      /\ Mismatched(p, c).thrown =
           Added(Added(NoInfo, "ExpectedTypeInfo", c.rec), "ActualTypeInfo", c.type)
  BY DEF Mismatched, Stops, Fields, Becomes
<1> QED
  BY <1>1, <1>2, ExpectedIsKept

\* The handlers on what they work on, by the field.
LEMMA OnKeyIs ==
  ASSUME NEW p, DOMAIN p = Fields, p.parser = "ok", NEW e
  PROVE  \/ /\ p.key # NoKey
            /\ Becomes(p, OnKey(p, e), "aborted", p.key, p.stack, p.items, p.wrote)
         \/ /\ e.text = Garbage
            /\ Becomes(p, OnKey(p, e), "logic_error", p.key, p.stack, p.items, p.wrote)
         \/ /\ p.key = NoKey /\ e.text # Garbage
            /\ Becomes(p, OnKey(p, e), "ok", NamedKey(e.text), p.stack, p.items, p.wrote)
<1>1. CASE p.key # NoKey
  BY <1>1, StopsKeepsRest DEF OnKey
<1>2. CASE p.key = NoKey /\ e.text = Garbage
  BY <1>2, StopsKeepsRest DEF OnKey
<1>3. CASE p.key = NoKey /\ e.text # Garbage
  <2>1. OnKey(p, e) = [p EXCEPT !.key = NamedKey(e.text)]
    BY <1>3 DEF OnKey
  <2>2. Becomes(p, [p EXCEPT !.key = NamedKey(e.text)], "ok", NamedKey(e.text), p.stack, p.items, p.wrote)
    BY DEF Becomes, Fields
  <2> QED
    BY <1>3, <2>1, <2>2
<1> QED
  BY <1>1, <1>2, <1>3

\* At the start of a container: the root, or what Advance makes of the next cursor.
LEMMA OnStartIs ==
  ASSUME NEW p, DOMAIN p = Fields, p.parser = "ok", NEW e
  PROVE  LET c == NextCursor(p)
             q == OnStart(p, e)
         IN
         \/ /\ p.stack = << >>
            /\ Becomes(p, q, "ok", StartKey(p.key, e.type), << m_root >>, p.items, p.wrote)
         \/ /\ p.stack # << >> /\ p.key = NoKey
            /\ Becomes(p, q, "aborted", p.key, p.stack, p.items, p.wrote)
         \/ /\ p.stack # << >> /\ p.key # NoKey /\ AdvanceMismatch(c)
            /\ Becomes(p, q, "TypeMismatch", p.key, p.stack, p.items, p.wrote)
            /\ Get(q.thrown, "ExpectedTypeInfo") = c.rec
         \/ /\ p.stack # << >> /\ p.key # NoKey /\ ~ AdvanceMismatch(c)
            /\ Becomes(p, q, "ok", StartKey(p.key, e.type), Append(p.stack, Advance(c, p.items)),
                       p.items \cup AdvanceMakes(c, p.items), p.wrote)
<1> DEFINE c == NextCursor(p)
<1>1. CASE p.stack = << >>
  <2>1. OnStart(p, e) = [p EXCEPT !.stack = << m_root >>, !.key = StartKey(@, e.type)]
    BY <1>1 DEF OnStart
  <2>2. Becomes(p, [p EXCEPT !.stack = << m_root >>, !.key = StartKey(@, e.type)], "ok",
                StartKey(p.key, e.type), << m_root >>, p.items, p.wrote)
    BY DEF Becomes, Fields
  <2> QED
    BY <1>1, <2>1, <2>2
<1>2. CASE p.stack # << >> /\ p.key = NoKey
  BY <1>2, StopsKeepsRest DEF OnStart
<1>3. CASE p.stack # << >> /\ p.key # NoKey /\ AdvanceMismatch(c)
  BY <1>3, StopsKeepsRest DEF OnStart
<1>4. CASE p.stack # << >> /\ p.key # NoKey /\ ~ AdvanceMismatch(c)
  <2> DEFINE q == [p EXCEPT !.stack = Append(@, Advance(c, p.items)),
                            !.items = @ \cup AdvanceMakes(c, p.items),
                            !.key = StartKey(@, e.type)]
  <2>1. OnStart(p, e) = q
    BY <1>4 DEF OnStart
  <2>2. Becomes(p, q, "ok", StartKey(p.key, e.type), Append(p.stack, Advance(c, p.items)),
                p.items \cup AdvanceMakes(c, p.items), p.wrote)
    BY DEF Becomes, Fields
  <2> HIDE DEF q
  <2> QED
    BY <1>4, <2>1, <2>2
<1> QED
  BY <1>1, <1>2, <1>3, <1>4

\* At the end of one: its cursor goes, and its key is finished.
LEMMA OnEndIs ==
  ASSUME NEW p, DOMAIN p = Fields, p.parser = "ok", NEW e
  PROVE  \/ /\ p.stack = << >> \/ Last(p.stack).key = NoKey
            /\ Becomes(p, OnEnd(p, e), "aborted", p.key, p.stack, p.items, p.wrote)
         \/ /\ p.stack # << >> /\ Last(p.stack).key # NoKey
            /\ Becomes(p, OnEnd(p, e), "ok", Finished(Last(p.stack).key), Front(p.stack),
                       p.items, p.wrote)
<1>1. CASE p.stack = << >> \/ Last(p.stack).key = NoKey
  BY <1>1, StopsKeepsRest DEF OnEnd
<1>2. CASE p.stack # << >> /\ Last(p.stack).key # NoKey
  <2> DEFINE q == [p EXCEPT !.stack = Front(@), !.key = Finished(Last(p.stack).key)]
  <2>1. OnEnd(p, e) = q
    BY <1>2 DEF OnEnd
  <2>2. Becomes(p, q, "ok", Finished(Last(p.stack).key), Front(p.stack), p.items, p.wrote)
    BY DEF Becomes, Fields
  <2> HIDE DEF q
  <2> QED
    BY <1>2, <2>1, <2>2
<1> QED
  BY <1>1, <1>2

\* At a scalar: Data() of the innermost builder, with the next key.
LEMMA OnValueIs ==
  ASSUME NEW p, DOMAIN p = Fields, p.parser = "ok", NEW e
  PROVE  LET c == NextCursor(p)
             q == OnValue(p, e)
             route == DataRoute(c, p.items)
         IN
         \/ /\ p.stack = << >> \/ CheckFails(c)
            /\ Becomes(p, q, "aborted", p.key, p.stack, p.items, p.wrote)
         \/ /\ p.stack # << >> /\ ~ CheckFails(c) /\ Mismatch(c)
            /\ Becomes(p, q, "TypeMismatch", p.key, p.stack, p.items, p.wrote)
            /\ Get(q.thrown, "ExpectedTypeInfo") = c.rec
         \/ /\ p.stack # << >> /\ ~ CheckFails(c) /\ ~ Mismatch(c)
            /\ Becomes(p, q, "ok", Finished(p.key), p.stack, p.items \cup route.made,
                       p.wrote \o Writes(route, e.text, Null(e)))
<1> DEFINE c == NextCursor(p)
           route == DataRoute(c, p.items)
<1>1. CASE p.stack = << >> \/ CheckFails(c)
  BY <1>1, StopsKeepsRest DEF OnValue
<1>2. CASE p.stack # << >> /\ ~ CheckFails(c) /\ Mismatch(c)
  BY <1>2, StopsKeepsRest DEF OnValue
<1>3. CASE p.stack # << >> /\ ~ CheckFails(c) /\ ~ Mismatch(c)
  <2> DEFINE q == [p EXCEPT !.items = @ \cup route.made,
                            !.wrote = @ \o Writes(route, e.text, Null(e)),
                            !.key = Finished(@)]
  <2>1. OnValue(p, e) = q
    BY <1>3 DEF OnValue
  <2> HIDE DEF route
  <2>2. Becomes(p, q, "ok", Finished(p.key), p.stack, p.items \cup route.made,
                p.wrote \o Writes(route, e.text, Null(e)))
    BY DEF Becomes, Fields
  <2> HIDE DEF q
  <2> QED
    BY <1>3, <2>1, <2>2 DEF route
<1> QED
  BY <1>1, <1>2, <1>3

-----------------------------------------------------------------------------
(* The stack of cursors.                                                   *)

\* The cursors from the root inward: each is good and has a key, members have the type of
\* their builder, and addresses do not get shorter before a mock.
GoodStack(s, root) ==
  /\ s \in Seq(CursorSet)
  /\ s # << >> => s[1] = root
  /\ \A i \in 1 .. Len(s) : GoodCursor(s[i], root.obj[1]) /\ s[i].key # NoKey
  /\ \A i \in 2 .. Len(s) : s[i].rec # Mock => s[i].type = s[i].rec
  /\ \A i, j \in 1 .. Len(s) : i <= j /\ s[j].rec # Mock => Len(s[i].obj) <= Len(s[j].obj)

\* No element on the way to obj has one behind it.
OnLast(obj, elements) ==
  \A e \in elements :
    Len(e) <= Len(obj) /\ Front(e) = SubSeq(obj, 1, Len(e) - 1) => Last(e).nth <= obj[Len(e)].nth
NoDangling(s, elements) == \A i \in DOMAIN s : OnLast(s[i].obj, elements)

\* The innermost cursor is good, and no other reaches further down unless it is a mock.
LEMMA LastIsGood ==
  ASSUME NEW s, NEW root, GoodStack(s, root), s # << >>
  PROVE  /\ Len(s) \in Nat \ {0} /\ Last(s) = s[Len(s)] /\ Len(s) \in DOMAIN s
         /\ GoodCursor(Last(s), root.obj[1]) /\ Last(s) \in CursorSet /\ Last(s).key # NoKey
         /\ Len(Last(s).obj) \in Nat
         /\ Last(s).rec # Mock => \A i \in 1 .. Len(s) : Len(s[i].obj) <= Len(Last(s).obj)
<1>1. s \in Seq(CursorSet) /\ Len(s) \in Nat \ {0}
  BY EmptySeq DEF GoodStack
<1>2. Last(s) = s[Len(s)] /\ Last(s) \in CursorSet
  BY <1>1, FrontProperties
<1>3. Len(s) \in 1 .. Len(s) /\ DOMAIN s = 1 .. Len(s)
  BY <1>1, LenProperties
<1>4. Len(Last(s).obj) \in Nat
  BY <1>2 DEF CursorSet, Address
<1>5. \A i \in 1 .. Len(s) : i <= Len(s)
  BY <1>1
<1> QED
  BY <1>1, <1>2, <1>3, <1>4, <1>5 DEF GoodStack

\* The root alone is a stack of cursors.
LEMMA FirstIsGoodStack ==
  ASSUME NEW root, GoodCursor(root, root.obj[1]), root.key # NoKey
  PROVE  GoodStack(<< root >>, root)
<1>1. root \in CursorSet /\ Len(root.obj) \in Nat
  BY DEF GoodCursor, CursorSet, Address
<1>2. << root >> \in Seq(CursorSet) /\ Len(<< root >>) = 1 /\ << root >>[1] = root
  BY <1>1
<1> QED
  BY <1>1, <1>2 DEF GoodStack

\* One more cursor that is a mock, or leads further down.
LEMMA PushIsGoodStack ==
  ASSUME NEW s, NEW root, GoodStack(s, root), s # << >>,
         NEW c, GoodCursor(c, root.obj[1]), c.key # NoKey,
         c.rec # Mock => /\ c.type = c.rec /\ Last(s).rec # Mock
                         /\ Len(c.obj) >= Len(Last(s).obj)
  PROVE  GoodStack(Append(s, c), root) /\ Len(Append(s, c)) = Len(s) + 1
         /\ \A i \in 1 .. Len(s) : Append(s, c)[i] = s[i]
         /\ Append(s, c)[Len(s) + 1] = c
<1> DEFINE t == Append(s, c)
<1>1. /\ s \in Seq(CursorSet) /\ c \in CursorSet /\ Len(s) \in Nat \ {0}
      /\ Len(c.obj) \in Nat /\ Len(Last(s).obj) \in Nat
      /\ \A i \in 1 .. Len(s) : Len(s[i].obj) \in Nat
      /\ Last(s).rec # Mock => \A i \in 1 .. Len(s) : Len(s[i].obj) <= Len(Last(s).obj)
  <2>1. s \in Seq(CursorSet) /\ c \in CursorSet
    BY DEF GoodStack, GoodCursor
  <2>2. \A d \in CursorSet : Len(d.obj) \in Nat
    BY DEF CursorSet, Address
  <2>3. \A i \in 1 .. Len(s) : s[i] \in CursorSet
    BY <2>1
  <2> QED
    BY <2>1, <2>2, <2>3, LastIsGood
<1>2. /\ t \in Seq(CursorSet) /\ Len(t) = Len(s) + 1 /\ t[Len(s) + 1] = c
      /\ \A i \in 1 .. Len(s) : t[i] = s[i]
  BY <1>1, AppendProperties
<1> HIDE DEF t
<1>3. \A i \in 1 .. Len(t) : i \in 1 .. Len(s) \/ i = Len(s) + 1
  BY <1>1, <1>2
<1>4. t[1] = root
  BY <1>1, <1>2 DEF GoodStack
<1>5. \A i \in 1 .. Len(t) : GoodCursor(t[i], root.obj[1]) /\ t[i].key # NoKey
  BY <1>2, <1>3 DEF GoodStack
<1>6. \A i \in 2 .. Len(t) : t[i].rec # Mock => t[i].type = t[i].rec
  <2> SUFFICES ASSUME NEW i \in 2 .. Len(t), t[i].rec # Mock PROVE t[i].type = t[i].rec
    OBVIOUS
  <2>1. i \in 2 .. Len(s) \/ i = Len(s) + 1
    BY <1>1, <1>2
  <2>2. i \in 2 .. Len(s) => i \in 1 .. Len(s)
    BY <1>1
  <2> QED
    BY <1>2, <2>1, <2>2 DEF GoodStack
<1>7. \A i, j \in 1 .. Len(t) : i <= j /\ t[j].rec # Mock => Len(t[i].obj) <= Len(t[j].obj)
  <2> SUFFICES ASSUME NEW i \in 1 .. Len(t), NEW j \in 1 .. Len(t), i <= j, t[j].rec # Mock
               PROVE  Len(t[i].obj) <= Len(t[j].obj)
    OBVIOUS
  <2>1. CASE j \in 1 .. Len(s)
    <3>1. i \in 1 .. Len(s)
      BY <1>1, <1>2, <2>1
    <3> QED
      BY <1>2, <2>1, <3>1 DEF GoodStack
  <2>2. CASE j = Len(s) + 1 /\ i \in 1 .. Len(s)
    BY <1>1, <1>2, <2>2
  <2>3. CASE j = Len(s) + 1 /\ i = Len(s) + 1
    BY <1>1, <1>2, <2>3
  <2> QED
    BY <1>3, <2>1, <2>2, <2>3
<1>8. GoodStack(t, root)
  BY <1>2, <1>4, <1>5, <1>6, <1>7 DEF GoodStack
<1> QED
  BY <1>2, <1>8 DEF t

\* One cursor less.
LEMMA PopIsGoodStack ==
  ASSUME NEW s, NEW root, GoodStack(s, root), s # << >>
  PROVE  /\ GoodStack(Front(s), root) /\ Len(Front(s)) = Len(s) - 1
         /\ \A i \in 1 .. Len(s) - 1 : Front(s)[i] = s[i]
<1> DEFINE t == Front(s)
<1>1. s \in Seq(CursorSet) /\ Len(s) \in Nat \ {0}
  BY LastIsGood DEF GoodStack
<1>2. t \in Seq(CursorSet) /\ Len(t) = Len(s) - 1 /\ \A i \in 1 .. Len(s) - 1 : t[i] = s[i]
  BY <1>1, FrontProperties
<1> HIDE DEF t
<1>3. t # << >> => t[1] = root
  <2>1. t # << >> => Len(t) # 0
    BY <1>2, EmptySeq
  <2> QED
    BY <1>1, <1>2, <2>1 DEF GoodStack
<1>4. /\ \A i \in 1 .. Len(t) : i \in 1 .. Len(s) /\ t[i] = s[i]
      /\ \A i \in 2 .. Len(t) : i \in 2 .. Len(s) /\ i \in 1 .. Len(t)
  BY <1>1, <1>2
<1>5. GoodStack(t, root)
  BY <1>2, <1>3, <1>4 DEF GoodStack
<1> QED
  BY <1>2, <1>5 DEF t

\* A new element below the innermost cursor puts none of the cursors behind.
LEMMA MadeBelowStack ==
  ASSUME NEW s, NEW root, GoodStack(s, root), s # << >>, NEW elements, NoDangling(s, elements),
         NEW made, \A e \in made : Last(s).rec # Mock /\ IsElement(e) /\ Len(e) > Len(Last(s).obj)
  PROVE  NoDangling(s, elements \cup made)
<1> SUFFICES ASSUME NEW i \in DOMAIN s, NEW e \in made
             PROVE  ~ (Len(e) <= Len(s[i].obj))
  BY DEF NoDangling, OnLast
<1>1. /\ DOMAIN s = 1 .. Len(s) /\ Len(Last(s).obj) \in Nat
      /\ Len(s[i].obj) <= Len(Last(s).obj)
  BY LastIsGood, LenProperties DEF GoodStack
<1>2. Len(s[i].obj) \in Nat /\ Len(e) \in Nat
  <2>1. s[i] \in CursorSet
    BY DEF GoodStack
  <2> QED
    BY <2>1 DEF CursorSet, Address, IsElement
<1> QED
  BY <1>1, <1>2

\* The cursor that Advance makes points to the last element of each vector on its way.
LEMMA AdvanceIsOnLast ==
  ASSUME NEW t, NEW c, GoodCursor(c, t), NEW elements, Numbered(elements), OnLast(c.obj, elements)
  PROVE  OnLast(Advance(c, elements).obj, elements \cup AdvanceMakes(c, elements))
<1> DEFINE a == Advance(c, elements)
           made == AdvanceMakes(c, elements)
<1>1. /\ GoodCursor(a, t)
      /\ a.rec # Mock => /\ c.rec # Mock /\ Len(a.obj) = Len(c.obj) + 1
                         /\ \/ Kind[c.rec] = "vector" /\ a.obj = NewElement(c.obj, elements)
                            \/ Kind[c.rec] = "object" /\ a.obj = Append(c.obj, c.key)
      /\ \A e \in made : IsElement(e) /\ e = a.obj
  BY AdvanceIsGood
<1> HIDE DEF a, made
<1>2. /\ \A e \in elements \cup made : IsElement(e)
      /\ \A e : IsElement(e) => /\ Len(e) \in Nat \ {0} /\ e \in Address
                                /\ Last(e) = e[Len(e)] /\ Last(e).nth \in Nat
  <2>1. ASSUME NEW e, IsElement(e)
        PROVE  Len(e) \in Nat \ {0} /\ e \in Address /\ Last(e) = e[Len(e)] /\ Last(e).nth \in Nat
    <3>1. Len(e) \in Nat \ {0} /\ Last(e) = e[Len(e)]
      BY <2>1, EmptySeq, FrontProperties DEF IsElement, Address
    <3> QED
      BY <2>1, <3>1 DEF IsElement
  <2> QED
    BY <1>1, <2>1 DEF Numbered
<1>3. CASE a.rec = Mock
  <2>1. a.obj = << >> /\ Len(a.obj) = 0
    BY <1>1, <1>3 DEF GoodCursor, IsCursor, MockCursor, Nowhere
  <2> QED
    BY <1>2, <2>1 DEF OnLast, a, made
<1>4. CASE a.rec # Mock
  <2>1. c.obj \in Seq(Place) /\ c.obj # Nowhere /\ Len(c.obj) \in Nat /\ Len(a.obj) = Len(c.obj) + 1
    BY <1>1, <1>4 DEF GoodCursor, CursorSet, Address
  <2>2. PICK x \in Place : a.obj = Append(c.obj, x)
    <3>1. CASE Kind[c.rec] = "object" /\ a.obj = Append(c.obj, c.key)
      BY <3>1 DEF GoodCursor, CursorSet, Place
    <3>2. CASE a.obj = NewElement(c.obj, elements)
      <4> DEFINE n == 1 + Cardinality(Siblings(c.obj, elements))
      <4>1. a.obj = Append(c.obj, Element(n))
        BY <3>2 DEF NewElement, Siblings
      <4>2. n \in Nat \ {0}
        <5>1. Siblings(c.obj, elements) \in SUBSET elements
          BY DEF Siblings
        <5>2. Cardinality(Siblings(c.obj, elements)) \in Nat
          BY <5>1, FS_Subset, FS_CardinalityType DEF Numbered
        <5> QED
          BY <5>2
      <4> HIDE DEF n
      <4>3. Element(n) \in Place
        BY <4>2 DEF Element, Place
      <4> QED
        BY <4>1, <4>3
    <3> QED
      BY <1>1, <1>4, <3>1, <3>2
  <2>3. /\ \A i \in 1 .. Len(c.obj) : a.obj[i] = c.obj[i]
        /\ \A n \in 0 .. Len(c.obj) : SubSeq(a.obj, 1, n) = SubSeq(c.obj, 1, n)
        /\ SubSeq(a.obj, 1, Len(c.obj)) = c.obj
    BY <2>1, <2>2, AppendProperties, BeginningOfAppend
  <2> SUFFICES ASSUME NEW e \in elements \cup made, Len(e) <= Len(a.obj),
                      Front(e) = SubSeq(a.obj, 1, Len(e) - 1)
               PROVE  Last(e).nth <= a.obj[Len(e)].nth
    BY DEF OnLast, a, made
  <2>4. Len(e) \in Nat \ {0} /\ Last(e) = e[Len(e)] /\ Last(e).nth \in Nat
    BY <1>2
  <2>5. CASE e = a.obj
    BY <2>4, <2>5
  <2>6. CASE e \in elements /\ Len(e) <= Len(c.obj)
    <3>1. Front(e) = SubSeq(c.obj, 1, Len(e) - 1) /\ a.obj[Len(e)] = c.obj[Len(e)]
      BY <2>1, <2>3, <2>4, <2>6
    <3> QED
      BY <2>6, <3>1 DEF OnLast
  <2>7. CASE e \in elements /\ Len(e) = Len(c.obj) + 1
    <3>1. Front(e) = c.obj
      BY <2>1, <2>3, <2>7
    <3>2. Kind[BuilderAt[c.obj]] = "vector" /\ BuilderAt[c.obj] = c.rec
      BY <1>1, <1>2, <1>4, <3>1 DEF IsElement, GoodCursor
    <3>3. a.obj = NewElement(c.obj, elements)
      BY <1>1, <1>4, <3>2
    <3>4. BuilderAt[c.obj] \in Builder /\ c.obj \in Address
      BY <1>1, <1>4, <3>2 DEF GoodCursor, CursorSet
    <3>5. Last(e).nth < Last(a.obj).nth /\ IsElement(a.obj)
      <4>1. e \in Siblings(c.obj, elements)
        BY <2>7, <3>1 DEF Siblings
      <4>2. c.obj # Nowhere
        BY <2>1
      <4> QED
        BY <3>2, <3>3, <3>4, <4>1, <4>2, NewElementIsLast
    <3>6. Last(a.obj) = a.obj[Len(e)] /\ Last(a.obj).nth \in Nat
      BY <1>2, <2>1, <2>7, <3>5
    <3> QED
      BY <2>4, <3>5, <3>6
  <2> QED
    BY <1>1, <2>1, <2>4, <2>5, <2>6, <2>7
<1> QED
  BY <1>3, <1>4

-----------------------------------------------------------------------------
(* What the callback keeps true, and what it changes.                      *)

\* The keys, and what FinishKey makes of them.
LEMMA Keys ==
  /\ NoKey \in Key /\ ~ IsIndex(NoKey)
  /\ \A n \in Nat : IndexKey(n) \in Key /\ IsIndex(IndexKey(n)) /\ IndexKey(n) # NoKey
  /\ \A t \in Seq(Class) : NamedKey(t) \in Key /\ ~ IsIndex(NamedKey(t)) /\ NamedKey(t) # NoKey
  /\ \A k \in Key : /\ Finished(k) \in Key
                    /\ IsIndex(Finished(k)) <=> IsIndex(k)
                    /\ ~ IsIndex(k) => Finished(k) = NoKey
                    /\ IsIndex(k) => k # NoKey
<1>1. NoKey \in Key /\ ~ IsIndex(NoKey)
  BY DEF NoKey, Key, IsIndex
<1>2. \A n \in Nat : IndexKey(n) \in Key /\ IsIndex(IndexKey(n)) /\ IndexKey(n) # NoKey
  <2>1. \A n \in Nat : IndexKey(n) \in Key /\ IndexKey(n).type = "index"
    BY DEF IndexKey, Key
  <2> QED
    BY <2>1, <1>1 DEF IsIndex
<1>3. \A t \in Seq(Class) : NamedKey(t) \in Key /\ ~ IsIndex(NamedKey(t)) /\ NamedKey(t) # NoKey
  <2>1. \A t \in Seq(Class) : NamedKey(t) \in Key /\ NamedKey(t).type = "key"
    BY DEF NamedKey, Key
  <2>2. NoKey.type = "none"
    BY DEF NoKey
  <2> QED
    BY <2>1, <2>2 DEF IsIndex
<1>4. \A k \in Key : IsIndex(k) => k.index \in Nat /\ k.index + 1 \in Nat
  BY DEF Key, IsIndex
<1> QED
  BY <1>1, <1>2, <1>3, <1>4 DEF Finished

\* The root's cursor: its builder is never the mock, its address is the target alone.
RootIs(root) ==
  /\ root \in CursorSet /\ IsCursor(root) /\ root.rec = Root
  /\ root.key # NoKey /\ IsIndex(root.key)
  /\ Len(root.obj) <= 1

\* The root's cursor as an open document has it, whatever SetTarget has done since.
Base == IF m_stack = << >> THEN m_root ELSE m_stack[1]
Roots == RootIs(Base) /\ RootIs(m_root) /\ m_root.obj # Nowhere

Assigned(w, t) == w.at # Nowhere /\ w.at[1] = t
Wrote(ws, t) == ws = << >> \/ \E w : ws = << w >> /\ Assigned(w, t)

\* Whatever the calls of the character have done so far.
Working(p) ==
  /\ DOMAIN p = Fields /\ p.parser \in Outcome /\ p.key \in Key
  /\ GoodStack(p.stack, Base) /\ Numbered(p.items) /\ NoDangling(p.stack, p.items)
  /\ Wrote(p.wrote, Base.obj[1])
  /\ p.parser = "TypeMismatch" => /\ Len(p.stack) = 1 /\ p.stack[1].type # Root
                                  /\ Get(p.thrown, "ExpectedTypeInfo") = Root

\* The root's cursor is good as soon as there is a target.
LEMMA RootIsGood ==
  ASSUME NEW root, RootIs(root), root.obj # Nowhere
  PROVE  GoodCursor(root, root.obj[1])
<1>1. root.obj \in Address /\ Len(root.obj) <= 1
  BY DEF RootIs, CursorSet
<1>2. BuilderAt[root.obj] = Root
  BY <1>1, BuilderAtExists DEF IsBuilderAt
<1> QED
  BY <1>2 DEF RootIs, GoodCursor

\* Another key makes no difference to a good cursor.
LEMMA NextIsGood ==
  ASSUME NEW p, NEW root, GoodStack(p.stack, root), p.stack # << >>, p.key \in Key
  PROVE  LET c == NextCursor(p) IN
         /\ GoodCursor(c, root.obj[1]) /\ c.key = p.key
         /\ c.obj = Last(p.stack).obj /\ c.type = Last(p.stack).type /\ c.rec = Last(p.stack).rec
<1> DEFINE l == Last(p.stack)
           c == NextCursor(p)
<1>1. GoodCursor(l, root.obj[1]) /\ l \in CursorSet
  BY LastIsGood
<1>2. c = [l EXCEPT !.key = p.key]
  BY DEF NextCursor
<1> HIDE DEF l, c
<1>3. c \in CursorSet /\ c.key = p.key /\ c.obj = l.obj /\ c.type = l.type /\ c.rec = l.rec
  BY <1>1, <1>2 DEF CursorSet
<1>4. IsCursor(c)
  <2>1. DOMAIN c = { "key", "obj", "type", "rec" }
    BY <1>3 DEF CursorSet
  <2>2. c.rec = Mock => c = MockCursor(c.key)
    <3>1. l.rec = Mock => l.obj = Nowhere /\ l.type = "void"
      BY <1>1 DEF GoodCursor, IsCursor, MockCursor
    <3>2. c = [key |-> c.key, obj |-> c.obj, type |-> c.type, rec |-> c.rec]
      BY <1>3 DEF CursorSet
    <3> QED
      BY <1>3, <3>1, <3>2 DEF MockCursor
  <2>3. l.rec # Mock => l.rec \in Builder /\ l.type \in { l.rec, "other", "void" }
    BY <1>1 DEF GoodCursor, IsCursor
  <2> QED
    BY <1>3, <2>1, <2>2, <2>3, Keys DEF IsCursor, CursorSet
<1>5. GoodCursor(c, root.obj[1])
  BY <1>1, <1>3, <1>4 DEF GoodCursor
<1> QED
  BY <1>3, <1>5 DEF l, c

\* Only the root's cursor can have another type than its builder's.
LEMMA MismatchIsTheRoot ==
  ASSUME NEW p, GoodStack(p.stack, Base), p.stack # << >>, p.key \in Key, RootIs(Base),
         Mismatch(NextCursor(p))
  PROVE  p.stack[1].type # Root /\ Len(p.stack) = 1 /\ NextCursor(p).rec = Root
<1>1. /\ Len(p.stack) \in Nat \ {0} /\ Last(p.stack) = p.stack[Len(p.stack)]
      /\ NextCursor(p).rec = Last(p.stack).rec /\ NextCursor(p).type = Last(p.stack).type
  BY NextIsGood, LastIsGood
<1>2. Last(p.stack).rec # Mock /\ Last(p.stack).type # Last(p.stack).rec
  BY <1>1 DEF Mismatch
<1>3. Len(p.stack) = 1
  <2> DEFINE n == Len(p.stack)
  <2>1. n \in 2 .. n => Last(p.stack).type = Last(p.stack).rec
    BY <1>1, <1>2 DEF GoodStack
  <2> HIDE DEF n
  <2>2. n \in Nat \ {0}
    BY <1>1 DEF n
  <2>3. n = 1
    BY <1>2, <2>1, <2>2
  <2> QED
    BY <2>3 DEF n
<1>4. Last(p.stack) = Base /\ p.stack[1] = Base
  BY <1>1, <1>3 DEF GoodStack
<1> QED
  BY <1>1, <1>2, <1>3, <1>4 DEF RootIs

\* A value is assigned inside the target, or nowhere.
LEMMA WritesInside ==
  ASSUME NEW t, NEW route, GoodCursor(route.cursor, t), NEW text, NEW null
  PROVE  Wrote(<< >> \o Writes(route, text, null), t)
<1> DEFINE w == [at |-> route.cursor.obj, value |-> Cast(Kind[route.cursor.rec], text, null)]
<1>1. \/ Writes(route, text, null) = << >>
      \/ route.cursor.rec # Mock /\ Writes(route, text, null) = << w >>
  BY DEF Writes
<1>2. w.at = route.cursor.obj
  OBVIOUS
<1> HIDE DEF w
<1>3. Writes(route, text, null) \in Seq({ w })
  <2>1. << >> \in Seq({ w }) /\ << w >> \in Seq({ w })
    OBVIOUS
  <2> QED
    BY <1>1, <2>1
<1>4. << >> \o Writes(route, text, null) = Writes(route, text, null)
  BY <1>3, ConcatEmptySeq
<1>5. route.cursor.rec # Mock => Assigned(w, t)
  BY <1>2 DEF Assigned, GoodCursor
<1> QED
  BY <1>1, <1>4, <1>5 DEF Wrote

\* The first event of a step finds all as it was; behind it comes only an end.
MayCome(p, e) == (p.wrote = << >> /\ p.stack = m_stack) \/ e.type \in EndEvent

\* A key becomes the next key; only a second one fails the assertion.
LEMMA KeyWorks ==
  ASSUME NEW p, Working(p), p.parser = "ok", NEW e \in Event
  PROVE  LET q == OnKey(p, e) IN
         /\ Working(q) /\ q.stack = p.stack
         /\ q.parser = "ok" => q.key # NoKey /\ ~ IsIndex(q.key)
         /\ q.parser = "aborted" => p.key # NoKey
<1> DEFINE q == OnKey(p, e)
<1>1. e.text = Garbage \/ e.text \in Seq(Class)
  BY DEF Event, Text
<1>2. { "aborted", "logic_error", "ok" } \subseteq Outcome
  BY DEF Outcome
<1>3. /\ DOMAIN q = Fields /\ q.parser \in { "aborted", "logic_error", "ok" }
      /\ q.stack = p.stack /\ q.items = p.items /\ q.wrote = p.wrote
      /\ q.parser # "ok" => q.key = p.key
      /\ q.parser = "ok" => q.key = NamedKey(e.text) /\ e.text # Garbage
      /\ q.parser = "aborted" => p.key # NoKey
  <2>1. DOMAIN p = Fields
    BY DEF Working
  <2> HIDE DEF q
  <2> QED
    BY <2>1, OnKeyIs DEF Becomes, q
<1> HIDE DEF q
<1>4. q.parser = "ok" => q.key \in Key /\ q.key # NoKey /\ ~ IsIndex(q.key)
  BY <1>1, <1>3, Keys
<1> QED
  BY <1>2, <1>3, <1>4 DEF Working, q

\* The start of a container pushes a cursor with the next key; only a missing key fails the
\* assertion.
LEMMA StartWorks ==
  ASSUME Roots, NEW p, Working(p), p.parser = "ok", p.stack = m_stack, NEW e \in Event
  PROVE  LET q == OnStart(p, e) IN
         /\ Working(q)
         /\ q.parser = "ok" =>
              /\ q.key = StartKey(p.key, e.type) /\ Len(q.stack) = Len(p.stack) + 1
              /\ \A i \in 1 .. Len(p.stack) : q.stack[i] = p.stack[i]
              /\ p.stack # << >> => q.stack[Len(p.stack) + 1].key = p.key
         /\ q.parser = "aborted" => p.stack # << >> /\ p.key = NoKey
<1> DEFINE q == OnStart(p, e)
           c == NextCursor(p)
           a == Advance(c, p.items)
           made == AdvanceMakes(c, p.items)
<1>1. /\ DOMAIN p = Fields /\ p.key \in Key /\ GoodStack(p.stack, Base) /\ Numbered(p.items)
      /\ NoDangling(p.stack, p.items) /\ Wrote(p.wrote, Base.obj[1])
  BY DEF Working
<1>2. { "aborted", "TypeMismatch", "ok" } \subseteq Outcome /\ StartKey(p.key, e.type) \in Key
  BY Keys DEF Outcome, StartKey
<1>3. CASE p.stack = << >> /\ Becomes(p, q, "ok", StartKey(p.key, e.type), << m_root >>, p.items, p.wrote)
  <2>1. GoodStack(<< m_root >>, Base)
    BY <1>3, RootIsGood, FirstIsGoodStack DEF Roots, RootIs, Base
  <2>2. NoDangling(<< m_root >>, p.items)
    <3>1. ASSUME NEW x \in p.items
          PROVE  ~ (Len(x) <= Len(m_root.obj))
      <4>1. IsElement(x)
        BY <1>1 DEF Numbered
      <4>2. Front(x) \in Address /\ Len(Front(x)) = Len(x) - 1 /\ Len(x) \in Nat /\ Front(x) # << >>
        BY <4>1, FrontProperties DEF IsElement, Address, Nowhere
      <4>3. Len(Front(x)) \in Nat \ {0}
        BY <4>2, EmptySeq DEF Address
      <4>4. Len(m_root.obj) \in Nat /\ Len(m_root.obj) <= 1
        BY DEF Roots, RootIs, CursorSet, Address
      <4> QED
        BY <4>2, <4>3, <4>4
    <3>2. \A i \in DOMAIN << m_root >> : << m_root >>[i] = m_root
      OBVIOUS
    <3> QED
      BY <3>1, <3>2 DEF NoDangling, OnLast
  <2>3. Len(<< m_root >>) = 1 /\ Len(p.stack) = 0
    BY <1>3
  <2> HIDE DEF q
  <2>4. Working(q)
    BY <1>1, <1>2, <1>3, <2>1, <2>2 DEF Working, Becomes
  <2> QED
    BY <1>3, <2>3, <2>4 DEF Becomes, q
<1>4. CASE p.stack # << >> /\ p.key = NoKey /\ Becomes(p, q, "aborted", p.key, p.stack, p.items, p.wrote)
  <2> HIDE DEF q
  <2>1. Working(q)
    BY <1>1, <1>2, <1>4 DEF Working, Becomes
  <2> QED
    BY <1>4, <2>1 DEF Becomes, q
<1>5. CASE /\ p.stack # << >> /\ AdvanceMismatch(c)
           /\ Becomes(p, q, "TypeMismatch", p.key, p.stack, p.items, p.wrote)
           /\ Get(q.thrown, "ExpectedTypeInfo") = c.rec
  <2>1. p.stack[1].type # Root /\ Len(p.stack) = 1 /\ c.rec = Root
    BY <1>1, <1>5, MismatchIsTheRoot DEF Roots, AdvanceMismatch
  <2> HIDE DEF q, c
  <2>2. Working(q)
    BY <1>1, <1>2, <1>5, <2>1 DEF Working, Becomes
  <2> QED
    BY <1>5, <2>2 DEF Becomes, q
<1>6. CASE /\ p.stack # << >> /\ p.key # NoKey /\ ~ AdvanceMismatch(c)
           /\ Becomes(p, q, "ok", StartKey(p.key, e.type), Append(p.stack, a), p.items \cup made, p.wrote)
  <2>1. /\ GoodCursor(c, Base.obj[1]) /\ c.key = p.key
        /\ c.obj = Last(p.stack).obj /\ c.rec = Last(p.stack).rec
    BY <1>1, <1>6, NextIsGood
  <2>2. /\ Len(p.stack) \in Nat \ {0} /\ Len(p.stack) \in DOMAIN p.stack
        /\ Last(p.stack) = p.stack[Len(p.stack)] /\ Len(c.obj) \in Nat
    BY <1>1, <1>6, <2>1, LastIsGood
  <2>3. /\ GoodCursor(a, Base.obj[1]) /\ a.key = p.key
        /\ a.rec # Mock => c.rec # Mock /\ a.type = a.rec /\ Len(a.obj) = Len(c.obj) + 1
        /\ \A x \in made : /\ c.rec # Mock /\ IsElement(x) /\ x = NewElement(Front(x), p.items)
                           /\ Len(x) = Len(c.obj) + 1
        /\ IsFiniteSet(made)
    BY <1>1, <2>1, AdvanceIsGood
  <2>4. OnLast(a.obj, p.items \cup made)
    <3>1. OnLast(c.obj, p.items)
      BY <1>1, <2>1, <2>2 DEF NoDangling
    <3> QED
      BY <1>1, <2>1, <3>1, AdvanceIsOnLast
  <2> HIDE DEF q, c, a, made
  <2>5. Numbered(p.items \cup made)
    BY <1>1, <2>3, NewElementsAreNumbered
  <2>6. /\ GoodStack(Append(p.stack, a), Base) /\ Len(Append(p.stack, a)) = Len(p.stack) + 1
        /\ \A i \in 1 .. Len(p.stack) : Append(p.stack, a)[i] = p.stack[i]
        /\ Append(p.stack, a)[Len(p.stack) + 1] = a
    <3>1. a.key # NoKey /\ (a.rec # Mock => Last(p.stack).rec # Mock /\ Len(a.obj) >= Len(Last(p.stack).obj))
      BY <1>6, <2>1, <2>2, <2>3
    <3> QED
      BY <1>1, <1>6, <2>3, <3>1, PushIsGoodStack
  <2>7. NoDangling(Append(p.stack, a), p.items \cup made)
    <3>1. NoDangling(p.stack, p.items \cup made)
      <4>1. \A x \in made : Last(p.stack).rec # Mock /\ IsElement(x) /\ Len(x) > Len(Last(p.stack).obj)
        BY <2>1, <2>2, <2>3
      <4> QED
        BY <1>1, <1>6, <4>1, MadeBelowStack
    <3>2. /\ DOMAIN p.stack = 1 .. Len(p.stack)
          /\ DOMAIN Append(p.stack, a) = 1 .. Len(p.stack) + 1
      BY <1>1, <2>6, LenProperties DEF GoodStack
    <3>3. \A i \in 1 .. Len(p.stack) + 1 : i \in 1 .. Len(p.stack) \/ i = Len(p.stack) + 1
      BY <2>2
    <3> QED
      BY <2>4, <2>6, <3>1, <3>2, <3>3 DEF NoDangling
  <2>8. Working(q)
    BY <1>1, <1>2, <1>6, <2>5, <2>6, <2>7 DEF Working, Becomes
  <2> QED
    BY <1>6, <2>3, <2>6, <2>8 DEF Becomes, q
<1> QED
  BY <1>1, <1>3, <1>4, <1>5, <1>6, OnStartIs

\* The end of a container finishes its cursor's key; only an empty stack fails the
\* assertion.
LEMMA EndWorks ==
  ASSUME NEW p, Working(p), p.parser = "ok", NEW e \in Event
  PROVE  LET q == OnEnd(p, e) IN
         /\ Working(q)
         /\ q.parser = "ok" => /\ p.stack # << >> /\ q.stack = Front(p.stack)
                               /\ q.key = Finished(Last(p.stack).key)
         /\ q.parser = "aborted" => p.stack = << >>
<1> DEFINE q == OnEnd(p, e)
<1>1. /\ DOMAIN p = Fields /\ p.key \in Key /\ GoodStack(p.stack, Base) /\ Numbered(p.items)
      /\ NoDangling(p.stack, p.items) /\ Wrote(p.wrote, Base.obj[1])
  BY DEF Working
<1>2. { "aborted", "ok" } \subseteq Outcome
  BY DEF Outcome
<1>3. p.stack # << >> => Last(p.stack).key # NoKey
  BY <1>1, LastIsGood
<1>4. CASE p.stack = << >> /\ Becomes(p, q, "aborted", p.key, p.stack, p.items, p.wrote)
  <2> HIDE DEF q
  <2>1. Working(q)
    BY <1>1, <1>2, <1>4 DEF Working, Becomes
  <2> QED
    BY <1>4, <2>1 DEF Becomes, q
<1>5. CASE /\ p.stack # << >>
           /\ Becomes(p, q, "ok", Finished(Last(p.stack).key), Front(p.stack), p.items, p.wrote)
  <2>1. Finished(Last(p.stack).key) \in Key
    BY <1>1, <1>5, LastIsGood, Keys DEF CursorSet
  <2>2. /\ GoodStack(Front(p.stack), Base) /\ Len(Front(p.stack)) = Len(p.stack) - 1
        /\ \A i \in 1 .. Len(p.stack) - 1 : Front(p.stack)[i] = p.stack[i]
    BY <1>1, <1>5, PopIsGoodStack
  <2>3. NoDangling(Front(p.stack), p.items)
    <3>1. DOMAIN p.stack = 1 .. Len(p.stack) /\ DOMAIN Front(p.stack) = 1 .. Len(p.stack) - 1
      BY <1>1, <2>2, LenProperties DEF GoodStack
    <3>2. \A i \in 1 .. Len(p.stack) - 1 : i \in 1 .. Len(p.stack)
      BY <1>1, <1>5, LastIsGood
    <3> QED
      BY <1>1, <2>2, <3>1, <3>2 DEF NoDangling
  <2> HIDE DEF q
  <2>4. Working(q)
    BY <1>1, <1>2, <1>5, <2>1, <2>2, <2>3 DEF Working, Becomes
  <2> QED
    BY <1>5, <2>4 DEF Becomes, q
<1> QED
  BY <1>1, <1>3, <1>4, <1>5, OnEndIs

\* A scalar finishes the next key; only a missing key or an empty stack fails an assertion.
LEMMA ValueWorks ==
  ASSUME RootIs(Base),
         NEW p, Working(p), p.parser = "ok", p.wrote = << >>, NEW e \in Event
  PROVE  LET q == OnValue(p, e) IN
         /\ Working(q) /\ q.stack = p.stack
         /\ q.parser = "ok" => q.key = Finished(p.key)
         /\ q.parser = "aborted" => p.stack = << >> \/ p.key = NoKey
<1> DEFINE q == OnValue(p, e)
           c == NextCursor(p)
           route == DataRoute(c, p.items)
<1>1. /\ DOMAIN p = Fields /\ p.key \in Key /\ GoodStack(p.stack, Base) /\ Numbered(p.items)
      /\ NoDangling(p.stack, p.items) /\ Wrote(p.wrote, Base.obj[1])
  BY DEF Working
<1>2. { "aborted", "TypeMismatch", "ok" } \subseteq Outcome /\ Finished(p.key) \in Key
  BY <1>1, Keys DEF Outcome
<1>3. p.stack # << >> =>
        /\ GoodCursor(c, Base.obj[1]) /\ c.key = p.key
        /\ c.obj = Last(p.stack).obj /\ c.rec = Last(p.stack).rec
  BY <1>1, NextIsGood
<1>4. CASE /\ p.stack = << >> \/ CheckFails(c)
           /\ Becomes(p, q, "aborted", p.key, p.stack, p.items, p.wrote)
  <2>1. p.stack = << >> \/ p.key = NoKey
    BY <1>3, <1>4 DEF CheckFails
  <2> HIDE DEF q, c
  <2>2. Working(q)
    BY <1>1, <1>2, <1>4 DEF Working, Becomes
  <2> QED
    BY <1>4, <2>1, <2>2 DEF Becomes, q
<1>5. CASE /\ p.stack # << >> /\ Mismatch(c)
           /\ Becomes(p, q, "TypeMismatch", p.key, p.stack, p.items, p.wrote)
           /\ Get(q.thrown, "ExpectedTypeInfo") = c.rec
  <2>1. p.stack[1].type # Root /\ Len(p.stack) = 1 /\ c.rec = Root
    BY <1>1, <1>5, MismatchIsTheRoot
  <2> HIDE DEF q, c
  <2>2. Working(q)
    BY <1>1, <1>2, <1>5, <2>1 DEF Working, Becomes
  <2> QED
    BY <1>5, <2>2 DEF Becomes, q
<1>6. CASE /\ p.stack # << >>
           /\ Becomes(p, q, "ok", Finished(p.key), p.stack, p.items \cup route.made,
                      p.wrote \o Writes(route, e.text, Null(e)))
  <2>1. /\ GoodCursor(route.cursor, Base.obj[1])
        /\ IsFiniteSet(route.made)
        /\ \A x \in route.made : /\ IsElement(x) /\ x = NewElement(Front(x), p.items)
                                 /\ Last(p.stack).rec # Mock /\ Len(x) > Len(Last(p.stack).obj)
    BY <1>1, <1>3, <1>6, RouteIsGood
  <2> HIDE DEF q, c, route
  <2>2. Numbered(p.items \cup route.made)
    BY <1>1, <2>1, NewElementsAreNumbered
  <2>3. NoDangling(p.stack, p.items \cup route.made)
    BY <1>1, <1>6, <2>1, MadeBelowStack
  <2>4. Wrote(p.wrote \o Writes(route, e.text, Null(e)), Base.obj[1])
    BY <2>1, WritesInside
  <2>5. Working(q)
    BY <1>1, <1>2, <1>6, <2>2, <2>3, <2>4 DEF Working, Becomes
  <2> QED
    BY <1>6, <2>5 DEF Becomes, q
<1> QED
  BY <1>1, <1>4, <1>5, <1>6, OnValueIs

Start == { "JSON_object_start", "JSON_array_start" }
Scalar == ValueEvent \ Start

\* What one call changes, by its event.
Effect(p, q, e) ==
  /\ e.type = "JSON_object_key" =>
       /\ q.stack = p.stack
       /\ q.parser = "ok" => q.key # NoKey /\ ~ IsIndex(q.key)
       /\ q.parser = "aborted" => p.key # NoKey
  /\ e.type \in Start =>
       /\ q.parser = "ok" =>
            /\ q.key = StartKey(p.key, e.type) /\ Len(q.stack) = Len(p.stack) + 1
            /\ \A i \in 1 .. Len(p.stack) : q.stack[i] = p.stack[i]
            /\ p.stack # << >> => q.stack[Len(p.stack) + 1].key = p.key
       /\ q.parser = "aborted" => p.stack # << >> /\ p.key = NoKey
  /\ e.type \in EndEvent =>
       /\ q.parser = "ok" => /\ p.stack # << >> /\ q.stack = Front(p.stack)
                             /\ q.key = Finished(Last(p.stack).key)
       /\ q.parser = "aborted" => p.stack = << >>
  /\ e.type \in Scalar =>
       /\ q.stack = p.stack
       /\ q.parser = "ok" => q.key = Finished(p.key)
       /\ q.parser = "aborted" => p.stack = << >> \/ p.key = NoKey

\* Each event is of one kind.
LEMMA EventKinds ==
  ASSUME NEW e \in Event
  PROVE  /\ e.type \in { "JSON_object_key" } \cup Start \cup EndEvent \cup Scalar
         /\ e.type = "JSON_object_key" => e.type \notin Start \cup EndEvent \cup Scalar
         /\ e.type \in Start => e.type \notin EndEvent \cup Scalar
         /\ e.type \in EndEvent => e.type \notin Scalar
BY DEF Event, KeyOrText, ValueEvent, EndEvent, Start, Scalar

\* The four handlers together.
LEMMA HandledWorks ==
  ASSUME Roots, NEW p, Working(p), p.parser = "ok", NEW e \in Event, MayCome(p, e)
  PROVE  Working(Handled(p, e)) /\ Effect(p, Handled(p, e), e)
<1>1. CASE e.type = "JSON_object_key"
  <2>1. Handled(p, e) = OnKey(p, e)
    BY <1>1 DEF Handled
  <2> QED
    BY <1>1, <2>1, KeyWorks, EventKinds DEF Effect
<1>2. CASE e.type \in Start
  <2>1. Handled(p, e) = OnStart(p, e)
    BY <1>2 DEF Handled, Start
  <2>2. p.stack = m_stack
    BY <1>2, EventKinds DEF MayCome
  <2> QED
    BY <1>2, <2>1, <2>2, StartWorks, EventKinds DEF Effect
<1>3. CASE e.type \in EndEvent
  <2>1. Handled(p, e) = OnEnd(p, e)
    BY <1>3 DEF Handled, EndEvent
  <2> QED
    BY <1>3, <2>1, EndWorks, EventKinds DEF Effect
<1>4. CASE e.type \in Scalar
  <2>1. Handled(p, e) = OnValue(p, e)
    BY <1>4 DEF Handled, Scalar, Start, ValueEvent, EndEvent
  <2>2. p.wrote = << >>
    BY <1>4, EventKinds DEF MayCome
  <2> QED
    BY <1>4, <2>1, <2>2, ValueWorks, EventKinds DEF Effect, Roots
<1> QED
  BY <1>1, <1>2, <1>3, <1>4, EventKinds

\* One call of Callback.
LEMMA CallbackWorks ==
  ASSUME Roots, NEW p, Working(p), p.parser = "ok", NEW e \in Event, MayCome(p, e)
  PROVE  Working(Callback(p, e)) /\ Effect(p, Callback(p, e), e)
<1> DEFINE h == Handled(p, e)
           q == Callback(p, e)
<1>1. Working(h) /\ Effect(p, h, e)
  BY HandledWorks
<1>2. q = h \/ q = [h EXCEPT !.seen = Append(@, e)]
  BY DEF Callback, Returns
<1>3. DOMAIN h = Fields
  BY <1>1 DEF Working
<1> HIDE DEF h, q
<1>4. /\ DOMAIN q = Fields /\ q.parser = h.parser /\ q.key = h.key /\ q.stack = h.stack
      /\ q.items = h.items /\ q.wrote = h.wrote /\ q.thrown = h.thrown
  BY <1>2, <1>3 DEF Fields
<1>5. Working(q)
  BY <1>1, <1>4 DEF Working
<1>6. Effect(p, q, e)
  BY <1>1, <1>4 DEF Effect
<1> QED
  BY <1>5, <1>6 DEF q

-----------------------------------------------------------------------------
(* What a turn of the checker tells the parser.                            *)

\* A turn may end a number before anything else: n are the events so far, s the state.
NumberEnded(n, s) ==
  \/ n = << >> /\ s = state
  \/ /\ state \in Number /\ s = "ok" /\ Top \in { "array", "object" }
     /\ \E e \in Event : e.type = "JSON_number" /\ n = << e >>

\* A last event behind it, f, and the state and the modes that come with it.
Delivers(f, n, s) ==
  \/ /\ f.type = "JSON_object_key" /\ n = << >> /\ Top = "key" /\ s = "str"
     /\ state' = "col" /\ stack' = stack
  \/ /\ f.type \in Scalar /\ n = << >> /\ Top \in { "array", "object" } /\ s \notin { "ok", "col" }
     /\ state' = "ok" /\ stack' = stack
  \/ /\ f.type \in Start /\ n = << >> /\ Top # "key" /\ s \in { "go", "val", "arr" }
     /\ state' \in { "obj", "arr" }
     /\ stack' = Append(stack, IF f.type = "JSON_array_start" THEN "array" ELSE "key")
  \/ /\ f.type \in EndEvent /\ Top # "done"
     /\ state' = "ok" /\ stack' = Front(stack)

\* No other event: nothing moves, or a comma or a colon turns the mode.
StaysQuiet(s) ==
  \/ /\ stack' = stack
     /\ ~ misled' => (state' = "col" <=> s = "col") /\ (state' = "ok" <=> s = "ok")
  \/ stack' = stack /\ Top = "array"
  \/ Top = "object" /\ s = "ok" /\ stack' = Append(Front(stack), "key") /\ state' = "key"
  \/ Top = "key" /\ s = "col" /\ stack' = Append(Front(stack), "object") /\ state' = "val"

Tells(n, s) ==
  /\ NumberEnded(n, s)
  /\ \/ out' = n /\ (call' = "ok" => StaysQuiet(s))
     \/ \E f \in Event : /\ out' = Append(n, f) /\ (n = << >> \/ f.type \in EndEvent)
                         /\ call' = "ok" => Delivers(f, n, s)

\* Every turn is of this kind; one that fails delivers no more events than one that does not.
LEMMA TurnTells ==
  ASSUME Typed, CheckerModesAgree, call = "ok", NEW c \in Class, Turn(c), Observes(c)
  PROVE  /\ \E n, s : Tells(n, s)
         /\ call' \in { "ok", "rejected", "aborted" }
<1>1. /\ TypeOK /\ state \in State
      /\ state \in { "obj", "key", "col" } => Top = "key"
      /\ state = "arr" => Top = "array"
      /\ state \in { "val" } \cup Number \cup Word => Top \in { "array", "object" }
      /\ state = "ok" => Top # "key"
  BY DEF Typed, TypeOK, CheckerModesAgree
<1>2. (\A s : GoesOn(s) => state' = s /\ call' = "ok") /\ (Rejects => call' = "rejected")
  BY DEF GoesOn, Rejects
<1>3. /\ Number \cap { "ok", "col", "str", "obj", "key", "val", "arr" } = {}
      /\ Word \cap { "ok", "col", "str", "obj", "key", "val", "arr" } = {}
      /\ Number \cap ({ "str" } \cup Escape \cup Word) = {}
      /\ ({ "str" } \cup Escape) \cap { "ok", "col" } = {}
  BY DEF Number, Word, Escape
<1>4. /\ \A t \in Emitted, k \in KeyOrText : Ev(k, t) \in Event /\ Ev(k, t).type = k
      /\ \A k \in ValueEvent \cup EndEvent : Permitive(k) \in Event /\ Permitive(k).type = k
      /\ { "JSON_object_key", "JSON_string", "JSON_number" } \subseteq KeyOrText
      /\ { "JSON_string", "JSON_number", "JSON_null", "JSON_true", "JSON_false" } \subseteq Scalar
      /\ Start \subseteq ValueEvent /\ Scalar \subseteq ValueEvent
  <2>1. \A t \in Emitted, k \in KeyOrText : Ev(k, t) \in Event /\ Ev(k, t).type = k
    BY <1>1, TextTypes, EventTypes DEF Ev
  <2>2. \A k \in ValueEvent \cup EndEvent : Permitive(k) \in Event /\ Permitive(k).type = k
    BY <1>1, DeliveredTypes DEF Permitive, Ev
  <2> QED
    BY <2>1, <2>2 DEF KeyOrText, Scalar, ValueEvent, Start
\* Where no number ends.
<1>5. /\ NumberEnded(<< >>, state)
      /\ \A f : Append(<< >>, f) = << f >>
  BY DEF NumberEnded
\* Where one does.
<1>6. ASSUME state \in Number, NEW n \in NumberFirst
      PROVE  NumberEnded(n, "ok")
  <2>1. PICK t \in Emitted : n = << Ev("JSON_number", t) >>
    BY <1>6 DEF NumberFirst
  <2> QED
    BY <1>1, <1>4, <1>6, <2>1 DEF NumberEnded
<1>7. state \notin Number => NumberFirst = { << >> }
  BY DEF NumberFirst
<1>8. CASE NextChar(c)
  <2>1. /\ state' = Table[state][c] /\ Table[state][c] \in State /\ out' = << >> /\ stack' = stack
        /\ ~ (state \in Number /\ Table[state][c] \notin Number)
        /\ ~ (state \in { "n03", "tr3", "fe4" } /\ Table[state][c] = "ok") /\ call' = "ok"
    BY <1>2, <1>8 DEF NextChar
  <2>2. \/ state' = state
        \/ state \in { "val", "arr" } /\ state' \in Number \cup Word
        \/ state \in Number \cup Word /\ state' \in Number \cup Word
        \/ state \in { "str" } \cup Escape /\ state' \in { "str" } \cup Escape
    BY <1>1, <2>1, CellStates DEF State, Literal
  <2>3. StaysQuiet(state)
    BY <1>3, <2>1, <2>2 DEF StaysQuiet
  <2> QED
    BY <1>5, <2>1, <2>3 DEF Tells
<1>9. CASE EndNumber(c)
  <2>1. /\ state \in Number /\ out' \in NumberFirst /\ state' = "ok" /\ stack' = stack /\ call' = "ok"
    BY <1>2, <1>9 DEF EndNumber
  <2>2. StaysQuiet("ok")
    BY <2>1 DEF StaysQuiet
  <2> QED
    BY <1>6, <2>1, <2>2 DEF Tells
<1>10. CASE EndWord(c)
  <2>1. /\ state \in Word /\ WordEvent[state] \in Scalar
        /\ out' = << Permitive(WordEvent[state]) >> /\ state' = "ok" /\ stack' = stack /\ call' = "ok"
    BY <1>2, <1>4, <1>10 DEF EndWord, WordEvent, Word
  <2>2. Delivers(Permitive(WordEvent[state]), << >>, state) /\ Permitive(WordEvent[state]) \in Event
    BY <1>1, <1>3, <1>4, <2>1 DEF Delivers
  <2> QED
    BY <1>5, <2>1, <2>2 DEF Tells
<1>11. CASE CloseContainer(c)
  <2> DEFINE f == Permitive(ClosedBy[Table[state][c]].type)
  <2>1. /\ f \in Event /\ f.type \in EndEvent
        /\ ClosedBy[Table[state][c]].mode # "done"
    <3>1. ClosedBy[Table[state][c]].type \in EndEvent /\ ClosedBy[Table[state][c]].mode # "done"
      BY <1>11 DEF CloseContainer, ClosedBy, EndEvent
    <3> QED
      BY <1>4, <3>1
  <2>2. PICK n \in NumberFirst : out' = Append(n, f)
    BY <1>11 DEF CloseContainer
  <2>3. /\ \/ Top # "done" /\ stack' = Front(stack) /\ state' = "ok" /\ call' = "ok"
           \/ call' = "rejected"
    BY <1>2, <1>11, <2>1 DEF CloseContainer
  <2>4. \A m, s : call' = "ok" => Delivers(f, m, s)
    BY <2>1, <2>3 DEF Delivers
  <2> HIDE DEF f
  <2>5. Tells(n, IF state \in Number THEN "ok" ELSE state)
    BY <1>5, <1>6, <1>7, <2>1, <2>2, <2>4 DEF Tells
  <2> QED
    BY <2>3, <2>5
<1>12. CASE OpenContainer(c)
  <2>1. PICK k \in Start : /\ out' = << Permitive(k) >>
                           /\ \/ /\ stack' = Append(stack, IF k = "JSON_array_start" THEN "array" ELSE "key")
                                 /\ state' \in { "obj", "arr" } /\ call' = "ok"
                              \/ call' = "rejected"
    BY <1>2, <1>12 DEF OpenContainer, Pushes, Start
  <2>2. state \in { "go", "val", "arr" } /\ Top # "key"
    BY <1>1, <1>12, CellRegions, OpensNoKey DEF OpenContainer
  <2>3. /\ Permitive(k) \in Event /\ Permitive(k).type = k
    BY <1>4
  <2>4. call' = "ok" => Delivers(Permitive(k), << >>, state)
    BY <2>1, <2>2, <2>3 DEF Delivers
  <2>5. Tells(<< >>, state)
    BY <1>5, <2>1, <2>3, <2>4 DEF Tells
  <2> QED
    BY <2>1, <2>5
<1>13. CASE EndString(c)
  <2>1. state = "str"
    BY <1>1, <1>13, CellRegions DEF EndString
  <2>2. CASE out' = << >> /\ call' = "rejected"
    BY <1>5, <2>2 DEF Tells
  <2>3. CASE Top = "key" /\ \E t \in Emitted : out' = << Ev("JSON_object_key", t) >> /\ GoesOn("col")
    <3>1. PICK t \in Emitted : out' = << Ev("JSON_object_key", t) >>
      BY <2>3
    <3>2. Delivers(Ev("JSON_object_key", t), << >>, state) /\ call' = "ok"
      BY <1>2, <1>4, <1>13, <2>1, <2>3 DEF Delivers, EndString
    <3> QED
      BY <1>4, <1>5, <3>1, <3>2 DEF Tells
  <2>4. CASE /\ Top \in { "array", "object" }
             /\ \E t \in Emitted : out' = << Ev("JSON_string", t) >> /\ GoesOn("ok")
    <3>1. PICK t \in Emitted : out' = << Ev("JSON_string", t) >>
      BY <2>4
    <3>2. Delivers(Ev("JSON_string", t), << >>, state) /\ call' = "ok"
      BY <1>2, <1>4, <1>13, <2>1, <2>4 DEF Delivers, EndString
    <3> QED
      BY <1>4, <1>5, <3>1, <3>2 DEF Tells
  <2> QED
    BY <1>2, <1>13, <2>2, <2>3, <2>4 DEF EndString
<1>14. CASE Comma(c)
  <2>1. state \in { "ok" } \cup Number /\ out' \in NumberFirst
    BY <1>1, <1>14, CellRegions DEF Comma
  <2>2. NumberEnded(out', "ok")
    <3>1. CASE state \in Number
      BY <1>6, <2>1, <3>1
    <3>2. CASE state = "ok"
      BY <1>3, <1>5, <1>7, <2>1, <3>2
    <3> QED
      BY <2>1, <3>1, <3>2
  <2>3. call' = "rejected" \/ (call' = "ok" /\ StaysQuiet("ok"))
    BY <1>2, <1>14 DEF Comma, StaysQuiet
  <2> QED
    BY <2>2, <2>3 DEF Tells
<1>15. CASE Colon(c)
  <2>1. state = "col" /\ out' = << >>
    BY <1>1, <1>15, CellRegions DEF Colon
  <2>2. call' = "rejected" \/ (call' = "ok" /\ StaysQuiet("col"))
    BY <1>2, <1>15, <2>1 DEF Colon, StaysQuiet
  <2> QED
    BY <1>5, <2>1, <2>2 DEF Tells
<1>16. CASE StartString(c)
  <2>1. out' \in NumberFirst /\ state' = "str" /\ stack' = stack /\ call' = "ok"
    BY <1>2, <1>16 DEF StartString
  <2>2. ~ misled' => state \in { "obj", "key", "val", "arr" }
    BY <1>1, <1>16, LitIs, CellRegions DEF StartString
  <2>3. CASE state \in Number
    <3>1. StaysQuiet("ok")
      BY <1>3, <2>1, <2>2, <2>3 DEF StaysQuiet
    <3> QED
      BY <1>6, <2>1, <2>3, <3>1 DEF Tells
  <2>4. CASE state \notin Number
    <3>1. StaysQuiet(state)
      BY <2>1, <2>2 DEF StaysQuiet
    <3> QED
      BY <1>5, <1>7, <2>1, <2>4, <3>1 DEF Tells
  <2> QED
    BY <2>3, <2>4
<1>17. CASE BadCharacter(c) \/ AbortInEmit(c)
  <2>1. out' = << >> /\ call' \in { "rejected", "aborted" }
    BY <1>2, <1>17 DEF BadCharacter, AbortInEmit
  <2> QED
    BY <1>5, <2>1 DEF Tells
<1> QED
  BY <1>8, <1>9, <1>10, <1>11, <1>12, <1>13, <1>14, <1>15, <1>16, <1>17 DEF Turn

-----------------------------------------------------------------------------
(* Cursors and keys in step with the modes.                                *)

\* The key of the next value, by the state and the mode of the innermost container.
KeyAgrees(k, s, m) ==
  /\ IsIndex(k) <=> m = "array"
  /\ m = "key" => (k # NoKey <=> s = "col")
  /\ m = "object" => (k # NoKey <=> s # "ok")

\* The key of a container's cursor is of the kind the container around it asks for.
KeysFollow(k, cursors, s, modes) ==
  /\ cursors # << >> => KeyAgrees(k, s, Last(modes))
  /\ \A i \in 2 .. Len(cursors) : IsIndex(cursors[i].key) <=> modes[i] = "array"

\* The modes by their places, where they are pushed, popped and turned.
LEMMA ModesAt ==
  ASSUME NEW modes, ModeStack(modes)
  PROVE  /\ Len(modes) \in Nat \ {0} /\ Last(modes) = modes[Len(modes)]
         /\ \A m \in Mode : /\ Len(Append(modes, m)) = Len(modes) + 1 /\ Last(Append(modes, m)) = m
                            /\ \A i \in 1 .. Len(modes) : Append(modes, m)[i] = modes[i]
         /\ Last(modes) # "done" =>
              /\ Len(modes) > 1 /\ Len(Front(modes)) = Len(modes) - 1
              /\ Last(Front(modes)) = modes[Len(modes) - 1] /\ Last(Front(modes)) # "key"
              /\ Last(Front(modes)) = "done" <=> Len(modes) = 2
              /\ \A i \in 1 .. Len(modes) - 1 : Front(modes)[i] = modes[i]
              /\ \A m \in { "key", "object" } :
                   /\ Len(Append(Front(modes), m)) = Len(modes) /\ Last(Append(Front(modes), m)) = m
                   /\ \A i \in 1 .. Len(modes) - 1 : Append(Front(modes), m)[i] = modes[i]
<1>1. modes \in Seq(Mode) /\ Len(modes) \in Nat \ {0} /\ Last(modes) = modes[Len(modes)]
  BY TopMode, FrontProperties DEF ModeStack, Mode, Modes
<1>2. ASSUME NEW l \in Seq(Mode), NEW m \in Mode
      PROVE  /\ Len(Append(l, m)) = Len(l) + 1 /\ Last(Append(l, m)) = m
             /\ \A i \in 1 .. Len(l) : Append(l, m)[i] = l[i]
  BY AppendProperties, LastOfAppend
<1>3. ASSUME Last(modes) # "done"
      PROVE  /\ Len(modes) > 1 /\ Front(modes) \in Seq(Mode) /\ Len(Front(modes)) = Len(modes) - 1
             /\ Last(Front(modes)) = modes[Len(modes) - 1] /\ Last(Front(modes)) # "key"
             /\ Last(Front(modes)) = "done" <=> Len(modes) = 2
             /\ \A i \in 1 .. Len(modes) - 1 : Front(modes)[i] = modes[i]
  <2> DEFINE l == Front(modes)
  <2>1. Len(modes) > 1
    <3>1. Len(modes) # 1
      BY <1>3, TopMode
    <3> QED
      BY <1>1, <3>1
  <2>2. ModeStack(l) /\ Last(l) # "key" /\ Len(l) = Len(modes) - 1
    BY <1>3, PopMode
  <2>3. l \in Seq(Mode) /\ \A i \in 1 .. Len(modes) - 1 : l[i] = modes[i]
    BY <1>1, FrontProperties
  <2> HIDE DEF l
  <2>4. Last(l) = l[Len(l)] /\ (Last(l) = "done" <=> Len(l) = 1) /\ Len(l) \in 1 .. Len(modes) - 1
    <3>1. Len(l) \in Nat \ {0} /\ Last(l) = l[Len(l)] /\ (Last(l) = "done" <=> Len(l) = 1)
      BY <2>2, TopMode, FrontProperties DEF ModeStack
    <3> QED
      BY <1>1, <2>2, <3>1
  <2> QED
    BY <1>1, <2>1, <2>2, <2>3, <2>4 DEF l
<1>4. \A m \in { "key", "object" } : Last(modes) # "done" =>
        /\ Len(Append(Front(modes), m)) = Len(modes) /\ Last(Append(Front(modes), m)) = m
        /\ \A i \in 1 .. Len(modes) - 1 : Append(Front(modes), m)[i] = modes[i]
  <2>1. { "key", "object" } \subseteq Mode
    BY DEF Mode
  <2> QED
    BY <1>1, <1>2, <1>3, <2>1
<1> QED
  BY <1>1, <1>2, <1>3, <1>4

\* Where a value may come, there is a key for it.
LEMMA KeyIsThere ==
  ASSUME NEW cursors, NEW modes, ModeStack(modes), Len(cursors) = Len(modes) - 1,
         NEW k, NEW s, KeysFollow(k, cursors, s, modes),
         Last(modes) \in { "array", "object" }, s # "ok"
  PROVE  cursors # << >> /\ k # NoKey
<1>1. cursors # << >>
  <2>1. Len(modes) > 1
    BY ModesAt
  <2>2. Len(<< >>) = 0
    OBVIOUS
  <2> QED
    BY <2>1, <2>2, ModesAt
<1> QED
  BY <1>1, Keys DEF KeysFollow, KeyAgrees

\* What the calls of a step begin with, where the parser goes on.
Ready == Roots /\ Working(Before) /\ parser = "ok"

\* A cursor for each open container: what Done() leaves so behind a complete document only.
Matched == ModeStack(stack) /\ Len(m_stack) = Len(stack) - 1

\* What the calls of a step begin with, by the field.
LEMMA BeforeIs ==
  /\ DOMAIN Before = Fields /\ Before.parser = parser /\ Before.thrown = thrown
  /\ Before.key = m_key /\ Before.stack = m_stack /\ Before.items = items /\ Before.wrote = << >>
BY DEF Before, Fields

\* The number that a turn ends first: the keys follow the modes as in the state behind it.
LEMMA NumberWorks ==
  ASSUME Ready, NEW n, NEW s, NumberEnded(n, s)
  PROVE  LET p == Called(n) IN
         /\ Working(p) /\ p.stack = m_stack
         /\ n = << >> => p.parser = "ok" /\ p.wrote = << >>
         /\ Matched /\ KeysFollow(m_key, m_stack, state, stack) =>
              /\ p.parser # "aborted"
              /\ p.parser = "ok" => KeysFollow(p.key, m_stack, s, stack)
<1>1. CASE n = << >> /\ s = state
  <2>1. Called(n) = Before
    BY <1>1 DEF Called
  <2> QED
    BY <1>1, <2>1, BeforeIs DEF Ready
<1>2. CASE /\ state \in Number /\ s = "ok" /\ Top \in { "array", "object" }
           /\ \E e \in Event : e.type = "JSON_number" /\ n = << e >>
  <2> PICK e \in Event : e.type = "JSON_number" /\ n = << e >>
    BY <1>2
  <2> DEFINE p == Callback(Before, e)
  <2>1. n # << >> /\ Called(n) = p
    BY DEF Called
  <2>2. Working(p) /\ Effect(Before, p, e)
    BY BeforeIs, CallbackWorks DEF Ready, MayCome
  <2>3. /\ p.stack = m_stack
        /\ p.parser = "ok" => p.key = Finished(m_key)
        /\ p.parser = "aborted" => m_stack = << >> \/ m_key = NoKey
    BY <2>2, BeforeIs DEF Effect, Scalar, ValueEvent, Start
  <2> HIDE DEF p
  <2>4. ASSUME Matched, KeysFollow(m_key, m_stack, state, stack)
        PROVE  /\ m_stack # << >> /\ m_key # NoKey
               /\ KeysFollow(Finished(m_key), m_stack, s, stack)
    <3>1. state # "ok"
      BY <1>2 DEF Number
    <3>2. m_stack # << >> /\ m_key # NoKey
      BY <1>2, <2>4, <3>1, KeyIsThere DEF Matched, Top
    <3>3. KeyAgrees(m_key, state, Top)
      BY <2>4, <3>2 DEF KeysFollow, Top
    <3>4. m_key \in Key
      BY BeforeIs DEF Ready, Working
    <3>5. KeyAgrees(Finished(m_key), "ok", Top)
      BY <1>2, <3>3, <3>4, Keys DEF KeyAgrees
    <3> QED
      BY <1>2, <2>4, <3>2, <3>5 DEF KeysFollow, Top
  <2> QED
    BY <2>1, <2>2, <2>3, <2>4
<1> QED
  BY <1>1, <1>2 DEF NumberEnded

\* A step without another event.
LEMMA QuietFollows ==
  ASSUME ModeStack(stack), Len(m_stack) = Len(stack) - 1, NEW s, StaysQuiet(s), NEW k
  PROVE  /\ Len(stack') = Len(stack)
         /\ ~ misled' /\ KeysFollow(k, m_stack, s, stack) => KeysFollow(k, m_stack, state', stack')
<1>1. Len(stack) \in Nat \ {0} /\ Top = Last(stack)
  BY TopMode DEF Top
<1>2. CASE stack' = stack
  <2> SUFFICES ASSUME ~ misled', KeyAgrees(k, s, Top)
               PROVE  KeyAgrees(k, state', Top)
    BY <1>1, <1>2 DEF KeysFollow
  <2>1. Top = "array" \/ ((state' = "col" <=> s = "col") /\ (state' = "ok" <=> s = "ok"))
    <3>1. \A m \in { "key", "object" } :
            Top # "done" => /\ Len(Append(Front(stack), m)) = Len(stack)
                            /\ Last(Append(Front(stack), m)) = m
      BY <1>1, ModesAt
    <3> QED
      BY <1>1, <1>2, <3>1 DEF StaysQuiet
  <2> QED
    BY <2>1 DEF KeyAgrees
<1>3. ASSUME NEW m \in { "key", "object" }, Top # "done", stack' = Append(Front(stack), m),
             KeyAgrees(k, s, Top) => KeyAgrees(k, state', m)
      PROVE  /\ Len(stack') = Len(stack)
             /\ ~ misled' /\ KeysFollow(k, m_stack, s, stack) => KeysFollow(k, m_stack, state', stack')
  <2>1. /\ Len(stack') = Len(stack) /\ Last(stack') = m
        /\ \A i \in 1 .. Len(stack) - 1 : stack'[i] = stack[i]
    BY <1>1, <1>3, ModesAt
  <2>2. \A i \in 2 .. Len(m_stack) : stack'[i] = stack[i]
    BY <1>1, <2>1
  <2> QED
    BY <1>1, <1>3, <2>1, <2>2 DEF KeysFollow
<1>4. CASE Top = "object" /\ s = "ok" /\ stack' = Append(Front(stack), "key") /\ state' = "key"
  <2>1. KeyAgrees(k, s, Top) => KeyAgrees(k, state', "key")
    BY <1>4 DEF KeyAgrees
  <2> QED
    BY <1>3, <1>4, <2>1
<1>5. CASE Top = "key" /\ s = "col" /\ stack' = Append(Front(stack), "object") /\ state' = "val"
  <2>1. KeyAgrees(k, s, Top) => KeyAgrees(k, state', "object")
    BY <1>5 DEF KeyAgrees
  <2> QED
    BY <1>3, <1>5, <2>1
<1> QED
  BY <1>2, <1>4, <1>5 DEF StaysQuiet

\* The last event of a step: cursors and modes are pushed and popped together.
LEMMA EventWorks ==
  ASSUME Ready, Matched, NEW p, Working(p), p.parser = "ok", p.stack = m_stack,
         NEW n, NEW s, NEW f \in Event, MayCome(p, f), Delivers(f, n, s)
  PROVE  LET q == Callback(p, f) IN
         /\ q.parser = "ok" => Len(q.stack) = Len(stack') - 1
         /\ KeysFollow(p.key, m_stack, s, stack) =>
              /\ q.parser # "aborted"
              /\ q.parser = "ok" => KeysFollow(q.key, q.stack, state', stack')
<1> DEFINE q == Callback(p, f)
<1>1. Working(q) /\ Effect(p, q, f)
  BY CallbackWorks DEF Ready
<1>2. /\ Len(stack) \in Nat \ {0} /\ Top = Last(stack) /\ ModeStack(stack)
      /\ Len(m_stack) = Len(stack) - 1 /\ p.key \in Key
      /\ m_stack = << >> <=> Len(m_stack) = 0
  <2>1. m_stack \in Seq(CursorSet)
    BY DEF Working, GoodStack
  <2> QED
    BY <2>1, TopMode, EmptySeq DEF Matched, Working, Top
<1> HIDE DEF q
<1>3. CASE /\ f.type = "JSON_object_key" /\ Top = "key" /\ s = "str"
           /\ state' = "col" /\ stack' = stack
  <2>1. /\ q.stack = m_stack
        /\ q.parser = "ok" => q.key # NoKey /\ ~ IsIndex(q.key)
        /\ q.parser = "aborted" => p.key # NoKey
    BY <1>1, <1>3 DEF Effect
  <2>2. ASSUME KeysFollow(p.key, m_stack, s, stack)
        PROVE  /\ p.key = NoKey
               /\ q.parser = "ok" => KeysFollow(q.key, m_stack, state', stack')
    <3>1. m_stack # << >>
      <4>1. Len(stack) # 1
        BY <1>2, <1>3, TopMode
      <4> QED
        BY <1>2, <4>1
    <3>2. KeyAgrees(p.key, s, Top)
      BY <1>2, <2>2, <3>1 DEF KeysFollow
    <3> QED
      BY <1>2, <1>3, <2>1, <2>2, <3>2 DEF KeyAgrees, KeysFollow
  <2> QED
    BY <1>2, <1>3, <2>1, <2>2 DEF q
<1>4. CASE /\ f.type \in Scalar /\ Top \in { "array", "object" } /\ s \notin { "ok", "col" }
           /\ state' = "ok" /\ stack' = stack
  <2>1. /\ q.stack = m_stack
        /\ q.parser = "ok" => q.key = Finished(p.key)
        /\ q.parser = "aborted" => m_stack = << >> \/ p.key = NoKey
    BY <1>1, <1>4 DEF Effect
  <2>2. ASSUME KeysFollow(p.key, m_stack, s, stack)
        PROVE  /\ m_stack # << >> /\ p.key # NoKey
               /\ KeysFollow(Finished(p.key), m_stack, state', stack')
    <3>1. m_stack # << >> /\ p.key # NoKey
      BY <1>2, <1>4, <2>2, KeyIsThere
    <3>2. KeyAgrees(p.key, s, Top)
      BY <1>2, <2>2, <3>1 DEF KeysFollow
    <3>3. KeyAgrees(Finished(p.key), state', Top)
      BY <1>2, <1>4, <3>2, Keys DEF KeyAgrees
    <3> QED
      BY <1>2, <1>4, <2>2, <3>1, <3>3 DEF KeysFollow
  <2> QED
    BY <1>2, <1>4, <2>1, <2>2 DEF q
<1>5. CASE /\ f.type \in Start /\ Top # "key" /\ s \in { "go", "val", "arr" }
           /\ state' \in { "obj", "arr" }
           /\ stack' = Append(stack, IF f.type = "JSON_array_start" THEN "array" ELSE "key")
  <2> DEFINE m == IF f.type = "JSON_array_start" THEN "array" ELSE "key"
  <2>1. /\ q.parser = "ok" =>
             /\ q.key = StartKey(p.key, f.type) /\ Len(q.stack) = Len(m_stack) + 1
             /\ \A i \in 1 .. Len(m_stack) : q.stack[i] = m_stack[i]
             /\ m_stack # << >> => q.stack[Len(m_stack) + 1].key = p.key
        /\ q.parser = "aborted" => m_stack # << >> /\ p.key = NoKey
    BY <1>1, <1>5 DEF Effect
  <2>2. /\ Len(stack') = Len(stack) + 1 /\ Last(stack') = m
        /\ \A i \in 1 .. Len(stack) : stack'[i] = stack[i]
    <3>1. m \in Mode
      BY DEF Mode
    <3> QED
      BY <1>2, <1>5, <3>1, ModesAt
  <2>3. ASSUME KeysFollow(p.key, m_stack, s, stack)
        PROVE  q.parser # "aborted"
    <3>1. m_stack # << >> => Top # "done"
      <4>1. Top = "done" => Len(stack) = 1
        BY <1>2, TopMode
      <4> QED
        BY <1>2, <4>1
    <3>2. Top \in { "array", "object", "key", "done" }
      BY <1>2, TopMode DEF Modes
    <3>3. m_stack # << >> => p.key # NoKey
      BY <1>2, <1>5, <2>3, <3>1, <3>2, KeyIsThere
    <3> QED
      BY <2>1, <3>3
  <2>4. ASSUME KeysFollow(p.key, m_stack, s, stack), q.parser = "ok"
        PROVE  KeysFollow(q.key, q.stack, state', stack')
    <3>1. KeyAgrees(q.key, state', Last(stack'))
      <4>1. 0 \in Nat
        OBVIOUS
      <4> QED
        BY <1>5, <2>1, <2>2, <2>4, <4>1, Keys DEF KeyAgrees, StartKey
    <3>2. ASSUME NEW i \in 2 .. Len(q.stack)
          PROVE  IsIndex(q.stack[i].key) <=> stack'[i] = "array"
      <4>1. CASE i \in 2 .. Len(m_stack)
        <5>1. i \in 1 .. Len(m_stack) /\ i \in 1 .. Len(stack)
          BY <1>2, <4>1
        <5> QED
          BY <2>1, <2>2, <2>4, <4>1, <5>1 DEF KeysFollow
      <4>2. CASE i = Len(m_stack) + 1
        <5>1. i = Len(stack) /\ i \in 1 .. Len(stack) /\ m_stack # << >>
          BY <1>2, <4>2
        <5>2. stack'[i] = Last(stack)
          BY <1>2, <2>2, <5>1, ModesAt
        <5>3. IsIndex(p.key) <=> Last(stack) = "array"
          BY <2>4, <5>1 DEF KeysFollow, KeyAgrees
        <5> QED
          BY <2>1, <2>4, <4>2, <5>1, <5>2, <5>3
      <4> QED
        BY <1>2, <2>1, <2>4, <4>1, <4>2
    <3> QED
      BY <3>1, <3>2 DEF KeysFollow
  <2> QED
    BY <1>2, <2>1, <2>2, <2>3, <2>4 DEF q
<1>6. CASE f.type \in EndEvent /\ Top # "done" /\ state' = "ok" /\ stack' = Front(stack)
  <2>1. /\ q.parser = "ok" => /\ m_stack # << >> /\ q.stack = Front(m_stack)
                              /\ q.key = Finished(Last(m_stack).key)
        /\ q.parser = "aborted" => m_stack = << >>
    BY <1>1, <1>6 DEF Effect
  <2>2. /\ Len(stack) > 1 /\ Len(stack') = Len(stack) - 1
        /\ Last(stack') = stack[Len(stack) - 1] /\ Last(stack') # "key"
        /\ Last(stack') = "done" <=> Len(stack) = 2
        /\ \A i \in 1 .. Len(stack) - 1 : stack'[i] = stack[i]
    BY <1>2, <1>6, ModesAt
  <2>3. m_stack # << >>
    BY <1>2, <2>2
  <2>4. /\ Last(m_stack) = m_stack[Len(m_stack)] /\ Last(m_stack).key \in Key
        /\ Len(Front(m_stack)) = Len(m_stack) - 1
        /\ \A i \in 1 .. Len(m_stack) - 1 : Front(m_stack)[i] = m_stack[i]
    <3>1. GoodStack(m_stack, Base)
      BY DEF Working
    <3> QED
      BY <2>3, <3>1, LastIsGood, PopIsGoodStack DEF CursorSet
  <2>5. ASSUME KeysFollow(p.key, m_stack, s, stack), q.parser = "ok"
        PROVE  KeysFollow(q.key, q.stack, state', stack')
    <3>1. ASSUME q.stack # << >>
          PROVE  KeyAgrees(q.key, state', Last(stack'))
      <4>1. Len(m_stack) \in 2 .. Len(m_stack)
        <5>1. Len(m_stack) # 1
          <6>1. Working(q) => (q.stack = << >> <=> Len(q.stack) = 0)
            BY EmptySeq DEF Working, GoodStack
          <6> QED
            BY <1>1, <2>1, <2>4, <2>5, <3>1, <6>1
        <5> QED
          BY <1>2, <2>2, <5>1
      <4>2. IsIndex(Last(m_stack).key) <=> Last(stack') = "array"
        BY <1>2, <2>2, <2>4, <2>5, <4>1 DEF KeysFollow
      <4>3. Last(stack') # "key" /\ state' = "ok"
        BY <1>6, <2>2
      <4> QED
        BY <2>1, <2>4, <2>5, <4>2, <4>3, Keys DEF KeyAgrees
    <3>2. ASSUME NEW i \in 2 .. Len(q.stack)
          PROVE  IsIndex(q.stack[i].key) <=> stack'[i] = "array"
      <4>1. i \in 1 .. Len(m_stack) - 1 /\ i \in 2 .. Len(m_stack) /\ i \in 1 .. Len(stack) - 1
        BY <1>2, <2>1, <2>4, <2>5
      <4> QED
        BY <2>1, <2>2, <2>4, <2>5, <4>1 DEF KeysFollow
    <3> QED
      BY <3>1, <3>2 DEF KeysFollow
  <2> QED
    BY <1>2, <2>1, <2>2, <2>3, <2>4, <2>5 DEF q
<1> QED
  BY <1>3, <1>4, <1>5, <1>6 DEF Delivers

\* One character: all calls of Callback.
LEMMA CalledWorks ==
  ASSUME Ready, NEW n, NEW s, Tells(n, s)
  PROVE  LET p == Called(out') IN
         /\ Working(p)
         /\ Matched /\ call' = "ok" /\ p.parser = "ok" => Len(p.stack) = Len(stack') - 1
         /\ Matched /\ call' = "ok" /\ ~ misled' /\ KeysFollow(m_key, m_stack, state, stack) =>
              /\ p.parser # "aborted"
              /\ p.parser = "ok" => KeysFollow(p.key, p.stack, state', stack')
<1> DEFINE p == Called(n)
<1>1. /\ Working(p) /\ p.stack = m_stack
      /\ n = << >> => p.parser = "ok" /\ p.wrote = << >>
      /\ Matched /\ KeysFollow(m_key, m_stack, state, stack) =>
           /\ p.parser # "aborted"
           /\ p.parser = "ok" => KeysFollow(p.key, m_stack, s, stack)
  BY NumberWorks DEF Tells
<1>2. Matched <=> ModeStack(stack) /\ Len(m_stack) = Len(stack) - 1
  BY DEF Matched
<1>3. CASE out' = n /\ (call' = "ok" => StaysQuiet(s))
  <2> HIDE DEF p
  <2>1. Matched /\ call' = "ok" =>
          /\ Len(stack') = Len(stack)
          /\ ~ misled' /\ KeysFollow(p.key, m_stack, s, stack) => KeysFollow(p.key, m_stack, state', stack')
    BY <1>2, <1>3, QuietFollows
  <2> QED
    BY <1>1, <1>2, <1>3, <2>1 DEF p
<1>4. ASSUME NEW f \in Event, out' = Append(n, f), n = << >> \/ f.type \in EndEvent,
             call' = "ok" => Delivers(f, n, s)
      PROVE  LET q == Called(out') IN
             /\ Working(q)
             /\ Matched /\ call' = "ok" /\ q.parser = "ok" => Len(q.stack) = Len(stack') - 1
             /\ Matched /\ call' = "ok" /\ ~ misled' /\ KeysFollow(m_key, m_stack, state, stack) =>
                  /\ q.parser # "aborted"
                  /\ q.parser = "ok" => KeysFollow(q.key, q.stack, state', stack')
  <2> DEFINE q == Callback(p, f)
  <2>1. Called(out') = q
    <3>1. CASE n = << >>
      <4>1. /\ out' = << f >> /\ << f >> # << >> /\ Len(<< f >>) = 1 /\ << f >>[1] = f
            /\ Called(n) = Before
        BY <1>4, <3>1 DEF Called
      <4> QED
        BY <4>1 DEF Called
    <3>2. CASE \E e \in Event : n = << e >>
      <4> PICK e \in Event : n = << e >>
        BY <3>2
      <4>1. /\ n # << >> /\ Len(n) = 1 /\ n[1] = e
            /\ out' # << >> /\ Len(out') = 2 /\ out'[1] = e /\ out'[2] = f
        <5>1. << e >> \in Seq(Event) /\ Len(<< e >>) = 1 /\ << e >>[1] = e
          OBVIOUS
        <5>2. Len(out') = 2 /\ out'[1] = e /\ out'[2] = f /\ out' \in Seq(Event)
          BY <1>4, <5>1, AppendProperties
        <5> QED
          BY <5>1, <5>2, EmptySeq
      <4>2. Called(n) = Callback(Before, e)
        BY <4>1 DEF Called
      <4>3. Called(out') = Callback(Callback(Before, e), f)
        BY <4>1 DEF Called
      <4> QED
        BY <4>2, <4>3
    <3> QED
      BY <3>1, <3>2 DEF Tells, NumberEnded
  <2>2. CASE p.parser = "ok"
    <3>1. MayCome(p, f)
      BY <1>1, <1>4 DEF MayCome
    <3> HIDE DEF p
    <3>2. Working(q)
      BY <1>1, <2>2, <3>1, CallbackWorks DEF Ready
    <3>3. Matched /\ call' = "ok" =>
            /\ q.parser = "ok" => Len(q.stack) = Len(stack') - 1
            /\ KeysFollow(p.key, m_stack, s, stack) =>
                 /\ q.parser # "aborted"
                 /\ q.parser = "ok" => KeysFollow(q.key, q.stack, state', stack')
      BY <1>1, <1>4, <2>2, <3>1, EventWorks
    <3> QED
      BY <1>1, <2>1, <2>2, <3>2, <3>3
  <2>3. CASE p.parser # "ok"
    <3>1. q = p
      BY <2>3 DEF Callback
    <3> HIDE DEF p, q
    <3> QED
      BY <1>1, <2>1, <2>3, <3>1
  <2> QED
    BY <2>2, <2>3
<1> QED
  BY <1>3, <1>4 DEF Tells

-----------------------------------------------------------------------------
(* The invariant.                                                          *)

\* As long as both components go on, and no document has been cut off: a cursor for each
\* container, and, where no empty cell has been taken, keys of the kind the modes ask for.
InStep ==
  parser = "ok" /\ call = "ok" /\ unfinished = 0 =>
    /\ Len(m_stack) = Len(stack) - 1
    /\ ~ misled => KeysFollow(m_key, m_stack, state, stack)

TargetIs(root) == /\ RootIs(root)
                  /\ root.obj = Nowhere \/ \E n \in Nat : root.obj = << n >>

\* The cursors of a document lead into the target it began with; the elements are
\* numbered, so that the last one can be told from the others.
ParserInv ==
  /\ CheckerInv
  /\ TargetIs(m_root) /\ RootIs(Base)
  /\ parser \in Outcome /\ m_key \in Key /\ unfinished \in Nat
  /\ GoodStack(m_stack, Base) /\ Numbered(items) /\ NoDangling(m_stack, items)
  /\ \E t : Wrote(wrote, t)
  /\ MismatchIsTheCallers /\ AbortsOnBrokenTextOnly /\ InStep

\* A new target has no elements.
LEMMA NoElements == Numbered({})
BY FS_EmptySet DEF Numbered

\* An empty stack has nothing wrong with it.
LEMMA NoCursors ==
  ASSUME NEW root, NEW elements
  PROVE  GoodStack(<< >>, root) /\ NoDangling(<< >>, elements)
<1>1. << >> \in Seq(CursorSet) /\ Len(<< >>) = 0 /\ DOMAIN << >> = {}
  OBVIOUS
<1> QED
  BY <1>1 DEF GoodStack, NoDangling

\* A new parser has no target yet.
LEMMA ParserInitIsGood == ParserInit => ParserInv
<1> SUFFICES ASSUME ParserInit PROVE ParserInv
  OBVIOUS
<1>1. CheckerInv
  BY CheckerInit DEF ParserInit
<1>2. m_key \in Key /\ m_key # NoKey /\ IsIndex(m_key)
  <2>1. 0 \in Nat
    OBVIOUS
  <2> QED
    BY <2>1, Keys DEF ParserInit
<1>3. TargetIs(m_root) /\ m_root.obj = Nowhere
  <2>1. /\ m_root = [key |-> IndexKey(0), obj |-> Nowhere, type |-> "void", rec |-> Root]
        /\ IndexKey(0) \in Key /\ IndexKey(0) # NoKey /\ IsIndex(IndexKey(0)) /\ Nowhere \in Address /\ Len(Nowhere) = 0
    BY <1>2 DEF ParserInit, Nowhere, Address
  <2>2. m_root \in CursorSet /\ Root \in Builder /\ Root # Mock
    BY <2>1, BuilderTree DEF CursorSet
  <2>3. IsCursor(m_root)
    BY <2>1, <2>2 DEF IsCursor
  <2> QED
    BY <2>1, <2>2, <2>3 DEF TargetIs, RootIs
<1>4. m_stack = << >> /\ items = {} /\ wrote = << >> /\ parser = "ok" /\ Len(stack) = 1
      /\ unfinished = 0
  BY DEF ParserInit, Init
<1>5. InStep
  BY <1>4 DEF InStep, KeysFollow
<1>6. Base = m_root /\ RootIs(m_root)
  BY <1>3, <1>4 DEF Base, TargetIs
<1> QED
  BY <1>1, <1>2, <1>3, <1>4, <1>5, <1>6, NoElements, NoCursors
     DEF ParserInv, Wrote, MismatchIsTheCallers, AbortsOnBrokenTextOnly, Outcome

\* Parse: the calls of a character begin where the parser goes on.
LEMMA ParsesTells ==
  ASSUME ParserInv, NEW c \in Chars, Parses(c)
  PROVE  /\ Ready /\ (unfinished = 0 => Matched) /\ (\E n, s : Tells(n, s))
         /\ call' \in { "ok", "rejected", "aborted" }
<1>1. parser = "ok" /\ call = "ok" /\ m_root.obj # Nowhere
  BY DEF Parses, Reads
<1>2. Working(Before)
  BY <1>1, BeforeIs DEF ParserInv, Working, Wrote
<1>3. Ready /\ (unfinished = 0 => Matched)
  BY <1>1, <1>2 DEF ParserInv, CheckerInv, Typed, TargetIs, InStep, Ready, Roots, Matched
<1>4. /\ \E n, s : Tells(n, s)
      /\ call' \in { "ok", "rejected", "aborted" }
  BY CheckerChars, TurnTells DEF ParserInv, CheckerInv, Parses, Reads
<1> QED
  BY <1>3, <1>4

\* Parse: a character with all its calls.
LEMMA ParsesIsGood ==
  ASSUME ParserInv, NEW c \in Chars, Parses(c)
  PROVE  ParserInv'
<1> DEFINE p == Called(out')
<1>1. parser = "ok" /\ call = "ok" /\ m_root.obj # Nowhere /\ m_root' = m_root
      /\ unfinished' = unfinished
  BY DEF Parses, Reads
<1>2. CheckerInv'
  <2>1. [Next]_vars
    BY DEF Parses, Next
  <2> QED
    BY <2>1, CheckerStep DEF ParserInv
<1>3. Ready /\ (unfinished = 0 => Matched) /\ call' \in { "ok", "rejected", "aborted" }
  BY ParsesTells
<1>4. PICK n, s : Tells(n, s)
  BY ParsesTells
<1>5. /\ Working(p)
      /\ Matched /\ call' = "ok" /\ p.parser = "ok" => Len(p.stack) = Len(stack') - 1
      /\ Matched /\ call' = "ok" /\ ~ misled' /\ KeysFollow(m_key, m_stack, state, stack) =>
           /\ p.parser # "aborted"
           /\ p.parser = "ok" => KeysFollow(p.key, p.stack, state', stack')
  BY <1>3, <1>4, CalledWorks
<1>6. /\ parser' = IF p.parser # "ok" \/ call' = "ok" THEN p.parser
                   ELSE IF call' = "rejected" THEN "ParseError" ELSE "aborted"
      /\ thrown' = IF parser' = "ParseError" THEN AtPosition ELSE p.thrown
      /\ m_key' = p.key /\ m_stack' = p.stack /\ items' = p.items /\ wrote' = p.wrote
  BY DEF Parses
<1> HIDE DEF p
<1>7. parser' \in Outcome
  BY <1>5, <1>6 DEF Working, Outcome
<1>8. MismatchIsTheCallers'
  BY <1>1, <1>5, <1>6 DEF MismatchIsTheCallers, Working
<1>9. ~ misled' => ~ misled
  BY LitIs DEF Parses, Reads
<1>10. call' = "ok" /\ ~ misled' /\ unfinished = 0 => KeysFollow(m_key, m_stack, state, stack)
  BY <1>1, <1>9 DEF ParserInv, InStep
<1>11. AbortsOnBrokenTextOnly'
  BY <1>1, <1>3, <1>5, <1>6, <1>10 DEF AbortsOnBrokenTextOnly
<1>12. InStep'
  BY <1>1, <1>3, <1>5, <1>6, <1>10 DEF InStep
<1>13. RootIs(Base') /\ GoodStack(m_stack', Base')
  <2>1. CASE m_stack' = << >>
    <3>1. Base' = m_root
      BY <1>1, <2>1 DEF Base
    <3> QED
      BY <1>3, <2>1, <3>1, NoCursors DEF Ready, Roots
  <2>2. CASE m_stack' # << >>
    <3>1. Base' = m_stack'[1] /\ m_stack'[1] = Base
      BY <1>5, <1>6, <2>2 DEF Base, Working, GoodStack
    <3> QED
      BY <1>3, <1>5, <1>6, <3>1 DEF Ready, Roots, Working
  <2> QED
    BY <2>1, <2>2
<1>14. RootIs(Base)'
  BY <1>13 DEF RootIs, IsCursor, IsIndex
<1>15. GoodStack(m_stack, Base)' /\ (\E t : Wrote(wrote, t))'
  BY <1>5, <1>6, <1>13 DEF Working, GoodStack, GoodCursor, IsCursor, Wrote, Assigned
<1> QED
  BY <1>1, <1>2, <1>5, <1>6, <1>7, <1>8, <1>11, <1>12, <1>14, <1>15 DEF ParserInv, Working

\* Between two calls at the start or at the end of a document there is no cursor.
LEMMA NoCursorBetweenDocuments ==
  ASSUME ParserInv, BetweenCalls, unfinished = 0, state = "go" \/ Complete
  PROVE  m_stack = << >>
<1>1. stack = << "done" >> /\ Len(<< "done" >>) = 1
  BY DEF BetweenCalls, Complete, ParserInv, CheckerInv, CheckerModesAgree
<1>2. Len(m_stack) = 0
  BY <1>1 DEF BetweenCalls, ParserInv, InStep
<1> QED
  BY <1>2, EmptySeq DEF ParserInv, GoodStack

\* SetTarget: without an open document the new target has neither elements nor cursors; the
\* cursors of one stay where they were.
LEMMA SetTargetIsGood == ParserInv /\ SetTarget => ParserInv'
<1> SUFFICES ASSUME ParserInv, SetTarget PROVE ParserInv'
  OBVIOUS
<1>1. /\ UNCHANGED vars /\ UNCHANGED <<parser, thrown, m_key, m_stack, unfinished>>
      /\ items' = IF m_stack = << >> THEN {} ELSE items
      /\ wrote' = << >>
  BY DEF SetTarget, m_json, history
<1>2. CheckerInv'
  BY <1>1, CheckerStep DEF ParserInv
<1>3. parser = "ok"
  BY DEF SetTarget, BetweenCalls
<1>4. PICK n \in Nat, type \in { Root, "other" } : m_root' = [m_root EXCEPT !.obj = << n >>, !.type = type]
  <2> DEFINE n == IF m_root.obj = Nowhere THEN 1 ELSE m_root.obj[1] + 1
  <2>1. n \in Nat
    <3>1. \A i \in Nat : << i >>[1] = i /\ i + 1 \in Nat
      OBVIOUS
    <3> QED
      BY <3>1 DEF ParserInv, TargetIs
  <2>2. \E type \in { Root, "other" } : m_root' = [m_root EXCEPT !.obj = << n >>, !.type = type]
    BY DEF SetTarget, NextObject
  <2> HIDE DEF n
  <2> QED
    BY <2>1, <2>2
<1>5. TargetIs(m_root') /\ m_root'.obj # Nowhere
  <2>1. << n >> \in Address /\ Len(<< n >>) = 1 /\ << n >> # Nowhere
    BY DEF Address, Place, Nowhere
  <2>2. m_root \in CursorSet /\ IsCursor(m_root) /\ m_root.rec = Root
        /\ m_root.key # NoKey /\ IsIndex(m_root.key)
    BY DEF ParserInv, TargetIs, RootIs
  <2>3. Root \in Builder /\ Root # Mock
    BY BuilderTree
  <2>4. /\ m_root' \in CursorSet /\ m_root'.key = m_root.key /\ m_root'.rec = Root
        /\ m_root'.obj = << n >> /\ m_root'.type = type
    BY <1>4, <2>1, <2>2, <2>3 DEF CursorSet
  <2>5. IsCursor(m_root')
    BY <2>2, <2>3, <2>4 DEF IsCursor, CursorSet
  <2> QED
    BY <2>1, <2>2, <2>4, <2>5 DEF TargetIs, RootIs
<1>6. InStep'
  BY <1>1 DEF ParserInv, InStep, KeysFollow, KeyAgrees, vars, jc
<1>7. /\ GoodStack(m_stack', Base') /\ RootIs(Base')
      /\ Numbered(items') /\ NoDangling(m_stack', items')
  <2>1. CASE m_stack = << >>
    <3>1. Base' = m_root' /\ items' = {} /\ m_stack' = << >>
      BY <1>1, <2>1 DEF Base
    <3> QED
      BY <1>5, <3>1, NoElements, NoCursors DEF TargetIs
  <2>2. CASE m_stack # << >>
    <3>1. Base' = Base /\ items' = items /\ m_stack' = m_stack
      BY <1>1, <2>2 DEF Base
    <3> QED
      BY <3>1 DEF ParserInv
  <2> QED
    BY <2>1, <2>2
<1> QED
  BY <1>1, <1>2, <1>3, <1>5, <1>6, <1>7
     DEF ParserInv, Wrote, MismatchIsTheCallers, AbortsOnBrokenTextOnly

\* The end of a buffer changes nothing of the parser.
LEMMA EndOfPieceIsGood == ParserInv /\ EndOfPiece => ParserInv'
<1> SUFFICES ASSUME ParserInv, EndOfPiece PROVE ParserInv'
  OBVIOUS
<1>1. /\ SaveToken /\ parser = "ok" /\ wrote' = << >>
      /\ UNCHANGED <<parser, thrown, m_key, m_root, m_stack, items, unfinished>>
  BY DEF EndOfPiece, history
<1>2. CheckerInv'
  BY <1>1, CheckerStep DEF ParserInv, Next
<1>3. UNCHANGED <<state, stack, misled>> /\ call = "ok"
  BY <1>1 DEF SaveToken
<1>4. InStep'
  BY <1>1, <1>3 DEF ParserInv, InStep, KeysFollow, KeyAgrees
<1> QED
  BY <1>1, <1>2, <1>4 DEF ParserInv, Base, Wrote, MismatchIsTheCallers, AbortsOnBrokenTextOnly

\* A checker that a step makes new keeps the invariant.
LEMMA NextIsFresh == Fresh' => CheckerInv'
BY FreshIsGood, PTL

\* Done: behind a complete document no cursor is left over for the next one; one that cuts a
\* document off is counted.
LEMMA DoneIsGood == ParserInv /\ Done => ParserInv'
<1> SUFFICES ASSUME ParserInv, Done PROVE ParserInv'
  OBVIOUS
<1>1. /\ parser = "ok" /\ wrote' = << >> /\ stack' = << "done" >>
      /\ UNCHANGED <<parser, thrown, m_key, m_root, m_stack, items>>
  BY DEF Done, BetweenCalls
<1>2. CheckerInv'
  BY NextIsFresh, ParserBounds DEF Done, Fresh
<1>3. unfinished' \in Nat /\ (unfinished' = 0 => m_stack = << >>)
  <2>1. unfinished' = IF Complete \/ state = "go" THEN unfinished ELSE unfinished + 1
    BY DEF Done
  <2>2. unfinished \in Nat
    BY DEF ParserInv
  <2>3. unfinished' = 0 => unfinished = 0 /\ (state = "go" \/ Complete)
    BY <2>1, <2>2
  <2> QED
    BY <2>1, <2>2, <2>3, NoCursorBetweenDocuments DEF Done
<1>4. InStep'
  <2>1. Len(<< "done" >>) = 1 /\ Len(<< >>) = 0
    OBVIOUS
  <2> QED
    BY <1>1, <1>3, <2>1 DEF InStep, KeysFollow
<1> QED
  BY <1>1, <1>2, <1>3, <1>4 DEF ParserInv, Base, Wrote, MismatchIsTheCallers, AbortsOnBrokenTextOnly

\* Every step keeps the invariant.
LEMMA ParserStep == ParserInv /\ [ParserNext]_parser_vars => ParserInv'
<1> SUFFICES ASSUME ParserInv, [ParserNext]_parser_vars PROVE ParserInv'
  OBVIOUS
<1>1. CASE UNCHANGED parser_vars
  <2>1. CheckerInv'
    BY <1>1, CheckerStep DEF ParserInv, parser_vars, m_json
  <2> QED
    BY <1>1, <2>1 DEF ParserInv, Base, parser_vars, mine, history, m_json, vars, jc, MismatchIsTheCallers,
                      AbortsOnBrokenTextOnly, InStep, KeysFollow, KeyAgrees
<1> QED
  BY <1>1, SetTargetIsGood, EndOfPieceIsGood, DoneIsGood, ParsesIsGood DEF ParserNext

-----------------------------------------------------------------------------
(* The theorems.                                                           *)

\* It holds in every state.
LEMMA ParserAlways == ParserSpec => []ParserInv
BY ParserInitIsGood, ParserStep, PTL DEF ParserSpec

\* Every variable of the parser keeps its type: each cursor on the stack has a key and the
\* type of its builder or one the caller gave, and a step assigns one value at most.
THEOREM ParserTypeCorrect == ParserSpec => []ParserTypeOK
<1>1. ParserInv => ParserTypeOK
  <2> SUFFICES ASSUME ParserInv PROVE ParserTypeOK
    OBVIOUS
  <2>1. \A i \in DOMAIN m_stack : IsCursor(m_stack[i]) /\ m_stack[i].key # NoKey
    BY LenProperties DEF ParserInv, GoodStack, GoodCursor
  <2>2. (\A i \in DOMAIN wrote : wrote[i].at # Nowhere) /\ Len(wrote) <= 1
    <3>1. CASE wrote = << >>
      BY <3>1
    <3>2. ASSUME NEW t, NEW w, wrote = << w >>, Assigned(w, t)
          PROVE  (\A i \in DOMAIN wrote : wrote[i].at # Nowhere) /\ Len(wrote) <= 1
      <4>1. << w >>[1] = w /\ DOMAIN << w >> = { 1 } /\ Len(<< w >>) = 1
        OBVIOUS
      <4> QED
        BY <3>2, <4>1 DEF Assigned
    <3> QED
      BY <3>1, <3>2 DEF ParserInv, Wrote
  <2> QED
    BY <2>1, <2>2 DEF ParserInv, TargetIs, RootIs, ParserTypeOK
<1> QED
  BY <1>1, ParserAlways, PTL

\* The parser's stack of cursors and the checker's stack of modes have the same height
\* whenever both components go on, after an empty cell of the table too, where every document
\* was complete at Done().
THEOREM CursorsCorrect == ParserSpec => []CursorsFollowModes
<1>1. ParserInv => CursorsFollowModes
  BY DEF ParserInv, InStep, CursorsFollowModes
<1> QED
  BY <1>1, ParserAlways, PTL

\* The key of the next value is an index in an array, and in an object there is one from
\* the end of a key to the end of its value, for every text that keeps to the table and
\* documents that were complete at Done().
THEOREM KeysCorrect == ParserSpec => []KeyFollowsMode
<1>1. ParserInv => KeyFollowsMode
  BY DEF ParserInv, InStep, KeysFollow, KeyAgrees, KeyFollowsMode, Top
<1> QED
  BY <1>1, ParserAlways, PTL

\* No assertion of Callback or of a builder fails on a text the checker accepts, unless
\* the checker has accepted it by an empty cell of its table or Done() has cut a document off
\* before.
THEOREM CallbackAssertionsHold == ParserSpec => []AbortsOnBrokenTextOnly
<1>1. ParserInv => AbortsOnBrokenTextOnly
  BY DEF ParserInv
<1> QED
  BY <1>1, ParserAlways, PTL

\* TypeMismatch always comes from the target's own type, for every structure of builders and
\* any calls of Done() and SetTarget(): the types of members are right by construction.
THEOREM MismatchIsTheTargets == ParserSpec => []MismatchIsTheCallers
<1>1. ParserInv => MismatchIsTheCallers
  BY DEF ParserInv
<1> QED
  BY <1>1, ParserAlways, PTL

\* However vectors and objects are nested, no element is added to a vector behind one that
\* a cursor still points to.
THEOREM ElementsStay == ParserSpec => []NoDanglingElement
<1>1. ParserInv => NoDanglingElement
  BY DEF ParserInv, NoDangling, OnLast, NoDanglingElement
<1> QED
  BY <1>1, ParserAlways, PTL

-----------------------------------------------------------------------------
(* The builder of a way along keys.                                        *)

\* The builders on the way along p from the root: the abstract specification's look-up,
\* one key at a time.
AreOnTheWay(t, p) ==
  \A i \in 1 .. Len(p) : t[i] = IF i = 1 THEN Root ELSE Under(t[i - 1], p[i])

\* Both specifications know the same builder below a builder.
LEMMA BelowIsUnder == \A b, k : Map!Below(b, k) = Under(b, k)
BY DEF Map!Below, Map!MemberOf, Map!Mock, Under, MemberOf, Mock

\* Any builders that follow the keys are those the abstract specification names: the way
\* leaves no choice.
LEMMA NamedByIs ==
  ASSUME NEW p, Len(p) \in Nat \ {0}, NEW t, AreOnTheWay(t, p)
  PROVE  Map!NamedBy(p) = t[Len(p)]
<1> DEFINE n == Len(p)
           At[i \in 1 .. n] == IF i = 1 THEN Root ELSE Map!Below(At[i - 1], p[i])
           g == [i \in 1 .. n |-> t[i]]
<1>1. g = [i \in 1 .. n |-> IF i = 1 THEN Root ELSE Map!Below(g[i - 1], p[i])]
  <2>1. \A i \in 1 .. n : g[i] = IF i = 1 THEN Root ELSE Map!Below(g[i - 1], p[i])
    <3> SUFFICES ASSUME NEW i \in 1 .. n
                 PROVE  g[i] = IF i = 1 THEN Root ELSE Map!Below(g[i - 1], p[i])
      OBVIOUS
    <3>1. i # 1 => i - 1 \in 1 .. n
      OBVIOUS
    <3>2. t[i] = IF i = 1 THEN Root ELSE Under(t[i - 1], p[i])
      BY DEF AreOnTheWay
    <3> QED
      BY <3>1, <3>2, BelowIsUnder
  <2> HIDE DEF n
  <2> QED
    BY <2>1
<1>2. At = [i \in 1 .. n |-> IF i = 1 THEN Root ELSE Map!Below(At[i - 1], p[i])]
  <2> HIDE DEF n, g
  <2> QED
    BY <1>1
<1>3. Nat \subseteq { i \in Nat : i \in 1 .. n => At[i] = t[i] }
  <2> DEFINE P == { i \in Nat : i \in 1 .. n => At[i] = t[i] }
  <2> HIDE DEF At
  <2>1. 0 \in P
    OBVIOUS
  <2>2. ASSUME NEW i \in Nat, i \in P PROVE i + 1 \in P
    <3> SUFFICES ASSUME i + 1 \in 1 .. n PROVE At[i + 1] = t[i + 1]
      OBVIOUS
    <3>1. t[i + 1] = IF i + 1 = 1 THEN Root ELSE Under(t[i], p[i + 1])
      BY DEF AreOnTheWay
    <3>2. At[i + 1] = IF i + 1 = 1 THEN Root ELSE Map!Below(At[i], p[i + 1])
      BY <1>2
    <3>3. i + 1 # 1 => At[i] = t[i]
      BY <2>2
    <3> QED
      BY <3>1, <3>2, <3>3, BelowIsUnder
  <2> HIDE DEF P
  <2>3. Nat \subseteq P
    BY <2>1, <2>2, SetInduction
  <2> QED
    BY <2>3 DEF P
<1>4. Map!NamedBy(p) = At[n]
  BY DEF Map!NamedBy, Map!Below
<1> HIDE DEF At
<1>5. n \in Nat /\ n \in 1 .. n
  OBVIOUS
<1> QED
  BY <1>3, <1>4, <1>5

-----------------------------------------------------------------------------
(* The stack of cursors as a way.                                          *)

\* The keys of the cursors, which are all the abstract specification knows of them.
Path(s) == [i \in DOMAIN s |-> s[i].key]

\* a leads from the target along the keys of the first j cursors.
Reaches(s, a, j) ==
  /\ Len(a) = j
  /\ \A i \in 2 .. j : IF Kind[s[i - 1].rec] = "vector" THEN a[i].type = "element"
                       ELSE a[i] = s[i].key

\* Each cursor has the builder and the address of what its key means in the one around it.
Nested(s) ==
  /\ \A i \in 1 .. Len(s) : s[i].rec = IF i = 1 THEN Root ELSE Under(s[i - 1].rec, s[i].key)
  /\ \A j \in 1 .. Len(s) : s[j].rec # Mock => Reaches(s, s[j].obj, j)

\* A path has a key for each cursor, and grows with the stack.
LEMMA PathIs ==
  ASSUME NEW s \in Seq(CursorSet)
  PROVE  /\ Path(s) \in Seq(Key) /\ Len(Path(s)) = Len(s)
         /\ \A i \in 1 .. Len(s) : Path(s)[i] = s[i].key
         /\ s = << >> <=> Path(s) = << >>
<1>1. DOMAIN s = 1 .. Len(s) /\ Len(s) \in Nat /\ \A i \in 1 .. Len(s) : s[i].key \in Key
  <2>1. \A c \in CursorSet : c.key \in Key
    BY DEF CursorSet
  <2>2. \A i \in 1 .. Len(s) : s[i] \in CursorSet
    OBVIOUS
  <2> QED
    BY <2>1, <2>2, LenProperties
<1>2. Path(s) = [i \in 1 .. Len(s) |-> s[i].key]
  BY <1>1 DEF Path
<1>3. Path(s) \in Seq(Key) /\ Len(Path(s)) = Len(s)
  BY <1>1, <1>2
<1> QED
  BY <1>2, <1>3, EmptySeq

\* The path of a stack with one cursor more.
LEMMA PathOfPush ==
  ASSUME NEW s \in Seq(CursorSet), NEW c \in CursorSet
  PROVE  Path(Append(s, c)) = Append(Path(s), c.key)
<1>1. /\ Append(s, c) \in Seq(CursorSet) /\ Len(Append(s, c)) = Len(s) + 1
      /\ \A i \in 1 .. Len(s) : Append(s, c)[i] = s[i]
      /\ Append(s, c)[Len(s) + 1] = c
  BY AppendProperties
<1>2. Path(s) \in Seq(Key) /\ Len(Path(s)) = Len(s) /\ \A i \in 1 .. Len(s) : Path(s)[i] = s[i].key
  BY PathIs
<1>3. /\ Path(Append(s, c)) \in Seq(Key) /\ Len(Path(Append(s, c))) = Len(Append(s, c))
      /\ \A i \in 1 .. Len(Append(s, c)) : Path(Append(s, c))[i] = Append(s, c)[i].key
  BY <1>1, PathIs
<1>4. c.key \in Key /\ Len(s) \in Nat
  BY DEF CursorSet
<1>5. /\ Append(Path(s), c.key) \in Seq(Key) /\ Len(Append(Path(s), c.key)) = Len(s) + 1
      /\ \A i \in 1 .. Len(s) : Append(Path(s), c.key)[i] = Path(s)[i]
      /\ Append(Path(s), c.key)[Len(s) + 1] = c.key
  BY <1>2, <1>4, AppendProperties
<1>6. \A i \in 1 .. Len(s) + 1 : Path(Append(s, c))[i] = Append(Path(s), c.key)[i]
  <2> SUFFICES ASSUME NEW i \in 1 .. Len(s) + 1
               PROVE  Path(Append(s, c))[i] = Append(Path(s), c.key)[i]
    OBVIOUS
  <2>1. CASE i \in 1 .. Len(s)
    BY <1>1, <1>2, <1>3, <1>4, <1>5, <2>1
  <2>2. CASE i = Len(s) + 1
    <3>1. Path(Append(s, c))[i] = Append(s, c)[i].key
      BY <1>1, <1>3
    <3> QED
      BY <1>1, <1>5, <2>2, <3>1
  <2>3. i \in 1 .. Len(s) \/ i = Len(s) + 1
    <3>1. Len(s) \in Nat
      OBVIOUS
    <3> QED
      BY <3>1
  <2> QED
    BY <2>1, <2>2, <2>3
<1> QED
  BY <1>1, <1>3, <1>5, <1>6, SeqEqual

\* The path of a stack with one cursor less.
LEMMA PathOfPop ==
  ASSUME NEW s \in Seq(CursorSet), s # << >>
  PROVE  /\ Path(Front(s)) = Front(Path(s)) /\ Last(Path(s)) = Last(s).key
         /\ Front(s) = << >> <=> Front(Path(s)) = << >>
<1>1. /\ Front(s) \in Seq(CursorSet) /\ Len(Front(s)) = Len(s) - 1 /\ Last(s) = s[Len(s)]
      /\ \A i \in 1 .. Len(s) - 1 : Front(s)[i] = s[i]
  BY FrontProperties
<1>2. /\ Path(s) \in Seq(Key) /\ Len(Path(s)) = Len(s) /\ Path(s) # << >>
      /\ \A i \in 1 .. Len(s) : Path(s)[i] = s[i].key
  BY PathIs
<1>3. /\ Front(Path(s)) \in Seq(Key) /\ Len(Front(Path(s))) = Len(s) - 1
      /\ Last(Path(s)) = Path(s)[Len(s)]
      /\ \A i \in 1 .. Len(s) - 1 : Front(Path(s))[i] = Path(s)[i]
  BY <1>2, FrontProperties
<1>4. /\ Path(Front(s)) \in Seq(Key) /\ Len(Path(Front(s))) = Len(Front(s))
      /\ \A i \in 1 .. Len(Front(s)) : Path(Front(s))[i] = Front(s)[i].key
      /\ Front(s) = << >> <=> Path(Front(s)) = << >>
  BY <1>1, PathIs
<1>5. Len(s) \in Nat \ {0}
  BY EmptySeq
<1>6. \A i \in 1 .. Len(s) - 1 : Path(Front(s))[i] = Front(Path(s))[i]
  <2> SUFFICES ASSUME NEW i \in 1 .. Len(s) - 1
               PROVE  Path(Front(s))[i] = Front(Path(s))[i]
    OBVIOUS
  <2>1. i \in 1 .. Len(Front(s)) /\ i \in 1 .. Len(s)
    BY <1>1, <1>5
  <2>2. Path(Front(s))[i] = s[i].key
    BY <1>1, <1>4, <2>1
  <2>3. Front(Path(s))[i] = s[i].key
    BY <1>2, <1>3, <2>1
  <2> QED
    BY <2>2, <2>3
<1>7. Path(Front(s)) = Front(Path(s))
  BY <1>1, <1>3, <1>4, <1>6, SeqEqual
<1>8. Last(Path(s)) = Last(s).key
  BY <1>1, <1>2, <1>3, <1>5
<1> QED
  BY <1>4, <1>7, <1>8

\* The abstract specification names the innermost cursor's builder and address.
LEMMA NestedIsNamed ==
  ASSUME NEW s \in Seq(CursorSet), Nested(s), s # << >>
  PROVE  /\ Map!NamedBy(Path(s)) = Last(s).rec
         /\ Last(s).rec # Mock => Map!Names(Path(s), Last(s).obj)
<1> DEFINE p == Path(s)
           t == [i \in 1 .. Len(s) |-> s[i].rec]
<1>1. Len(s) \in Nat \ {0} /\ Last(s) = s[Len(s)]
  BY EmptySeq, FrontProperties
<1>2. p \in Seq(Key) /\ Len(p) = Len(s) /\ \A i \in 1 .. Len(s) : p[i] = s[i].key
  BY PathIs
<1> HIDE DEF p
<1>3. \A i \in 1 .. Len(s) : t[i] = IF i = 1 THEN Root ELSE Under(t[i - 1], p[i])
  <2> SUFFICES ASSUME NEW i \in 1 .. Len(s)
               PROVE  t[i] = IF i = 1 THEN Root ELSE Under(t[i - 1], p[i])
    OBVIOUS
  <2>1. i # 1 => i - 1 \in 1 .. Len(s)
    BY <1>1
  <2> QED
    BY <1>2, <2>1 DEF Nested
<1>4. Map!NamedBy(p) = t[Len(p)]
  <2> HIDE DEF t
  <2>1. AreOnTheWay(t, p)
    BY <1>2, <1>3 DEF AreOnTheWay
  <2> QED
    BY <1>1, <1>2, <2>1, NamedByIs
<1>5. ASSUME NEW i \in 2 .. Len(p)
      PROVE  Map!NamedBy(SubSeq(p, 1, i - 1)) = s[i - 1].rec
  <2> DEFINE q == SubSeq(p, 1, i - 1)
  <2>1. Len(q) = i - 1 /\ \A j \in 1 .. i - 1 : q[j] = p[j]
    <3>1. \A j \in 1 .. i - 1 : p[j] \in Key
      BY <1>1, <1>2
    <3>2. 1 \in Int /\ i - 1 \in Int /\ 1 <= i - 1 /\ (i - 1) - 1 + 1 = i - 1
      BY <1>1, <1>2
    <3>3. /\ Len(q) = IF 1 <= i - 1 THEN (i - 1) - 1 + 1 ELSE 0
          /\ \A j \in 1 .. (i - 1) - 1 + 1 : q[j] = p[1 + j - 1]
      <4> HIDE DEF q
      <4>1. /\ Len(SubSeq(p, 1, i - 1)) = IF 1 <= i - 1 THEN (i - 1) - 1 + 1 ELSE 0
            /\ \A j \in 1 .. (i - 1) - 1 + 1 : SubSeq(p, 1, i - 1)[j] = p[1 + j - 1]
        BY <3>1, <3>2, SubSeqProperties
      <4> QED
        BY <4>1 DEF q
    <3> HIDE DEF q
    <3>4. \A j \in 1 .. i - 1 : 1 + j - 1 = j
      BY <3>2
    <3> QED
      BY <3>2, <3>3, <3>4
  <2> HIDE DEF q, t
  <2>2. AreOnTheWay(t, q)
    <3> SUFFICES ASSUME NEW j \in 1 .. Len(q)
                 PROVE  t[j] = IF j = 1 THEN Root ELSE Under(t[j - 1], q[j])
      BY DEF AreOnTheWay
    <3>1. j \in 1 .. i - 1 /\ j \in 1 .. Len(s)
      BY <1>1, <1>2, <2>1
    <3> QED
      BY <1>3, <2>1, <3>1
  <2>3. Len(q) \in Nat \ {0} /\ i - 1 \in 1 .. Len(s)
    BY <1>1, <1>2, <2>1
  <2>4. Map!NamedBy(q) = t[Len(q)]
    BY <2>2, <2>3, NamedByIs
  <2> QED
    BY <2>1, <2>3, <2>4 DEF q, t
<1>6. ASSUME Last(s).rec # Mock
      PROVE  Map!Names(p, Last(s).obj)
  <2>1. Reaches(s, Last(s).obj, Len(s))
    BY <1>1, <1>6 DEF Nested
  <2> QED
    BY <1>1, <1>2, <1>5, <2>1 DEF Reaches, Map!Names
<1> QED
  BY <1>1, <1>2, <1>4, <1>6 DEF p

\* The stack stays nested with a cursor for what the last key means.
LEMMA PushIsNested ==
  ASSUME NEW s \in Seq(CursorSet), Nested(s), s # << >>, NEW c \in CursorSet,
         c.rec = Under(Last(s).rec, c.key),
         NEW x, c.rec # Mock => /\ Last(s).rec # Mock /\ x \in Place /\ c.obj = Append(Last(s).obj, x)
                                /\ IF Kind[Last(s).rec] = "vector" THEN x.type = "element" ELSE x = c.key
  PROVE  Nested(Append(s, c))
<1> DEFINE t == Append(s, c)
<1>1. Len(s) \in Nat \ {0} /\ Last(s) = s[Len(s)] /\ Last(s) \in CursorSet
  BY EmptySeq, FrontProperties
<1>2. /\ Len(t) = Len(s) + 1 /\ \A i \in 1 .. Len(s) : t[i] = s[i]
      /\ t[Len(s) + 1] = c
  BY AppendProperties
<1> HIDE DEF t
<1>3. \A i \in 1 .. Len(t) : i \in 1 .. Len(s) \/ i = Len(s) + 1
  BY <1>1, <1>2
<1>4. \A j \in 1 .. Len(s) : \A a : Reaches(s, a, j) => Reaches(t, a, j)
  <2> SUFFICES ASSUME NEW j \in 1 .. Len(s), NEW a, Reaches(s, a, j)
               PROVE  Reaches(t, a, j)
    OBVIOUS
  <2>1. \A i \in 2 .. j : i \in 1 .. Len(s) /\ i - 1 \in 1 .. Len(s)
    BY <1>1
  <2> QED
    BY <1>2, <2>1 DEF Reaches
<1>5. ASSUME NEW i \in 1 .. Len(t)
      PROVE  t[i].rec = IF i = 1 THEN Root ELSE Under(t[i - 1].rec, t[i].key)
  <2>1. CASE i \in 1 .. Len(s)
    <3>1. i # 1 => i - 1 \in 1 .. Len(s)
      BY <1>1, <2>1
    <3> QED
      BY <1>2, <2>1, <3>1 DEF Nested
  <2>2. CASE i = Len(s) + 1
    <3>1. i # 1 /\ i - 1 = Len(s) /\ Len(s) \in 1 .. Len(s)
      BY <1>1, <2>2
    <3> QED
      BY <1>1, <1>2, <2>2, <3>1
  <2> QED
    BY <1>3, <2>1, <2>2
<1>6. ASSUME NEW j \in 1 .. Len(t), t[j].rec # Mock
      PROVE  Reaches(t, t[j].obj, j)
  <2>1. CASE j \in 1 .. Len(s)
    BY <1>2, <1>4, <1>6, <2>1 DEF Nested
  <2>2. CASE j = Len(s) + 1
    <3>1. /\ Last(s).rec # Mock /\ c.obj = Append(Last(s).obj, x)
          /\ IF Kind[Last(s).rec] = "vector" THEN x.type = "element" ELSE x = c.key
      BY <1>2, <1>6, <2>2
    <3>2. Reaches(s, Last(s).obj, Len(s))
      BY <1>1, <3>1 DEF Nested
    <3>3. /\ Len(c.obj) = Len(s) + 1 /\ c.obj[Len(s) + 1] = x
          /\ \A i \in 1 .. Len(s) : c.obj[i] = Last(s).obj[i]
      <4>1. Last(s).obj \in Seq(Place) /\ x \in Place /\ Len(Last(s).obj) = Len(s)
        BY <1>1, <1>2, <1>6, <2>2, <3>2 DEF CursorSet, Address, Reaches
      <4> QED
        BY <3>1, <4>1, AppendProperties
    <3>4. ASSUME NEW i \in 2 .. j
          PROVE  IF Kind[t[i - 1].rec] = "vector" THEN c.obj[i].type = "element"
                 ELSE c.obj[i] = t[i].key
      <4>1. CASE i = Len(s) + 1
        <5>1. i - 1 = Len(s) /\ Len(s) \in 1 .. Len(s)
          BY <1>1, <4>1
        <5> QED
          BY <1>1, <1>2, <3>1, <3>3, <4>1, <5>1
      <4>2. CASE i \in 2 .. Len(s)
        <5>1. i \in 1 .. Len(s) /\ i - 1 \in 1 .. Len(s)
          BY <1>1, <4>2
        <5> QED
          BY <1>2, <3>2, <3>3, <4>2, <5>1 DEF Reaches
      <4> QED
        BY <1>1, <2>2, <4>1, <4>2
    <3> QED
      BY <1>2, <2>2, <3>3, <3>4 DEF Reaches
  <2> QED
    BY <1>3, <2>1, <2>2
<1> QED
  BY <1>5, <1>6 DEF Nested, t

\* The stack stays nested without its innermost cursor.
LEMMA PopIsNested ==
  ASSUME NEW s \in Seq(CursorSet), Nested(s), s # << >>
  PROVE  Nested(Front(s))
<1> DEFINE t == Front(s)
<1>1. Len(t) = Len(s) - 1 /\ (\A i \in 1 .. Len(s) - 1 : t[i] = s[i]) /\ Len(s) \in Nat \ {0}
  BY EmptySeq, FrontProperties
<1> HIDE DEF t
<1>2. \A i \in 1 .. Len(t) : i \in 1 .. Len(s) /\ t[i] = s[i] /\ (i # 1 => i - 1 \in 1 .. Len(t))
  BY <1>1
<1>3. \A i \in 1 .. Len(t) : t[i].rec = IF i = 1 THEN Root ELSE Under(t[i - 1].rec, t[i].key)
  BY <1>2 DEF Nested
<1>4. ASSUME NEW j \in 1 .. Len(t), t[j].rec # Mock
      PROVE  Reaches(t, t[j].obj, j)
  <2>1. Reaches(s, t[j].obj, j)
    BY <1>2, <1>4 DEF Nested
  <2>2. \A i \in 2 .. j : i \in 1 .. Len(t) /\ i - 1 \in 1 .. Len(t)
    BY <1>1
  <2> QED
    BY <1>2, <2>1, <2>2 DEF Reaches
<1> QED
  BY <1>3, <1>4 DEF Nested, t

\* The cursor of the target alone.
LEMMA RootIsNested ==
  ASSUME RootIs(m_root), m_root.obj # Nowhere
  PROVE  Nested(<< m_root >>)
<1>1. Len(<< m_root >>) = 1 /\ << m_root >>[1] = m_root
  OBVIOUS
<1>2. Len(m_root.obj) = 1 /\ m_root.rec = Root
  <2>1. m_root.obj \in Seq(Place)
    BY DEF RootIs, CursorSet, Address
  <2>2. Len(m_root.obj) \in Nat \ {0}
    BY <2>1, EmptySeq DEF Nowhere
  <2>3. Len(m_root.obj) <= 1 /\ m_root.rec = Root
    BY DEF RootIs
  <2>4. \A n \in Nat \ {0} : n <= 1 => n = 1
    OBVIOUS
  <2> QED
    BY <2>2, <2>3, <2>4
<1>3. \A i \in 1 .. Len(<< m_root >>) : i = 1 /\ << m_root >>[i] = m_root
  BY <1>1
<1>4. Reaches(<< m_root >>, m_root.obj, 1)
  BY <1>2 DEF Reaches
<1> QED
  BY <1>2, <1>3, <1>4 DEF Nested

-----------------------------------------------------------------------------
(* What the builders make of a nested stack.                               *)

\* A builder that passes nothing on: Data() assigns a value, or ignores it.
Ends(b) == b = Mock \/ Kind[b] \in SimpleKind

\* Advance follows the key: to the builder below, and one place further down.
LEMMA AdvanceFollows ==
  ASSUME NEW t, NEW c, GoodCursor(c, t), NEW elements, Numbered(elements)
  PROVE  LET d == Advance(c, elements) IN
         /\ d \in CursorSet /\ d.key = c.key /\ d.rec = Under(c.rec, c.key)
         /\ \E x : d.rec # Mock =>
              /\ c.rec # Mock /\ x \in Place /\ d.obj = Append(c.obj, x)
              /\ IF Kind[c.rec] = "vector" THEN x.type = "element" ELSE x = c.key
<1> DEFINE d == Advance(c, elements)
<1>1. /\ c.key \in Key /\ c.obj \in Address /\ c.rec \in Builder \cup { Mock }
      /\ Mock \notin Builder /\ "object" # "vector"
      /\ c.rec # Mock => c.obj # Nowhere /\ BuilderAt[c.obj] = c.rec /\ c.rec \in Builder
  BY BuilderTree DEF GoodCursor, CursorSet
<1>2. GoodCursor(d, t) /\ d.key = c.key
  BY AdvanceIsGood
<1>3. CASE Ends(c.rec)
  <2>1. d = MockCursor(c.key) /\ d.rec = Mock
    BY <1>3 DEF Advance, Ends, MockCursor
  <2>2. Under(c.rec, c.key) = Mock
    <3>1. "object" \notin SimpleKind /\ "vector" \notin SimpleKind
      BY DEF SimpleKind
    <3> QED
      BY <1>3, <3>1 DEF Under, Ends
  <2> QED
    BY <1>2, <2>1, <2>2 DEF GoodCursor
<1>4. CASE ~ Ends(c.rec) /\ Kind[c.rec] = "vector"
  <2> DEFINE e == NewElement(c.obj, elements)
             x == Element(1 + Cardinality({ f \in elements : Front(f) = c.obj }))
  <2>1. d = Cursor(c.key, e, Visitor[c.rec])
    BY <1>4 DEF Advance, Ends
  <2>2. e = Append(c.obj, x) /\ x.type = "element"
    BY DEF NewElement, Element
  <2>3. IsElement(e) /\ Last(e) = x
    <3>1. /\ c.obj \in Address /\ c.obj # Nowhere
          /\ BuilderAt[c.obj] \in Builder /\ Kind[BuilderAt[c.obj]] = "vector"
      BY <1>1, <1>4 DEF Ends
    <3> QED
      BY <3>1, NewElementIsLast DEF Siblings
  <2>4. x \in Place
    BY <2>3 DEF IsElement, Place
  <2>5. d.obj = e /\ d.rec = Visitor[c.rec]
    BY <2>1 DEF Cursor
  <2>6. Under(c.rec, c.key) = Visitor[c.rec]
    BY <1>4 DEF Under, Ends
  <2> HIDE DEF d, e, x
  <2> QED
    BY <1>2, <1>4, <2>2, <2>4, <2>5, <2>6 DEF GoodCursor, Ends, d
<1>5. CASE ~ Ends(c.rec) /\ Kind[c.rec] # "vector"
  <2>1. c.rec \in Builder /\ c.rec # Mock /\ Kind[c.rec] = "object"
    BY <1>1, <1>5, BuilderTree DEF Ends
  <2>2. Under(c.rec, c.key) = MemberOf(c.rec, c.key)
    BY <1>5, <2>1 DEF Under
  <2>3. CASE MemberOf(c.rec, c.key) = Mock
    <3>1. d = MockCursor(c.key) /\ d.rec = Mock
      BY <1>5, <2>3 DEF Advance, Ends, MockCursor
    <3> HIDE DEF d
    <3> QED
      BY <1>2, <2>2, <2>3, <3>1 DEF GoodCursor, d
  <2>4. CASE MemberOf(c.rec, c.key) # Mock
    <3>1. d = Cursor(c.key, Append(c.obj, c.key), MemberOf(c.rec, c.key))
      BY <1>5, <2>4 DEF Advance, Ends
    <3>2. d.obj = Append(c.obj, c.key) /\ d.rec = MemberOf(c.rec, c.key)
      BY <3>1 DEF Cursor
    <3>3. c.key \in Place
      BY <1>1 DEF Place
    <3> HIDE DEF d
    <3> QED
      BY <1>2, <1>5, <2>1, <2>2, <3>2, <3>3 DEF GoodCursor, d
  <2> QED
    BY <2>3, <2>4
<1> QED
  BY <1>3, <1>4, <1>5

\* An address inside the object at a.
Inside(b, a) == Len(b) >= Len(a) /\ \A i \in 1 .. Len(a) : b[i] = a[i]

\* Data goes to the member that the key means, and into it if that is a container; a
\* builder of a simple type assigns the value itself.
LEMMA RouteFollows ==
  ASSUME NEW t, NEW c, GoodCursor(c, t), NEW elements, Numbered(elements)
  PROVE  LET last == DataRoute(c, elements).cursor
             d == Advance(c, elements)
         IN
         /\ Ends(c.rec) => last = c
         /\ ~ Ends(c.rec) /\ Ends(d.rec) => last = d
         /\ ~ Ends(c.rec) /\ last.rec # Mock => d.rec # Mock /\ Inside(last.obj, d.obj)
<1> DEFINE last == DataRoute(c, elements).cursor
           d == Advance(c, elements)
           first == [cursor |-> c, made |-> {}]
<1> HIDE DEF first
<1>1. first = [cursor |-> c, made |-> {}] /\ first.cursor = c
  BY DEF first
<1>2. \A s : /\ PassedOn(s, elements).cursor = IF Ends(s.cursor.rec) THEN s.cursor
                                                ELSE Advance(s.cursor, elements)
             /\ Ends(s.cursor.rec) /\ s = [cursor |-> s.cursor, made |-> s.made] =>
                  PassedOn(s, elements) = s
  BY DEF PassedOn, Passed, Ends
<1>3. CASE Ends(c.rec)
  <2>1. PassedOn(first, elements) = first
    <3>1. first = [cursor |-> first.cursor, made |-> first.made]
      BY DEF first
    <3> QED
      BY <1>1, <1>2, <1>3, <3>1
  <2>2. DataRoute(c, elements) \in { first }
    <3> DEFINE S == { first }
    <3>1. first \in S /\ \A s \in S : PassedOn(s, elements) \in S
      BY <2>1
    <3> HIDE DEF S
    <3>2. PassedOn([cursor |-> c, made |-> {}], elements) \in S
      BY <1>1, <2>1, <3>1
    <3>3. DataRoute(c, elements) \in S
      BY <3>1, <3>2, RouteIsReached
    <3> QED
      BY <3>3 DEF S
  <2>3. last = c
    BY <1>1, <2>2
  <2> QED
    BY <1>3, <2>3
<1>4. CASE ~ Ends(c.rec)
  <2> DEFINE second == PassedOn(first, elements)
  <2>1. second.cursor = d /\ second = [cursor |-> second.cursor, made |-> second.made]
    <3>1. second = [cursor |-> second.cursor, made |-> second.made]
      BY DEF PassedOn
    <3> QED
      BY <1>1, <1>2, <1>4, <3>1
  <2>2. ASSUME Ends(d.rec) PROVE last = d
    <3> HIDE DEF second, d
    <3>1. PassedOn(second, elements) = second
      BY <1>2, <2>1, <2>2
    <3>2. DataRoute(c, elements) \in { second }
      <4> DEFINE S == { second }
      <4>1. \A s \in S : PassedOn(s, elements) \in S
        BY <3>1
      <4>2. PassedOn([cursor |-> c, made |-> {}], elements) \in S
        BY <1>1 DEF second
      <4> HIDE DEF S
      <4>3. DataRoute(c, elements) \in S
        BY <4>1, <4>2, RouteIsReached
      <4> QED
        BY <4>3 DEF S
    <3> QED
      BY <2>1, <3>2
  <2>3. last.rec # Mock => d.rec # Mock /\ Inside(last.obj, d.obj)
    <3> DEFINE S == { s \in [cursor : CursorSet, made : SUBSET Address] :
                       /\ GoodCursor(s.cursor, t)
                       /\ s.cursor.rec # Mock => d.rec # Mock /\ Inside(s.cursor.obj, d.obj) }
    <3>1. \A e : GoodCursor(e, t) => /\ GoodCursor(Advance(e, elements), t)
                                     /\ AdvanceMakes(e, elements) \in SUBSET Address
      BY AdvanceIsGood DEF IsElement
    <3>2. second \in S
      <4>1. GoodCursor(d, t) /\ d \in CursorSet
        BY <3>1 DEF GoodCursor
      <4>2. second.made \in SUBSET Address
        BY <1>1, <3>1 DEF PassedOn
      <4>3. d.rec # Mock => Inside(d.obj, d.obj)
        <5>1. Len(d.obj) \in Nat
          BY <4>1 DEF CursorSet, Address
        <5> QED
          BY <5>1 DEF Inside
      <4> HIDE DEF second, d
      <4> QED
        BY <2>1, <4>1, <4>2, <4>3
    <3>3. ASSUME NEW s \in S PROVE PassedOn(s, elements) \in S
      <4> DEFINE e == s.cursor
                 next == PassedOn(s, elements)
      <4> HIDE DEF d
      <4>1. /\ GoodCursor(e, t) /\ s.made \in SUBSET Address
            /\ e.rec # Mock => d.rec # Mock /\ Inside(e.obj, d.obj)
        BY <3>3
      <4>2. CASE Ends(e.rec)
        <5>1. s = [cursor |-> s.cursor, made |-> s.made]
          BY <3>3
        <5> HIDE DEF S
        <5> QED
          BY <1>2, <3>3, <4>2, <5>1
      <4>3. CASE ~ Ends(e.rec)
        <5>1. next.cursor = Advance(e, elements)
          BY <1>2, <4>3
        <5>2. next.made \in SUBSET Address /\ next = [cursor |-> next.cursor, made |-> next.made]
          BY <3>1, <4>1 DEF PassedOn
        <5> HIDE DEF next, S
        <5>3. GoodCursor(next.cursor, t) /\ next.cursor \in CursorSet
          BY <3>1, <4>1, <5>1 DEF GoodCursor
        <5>4. ASSUME next.cursor.rec # Mock
              PROVE  d.rec # Mock /\ Inside(next.cursor.obj, d.obj)
          <6>1. PICK x : x \in Place /\ next.cursor.obj = Append(e.obj, x)
            BY <4>1, <5>1, <5>4, AdvanceFollows
          <6>2. d.rec # Mock /\ Inside(e.obj, d.obj)
            BY <4>1, <4>3 DEF Ends
          <6>3. /\ Len(next.cursor.obj) = Len(e.obj) + 1 /\ Len(e.obj) \in Nat
                /\ \A i \in 1 .. Len(e.obj) : next.cursor.obj[i] = e.obj[i]
            <7>1. e.obj \in Seq(Place)
              BY <4>1 DEF GoodCursor, CursorSet, Address
            <7> QED
              BY <6>1, <7>1, AppendProperties
          <6>4. Len(d.obj) \in Nat
            BY AdvanceIsGood DEF GoodCursor, CursorSet, Address, d
          <6> QED
            BY <6>2, <6>3, <6>4 DEF Inside
        <5> QED
          BY <5>2, <5>3, <5>4 DEF S, next
      <4> QED
        BY <4>2, <4>3
    <3> HIDE DEF S
    <3>4. DataRoute(c, elements) \in S
      BY <1>1, <3>2, <3>3, RouteIsReached
    <3> QED
      BY <3>4 DEF S
  <2> QED
    BY <1>4, <2>2, <2>3
<1> QED
  BY <1>3, <1>4

-----------------------------------------------------------------------------
(* Values.                                                                 *)

\* The abstract specification has the same keys, kinds and casts.
LEMMA SameData ==
  /\ Map!NoKey = NoKey /\ Map!Mock = Mock /\ Map!SimpleKind = SimpleKind
  /\ \A n : Map!IndexKey(n) = IndexKey(n)
  /\ \A s : Map!NamedKey(s) = NamedKey(s)
  /\ \A k : Map!Finished(k) = Finished(k)
  /\ \A kind, text, null : Map!Cast(kind, text, null) = Cast(kind, text, null)
<1>1. Map!NoKey = NoKey /\ Map!Mock = Mock /\ Map!SimpleKind = SimpleKind
  BY DEF Map!NoKey, NoKey, Map!Mock, Mock, Map!SimpleKind, SimpleKind
<1>2. \A n : Map!IndexKey(n) = IndexKey(n)
  BY DEF Map!IndexKey, IndexKey
<1>3. \A s : Map!NamedKey(s) = NamedKey(s)
  BY DEF Map!NamedKey, NamedKey
<1>4. \A k : Map!Finished(k) = Finished(k)
  BY <1>1, <1>2 DEF Map!Finished, Finished, Map!IsIndex, IsIndex
<1>5. \A text : Map!LeadingInteger(text) = LeadingInteger(text)
  BY DEF Map!LeadingInteger, LeadingInteger, Map!Max, Max, Map!Digit, Digit, Map!Blank, Blank
<1>6. \A kind, text, null : Map!Cast(kind, text, null) = Cast(kind, text, null)
  BY <1>5, Zenon DEF Map!Cast, Cast
<1> QED
  BY <1>1, <1>2, <1>3, <1>4, <1>6

\* What a value may assign, in this specification's words.
LEMMA PromisedIs ==
  ASSUME NEW p, NEW e
  PROVE  LET b == Map!NamedBy(p) IN
         /\ /\ b = Mock
            /\ \A i \in DOMAIN wrote' :
                 /\ Map!NamedBy(Front(p)) # Mock /\ Kind[Map!NamedBy(Front(p))] \in SimpleKind
                 /\ Map!Names(Front(p), wrote'[i].at)
            => Map!Promised(p, e)
         /\ /\ b # Mock /\ Kind[b] \in SimpleKind
            /\ Len(wrote') = 1 /\ Map!Names(p, wrote'[1].at)
            /\ wrote'[1].value = Cast(Kind[b], e.text, Null(e))
            => Map!Promised(p, e)
         /\ /\ b # Mock /\ Kind[b] \notin SimpleKind
            /\ \A i \in DOMAIN wrote' : Map!Names(p, SubSeq(wrote'[i].at, 1, Len(p)))
            => Map!Promised(p, e)
<1> DEFINE b == Map!NamedBy(p)
<1>1. \A s : Map!Front(s) = Front(s)
  BY DEF Map!Front, Front
<1>2. Null(e) = (e.text \in { << >>, << "garbage" >> })
  BY DEF Null, Garbage
<1>3. Map!Mock = Mock /\ Map!SimpleKind = SimpleKind
  BY SameData
<1>4. \A kind, text, null : Map!Cast(kind, text, null) = Cast(kind, text, null)
  BY SameData
<1>5. ASSUME b = Mock,
             \A i \in DOMAIN wrote' :
                 /\ Map!NamedBy(Front(p)) # Mock /\ Kind[Map!NamedBy(Front(p))] \in SimpleKind
                 /\ Map!Names(Front(p), wrote'[i].at)
      PROVE  Map!Promised(p, e)
  BY <1>1, <1>3, <1>5 DEF Map!Promised
<1>6. ASSUME b # Mock, Kind[b] \in SimpleKind, Len(wrote') = 1, Map!Names(p, wrote'[1].at),
             wrote'[1].value = Cast(Kind[b], e.text, Null(e))
      PROVE  Map!Promised(p, e)
  BY <1>2, <1>3, <1>4, <1>6 DEF Map!Promised
<1>7. ASSUME b # Mock, Kind[b] \notin SimpleKind,
             \A i \in DOMAIN wrote' : Map!Names(p, SubSeq(wrote'[i].at, 1, Len(p)))
      PROVE  Map!Promised(p, e)
  BY <1>3, <1>7 DEF Map!Promised
<1> QED
  BY <1>5, <1>6, <1>7

\* The stack with one cursor more: the one the next value's key leads to.
LEMMA NextIsNested ==
  ASSUME NEW p, Working(p), Nested(p.stack), p.stack # << >>
  PROVE  LET d == Advance(NextCursor(p), p.items)
             w == Append(p.stack, d)
         IN
         /\ w \in Seq(CursorSet) /\ Nested(w) /\ w # << >> /\ Last(w) = d /\ d \in CursorSet
         /\ Path(w) = Append(Path(p.stack), p.key)
<1> DEFINE s == p.stack
           c == NextCursor(p)
           d == Advance(c, p.items)
           w == Append(s, d)
<1>1. /\ GoodStack(s, Base) /\ p.key \in Key /\ Numbered(p.items)
      /\ s \in Seq(CursorSet)
  BY DEF Working, GoodStack
<1>2. /\ GoodCursor(c, Base.obj[1]) /\ c.key = p.key
      /\ c.obj = Last(s).obj /\ c.rec = Last(s).rec
  BY <1>1, NextIsGood
<1> HIDE DEF s, c
<1>3. d \in CursorSet /\ d.key = c.key /\ d.rec = Under(c.rec, c.key)
  BY <1>1, <1>2, AdvanceFollows
<1>4. PICK x : d.rec # Mock =>
              /\ c.rec # Mock /\ x \in Place /\ d.obj = Append(c.obj, x)
              /\ IF Kind[c.rec] = "vector" THEN x.type = "element" ELSE x = c.key
  BY <1>1, <1>2, AdvanceFollows
<1> HIDE DEF d
<1>5. Nested(w)
  <2>1. Nested(s) /\ s # << >>
    BY DEF s
  <2>2. d.rec = Under(Last(s).rec, d.key)
    BY <1>2, <1>3
  <2>3. d.rec # Mock => /\ Last(s).rec # Mock /\ x \in Place /\ d.obj = Append(Last(s).obj, x)
                        /\ IF Kind[Last(s).rec] = "vector" THEN x.type = "element" ELSE x = d.key
    BY <1>2, <1>3, <1>4
  <2> QED
    BY <1>1, <1>3, <2>1, <2>2, <2>3, PushIsNested
<1>6. w \in Seq(CursorSet) /\ w # << >> /\ w[Len(s) + 1] = d /\ Len(w) = Len(s) + 1
  BY <1>1, <1>3, AppendProperties
<1>7. Last(w) = d
  <2> HIDE DEF w
  <2> QED
    BY <1>6, FrontProperties
<1>8. Path(w) = Append(Path(s), p.key)
  BY <1>1, <1>2, <1>3, PathOfPush
<1> QED
  BY <1>3, <1>5, <1>6, <1>7, <1>8 DEF d, c, s

\* A value goes where the abstract specification wants it.
LEMMA ValueIsPromised ==
  ASSUME NEW p, Working(p), Nested(p.stack), p.stack # << >>, NEW e,
         wrote' = Writes(DataRoute(NextCursor(p), p.items), e.text, Null(e))
  PROVE  Map!Promised(Append(Path(p.stack), p.key), e)
<1> DEFINE s == p.stack
           c == NextCursor(p)
           d == Advance(c, p.items)
           w == Append(s, d)
           last == DataRoute(c, p.items).cursor
           way == Append(Path(s), p.key)
<1>1. /\ GoodStack(s, Base) /\ p.key \in Key /\ Numbered(p.items)
      /\ s \in Seq(CursorSet) /\ Nested(s) /\ s # << >>
  BY DEF Working, GoodStack
<1>2. /\ GoodCursor(c, Base.obj[1])
      /\ c.obj = Last(s).obj /\ c.rec = Last(s).rec
  BY <1>1, NextIsGood
<1>3. /\ w \in Seq(CursorSet) /\ Nested(w) /\ w # << >> /\ Last(w) = d /\ d \in CursorSet
      /\ Path(w) = way
  BY NextIsNested
<1>4. /\ Map!NamedBy(way) = d.rec
      /\ d.rec # Mock => Map!Names(way, d.obj)
  <2> HIDE DEF w, d, way
  <2> QED
    BY <1>3, NestedIsNamed
<1>5. /\ Map!NamedBy(Path(s)) = c.rec
      /\ c.rec # Mock => Map!Names(Path(s), c.obj)
  <2> HIDE DEF s, c
  <2> QED
    BY <1>1, <1>2, NestedIsNamed
<1>6. Front(way) = Path(s)
  <2>1. Path(s) \in Seq(Key)
    BY <1>1, PathIs
  <2> QED
    BY <1>1, <2>1, FrontOfAppend
<1>7. /\ Ends(c.rec) => last = c
      /\ ~ Ends(c.rec) /\ Ends(d.rec) => last = d
      /\ ~ Ends(c.rec) /\ last.rec # Mock => d.rec # Mock /\ Inside(last.obj, d.obj)
  BY <1>1, <1>2, RouteFollows
<1>8. Ends(c.rec) => d.rec = Mock
  BY DEF Advance, Ends, MockCursor
<1>9. wrote' = IF last.rec = Mock THEN << >>
               ELSE << [at |-> last.obj, value |-> Cast(Kind[last.rec], e.text, Null(e))] >>
  BY DEF Writes
<1> HIDE DEF s, c, d, w, last, way
<1>10. last.rec # Mock => /\ DOMAIN wrote' = { 1 } /\ Len(wrote') = 1
                          /\ wrote'[1].at = last.obj
                          /\ wrote'[1].value = Cast(Kind[last.rec], e.text, Null(e))
  <2>1. \A x : DOMAIN << x >> = { 1 } /\ Len(<< x >>) = 1 /\ << x >>[1] = x
    OBVIOUS
  <2> QED
    BY <1>9, <2>1
<1>11. last.rec = Mock => DOMAIN wrote' = {}
  BY <1>9
<1>12. ASSUME d.rec = Mock PROVE Map!Promised(way, e)
  <2>1. ASSUME NEW i \in DOMAIN wrote'
        PROVE  /\ Map!NamedBy(Front(way)) # Mock /\ Kind[Map!NamedBy(Front(way))] \in SimpleKind
               /\ Map!Names(Front(way), wrote'[i].at)
    <3>1. last.rec # Mock /\ i = 1
      BY <1>10, <1>11
    <3>2. Ends(c.rec) /\ last = c
      BY <1>7, <1>12, <3>1
    <3> QED
      BY <1>5, <1>6, <1>10, <3>1, <3>2 DEF Ends
  <2> QED
    BY <1>4, <1>12, <2>1, PromisedIs
<1>13. ASSUME d.rec # Mock /\ Kind[d.rec] \in SimpleKind PROVE Map!Promised(way, e)
  <2>1. last = d
    BY <1>7, <1>8, <1>13 DEF Ends
  <2> QED
    BY <1>4, <1>10, <1>13, <2>1, PromisedIs
<1>14. ASSUME d.rec # Mock /\ Kind[d.rec] \notin SimpleKind PROVE Map!Promised(way, e)
  <2>1. ASSUME NEW i \in DOMAIN wrote'
        PROVE  Map!Names(way, SubSeq(wrote'[i].at, 1, Len(way)))
    <3>1. last.rec # Mock /\ i = 1
      BY <1>10, <1>11
    <3>2. Inside(last.obj, d.obj)
      BY <1>7, <1>8, <1>14, <3>1
    <3>3. Len(way) = Len(d.obj)
      BY <1>4, <1>14 DEF Map!Names
    <3>4. d.obj \in Seq(Place) /\ Len(d.obj) \in Nat
      BY <1>3 DEF CursorSet, Address
    <3>5. SubSeq(last.obj, 1, Len(d.obj)) = d.obj
      <4> DEFINE b == SubSeq(last.obj, 1, Len(d.obj))
      <4>1. \A j \in 1 .. Len(d.obj) : last.obj[j] \in Place
        BY <3>2, <3>4 DEF Inside
      <4>2. /\ b \in Seq(Place) /\ Len(b) = IF 1 <= Len(d.obj) THEN Len(d.obj) - 1 + 1 ELSE 0
            /\ \A j \in 1 .. Len(d.obj) - 1 + 1 : b[j] = last.obj[1 + j - 1]
        BY <3>4, <4>1, SubSeqProperties
      <4> HIDE DEF b
      <4>3. Len(b) = Len(d.obj) /\ \A j \in 1 .. Len(d.obj) : b[j] = last.obj[j]
        <5>1. /\ Len(b) = Len(d.obj) /\ Len(d.obj) - 1 + 1 = Len(d.obj)
              /\ \A j \in 1 .. Len(d.obj) : 1 + j - 1 = j
          BY <3>4, <4>2
        <5> QED
          BY <4>2, <5>1
      <4>4. b = d.obj
        BY <3>2, <3>4, <4>2, <4>3, SeqEqual DEF Inside
      <4> QED
        BY <4>4 DEF b
    <3> QED
      BY <1>4, <1>10, <1>14, <3>1, <3>3, <3>5
  <2> QED
    BY <1>4, <1>14, <2>1, PromisedIs
<1> QED
  BY <1>12, <1>13, <1>14 DEF way, s

-----------------------------------------------------------------------------
(* What a call of the callback tells the abstract specification.           *)

\* No handler touches the record of the calls.
LEMMA HandledKeepsSeen ==
  ASSUME NEW p, DOMAIN p = Fields, NEW e
  PROVE  Handled(p, e).seen = p.seen
<1>1. "seen" \in DOMAIN p
  BY DEF Fields
<1>2. \A how : Stops(p, how).seen = p.seen
  BY <1>1 DEF Stops
<1>3. \A c : Mismatched(p, c).seen = p.seen
  <2>1. \A how : DOMAIN Stops(p, how) = DOMAIN p
    BY DEF Stops
  <2> QED
    BY <1>1, <1>2, <2>1 DEF Mismatched
<1>4. OnKey(p, e).seen = p.seen
  BY <1>1, <1>2 DEF OnKey
<1>5. OnStart(p, e).seen = p.seen
  BY <1>1, <1>2, <1>3 DEF OnStart
<1>6. OnEnd(p, e).seen = p.seen
  BY <1>1, <1>2 DEF OnEnd
<1>7. OnValue(p, e).seen = p.seen
  BY <1>1, <1>2, <1>3 DEF OnValue
<1> QED
  BY <1>4, <1>5, <1>6, <1>7 DEF Handled

\* A call that does not return changes nothing that the abstract specification sees.
Stopped(p, q) == /\ q.parser # "ok" /\ q.seen = p.seen
                 /\ q.key = p.key /\ q.stack = p.stack /\ q.wrote = p.wrote

\* What one that returns has done, by its event.
Returned(p, q, e) ==
  /\ q.parser = "ok" /\ q.seen = Append(p.seen, e)
  /\ \/ /\ e.type = "JSON_object_key" /\ p.key = NoKey
        /\ q.key = NamedKey(e.text) /\ q.stack = p.stack /\ q.wrote = p.wrote
     \/ /\ e.type \in Start
        /\ \/ p.stack = << >> /\ q.stack = << m_root >>
           \/ /\ p.stack # << >> /\ p.key # NoKey
              /\ q.stack = Append(p.stack, Advance(NextCursor(p), p.items))
        /\ q.key = StartKey(p.key, e.type) /\ q.wrote = p.wrote
     \/ /\ e.type \in EndEvent /\ p.stack # << >>
        /\ q.key = Finished(Last(p.stack).key) /\ q.stack = Front(p.stack) /\ q.wrote = p.wrote
     \/ /\ e.type \in Scalar /\ p.stack # << >> /\ ~ CheckFails(NextCursor(p))
        /\ q.key = Finished(p.key) /\ q.stack = p.stack
        /\ q.wrote = p.wrote \o Writes(DataRoute(NextCursor(p), p.items), e.text, Null(e))

\* Each call stops or returns.
LEMMA CallbackTells ==
  ASSUME NEW p, DOMAIN p = Fields, p.parser = "ok", NEW e \in Event
  PROVE  LET q == Callback(p, e) IN Stopped(p, q) \/ Returned(p, q, e)
<1> DEFINE h == Handled(p, e)
           q == Callback(p, e)
<1>1. h.seen = p.seen
  BY HandledKeepsSeen
<1>2. h.parser # "ok" => q = h
  BY DEF Callback
<1>3. ASSUME h.parser = "ok", DOMAIN h = Fields
      PROVE  /\ q.parser = "ok" /\ q.seen = Append(p.seen, e)
             /\ q.key = h.key /\ q.stack = h.stack /\ q.wrote = h.wrote
  <2>1. q = [h EXCEPT !.seen = Append(@, e)]
    BY <1>3 DEF Callback, Returns
  <2>2. { "parser", "seen", "key", "stack", "wrote" } \subseteq DOMAIN h
    BY <1>3 DEF Fields
  <2> HIDE DEF h, q
  <2> QED
    BY <1>1, <1>3, <2>1, <2>2
<1>4. /\ e.type \in { "JSON_object_key" } \cup Start \cup EndEvent \cup Scalar
      /\ e.type = "JSON_object_key" => e.type \notin Start \cup EndEvent \cup Scalar
      /\ e.type \in Start => e.type \notin EndEvent \cup Scalar
      /\ e.type \in EndEvent => e.type \notin Scalar
  BY EventKinds
<1>5. ASSUME e.type = "JSON_object_key" PROVE Stopped(p, q) \/ Returned(p, q, e)
  <2>1. h = OnKey(p, e)
    BY <1>5 DEF Handled
  <2>2. \/ /\ p.key # NoKey
           /\ Becomes(p, h, "aborted", p.key, p.stack, p.items, p.wrote)
        \/ /\ e.text = Garbage
           /\ Becomes(p, h, "logic_error", p.key, p.stack, p.items, p.wrote)
        \/ /\ p.key = NoKey /\ e.text # Garbage
           /\ Becomes(p, h, "ok", NamedKey(e.text), p.stack, p.items, p.wrote)
    BY <2>1, OnKeyIs
  <2> HIDE DEF h, q
  <2>3. /\ DOMAIN h = Fields
        /\ h.parser # "ok" => h.key = p.key /\ h.stack = p.stack /\ h.wrote = p.wrote
        /\ h.parser = "ok" =>
                /\ p.key = NoKey
                /\ h.key = NamedKey(e.text) /\ h.stack = p.stack /\ h.wrote = p.wrote
    BY <2>2 DEF Becomes
  <2> QED
    BY <1>1, <1>2, <1>3, <1>5, <2>3 DEF Stopped, Returned
<1>6. ASSUME e.type \in Start PROVE Stopped(p, q) \/ Returned(p, q, e)
  <2>1. h = OnStart(p, e)
    BY <1>4, <1>6 DEF Handled, Start
  <2>2. \/ /\ p.stack = << >>
           /\ Becomes(p, h, "ok", StartKey(p.key, e.type), << m_root >>, p.items, p.wrote)
        \/ /\ p.stack # << >> /\ p.key = NoKey
           /\ Becomes(p, h, "aborted", p.key, p.stack, p.items, p.wrote)
        \/ /\ p.stack # << >> /\ p.key # NoKey /\ AdvanceMismatch(NextCursor(p))
           /\ Becomes(p, h, "TypeMismatch", p.key, p.stack, p.items, p.wrote)
           /\ Get(h.thrown, "ExpectedTypeInfo") = NextCursor(p).rec
        \/ /\ p.stack # << >> /\ p.key # NoKey /\ ~ AdvanceMismatch(NextCursor(p))
           /\ Becomes(p, h, "ok", StartKey(p.key, e.type), Append(p.stack, Advance(NextCursor(p), p.items)),
                      p.items \cup AdvanceMakes(NextCursor(p), p.items), p.wrote)
    BY <2>1, OnStartIs
  <2> HIDE DEF h, q
  <2>3. /\ DOMAIN h = Fields
        /\ h.parser # "ok" => h.key = p.key /\ h.stack = p.stack /\ h.wrote = p.wrote
        /\ h.parser = "ok" =>
                /\ \/ p.stack = << >> /\ h.stack = << m_root >>
                   \/ /\ p.stack # << >> /\ p.key # NoKey
                      /\ h.stack = Append(p.stack, Advance(NextCursor(p), p.items))
                /\ h.key = StartKey(p.key, e.type) /\ h.wrote = p.wrote
    BY <2>2 DEF Becomes
  <2> QED
    BY <1>1, <1>2, <1>3, <1>6, <2>3 DEF Stopped, Returned
<1>7. ASSUME e.type \in EndEvent PROVE Stopped(p, q) \/ Returned(p, q, e)
  <2>1. h = OnEnd(p, e)
    BY <1>4, <1>7 DEF Handled, Start, EndEvent
  <2>2. \/ /\ p.stack = << >> \/ Last(p.stack).key = NoKey
           /\ Becomes(p, h, "aborted", p.key, p.stack, p.items, p.wrote)
        \/ /\ p.stack # << >> /\ Last(p.stack).key # NoKey
           /\ Becomes(p, h, "ok", Finished(Last(p.stack).key), Front(p.stack),
                      p.items, p.wrote)
    BY <2>1, OnEndIs
  <2> HIDE DEF h, q
  <2>3. /\ DOMAIN h = Fields
        /\ h.parser # "ok" => h.key = p.key /\ h.stack = p.stack /\ h.wrote = p.wrote
        /\ h.parser = "ok" =>
                /\ p.stack # << >>
                /\ h.key = Finished(Last(p.stack).key) /\ h.stack = Front(p.stack) /\ h.wrote = p.wrote
    BY <2>2 DEF Becomes
  <2> QED
    BY <1>1, <1>2, <1>3, <1>7, <2>3 DEF Stopped, Returned
<1>8. ASSUME e.type \in Scalar PROVE Stopped(p, q) \/ Returned(p, q, e)
  <2>1. h = OnValue(p, e)
    BY <1>4, <1>8 DEF Handled, Start, EndEvent
  <2>2. \/ /\ p.stack = << >> \/ CheckFails(NextCursor(p))
           /\ Becomes(p, h, "aborted", p.key, p.stack, p.items, p.wrote)
        \/ /\ p.stack # << >> /\ ~ CheckFails(NextCursor(p)) /\ Mismatch(NextCursor(p))
           /\ Becomes(p, h, "TypeMismatch", p.key, p.stack, p.items, p.wrote)
           /\ Get(h.thrown, "ExpectedTypeInfo") = NextCursor(p).rec
        \/ /\ p.stack # << >> /\ ~ CheckFails(NextCursor(p)) /\ ~ Mismatch(NextCursor(p))
           /\ Becomes(p, h, "ok", Finished(p.key), p.stack,
                      p.items \cup DataRoute(NextCursor(p), p.items).made,
                      p.wrote \o Writes(DataRoute(NextCursor(p), p.items), e.text, Null(e)))
    BY <2>1, OnValueIs
  <2> HIDE DEF h, q
  <2>3. /\ DOMAIN h = Fields
        /\ h.parser # "ok" => h.key = p.key /\ h.stack = p.stack /\ h.wrote = p.wrote
        /\ h.parser = "ok" =>
                /\ p.stack # << >> /\ ~ CheckFails(NextCursor(p))
                /\ h.key = Finished(p.key) /\ h.stack = p.stack
                /\ h.wrote = p.wrote \o Writes(DataRoute(NextCursor(p), p.items), e.text, Null(e))
    BY <2>2 DEF Becomes
  <2> QED
    BY <1>1, <1>2, <1>3, <1>8, <2>3 DEF Stopped, Returned
<1> QED
  BY <1>4, <1>5, <1>6, <1>7, <1>8

\* A number that the end of its container ends: the container's call returns after the
\* number's, as there is a cursor with a key.
LEMMA EndReturns ==
  ASSUME NEW p, Working(p), p.parser = "ok", p.stack # << >>, NEW f \in Event, f.type \in EndEvent
  PROVE  Returned(p, Callback(p, f), f)
<1> DEFINE q == Callback(p, f)
<1>1. Stopped(p, q) \/ Returned(p, q, f)
  BY CallbackTells DEF Working
<1>2. Last(p.stack).key # NoKey
  BY LastIsGood DEF Working
<1>3. OnEnd(p, f).parser = "ok"
  <2>1. DOMAIN p = Fields
    BY DEF Working
  <2> QED
    BY <1>2, <2>1, OnEndIs DEF Becomes
<1>4. Handled(p, f) = OnEnd(p, f)
  BY DEF Handled, EndEvent
<1>5. Callback(p, f).parser = "ok"
  <2>1. DOMAIN OnEnd(p, f) = Fields
    <3>1. DOMAIN p = Fields
      BY DEF Working
    <3> QED
      BY <3>1, OnEndIs DEF Becomes
  <2>2. "parser" \in DOMAIN OnEnd(p, f)
    BY <2>1 DEF Fields
  <2> QED
    BY <1>3, <1>4, <2>2 DEF Callback, Returns
<1> QED
  BY <1>1, <1>5 DEF Stopped

-----------------------------------------------------------------------------
(* The steps of the abstract specification, in terms of the stack.         *)

\* The key of the next value, as the abstract specification knows it.
NextKey == IF m_stack = << >> THEN NoKey ELSE m_key

\* What makes a step of the abstract specification.
LEMMA MapSteps ==
  ASSUME NEW e, NEW f
  PROVE  LET path == Path(m_stack)
             same == Path(m_stack)' = path
             closed == /\ path # << >> /\ Path(m_stack)' = Front(path)
                       /\ NextKey' = IF Path(m_stack)' = << >> THEN NoKey ELSE Finished(Last(path))
             value == /\ e.type \in Scalar /\ path # << >>
                      /\ IF NextKey = NoKey THEN wrote' = << >>
                         ELSE Map!Promised(Append(path, NextKey), e)
         IN
         /\ seen' = << >> /\ wrote' = << >> /\ same /\ NextKey' = NextKey => Map!Next
         /\ /\ seen' = << e >> /\ e.type = "JSON_object_key" /\ path # << >> /\ NextKey = NoKey
            /\ NextKey' = NamedKey(e.text) /\ wrote' = << >> /\ same
            => Map!Next
         /\ /\ seen' = << e >> /\ e.type \in Start
            /\ \/ path = << >> /\ Len(Path(m_stack)') = 1
               \/ path # << >> /\ NextKey # NoKey /\ Path(m_stack)' = Append(path, NextKey)
            /\ NextKey' = IF e.type = "JSON_array_start" THEN IndexKey(0) ELSE NoKey
            /\ wrote' = << >>
            => Map!Next
         /\ seen' = << e >> /\ e.type \in EndEvent /\ closed /\ wrote' = << >> => Map!Next
         /\ seen' = << e >> /\ value /\ NextKey' = Finished(NextKey) /\ same => Map!Next
         /\ seen' = << e, f >> /\ f.type \in EndEvent /\ value /\ closed => Map!Next
<1> DEFINE path == Path(m_stack)
           same == Path(m_stack)' = path
           closed == /\ path # << >> /\ Path(m_stack)' = Front(path)
                     /\ NextKey' = IF Path(m_stack)' = << >> THEN NoKey ELSE Finished(Last(path))
           value == /\ e.type \in Scalar /\ path # << >>
                    /\ IF NextKey = NoKey THEN wrote' = << >>
                       ELSE Map!Promised(Append(path, NextKey), e)
<1>1. /\ Map!NoKey = NoKey
      /\ \A n : Map!IndexKey(n) = IndexKey(n)
      /\ \A s : Map!NamedKey(s) = NamedKey(s)
      /\ \A k : Map!Finished(k) = Finished(k)
  BY SameData
<1>2. \A s : Map!Front(s) = Front(s) /\ Map!Last(s) = Last(s)
  BY DEF Map!Front, Front, Map!Last, Last
<1>3. /\ Map!Start = Start /\ Map!End = EndEvent /\ Map!Scalar = Scalar
  BY DEF Map!Start, Start, Map!End, EndEvent, Map!Scalar, Scalar, ValueEvent
<1>4. /\ path = [i \in DOMAIN m_stack |-> m_stack[i].key]
      /\ Path(m_stack)' = [i \in DOMAIN m_stack |-> m_stack[i].key]'
      /\ NextKey = IF m_stack = << >> THEN NoKey ELSE m_key
      /\ NextKey' = (IF m_stack = << >> THEN NoKey ELSE m_key)'
  BY DEF Path, NextKey
<1>5. Map!Close <=> closed
  BY <1>1, <1>2, <1>4 DEF Map!Close
<1>6. Map!Value(e) <=> value
  BY <1>1, <1>3, <1>4 DEF Map!Value
<1>7. Len(<< e >>) = 1 /\ << e >>[1] = e /\ Len(<< e, f >>) = 2 /\ << e, f >>[1] = e /\ << e, f >>[2] = f
  OBVIOUS
<1> HIDE DEF path
<1>8. ASSUME seen' = << >>, wrote' = << >>, same, NextKey' = NextKey PROVE Map!Next
  BY <1>4, <1>8 DEF Map!Next, Map!Quiet
<1>9. ASSUME seen' = << e >>, e.type = "JSON_object_key", path # << >>, NextKey = NoKey,
             NextKey' = NamedKey(e.text), wrote' = << >>, same
      PROVE  Map!Next
  <2>1. Map!Key(e)
    BY <1>1, <1>4, <1>9 DEF Map!Key
  <2> QED
    BY <1>7, <1>9, <2>1 DEF Map!Next
<1>10. ASSUME seen' = << e >>, e.type \in Start, wrote' = << >>,
              \/ path = << >> /\ Len(Path(m_stack)') = 1
              \/ path # << >> /\ NextKey # NoKey /\ Path(m_stack)' = Append(path, NextKey),
              NextKey' = IF e.type = "JSON_array_start" THEN IndexKey(0) ELSE NoKey
       PROVE  Map!Next
  <2>1. Len(seen') = 1 /\ seen'[1] = e
    BY <1>7, <1>10
  <2>2. Map!Open(seen'[1])
    BY <1>1, <1>3, <1>4, <1>10, <2>1 DEF Map!Open
  <2> QED
    BY <2>1, <2>2 DEF Map!Next
<1> HIDE DEF closed, value
<1>11. ASSUME seen' = << e >>, e.type \in EndEvent, closed, wrote' = << >> PROVE Map!Next
  BY <1>3, <1>5, <1>7, <1>11 DEF Map!Next
<1>12. ASSUME seen' = << e >>, value, NextKey' = Finished(NextKey), same PROVE Map!Next
  <2>1. Len(seen') = 1 /\ seen'[1] = e /\ Map!Value(e)
    BY <1>6, <1>7, <1>12
  <2>2. /\ (IF m_stack = << >> THEN NoKey ELSE m_key)'
              = Map!Finished(IF m_stack = << >> THEN NoKey ELSE m_key)
        /\ [i \in DOMAIN m_stack |-> m_stack[i].key]' = [i \in DOMAIN m_stack |-> m_stack[i].key]
    BY <1>1, <1>4, <1>12
  <2> QED
    BY <2>1, <2>2, <1>1 DEF Map!Next
<1>13. ASSUME seen' = << e, f >>, f.type \in EndEvent, value, closed PROVE Map!Next
  BY <1>3, <1>5, <1>6, <1>7, <1>13 DEF Map!Next
<1>14. /\ seen' = << >> /\ wrote' = << >> /\ same /\ NextKey' = NextKey => Map!Next
       /\ /\ seen' = << e >> /\ e.type = "JSON_object_key" /\ path # << >> /\ NextKey = NoKey
          /\ NextKey' = NamedKey(e.text) /\ wrote' = << >> /\ same
          => Map!Next
       /\ /\ seen' = << e >> /\ e.type \in Start
          /\ \/ path = << >> /\ Len(Path(m_stack)') = 1
             \/ path # << >> /\ NextKey # NoKey /\ Path(m_stack)' = Append(path, NextKey)
          /\ NextKey' = IF e.type = "JSON_array_start" THEN IndexKey(0) ELSE NoKey
          /\ wrote' = << >>
          => Map!Next
  BY <1>8, <1>9, <1>10
<1>15. /\ seen' = << e >> /\ e.type \in EndEvent /\ closed /\ wrote' = << >> => Map!Next
       /\ seen' = << e >> /\ value /\ NextKey' = Finished(NextKey) /\ same => Map!Next
       /\ seen' = << e, f >> /\ f.type \in EndEvent /\ value /\ closed => Map!Next
  BY <1>11, <1>12, <1>13
<1> QED
  BY <1>14, <1>15 DEF path, closed, value

-----------------------------------------------------------------------------
(* The steps of the parser.                                                *)

\* Between documents the key of the next value is the index the root's cursor gets.
RootKey == m_stack = << >> => IsIndex(m_key)

\* A value's call is the abstract specification's.
LEMMA ValueFollows ==
  ASSUME Ready, Nested(m_stack), NEW q, NEW e \in Event, e.type \in Scalar, Returned(Before, q, e),
         wrote' = q.wrote
  PROVE  /\ m_stack # << >> /\ Path(m_stack) # << >> /\ NextKey = m_key
         /\ IF NextKey = NoKey THEN wrote' = << >> ELSE Map!Promised(Append(Path(m_stack), NextKey), e)
         /\ q.key = Finished(m_key) /\ q.stack = m_stack
<1> DEFINE c == NextCursor(Before)
           route == DataRoute(c, items)
<1>1. /\ Before.key = m_key /\ Before.stack = m_stack /\ Before.items = items /\ Before.wrote = << >>
      /\ Working(Before)
  BY BeforeIs DEF Ready
<1>2. /\ m_stack # << >> /\ ~ CheckFails(c)
      /\ q.key = Finished(m_key) /\ q.stack = m_stack
      /\ q.wrote = << >> \o Writes(route, e.text, Null(e))
  <2>1. e.type # "JSON_object_key" /\ e.type \notin Start /\ e.type \notin EndEvent
    BY EventKinds
  <2> QED
    BY <1>1, <2>1 DEF Returned
<1>3. wrote' = Writes(route, e.text, Null(e))
  <2>1. << >> \o Writes(route, e.text, Null(e)) = Writes(route, e.text, Null(e))
    <3> DEFINE w == [at |-> route.cursor.obj, value |-> Cast(Kind[route.cursor.rec], e.text, Null(e))]
    <3>1. Writes(route, e.text, Null(e)) = << >> \/ Writes(route, e.text, Null(e)) = << w >>
      BY DEF Writes
    <3> HIDE DEF w
    <3>2. << >> \o << >> = << >> /\ << >> \o << w >> = << w >>
      OBVIOUS
    <3> QED
      BY <3>1, <3>2
  <2> QED
    BY <1>2, <2>1
<1>4. m_stack \in Seq(CursorSet) /\ Path(m_stack) # << >>
  <2>1. m_stack \in Seq(CursorSet)
    BY <1>1 DEF Working, GoodStack
  <2> QED
    BY <1>2, <2>1, PathIs
<1>5. ASSUME m_key = NoKey PROVE wrote' = << >>
  <2>1. /\ GoodStack(m_stack, Base) /\ m_key \in Key /\ Numbered(items)
    BY <1>1 DEF Working
  <2>2. GoodCursor(c, Base.obj[1]) /\ c.key = m_key
    BY <1>1, <1>2, <2>1, NextIsGood
  <2>3. c.rec = Mock
    BY <1>2, <1>5, <2>2 DEF CheckFails
  <2> HIDE DEF c
  <2>4. route.cursor = c
    BY <2>1, <2>2, <2>3, RouteFollows DEF Ends
  <2> QED
    BY <1>3, <2>3, <2>4 DEF Writes
<1>6. Map!Promised(Append(Path(m_stack), m_key), e)
  <2>1. Working(Before) /\ Nested(Before.stack) /\ Before.stack # << >>
    BY <1>1, <1>2
  <2>2. wrote' = Writes(DataRoute(NextCursor(Before), Before.items), e.text, Null(e))
    BY <1>1, <1>3
  <2>3. Map!Promised(Append(Path(Before.stack), Before.key), e)
    BY <2>1, <2>2, ValueIsPromised
  <2> QED
    BY <1>1, <2>3
<1> QED
  BY <1>2, <1>4, <1>5, <1>6 DEF NextKey

\* The end of a container is the abstract specification's.
LEMMA EndFollows ==
  ASSUME Ready, Nested(m_stack), RootKey,
         NEW p, p.stack = m_stack, NEW q, NEW f \in Event, f.type \in EndEvent, Returned(p, q, f),
         m_stack' = q.stack, m_key' = q.key
  PROVE  /\ Path(m_stack) # << >> /\ Path(m_stack)' = Front(Path(m_stack))
         /\ NextKey' = IF Path(m_stack)' = << >> THEN NoKey ELSE Finished(Last(Path(m_stack)))
         /\ q.wrote = p.wrote /\ Nested(m_stack)' /\ RootKey'
<1>1. /\ m_stack # << >> /\ m_key' = Finished(Last(m_stack).key) /\ m_stack' = Front(m_stack)
      /\ q.wrote = p.wrote
  <2>1. f.type # "JSON_object_key" /\ f.type \notin Start /\ f.type \notin Scalar
    BY EventKinds
  <2> QED
    BY <2>1 DEF Returned
<1>2. GoodStack(m_stack, Base) /\ m_stack \in Seq(CursorSet)
  BY BeforeIs DEF Ready, Working, GoodStack
<1>3. /\ Path(Front(m_stack)) = Front(Path(m_stack)) /\ Last(Path(m_stack)) = Last(m_stack).key
      /\ Front(m_stack) = << >> <=> Front(Path(m_stack)) = << >>
  BY <1>1, <1>2, PathOfPop
<1>4. Path(m_stack)' = Front(Path(m_stack)) /\ Path(m_stack) # << >>
  <2>1. Path(m_stack)' = Path(m_stack')
    BY DEF Path
  <2> QED
    BY <1>1, <1>2, <1>3, <2>1, PathIs
<1>5. NextKey' = IF Path(m_stack)' = << >> THEN NoKey ELSE Finished(Last(Path(m_stack)))
  BY <1>1, <1>3, <1>4 DEF NextKey
<1>6. Nested(m_stack)'
  <2>1. Nested(Front(m_stack))
    BY <1>1, <1>2, PopIsNested
  <2>2. Nested(m_stack') => Nested(m_stack)'
    BY DEF Nested, Reaches
  <2> QED
    BY <1>1, <2>1, <2>2
<1>7. RootKey'
  <2>1. ASSUME m_stack' = << >> PROVE IsIndex(m_key')
    <3>1. Len(m_stack) = 1 /\ Last(m_stack) = m_stack[1]
      <4>1. Len(Front(m_stack)) = Len(m_stack) - 1 /\ Last(m_stack) = m_stack[Len(m_stack)]
        BY <1>1, <1>2, FrontProperties
      <4>2. Len(m_stack) \in Nat /\ Len(Front(m_stack)) = 0
        BY <1>1, <1>2, <2>1
      <4>3. \A n \in Nat : 0 = n - 1 => n = 1
        OBVIOUS
      <4> QED
        BY <4>1, <4>2, <4>3
    <3>2. Last(m_stack) = Base
      BY <1>1, <1>2, <3>1 DEF GoodStack
    <3>3. IsIndex(Base.key) /\ Base.key \in Key
      BY DEF Ready, Roots, RootIs, CursorSet
    <3>4. IsIndex(Finished(Last(m_stack).key))
      BY <3>2, <3>3, Keys
    <3> QED
      BY <1>1, <3>4 DEF IsIndex
  <2> QED
    BY <2>1 DEF RootKey
<1> QED
  BY <1>1, <1>4, <1>5, <1>6, <1>7

\* A step with one call that returns.
LEMMA OneCallFollows ==
  ASSUME Ready, Nested(m_stack), RootKey,
         NEW q, NEW e \in Event, Returned(Before, q, e),
         m_key' = q.key, m_stack' = q.stack, seen' = << e >>, wrote' = q.wrote
  PROVE  Map!Next /\ Nested(m_stack)' /\ RootKey'
<1>1. /\ Before.key = m_key /\ Before.stack = m_stack /\ Before.items = items /\ Before.wrote = << >>
      /\ Working(Before)
  BY BeforeIs DEF Ready
<1>2. /\ GoodStack(m_stack, Base) /\ m_stack \in Seq(CursorSet) /\ m_key \in Key
      /\ m_stack = << >> <=> Path(m_stack) = << >>
  <2>1. GoodStack(m_stack, Base) /\ m_stack \in Seq(CursorSet) /\ m_key \in Key
    BY <1>1 DEF Working, GoodStack
  <2> QED
    BY <2>1, PathIs
<1>3. /\ Path(m_stack)' = Path(m_stack')
      /\ Nested(m_stack') => Nested(m_stack)'
  BY DEF Path, Nested, Reaches
<1>4. /\ e.type \in { "JSON_object_key" } \cup Start \cup EndEvent \cup Scalar
      /\ e.type = "JSON_object_key" => e.type \notin Start \cup EndEvent \cup Scalar
      /\ e.type \in Start => e.type \notin EndEvent \cup Scalar
      /\ e.type \in EndEvent => e.type \notin Scalar
  BY EventKinds
<1>5. CASE e.type = "JSON_object_key"
  <2>1. /\ m_key = NoKey /\ m_key' = NamedKey(e.text) /\ m_stack' = m_stack /\ wrote' = << >>
    BY <1>1, <1>4, <1>5 DEF Returned
  <2>2. m_stack # << >>
    BY <2>1, Keys DEF RootKey
  <2>3. Path(m_stack)' = Path(m_stack) /\ Nested(m_stack)' /\ RootKey'
    <3>1. Path(m_stack)' = Path(m_stack) /\ Nested(m_stack)'
      BY <1>3, <2>1
    <3>2. m_stack' # << >>
      BY <2>1, <2>2
    <3> QED
      BY <3>1, <3>2 DEF RootKey
  <2>4. NextKey = NoKey /\ NextKey' = NamedKey(e.text)
    BY <2>1, <2>2 DEF NextKey
  <2> QED
    BY <1>2, <1>5, <2>1, <2>2, <2>3, <2>4, MapSteps
<1>6. CASE e.type \in Start
  <2>1. /\ m_key' = StartKey(m_key, e.type) /\ wrote' = << >>
        /\ \/ m_stack = << >> /\ m_stack' = << m_root >>
           \/ /\ m_stack # << >> /\ m_key # NoKey
              /\ m_stack' = Append(m_stack, Advance(NextCursor(Before), items))
    BY <1>1, <1>4, <1>6 DEF Returned
  <2>2. /\ \/ Path(m_stack) = << >> /\ Len(Path(m_stack)') = 1
           \/ /\ Path(m_stack) # << >> /\ NextKey # NoKey
              /\ Path(m_stack)' = Append(Path(m_stack), NextKey)
        /\ Nested(m_stack)' /\ m_stack' # << >>
    <3>1. CASE m_stack = << >>
      <4>1. m_stack' = << m_root >>
        BY <2>1, <3>1
      <4>2. << m_root >> \in Seq(CursorSet) /\ Len(<< m_root >>) = 1 /\ << m_root >> # << >>
        <5>1. m_root \in CursorSet
          BY DEF Ready, Roots, RootIs
        <5> QED
          BY <5>1
      <4>3. Len(Path(<< m_root >>)) = 1
        BY <4>2, PathIs
      <4>4. Nested(<< m_root >>)
        BY RootIsNested DEF Ready, Roots
      <4> QED
        BY <1>2, <1>3, <3>1, <4>1, <4>2, <4>3, <4>4
    <3>2. CASE m_stack # << >>
      <4>1. m_key # NoKey /\ m_stack' = Append(m_stack, Advance(NextCursor(Before), items))
        BY <2>1, <3>2
      <4>2. /\ Nested(Append(m_stack, Advance(NextCursor(Before), items)))
            /\ Append(m_stack, Advance(NextCursor(Before), items)) # << >>
            /\ Path(Append(m_stack, Advance(NextCursor(Before), items))) = Append(Path(m_stack), m_key)
        <5>1. Working(Before) /\ Nested(Before.stack) /\ Before.stack # << >>
          BY <1>1, <3>2
        <5> QED
          BY <1>1, <5>1, NextIsNested
      <4>3. NextKey = m_key
        BY <3>2 DEF NextKey
      <4> QED
        BY <1>2, <1>3, <3>2, <4>1, <4>2, <4>3
    <3> QED
      BY <3>1, <3>2
  <2>3. NextKey' = IF e.type = "JSON_array_start" THEN IndexKey(0) ELSE NoKey
    BY <2>1, <2>2 DEF NextKey, StartKey
  <2>4. RootKey'
    BY <2>2 DEF RootKey
  <2> QED
    BY <1>6, <2>1, <2>2, <2>3, <2>4, MapSteps
<1>7. CASE e.type \in EndEvent
  <2>1. /\ Path(m_stack) # << >> /\ Path(m_stack)' = Front(Path(m_stack))
        /\ NextKey' = IF Path(m_stack)' = << >> THEN NoKey ELSE Finished(Last(Path(m_stack)))
        /\ q.wrote = << >> /\ Nested(m_stack)' /\ RootKey'
    BY <1>1, <1>7, EndFollows
  <2> QED
    BY <1>7, <2>1, MapSteps
<1>8. CASE e.type \in Scalar
  <2>1. /\ m_stack # << >> /\ Path(m_stack) # << >> /\ NextKey = m_key
        /\ IF NextKey = NoKey THEN wrote' = << >> ELSE Map!Promised(Append(Path(m_stack), NextKey), e)
        /\ q.key = Finished(m_key) /\ q.stack = m_stack
    BY <1>8, ValueFollows
  <2>2. m_stack' = m_stack /\ m_key' = Finished(m_key)
    BY <2>1
  <2>3. Path(m_stack)' = Path(m_stack) /\ Nested(m_stack)'
    BY <1>3, <2>2
  <2>4. NextKey' = Finished(NextKey) /\ RootKey'
    BY <2>1, <2>2 DEF NextKey, RootKey
  <2> QED
    BY <1>8, <2>1, <2>3, <2>4, MapSteps
<1> QED
  BY <1>4, <1>5, <1>6, <1>7, <1>8

\* The two events of a step.
LEMMA AppendToOne ==
  ASSUME NEW S, NEW e \in S, NEW f \in S
  PROVE  Append(<< e >>, f) = << e, f >>
<1>1. << e >> \in Seq(S) /\ Len(<< e >>) = 1 /\ << e >>[1] = e
  OBVIOUS
<1>2. << e, f >> \in Seq(S) /\ Len(<< e, f >>) = 2 /\ << e, f >>[1] = e /\ << e, f >>[2] = f
  OBVIOUS
<1> DEFINE t == Append(<< e >>, f)
<1>3. t \in Seq(S) /\ Len(t) = 2 /\ t[1] = e /\ t[2] = f
  BY <1>1, AppendProperties
<1> HIDE DEF t
<1>4. \A i \in 1 .. 2 : t[i] = << e, f >>[i]
  <2>1. \A i \in 1 .. 2 : i = 1 \/ i = 2
    OBVIOUS
  <2> QED
    BY <1>2, <1>3, <2>1
<1>5. t = << e, f >>
  BY <1>2, <1>3, <1>4, SeqEqual
<1> QED
  BY <1>5 DEF t

\* A step that the abstract specification does not see.
LEMMA QuietFollowsMap ==
  ASSUME Nested(m_stack), RootKey, m_stack' = m_stack, m_key' = m_key,
         seen' = << >>, wrote' = << >>
  PROVE  Map!Next /\ Nested(m_stack)' /\ RootKey'
<1>1. Path(m_stack)' = Path(m_stack) /\ NextKey' = NextKey
  BY DEF Path, NextKey
<1>2. Nested(m_stack)' /\ RootKey'
  BY DEF Nested, Reaches, RootKey, IsIndex
<1> QED
  BY <1>1, <1>2, MapSteps

\* A number and the end of its container in one step.
LEMMA TwoCallsFollow ==
  ASSUME Ready, Nested(m_stack), RootKey,
         NEW p, Working(p), NEW e \in Event, e.type \in Scalar, Returned(Before, p, e),
         NEW q, NEW f \in Event, f.type \in EndEvent, Returned(p, q, f),
         m_key' = q.key, m_stack' = q.stack, seen' = << e, f >>, wrote' = q.wrote
  PROVE  Map!Next /\ Nested(m_stack)' /\ RootKey'
<1>1. p.stack = m_stack
  <2>1. e.type # "JSON_object_key" /\ e.type \notin Start /\ e.type \notin EndEvent
    BY EventKinds
  <2> QED
    BY <2>1, BeforeIs DEF Returned
<1>2. /\ Path(m_stack) # << >> /\ Path(m_stack)' = Front(Path(m_stack))
      /\ NextKey' = IF Path(m_stack)' = << >> THEN NoKey ELSE Finished(Last(Path(m_stack)))
      /\ q.wrote = p.wrote /\ Nested(m_stack)' /\ RootKey'
  BY <1>1, EndFollows
<1>3. IF NextKey = NoKey THEN wrote' = << >> ELSE Map!Promised(Append(Path(m_stack), NextKey), e)
  BY <1>2, ValueFollows
<1> QED
  BY <1>2, <1>3, MapSteps

\* A character has no event, one, or a number and the end of its container.
LEMMA EventsOfTurn ==
  ASSUME NEW n, NEW s, Tells(n, s)
  PROVE  \/ out' = << >>
         \/ \E e \in Event : out' = << e >>
         \/ \E e, f \in Event : e.type \in Scalar /\ f.type \in EndEvent /\ out' = << e, f >>
<1>1. n = << >> \/ \E e \in Event : e.type \in Scalar /\ n = << e >>
  BY DEF Tells, NumberEnded, Scalar, ValueEvent, Start
<1>2. CASE out' = n
  BY <1>1, <1>2
<1>3. ASSUME NEW f \in Event, out' = Append(n, f), n = << >> \/ f.type \in EndEvent
      PROVE  \/ \E e \in Event : out' = << e >>
             \/ \E e, g \in Event : e.type \in Scalar /\ g.type \in EndEvent /\ out' = << e, g >>
  <2>1. CASE n = << >>
    BY <1>3, <2>1
  <2>2. ASSUME NEW e \in Event, e.type \in Scalar, n = << e >>
        PROVE  out' = << e, f >> /\ f.type \in EndEvent
    <3>1. Append(<< e >>, f) = << e, f >>
      BY AppendToOne
    <3>2. << e >> # << >>
      OBVIOUS
    <3> QED
      BY <1>3, <2>2, <3>1, <3>2
  <2> QED
    BY <1>1, <2>1, <2>2
<1> QED
  BY <1>2, <1>3 DEF Tells

\* Parse: each character's calls are a step of the abstract specification.
LEMMA ParsesFollows ==
  ASSUME ParserInv, Nested(m_stack), RootKey, NEW c \in Chars, Parses(c)
  PROVE  Map!Next /\ Nested(m_stack)' /\ RootKey'
<1> DEFINE p == Called(out')
<1>1. Ready
  BY ParsesTells DEF Parses
<1>2. m_key' = p.key /\ m_stack' = p.stack /\ seen' = p.seen /\ wrote' = p.wrote
  BY DEF Parses
<1>3. \/ out' = << >>
      \/ \E e \in Event : out' = << e >>
      \/ \E e, f \in Event : e.type \in Scalar /\ f.type \in EndEvent /\ out' = << e, f >>
  BY ParsesTells, EventsOfTurn
<1>4. /\ DOMAIN Before = Fields /\ Before.parser = "ok" /\ Before.seen = << >>
      /\ Before.key = m_key /\ Before.stack = m_stack /\ Before.wrote = << >>
  BY <1>1, BeforeIs DEF Ready, Before
<1>5. ASSUME Stopped(Before, p) PROVE Map!Next /\ Nested(m_stack)' /\ RootKey'
  <2>1. m_stack' = m_stack /\ m_key' = m_key /\ seen' = << >> /\ wrote' = << >>
    BY <1>1, <1>2, <1>4, <1>5 DEF Stopped
  <2> QED
    BY <2>1, QuietFollowsMap
<1>6. CASE out' = << >>
  <2>1. p = Before
    BY <1>6 DEF Called
  <2>2. m_stack' = m_stack /\ m_key' = m_key /\ seen' = << >> /\ wrote' = << >>
    BY <1>1, <1>2, <1>4, <2>1
  <2> QED
    BY <2>2, QuietFollowsMap
<1>7. ASSUME NEW e \in Event, out' = << e >> PROVE Map!Next /\ Nested(m_stack)' /\ RootKey'
  <2>1. p = Callback(Before, e)
    <3>1. << e >> # << >> /\ Len(<< e >>) = 1 /\ << e >>[1] = e
      OBVIOUS
    <3> QED
      BY <1>7, <3>1 DEF Called
  <2>2. Stopped(Before, p) \/ Returned(Before, p, e)
    BY <1>4, <2>1, CallbackTells
  <2> HIDE DEF p
  <2>3. ASSUME Returned(Before, p, e) PROVE Map!Next /\ Nested(m_stack)' /\ RootKey'
    <3>1. seen' = << e >>
      BY <1>2, <1>4, <2>3 DEF Returned
    <3> QED
      BY <1>1, <1>2, <2>3, <3>1, OneCallFollows
  <2> QED
    BY <1>5, <2>2, <2>3
<1>8. ASSUME NEW e \in Event, NEW f \in Event, e.type \in Scalar, f.type \in EndEvent,
             out' = << e, f >>
      PROVE  Map!Next /\ Nested(m_stack)' /\ RootKey'
  <2> DEFINE first == Callback(Before, e)
  <2>1. p = Callback(first, f)
    <3>1. << e, f >> # << >> /\ Len(<< e, f >>) = 2 /\ << e, f >>[1] = e /\ << e, f >>[2] = f
      OBVIOUS
    <3> QED
      BY <1>8, <3>1 DEF Called
  <2>2. Stopped(Before, first) \/ Returned(Before, first, e)
    BY <1>4, CallbackTells
  <2>3. Working(first)
    BY <1>4, <1>1, CallbackWorks DEF Ready, MayCome
  <2>4. CASE Stopped(Before, first)
    <3>1. p = first
      BY <2>1, <2>4 DEF Callback, Stopped
    <3> HIDE DEF p, first
    <3> QED
      BY <1>5, <2>4, <3>1
  <2>5. CASE Returned(Before, first, e)
    <3> HIDE DEF p, first
    <3>1. first.parser = "ok" /\ first.seen = << e >> /\ first.stack # << >>
      <4>1. e.type # "JSON_object_key" /\ e.type \notin Start /\ e.type \notin EndEvent
        BY <1>8, EventKinds
      <4>2. Append(<< >>, e) = << e >>
        OBVIOUS
      <4> QED
        BY <1>4, <2>5, <4>1, <4>2 DEF Returned
    <3>2. Returned(first, p, f)
      BY <1>8, <2>1, <2>3, <3>1, EndReturns
    <3>3. seen' = << e, f >>
      <4>1. Append(<< e >>, f) = << e, f >>
        BY AppendToOne
      <4> QED
        BY <1>2, <3>1, <3>2, <4>1 DEF Returned
    <3> QED
      BY <1>1, <1>2, <1>8, <2>3, <2>5, <3>2, <3>3, TwoCallsFollow
  <2> QED
    BY <2>2, <2>4, <2>5
<1> QED
  BY <1>3, <1>6, <1>7, <1>8

-----------------------------------------------------------------------------
(* The theorem.                                                            *)

\* What the proof keeps: the parser's invariant, and the stack in the shape of the way.
MapInv == ParserInv /\ Nested(m_stack) /\ RootKey

\* A new parser is an abstract one.
LEMMA MapInit == ParserInit => MapInv /\ Map!Init
<1> SUFFICES ASSUME ParserInit PROVE MapInv /\ Map!Init
  OBVIOUS
<1>1. ParserInv
  BY ParserInitIsGood
<1>2. m_stack = << >> /\ seen = << >> /\ wrote = << >> /\ m_key = IndexKey(0)
  BY DEF ParserInit
<1>3. Nested(m_stack) /\ RootKey
  BY <1>2, Keys DEF Nested, RootKey
<1>4. Map!Init
  <2>1. [i \in DOMAIN m_stack |-> m_stack[i].key] = << >>
    <3>1. Path(<< >>) = << >>
      <4>1. << >> \in Seq(CursorSet)
        OBVIOUS
      <4> QED
        BY <4>1, PathIs
    <3> QED
      BY <1>2, <3>1 DEF Path
  <2>2. Map!NoKey = NoKey
    BY SameData
  <2> QED
    BY <1>2, <2>1, <2>2 DEF Map!Init
<1> QED
  BY <1>1, <1>3, <1>4 DEF MapInv

\* Every step is one of the abstract specification.
LEMMA MapStep == MapInv /\ [ParserNext]_parser_vars => MapInv' /\ [Map!Next]_(Map!vars)
<1> SUFFICES ASSUME MapInv, [ParserNext]_parser_vars PROVE MapInv' /\ [Map!Next]_(Map!vars)
  OBVIOUS
<1>1. ParserInv /\ Nested(m_stack) /\ RootKey
  BY DEF MapInv
<1>2. ParserInv'
  BY <1>1, ParserStep
<1>3. CASE UNCHANGED parser_vars
  <2>1. /\ m_stack' = m_stack /\ m_key' = m_key /\ m_root' = m_root
        /\ seen' = seen /\ wrote' = wrote
    BY <1>3 DEF parser_vars, mine
  <2>2. Nested(m_stack)' /\ RootKey'
    BY <1>1, <2>1 DEF Nested, Reaches, RootKey
  <2>3. UNCHANGED Map!vars
    BY <2>1 DEF Map!vars
  <2> QED
    BY <1>2, <2>2, <2>3 DEF MapInv
<1>4. CASE SetTarget
  <2>1. m_stack' = m_stack /\ m_key' = m_key /\ seen' = << >> /\ wrote' = << >>
    BY <1>4 DEF SetTarget
  <2> QED
    BY <1>1, <1>2, <2>1, QuietFollowsMap DEF MapInv
<1>5. CASE EndOfPiece \/ Done
  <2>1. /\ m_stack' = m_stack /\ m_key' = m_key /\ seen' = << >> /\ wrote' = << >>
    BY <1>5 DEF EndOfPiece, Done
  <2> QED
    BY <1>1, <1>2, <2>1, QuietFollowsMap DEF MapInv
<1>6. ASSUME NEW c \in Chars, Parses(c) PROVE MapInv' /\ [Map!Next]_(Map!vars)
  BY <1>1, <1>2, <1>6, ParsesFollows DEF MapInv
<1> QED
  BY <1>3, <1>4, <1>5, <1>6 DEF ParserNext

\* Each value of every document reaches the member that its keys name, from the root of the
\* structure down, and no other: for every structure of builders, every text, broken ones
\* too, and every way of cutting it into pieces.
THEOREM ObjectMapCorrect == ParserSpec => ObjectMapPromised
BY MapInit, MapStep, PTL DEF ParserSpec, ObjectMapPromised, Map!Spec

-----------------------------------------------------------------------------
(* Documents that are kept apart.                                          *)

\* As long as no document has been cut off, the cursors of the open one lead into the object
\* that was set as it began.
DocumentInv ==
  unfinished = 0 => /\ call = "ok" /\ m_stack # << >> => Base.obj = target
                    /\ Wrote(wrote, target[1])

\* Without a cursor no call assigns anything, and only the start of a container opens one.
LEMMA NothingWithoutCursor ==
  ASSUME Ready, m_stack = << >>, NEW n, NEW s, Tells(n, s)
  PROVE  LET p == Called(out') IN
         /\ p.wrote = << >>
         /\ p.stack # << >> => \E e \in Event : e.type \in Start /\ out' = << e >>
<1>1. /\ DOMAIN Before = Fields /\ Before.parser = "ok"
      /\ Before.stack = << >> /\ Before.wrote = << >>
  BY BeforeIs DEF Ready
<1>2. ASSUME NEW e \in Event
      PROVE  LET q == Callback(Before, e) IN
             /\ q.wrote = << >> /\ (q.stack # << >> => e.type \in Start)
             /\ e.type \in Scalar => q.parser # "ok" /\ q.stack = << >>
  <2> DEFINE q == Callback(Before, e)
  <2>1. Stopped(Before, q) \/ Returned(Before, q, e)
    BY <1>1, CallbackTells
  <2> HIDE DEF q
  <2>2. CASE Stopped(Before, q)
    BY <1>1, <2>2 DEF Stopped, q
  <2>3. CASE Returned(Before, q, e)
    <3>1. (e.type = "JSON_object_key" /\ q.stack = << >>) \/ e.type \in Start
      BY <1>1, <2>3 DEF Returned
    <3>2. q.wrote = << >> /\ e.type \notin Scalar
      BY <1>1, <2>3, <3>1, EventKinds DEF Returned
    <3> QED
      BY <3>1, <3>2 DEF q
  <2> QED
    BY <2>1, <2>2, <2>3
<1>3. CASE out' = << >>
  <2>1. Called(out') = Before
    BY <1>3 DEF Called
  <2> QED
    BY <1>1, <2>1
<1>4. ASSUME NEW e \in Event, out' = << e >>
      PROVE  /\ Called(out').wrote = << >>
             /\ Called(out').stack # << >> => e.type \in Start
  <2>1. << e >> # << >> /\ Len(<< e >>) = 1 /\ << e >>[1] = e
    OBVIOUS
  <2>2. Called(out') = Callback(Before, e)
    BY <1>4, <2>1 DEF Called
  <2> QED
    BY <1>2, <2>2
<1>5. ASSUME NEW e \in Event, NEW f \in Event, e.type \in Scalar, out' = << e, f >>
      PROVE  Called(out').wrote = << >> /\ Called(out').stack = << >>
  <2> DEFINE first == Callback(Before, e)
  <2>1. << e, f >> # << >> /\ Len(<< e, f >>) = 2 /\ << e, f >>[1] = e /\ << e, f >>[2] = f
    OBVIOUS
  <2>2. Called(out') = Callback(first, f)
    BY <1>5, <2>1 DEF Called
  <2>3. first.parser # "ok" /\ first.wrote = << >> /\ first.stack = << >>
    BY <1>2, <1>5
  <2> HIDE DEF first
  <2> QED
    BY <2>2, <2>3 DEF Callback
<1> QED
  BY <1>3, <1>4, <1>5, EventsOfTurn

\* A container's start alone comes where a value may start.
LEMMA StartComes ==
  ASSUME NEW n, NEW s, Tells(n, s), call' = "ok",
         NEW e \in Event, e.type \in Start, out' = << e >>
  PROVE  state \in { "go", "val", "arr" }
<1>1. << e >>[1] = e /\ Len(<< e >>) = 1 /\ << e >> # << >>
  OBVIOUS
<1>2. ASSUME NEW g, g.type = "JSON_number", n = << g >> PROVE out' # n
  <2>1. << g >>[1] = g
    OBVIOUS
  <2> QED
    BY <1>1, <1>2, <2>1 DEF Start
<1>3. out' # n
  BY <1>1, <1>2 DEF Tells, NumberEnded
<1>4. PICK f \in Event : out' = Append(n, f) /\ Delivers(f, n, s)
  BY <1>3 DEF Tells
<1>5. n = << >> /\ s = state
  <2>1. ASSUME NEW g \in Event, n = << g >> PROVE FALSE
    <3>1. Append(<< g >>, f) = << g, f >> /\ Len(<< g, f >>) = 2
      BY AppendToOne
    <3> QED
      BY <1>1, <1>4, <2>1, <3>1
  <2> QED
    BY <2>1 DEF Tells, NumberEnded
<1>6. f = e
  <2>1. Append(<< >>, f) = << f >> /\ << f >>[1] = f
    OBVIOUS
  <2> QED
    BY <1>1, <1>4, <1>5, <2>1
<1> QED
  BY <1>4, <1>5, <1>6, EventKinds DEF Delivers

\* Parse: a document begins with the target of its first character and keeps it.
LEMMA ParsesKeepApart ==
  ASSUME ParserInv, DocumentInv, NEW c \in Chars, Parses(c)
  PROVE  DocumentInv'
<1> SUFFICES ASSUME unfinished' = 0
             PROVE  /\ call' = "ok" /\ m_stack' # << >> => Base'.obj = target'
                    /\ Wrote(wrote', target'[1])
  BY DEF DocumentInv, Wrote, Assigned
<1> DEFINE p == Called(out')
<1>1. /\ call = "ok" /\ unfinished = 0
      /\ target' = IF state = "go" THEN m_root.obj ELSE target
      /\ m_stack' = p.stack /\ wrote' = p.wrote
  BY DEF Parses, Reads
<1>2. PICK n, s : Tells(n, s)
  BY ParsesTells
<1>3. Ready /\ Matched
  BY <1>1, ParsesTells
<1>4. Working(p)
  BY <1>2, <1>3, CalledWorks
<1>5. m_stack' # << >> => Base' = Base
  BY <1>1, <1>4 DEF Base, Working, GoodStack
<1>6. Len(stack) = 1 => m_stack = << >>
  <2>1. m_stack \in Seq(CursorSet)
    BY DEF ParserInv, GoodStack
  <2> QED
    BY <1>3, <2>1, EmptySeq DEF Matched
<1>7. CASE state = "go"
  <2>1. stack = << "done" >> /\ Len(<< "done" >>) = 1
    BY <1>1, <1>7 DEF ParserInv, CheckerInv, CheckerModesAgree
  <2>2. Base = m_root /\ target' = m_root.obj
    BY <1>1, <1>6, <1>7, <2>1 DEF Base
  <2> QED
    BY <1>1, <1>4, <1>5, <2>2 DEF Working
<1>8. CASE state # "go" /\ m_stack # << >>
  <2>1. Base.obj = target /\ target' = target
    BY <1>1, <1>8 DEF DocumentInv
  <2> QED
    BY <1>1, <1>4, <1>5, <2>1 DEF Working
<1>9. CASE state # "go" /\ m_stack = << >>
  <2> HIDE DEF p
  <2>1. /\ wrote' = << >>
        /\ m_stack' # << >> => \E e \in Event : e.type \in Start /\ out' = << e >>
    BY <1>1, <1>2, <1>3, <1>9, NothingWithoutCursor DEF p
  <2>2. Top = "done"
    <3>1. Len(m_stack) = 0
      BY <1>9
    <3>2. Len(stack) = 1
      BY <1>3, <3>1, ModesAt DEF Matched
    <3> QED
      BY <1>3, <3>2, TopMode DEF Matched, Top
  <2>3. ~ (call' = "ok" /\ m_stack' # << >>)
    BY <1>1, <1>2, <1>9, <2>1, <2>2, StartComes DEF ParserInv, CheckerInv, CheckerModesAgree
  <2> QED
    BY <2>1, <2>3 DEF Wrote
<1> QED
  BY <1>7, <1>8, <1>9

\* The other calls assign nothing and leave the cursors of an open document alone.
LEMMA DocumentStep ==
  ParserInv /\ DocumentInv /\ [ParserNext]_parser_vars => DocumentInv'
<1> SUFFICES ASSUME ParserInv, DocumentInv, [ParserNext]_parser_vars PROVE DocumentInv'
  OBVIOUS
<1>1. CASE UNCHANGED parser_vars
  BY <1>1 DEF parser_vars, mine, history, m_json, vars, jc, DocumentInv, Base, Wrote, Assigned
<1>2. CASE SetTarget
  BY <1>2 DEF SetTarget, m_json, history, vars, jc, DocumentInv, Base, Wrote
<1>3. CASE EndOfPiece
  BY <1>3 DEF EndOfPiece, SaveToken, history, DocumentInv, Base, Wrote
<1>4. CASE Done
  <2>1. call = "ok" /\ wrote' = << >> /\ UNCHANGED <<m_root, m_stack, target>>
    BY <1>4 DEF Done, BetweenCalls
  <2>2. unfinished' = 0 => unfinished = 0
    BY <1>4 DEF Done, ParserInv
  <2> QED
    BY <2>1, <2>2 DEF DocumentInv, Base, Wrote
<1> QED
  BY <1>1, <1>2, <1>3, <1>4, ParsesKeepApart DEF ParserNext

\* Where every document was complete at Done(), the values of each go into the object that
\* was set as it began: no cursor is left over from the document before, and a SetTarget() in
\* the middle waits for the next one.  Parse(data, len, target) makes that call every time.
THEOREM DocumentsKeptApart == ParserSpec => []CompleteDocumentsKeepApart
<1>1. ParserInit => DocumentInv
  BY DEF ParserInit, DocumentInv, Wrote
<1>2. DocumentInv => CompleteDocumentsKeepApart
  <2>1. \A w : << w >>[1] = w /\ DOMAIN << w >> = { 1 }
    OBVIOUS
  <2>2. DOMAIN << >> = {}
    OBVIOUS
  <2> QED
    BY <2>1, <2>2 DEF DocumentInv, Wrote, Assigned, WritesToTarget, CompleteDocumentsKeepApart
<1> QED
  BY <1>1, <1>2, ParserAlways, DocumentStep, PTL DEF ParserSpec
=============================================================================
