------------------------------ MODULE Builders ------------------------------
(***************************************************************************)
(* Keys, cursors and the builders JsonParser calls: src/src/Key.cc,        *)
(* Cursor.cc, TypeBuilder.hh, JsonBuilder.hh and VectorBuilder.hh.         *)
(*                                                                         *)
(* A builder stands for its C++ type and for the type it builds (its Host).*)
(* JsonBuilder has Members: a builder for each key (with the MemberBuilder *)
(* in between, which turns the object's address into the member's);        *)
(* VectorBuilder has a Visitor for its elements; SimpleTypeBuilder has     *)
(* neither.  An address is the way from the target to the object: the      *)
(* target, then member keys and element numbers.                           *)
(***************************************************************************)
EXTENDS Integers, Sequences, SequencesExt, FiniteSets, LexicalCast

CONSTANTS
  Builder,    \* the builders of the caller's structure
  Root,       \* the one given to JsonParser
  Kind,       \* "object", "vector" or a simple kind, for each builder
  Members,    \* the keys of a JsonBuilder and the builders of their members
  Visitor     \* the builder of a VectorBuilder's elements

\* The builder of whatever has no builder.
Mock == "MockObjectHandler"

ASSUME BuilderTree ==
  /\ IsFiniteSet(Builder) /\ Root \in Builder /\ Mock \notin Builder
  /\ Kind \in [Builder -> SimpleKind \cup { "object", "vector" }]
  /\ DOMAIN Members = { b \in Builder : Kind[b] = "object" }
  /\ Visitor \in [{ b \in Builder : Kind[b] = "vector" } -> Builder]
  /\ \A b \in DOMAIN Members : \A k \in DOMAIN Members[b] : Members[b][k] \in Builder

-----------------------------------------------------------------------------
(* Keys.  What a Clear or a change of type leaves behind in the other      *)
(* fields is never read.                                                   *)

NoKey == [type |-> "none"]
IndexKey(n) == [type |-> "index", index |-> n]
NamedKey(t) == [type |-> "key", name |-> t]

IsIndex(k) == k.type = "index"

\* JsonParser::FinishKey: the key of the value after this one.
Finished(k) == IF IsIndex(k) THEN IndexKey(k.index + 1) ELSE NoKey

-----------------------------------------------------------------------------
(* Cursors.                                                                *)

Nowhere == << >>

Cursor(k, obj, b) == [key |-> k, obj |-> obj, type |-> b, rec |-> b]
MockCursor(k) == [key |-> k, obj |-> Nowhere, type |-> "void", rec |-> Mock]

Element(n) == [type |-> "element", nth |-> n]

\* emplace_back on the vector at address a, given the elements there are.
NewElement(a, items) == Append(a, Element(1 + Cardinality({ e \in items : Front(e) = a })))

-----------------------------------------------------------------------------
(* What a processor does with a cursor.                                    *)

\* assert(this->Check(current)): every builder but the mock wants a key.
CheckFails(c) == c.rec # Mock /\ c.key = NoKey

\* Data() asks for Target<Host>(), which throws TypeMismatch.
Mismatch(c) ==
  /\ c.rec # Mock /\ c.type # c.rec
  /\ Kind[c.rec] = "object" => c.key \in DOMAIN Members[c.rec]

\* So does Advance(), but for a SimpleTypeBuilder, whose Advance() needs no target.
AdvanceMismatch(c) == Mismatch(c) /\ Kind[c.rec] \notin SimpleKind

\* m_obj_act.find(key)
MemberOf(b, k) == IF k \in DOMAIN Members[b] THEN Members[b][k] ELSE Mock

\* Advance() of the builder of cursor c: the cursor for a container, and the vector
\* elements made for it.
AdvanceMakes(c, items) ==
  IF c.rec # Mock /\ Kind[c.rec] = "vector" THEN { NewElement(c.obj, items) } ELSE {}

\* Bug for a mutant: the member's builder gets the object itself.
AdvanceKeepsObject(c, items) ==
  IF c.rec = Mock \/ Kind[c.rec] \in SimpleKind THEN MockCursor(c.key)
  ELSE [c EXCEPT !.rec = IF Kind[c.rec] = "vector" THEN Visitor[c.rec] ELSE MemberOf(c.rec, c.key)]

Advance(c, items) ==
  IF c.rec = Mock \/ Kind[c.rec] \in SimpleKind THEN MockCursor(c.key)
  ELSE IF Kind[c.rec] = "vector" THEN Cursor(c.key, NewElement(c.obj, items), Visitor[c.rec])
  ELSE IF MemberOf(c.rec, c.key) = Mock THEN MockCursor(c.key)
  ELSE Cursor(c.key, Append(c.obj, c.key), MemberOf(c.rec, c.key))

\* One call of Data() in another, with the same key: JsonBuilder to its member's builder,
\* VectorBuilder to the builder of a new element.
Passed(c, items) ==
  IF c.rec = Mock \/ Kind[c.rec] \in SimpleKind THEN c ELSE Advance(c, items)

PassedOn(s, items) ==
  [cursor |-> Passed(s.cursor, items),
   made |-> s.made \cup (IF s.cursor = Passed(s.cursor, items) THEN {}
                         ELSE AdvanceMakes(s.cursor, items))]

\* The calls of Data() in one another: there are no more than there are builders.
DataRoute(c, items) ==
  LET Calls[n \in Nat] ==
        IF n = 0 THEN [cursor |-> c, made |-> {}] ELSE PassedOn(Calls[n - 1], items)
  IN Calls[Cardinality(Builder)]

\* Where the value lands, if anywhere.
Writes(route, text, null) ==
  IF route.cursor.rec = Mock THEN << >>
  ELSE << [at |-> route.cursor.obj, value |-> Cast(Kind[route.cursor.rec], text, null)] >>
=============================================================================
