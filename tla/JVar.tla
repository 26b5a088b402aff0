-------------------------------- MODULE JVar --------------------------------
(***************************************************************************)
(* src/src/JVar.cc and JVar.hh: a variant that owns its string, its array  *)
(* or its hash on the heap, and the statements a program can make with it. *)
(*                                                                         *)
(* A JVar lies in a slot of an object: the program's variables are the     *)
(* slots of the frame, elements those of an array or a hash.  A statement  *)
(* names its JVars by paths, a variable and then indexes and keys, the way *)
(* operator[] does.  (Indexes begin with 1.)                               *)
(*                                                                         *)
(* Integers, reals and booleans differ in nothing but their tag.  A vector *)
(* that grows copies its elements and destroys the old ones, since the     *)
(* move constructor is not noexcept: the new objects stand for the old.    *)
(***************************************************************************)
EXTENDS Integers, Sequences, SequencesExt, FiniteSets

CONSTANTS
  Var,        \* the variables of the program
  Name,       \* the keys of hashes
  Simple,     \* the tags without a heap object that are used, besides null
  Datum,      \* what a simple JVar or a string may hold
  Object,     \* bound of the model: the addresses of the heap
  MaxSlots,   \* bound of the model: elements of an array
  MaxPath     \* bound of the model: the length of a path

ASSUME JVarTags == Simple \subseteq { "integer", "real", "boolean" }
ASSUME JVarBounds == /\ Object \subseteq Nat \ {0} /\ IsFiniteSet(Object)
                     /\ MaxSlots \in Nat /\ MaxPath \in Nat \ {0}

VARIABLES
  heap,      \* the objects
  did,       \* the last statement, and what became of it
  knotted    \* history: a JVar has been moved or swapped into itself

vars == <<heap, did, knotted>>

Owning == { "string", "array", "hash" }
Type == { "null" } \cup Simple \cup Owning
Frame == 0
NoDatum == "none"
Wild == "wild"          \* bits nobody has written

Null == [type |-> "null", raw |-> NoDatum]
Contents(type, datum) == [type |-> type, datum |-> datum, slots |-> << >>]

-----------------------------------------------------------------------------
(* The heap.                                                               *)

\* The function f, with y at x.
With(f, x, y) == [ z \in DOMAIN f \cup { x } |-> IF z = x THEN y ELSE f[z] ]

\* The object at the end of a path, and the slot.
ObjectAt(h, p) ==
  LET Down[n \in 0 .. Len(p)] == IF n = 0 THEN Frame ELSE h[Down[n - 1]].slots[p[n]].raw
  IN Down[Len(p)]
Slot(h, p) == << ObjectAt(h, Front(p)), Last(p) >>

At(h, s) == h[s[1]].slots[s[2]]
Put(h, s, v) == [h EXCEPT ![s[1]].slots = With(@, s[2], v)]

Owned(v) == IF v.type \in Owning THEN { v.raw } ELSE {}
Inside(h, o) == UNION { Owned(h[o].slots[i]) : i \in DOMAIN h[o].slots }

\* The objects v owns, and what they own, and so on.
Reach(h, v) ==
  LET Within[n \in Nat] == IF n = 0 THEN Owned(v)
                           ELSE Within[n - 1] \cup UNION { Inside(h, o) : o \in Within[n - 1] }
  IN Within[Cardinality(DOMAIN h)]

Unused(h) == Object \ DOMAIN h

\* The paths to the JVars there are, of at most max variables, indexes and keys.
Paths(h, max) ==
  LET Below(p) == IF p = << >> THEN DOMAIN h[Frame].slots
                  ELSE IF At(h, Slot(h, p)).type \in { "array", "hash" }
                  THEN DOMAIN h[ObjectAt(h, p)].slots ELSE {}
      Long[n \in Nat] == IF n = 0 THEN { << >> }
                         ELSE UNION { { Append(p, i) : i \in Below(p) } : p \in Long[n - 1] }
  IN UNION { Long[n] : n \in 1 .. max }

Places(h) == Paths(h, MaxPath)

-----------------------------------------------------------------------------
(* Constructors and the destructor.                                        *)

\* Bug for a mutant: the pointer is copied.
ShallowCopy(h, v) == [heap |-> h, value |-> v]

\* JVar(const JVar&): a new object for each that v reaches.
DeepCopy(h, v) ==
  LET old == Reach(h, v)
      new == CHOOSE f \in [old -> Unused(h)] : IsInjective(f)
      Copy(x) == IF x.type \in Owning THEN [x EXCEPT !.raw = new[@]] ELSE x
      Twin(o) == [h[o] EXCEPT !.slots = [ i \in DOMAIN @ |-> Copy(@[i]) ]]
  IN [heap |-> [ o \in DOMAIN h \cup { new[x] : x \in old } |->
                   IF o \in DOMAIN h THEN h[o] ELSE Twin(CHOOSE x \in old : new[x] = o) ],
      value |-> Copy(v)]

\* Bug for a mutant: the source keeps its pointer.
MoveKeepsSource(h, s) == [heap |-> h, value |-> At(h, s)]

\* JVar(JVar&&): null, swapped with the source.
Move(h, s) == [heap |-> Put(h, s, Null), value |-> At(h, s)]

\* JVar(Type), JVar(long long), JVar(const std::string&), JVar(Array&&) and the like.
Fresh(h, type, datum) ==
  IF type \in Owning
  THEN LET o == CHOOSE x \in Unused(h) : TRUE IN
       [heap |-> With(h, o, Contents(type, datum)), value |-> [type |-> type, raw |-> o]]
  ELSE [heap |-> h, value |-> [type |-> type, raw |-> datum]]

\* What a statement makes its new JVar from.
Source(places) == [how : { "copy", "move" }, from : places]
               \cup [how : { "new" }, type : { "null", "array", "hash" }, datum : { NoDatum }]
               \cup [how : { "new" }, type : Simple \cup { "string" }, datum : Datum]

Made(h, src) ==
  CASE src.how = "copy" -> DeepCopy(h, At(h, Slot(h, src.from)))
    [] src.how = "move" -> Move(h, Slot(h, src.from))
    [] src.how = "new"  -> Fresh(h, src.type, src.datum)

\* Bound of the model: the objects a source takes.
Needs(h, src) ==
  CASE src.how = "copy" -> Cardinality(Reach(h, At(h, Slot(h, src.from))))
    [] src.how = "move" -> 0
    [] src.how = "new"  -> IF src.type \in Owning THEN 1 ELSE 0

\* Bug for a mutant: a hash is not deleted.
DestroysNoHash(h, v) ==
  [ o \in DOMAIN h \ (IF v.type = "hash" THEN {} ELSE Reach(h, v)) |-> h[o] ]

\* ~JVar(), and those of the elements.
Destroyed(h, v) == [ o \in DOMAIN h \ Reach(h, v) |-> h[o] ]

-----------------------------------------------------------------------------
(* Members that change a JVar.                                             *)

\* Swap(): of *this in s with the JVar in t.
Swapped(h, s, t) == Put(Put(h, s, At(h, t)), t, At(h, s))

\* operator=: the new JVar is swapped with *this in s and takes what it held with it.
Assigned(made, s) == Destroyed(Put(made.heap, s, made.value), At(made.heap, s))

\* Bug for a mutant: null becomes a hash, whatever is added.
AlwaysHash(h, s, type) == IF At(h, s).type = "null" THEN Assigned(Fresh(h, "hash", NoDatum), s) ELSE h

\* Add(): null becomes an array, or a hash.
Composed(h, s, type) == IF At(h, s).type = "null" THEN Assigned(Fresh(h, type, NoDatum), s) ELSE h

\* emplace_back on the array o.
Appended(made, o) == [made.heap EXCEPT ![o].slots = Append(@, made.value)]

\* Bug for a mutant: the new value takes the place of the old.
Replaced(before, made, s) == { Assigned(made, s) }

\* emplace on a hash for the key of s, which it has: the new value is made and destroyed, or,
\* as the standard library may, not made at all.
Kept(before, made, s) == { Destroyed(made.heap, made.value), before }

-----------------------------------------------------------------------------
(* Statements.                                                             *)

Does(op, at, src) == did' = [op |-> op, at |-> at, src |-> src, result |-> "done"]
NoSource == [how |-> "none"]

Ties(knot) == knotted' = (knotted \/ knot)

\* A variable begins with JVar(...).
Construct(v, src) ==
  /\ v \notin DOMAIN heap[Frame].slots
  /\ Needs(heap, src) <= Cardinality(Unused(heap))
  /\ LET made == Made(heap, src) IN heap' = Put(made.heap, << Frame, v >>, made.value)
  /\ Does("JVar", << v >>, src)
  /\ UNCHANGED knotted

\* Its scope ends.
Destruct(v) ==
  /\ v \in DOMAIN heap[Frame].slots
  /\ LET left == [heap EXCEPT ![Frame].slots = [ x \in DOMAIN @ \ { v } |-> @[x] ]]
     IN heap' = Destroyed(left, heap[Frame].slots[v])
  /\ Does("~JVar", << v >>, NoSource)
  /\ UNCHANGED knotted

Assign(p, src) ==
  /\ Needs(heap, src) <= Cardinality(Unused(heap))
  /\ heap' = Assigned(Made(heap, src), Slot(heap, p))
  /\ Does("=", p, src)
  /\ Ties(src.how = "move" /\ IsStrictPrefix(src.from, p))

Swap(p, q) ==
  /\ heap' = Swapped(heap, Slot(heap, p), Slot(heap, q))
  /\ Does("Swap", p, [how |-> "swap", from |-> q])
  /\ Ties(IsStrictPrefix(p, q) \/ IsStrictPrefix(q, p))

\* The heap on which Add() makes its element.
Ready(h, p, type) == Composed(h, Slot(h, p), type)
CanAdd(p, src, type) ==
  /\ At(heap, Slot(heap, p)).type = "null" => Unused(heap) # {}
  /\ Needs(Ready(heap, p, type), src) <= Cardinality(Unused(Ready(heap, p, type)))

Add(p, src) ==
  /\ At(heap, Slot(heap, p)).type \in { "null", "array" }
  /\ CanAdd(p, src, "array")
  /\ LET h == Ready(heap, p, "array") IN
     /\ Len(h[ObjectAt(h, p)].slots) < MaxSlots
     /\ heap' = Appended(Made(h, src), ObjectAt(h, p))
  /\ Does("Add", p, src)
  /\ Ties(src.how = "move" /\ IsPrefix(src.from, p))

\* A hash that goes, with what is around it, under a key it has is destroyed in its own
\* emplace.
AddKey(p, k, src) ==
  /\ At(heap, Slot(heap, p)).type \in { "null", "hash" }
  /\ CanAdd(p, src, "hash")
  /\ LET h == Ready(heap, p, "hash")
         o == ObjectAt(h, p)
         made == Made(h, src)
         itself == src.how = "move" /\ IsPrefix(src.from, p)
     IN /\ \/ k \notin DOMAIN h[o].slots /\ heap' = Put(made.heap, << o, k >>, made.value)
           \/ k \in DOMAIN h[o].slots /\ heap' \in Kept(h, made, << o, k >>)
        /\ IF itself /\ k \in DOMAIN h[o].slots
           THEN did' = [op |-> "AddKey", at |-> Append(p, k), src |-> src, result |-> "undefined"]
           ELSE Does("AddKey", Append(p, k), src)
        /\ Ties(itself)

\* operator[](key), which makes a null for a new key.
Index(p, k) ==
  /\ At(heap, Slot(heap, p)).type = "hash"
  /\ LET o == ObjectAt(heap, p) IN
     heap' = IF k \in DOMAIN heap[o].slots THEN heap ELSE Put(heap, << o, k >>, Null)
  /\ Does("[]", Append(p, k), NoSource)
  /\ UNCHANGED knotted

\* As<T>() of another type throws -1, before anything has been made from the source.
Throws(p) ==
  /\ \E op \in { "Add", "AddKey", "[]" } :
       /\ At(heap, Slot(heap, p)).type \notin (CASE op = "Add" -> { "null", "array" }
                                                [] op = "AddKey" -> { "null", "hash" }
                                                [] op = "[]" -> { "hash" })
       /\ did' = [op |-> op, at |-> p, src |-> NoSource, result |-> "thrown"]
  /\ UNCHANGED <<heap, knotted>>

\* Clear(): the elements of an array or a hash; anything else stays.
Clear(p) ==
  /\ LET v == At(heap, Slot(heap, p)) IN
     heap' = IF v.type \notin { "array", "hash" } THEN heap
             ELSE [ o \in DOMAIN heap \ (Reach(heap, v) \ { v.raw }) |->
                      IF o = v.raw THEN Contents(v.type, NoDatum) ELSE heap[o] ]
  /\ Does("Clear", p, NoSource)
  /\ UNCHANGED knotted

\* A write through Str() or As<T>().
Write(p, d) ==
  LET s == Slot(heap, p)
      v == At(heap, s)
  IN /\ heap' = IF v.type = "string" THEN [heap EXCEPT ![v.raw].datum = d]
                ELSE Put(heap, s, [v EXCEPT !.raw = d])
     /\ v.type \in Simple \cup { "string" }
     /\ Does("As", p, [how |-> "new", type |-> v.type, datum |-> d])
     /\ UNCHANGED knotted

\* JVar(const std::vector<T>&): neither m_type nor m_raw is set.
ConstructFromVector(v) ==
  /\ v \notin DOMAIN heap[Frame].slots
  /\ \E type \in Type : heap' = Put(heap, << Frame, v >>, [type |-> type, raw |-> Wild])
  /\ did' = [op |-> "JVar(vector)", at |-> << v >>, src |-> NoSource, result |-> "undefined"]
  /\ UNCHANGED knotted

Init == /\ heap = [ o \in { Frame } |-> Contents("frame", NoDatum) ]
        /\ did = [op |-> "none", at |-> << >>, src |-> NoSource, result |-> "done"]
        /\ knotted = FALSE

Next ==
  LET places == Places(heap)
      sources == Source(places)
  IN /\ did.result # "undefined"
     /\ \/ \E v \in Var, src \in sources : Construct(v, src)
        \/ \E v \in Var : Destruct(v) \/ ConstructFromVector(v)
        \/ \E p \in places, src \in sources : Assign(p, src) \/ Add(p, src)
        \/ \E p \in places, k \in Name, src \in sources : AddKey(p, k, src)
        \/ \E p, q \in places : Swap(p, q)
        \/ \E p \in places, k \in Name : Index(p, k)
        \/ \E p \in places : Clear(p) \/ Throws(p)
        \/ \E p \in places, d \in Datum : Write(p, d)

Spec == Init /\ [][Next]_vars

-----------------------------------------------------------------------------
(* Properties.                                                             *)

Defined == did.result # "undefined"

\* Every tag goes with contents of its kind, those of the union and those on the heap: an
\* array has its elements in a row, a hash under keys.
TypeOK ==
  Defined => \A o \in DOMAIN heap :
    /\ o \in Object \cup { Frame }
    /\ heap[o].type \in { "frame" } \cup Owning
    /\ heap[o].datum \in (IF heap[o].type = "string" THEN Datum ELSE { NoDatum })
    /\ DOMAIN heap[o].slots = CASE heap[o].type = "array" -> 1 .. Len(heap[o].slots)
                                 [] heap[o].type = "hash" -> DOMAIN heap[o].slots \cap Name
                                 [] heap[o].type = "string" -> {}
                                 [] OTHER -> DOMAIN heap[o].slots \cap Var
    /\ \A i \in DOMAIN heap[o].slots :
         LET v == heap[o].slots[i] IN
         /\ v.type \in Type
         /\ v.type \in Simple => v.raw \in Datum
         /\ v = Null \/ v.type # "null"

\* No object is deleted twice, used after it was deleted, or as something it is not:
\* each is owned by exactly one JVar, whose tag says what it is, and each owner's object
\* exists; even for callers who move a value into itself.
Owner(o) == { s \in UNION { { x } \X DOMAIN heap[x].slots : x \in DOMAIN heap } :
                o \in Owned(At(heap, s)) }
OneOwner ==
  Defined =>
    /\ \A o \in DOMAIN heap \ { Frame } : Cardinality(Owner(o)) = 1
    /\ \A x \in DOMAIN heap : \A i \in DOMAIN heap[x].slots :
         LET v == heap[x].slots[i] IN
         v.type \in Owning => v.raw \in DOMAIN heap /\ heap[v.raw].type = v.type

\* Every object can be reached from a variable, and so will be deleted, unless a JVar
\* was moved or swapped into itself.
NoLeak ==
  Defined /\ ~ knotted =>
    DOMAIN heap = { Frame } \cup UNION { Reach(heap, heap[Frame].slots[v]) :
                                       v \in DOMAIN heap[Frame].slots }

\* What a JVar holds at each path below the frame.
Held(h, v) == [type |-> v.type, datum |-> IF v.type \in Owning THEN h[v.raw].datum ELSE v.raw]
TreeOf(h) ==
  [ p \in { << >> } \cup Paths(h, Cardinality(DOMAIN h)) |->
      IF p = << >> THEN [type |-> "frame", datum |-> NoDatum] ELSE Held(h, At(h, Slot(h, p))) ]

\* A JVar is a value: no statement is seen through a JVar it does not name.
Values == INSTANCE ValueTrees WITH store <- IF Defined THEN TreeOf(heap) ELSE << >>
ValuesPromised == Values!Spec
=============================================================================
