----------------------------- MODULE ValueTrees -----------------------------
(***************************************************************************)
(* What JVar promises: a variable holds a tree of values of its own.  There*)
(* is no heap here; a copy is equal and independent, a moved value leaves  *)
(* null behind, and a statement changes the JVars it names and no others.  *)
(*                                                                         *)
(* A tree has a tag and a datum at each of its paths, the root at << >>.   *)
(***************************************************************************)
EXTENDS Integers, Sequences, SequencesExt, FiniteSets

VARIABLES store,   \* the tree whose branches are the variables
          did      \* the last statement: what it does to which path, from what source

vars == <<store, did>>

Leaf(type, datum) == [ p \in { << >> } |-> [type |-> type, datum |-> datum] ]
Null == Leaf("null", "none")

Below(t, p) == { q \in DOMAIN t : IsPrefix(p, q) }
Behind(q, p) == SubSeq(q, Len(p) + 1, Len(q))

\* The branch of t at p.
Get(t, p) == [ s \in { Behind(q, p) : q \in Below(t, p) } |-> t[p \o s] ]

\* t without the branch at p, and with v there, in place of the old branch if there is one.
Without(t, p) == [ q \in DOMAIN t \ Below(t, p) |-> t[q] ]
Set(t, p, v) == [ q \in (DOMAIN t \ Below(t, p)) \cup { p \o s : s \in DOMAIN v } |->
                    IF IsPrefix(p, q) THEN v[Behind(q, p)] ELSE t[q] ]

Elements(t, p) == Cardinality({ q \in Below(t, p) : Len(q) = Len(p) + 1 })

\* The value of a source, and what it leaves of t.
Value(t, src) == IF src.how = "new" THEN Leaf(src.type, src.datum) ELSE Get(t, src.from)
Rest(t, src) == IF src.how = "move" THEN Set(t, src.from, Null) ELSE t

\* t with the source's value at p.  A value that is moved into itself is lost.
Moved(t, p, src) ==
  IF src.how = "move" /\ IsStrictPrefix(src.from, p) THEN Rest(t, src)
  ELSE Set(Rest(t, src), p, Value(t, src))

Exchanged(t, p, q) ==
  IF IsStrictPrefix(p, q) THEN Set(t, p, Get(t, q))
  ELSE IF IsStrictPrefix(q, p) THEN Set(t, q, Get(t, p))
  ELSE Set(Set(t, p, Get(t, q)), q, Get(t, p))

\* A null that something is added to becomes what can hold it.
Holder(p, type) == IF store[p].type = "null" THEN Set(store, p, Leaf(type, "none")) ELSE store

Effect ==
  CASE did'.op \in { "JVar", "=" } -> { Moved(store, did'.at, did'.src) }
    [] did'.op = "~JVar" -> { Without(store, did'.at) }
    [] did'.op = "Swap" -> { Exchanged(store, did'.at, did'.src.from) }
    [] did'.op = "Add" ->
         LET t == Holder(did'.at, "array") IN
         { Moved(t, Append(did'.at, Elements(t, did'.at) + 1), did'.src) }
    [] did'.op = "AddKey" ->
         LET t == Holder(Front(did'.at), "hash") IN
         IF did'.at \in DOMAIN t THEN { t, Rest(t, did'.src) } ELSE { Moved(t, did'.at, did'.src) }
    [] did'.op = "[]" -> { IF did'.at \in DOMAIN store THEN store ELSE Set(store, did'.at, Null) }
    [] did'.op = "Clear" ->
         { IF store[did'.at].type \in { "array", "hash" }
           THEN Set(store, did'.at, Leaf(store[did'.at].type, "none")) ELSE store }
    [] did'.op = "As" -> { Set(store, did'.at, Leaf(did'.src.type, did'.src.datum)) }

-----------------------------------------------------------------------------
Init == store = Leaf("frame", "none") /\ did.op = "none"

Next == \/ did'.result = "done" /\ store' \in Effect
        \/ did'.result = "thrown" /\ UNCHANGED store
        \/ did'.result = "undefined"

Spec == Init /\ [][Next]_vars
=============================================================================
