------------------------------ MODULE ObjectMap ------------------------------
(***************************************************************************)
(* What JsonParser and its builders promise: each value of a document      *)
(* reaches the member that its keys name, from the root down, and no other.*)
(*                                                                         *)
(* Cursors, addresses of objects under construction and the checker are    *)
(* unknown here: a value's place is given by the keys of the containers    *)
(* around it and its own, which the events alone determine.                *)
(*                                                                         *)
(* A value of another kind than its member (a scalar for an object, an     *)
(* object for a scalar) may go astray, but stays inside that member.       *)
(***************************************************************************)
EXTENDS Builders

VARIABLES path,   \* the keys of the open containers; the root's is any
          next,   \* the key of the next value, or NoKey
          out,    \* the events of the last step
          wrote   \* the members assigned in the last step

vars == <<path, next, out, wrote>>

Start == { "JSON_object_start", "JSON_array_start" }
End == { "JSON_object_end", "JSON_array_end" }
Scalar == { "JSON_string", "JSON_number", "JSON_null", "JSON_true", "JSON_false" }

\* The builder of the member named by the keys p, or Mock.
Below(b, k) == IF b = Mock THEN Mock
               ELSE IF Kind[b] = "vector" THEN Visitor[b]
               ELSE IF Kind[b] = "object" THEN MemberOf(b, k)
               ELSE Mock
NamedBy(p) ==
  LET At[i \in 1 .. Len(p)] == IF i = 1 THEN Root ELSE Below(At[i - 1], p[i])
  IN At[Len(p)]

\* The address a is a way along the keys p: an element of a vector may have any number.
Names(p, a) ==
  /\ Len(a) = Len(p)
  /\ \A i \in 2 .. Len(p) :
       IF Kind[NamedBy(SubSeq(p, 1, i - 1))] = "vector" THEN a[i].type = "element"
       ELSE a[i] = p[i]

\* What the value with the keys p may assign.
Promised(p, e) ==
  LET b == NamedBy(p) IN
  IF b = Mock
  THEN \A i \in DOMAIN wrote' : /\ NamedBy(Front(p)) # Mock /\ Kind[NamedBy(Front(p))] \in SimpleKind
                                /\ Names(Front(p), wrote'[i].at)
  ELSE IF Kind[b] \in SimpleKind
  THEN /\ Len(wrote') = 1
       /\ Names(p, wrote'[1].at)
       /\ wrote'[1].value = Cast(Kind[b], e.text, e.text \in { << >>, << "garbage" >> })
  ELSE \A i \in DOMAIN wrote' : Names(p, SubSeq(wrote'[i].at, 1, Len(p)))

-----------------------------------------------------------------------------
Init == path = << >> /\ next = NoKey /\ out = << >> /\ wrote = << >>

Quiet == out' = << >> /\ wrote' = << >> /\ UNCHANGED <<path, next>>

Key(e) == /\ e.type = "JSON_object_key"
          /\ path # << >> /\ next = NoKey
          /\ next' = NamedKey(e.text)
          /\ wrote' = << >> /\ UNCHANGED path

Open(e) == /\ e.type \in Start
           /\ \/ path = << >> /\ Len(path') = 1
              \/ path # << >> /\ next # NoKey /\ path' = Append(path, next)
           /\ next' = IF e.type = "JSON_array_start" THEN IndexKey(0) ELSE NoKey
           /\ wrote' = << >>

Close == /\ path # << >>
         /\ path' = Front(path)
         /\ next' = IF path' = << >> THEN NoKey ELSE Finished(Last(path))

\* A value without a key, which only a broken text has, reaches nobody.
Value(e) == /\ e.type \in Scalar
            /\ path # << >>
            /\ IF next = NoKey THEN wrote' = << >> ELSE Promised(Append(path, next), e)

Next == \/ Quiet
        \/ /\ Len(out') = 1
           /\ LET e == out'[1] IN
              \/ Key(e) \/ Open(e)
              \/ e.type \in End /\ Close /\ wrote' = << >>
              \/ Value(e) /\ next' = Finished(next) /\ UNCHANGED path
        \/ /\ Len(out') = 2    \* a bracket ends a number and its container
           /\ out'[2].type \in End /\ Value(out'[1]) /\ Close

Spec == Init /\ [][Next]_vars
=============================================================================
