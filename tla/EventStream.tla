----------------------------- MODULE EventStream -----------------------------
(***************************************************************************)
(* What the C++ parser promises its callback: the shape of the stream of   *)
(* events, in whatever pieces the text arrives.                            *)
(*                                                                         *)
(*   - starts and ends nest like brackets, and an end names the innermost  *)
(*     open container;                                                     *)
(*   - the data of a key, string or number comes between its start and its *)
(*     end, and nothing else does;                                         *)
(*   - a key occurs directly inside an object, and the next thing after it *)
(*     is exactly one value: no other key, and no end of the object.       *)
(*                                                                         *)
(* out is what the last step delivered, in order.                          *)
(***************************************************************************)
EXTENDS Sequences, SequencesExt

CONSTANTS Piece,       \* the texts a data event may carry
          NoLiteral    \* "no literal is open"

VARIABLES nest,        \* the open containers, innermost last
          literal,     \* the type of the open literal, or NoLiteral
          owed,        \* a key has been delivered and its value has not begun
          out

vars == <<nest, literal, owed, out>>

Container == { "array", "object" }
Constant == { "boolean_true", "boolean_false", "null_value" }

Ev(e, t) == [ev |-> e, type |-> t, text |-> <<>>]
IsData(e, t) == e.ev = "data" /\ e.type = t /\ e.text \in Piece

Init == nest = <<>> /\ literal = NoLiteral /\ owed = FALSE /\ out = <<>>

\* Nothing is delivered: white space, commas, the inside of a literal.
Quiet == out' = <<>> /\ UNCHANGED <<nest, literal, owed>>

Open(t) == /\ literal = NoLiteral
           /\ nest' = Append(nest, t)
           /\ owed' = FALSE
           /\ out' = <<Ev("start", t)>>
           /\ UNCHANGED literal

Close(t) == /\ literal = NoLiteral
            /\ ~ owed
            /\ nest # <<>> /\ Last(nest) = t
            /\ nest' = Front(nest)
            /\ out' = <<Ev("end", t)>>
            /\ UNCHANGED <<literal, owed>>

\* A key, or a value that is a string or a number.
StartLiteral(t) ==
  /\ literal = NoLiteral
  /\ t = "key" => nest # <<>> /\ Last(nest) = "object" /\ ~ owed
  /\ literal' = t
  /\ owed' = FALSE
  /\ out' = <<Ev("start", t)>>
  /\ UNCHANGED nest

Part == /\ literal # NoLiteral
        /\ Len(out') = 1 /\ IsData(out'[1], literal)
        /\ UNCHANGED <<nest, literal, owed>>

\* The literal ends, with or without a last piece of text.
EndLiteral == /\ literal # NoLiteral
              /\ \/ out' = <<Ev("end", literal)>>
                 \/ /\ Len(out') = 2 /\ IsData(out'[1], literal)
                    /\ out'[2] = Ev("end", literal)
              /\ literal' = NoLiteral
              /\ owed' = (literal = "key")
              /\ UNCHANGED nest

\* A number has no closing character of its own: the bracket that follows it
\* ends it and the container, in one step.
EndNumberAndContainer(t) ==
  /\ literal = "number"
  /\ nest # <<>> /\ Last(nest) = t
  /\ Len(out') = 3 /\ IsData(out'[1], "number")
  /\ out'[2] = Ev("end", "number") /\ out'[3] = Ev("end", t)
  /\ literal' = NoLiteral
  /\ nest' = Front(nest)
  /\ UNCHANGED owed

Value(t) == /\ literal = NoLiteral
            /\ out' = <<Ev("data", t)>>
            /\ owed' = FALSE
            /\ UNCHANGED <<nest, literal>>

Next == \/ Quiet \/ Part \/ EndLiteral
        \/ \E t \in Container : Open(t) \/ Close(t) \/ EndNumberAndContainer(t)
        \/ \E t \in { "key", "string", "number" } : StartLiteral(t)
        \/ \E t \in Constant : Value(t)

Spec == Init /\ [][Next]_vars
=============================================================================
