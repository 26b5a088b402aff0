----------------------------- MODULE MCAutomaton -----------------------------
(***************************************************************************)
(* Instances of Automaton for TLC: the alphabets of the runs, and the      *)
(* claims of the repository's texts that the runs find violated.           *)
(***************************************************************************)
EXTENDS Automaton

\* Every class: all of the table but the inside of long literals.
Everything == Class

\* Literals: plain characters, escapes and \uXXXX in strings and keys, and numbers with
\* fractions, in objects and arrays.
LiteralChars == { "lcurb", "rcurb", "lsqrb", "colon", "quote", "backs", "u", "b",
                  "digit", "period" }

\* Whole documents without long literals, for the claims below.
DocumentChars == { "lcurb", "rcurb", "lsqrb", "rsqrb", "colon", "comma", "quote", "digit" }

-----------------------------------------------------------------------------
(* Claims the code does not keep.  Each is checked by a run that TLC must  *)
(* find violated.                                                          *)

StartsValue(e) == \/ e.ev = "start" /\ e.type # "key"
                  \/ e.ev = "data" /\ e.type \in { "boolean_true", "boolean_false", "null_value" }

\* Inside an object a value comes only after its key: a comma leads back to a key
\* (JSON_checker.c:444, "A comma causes a flip from object mode to key mode", and
\* the branch of Automaton.cc:485 for objects).  OnNextValue flips the mode before
\* Dest asks for it, so the branch for objects is never taken.
ValueOnlyAfterKey ==
  [][(Containers # << >> /\ Last(Containers) = "object" /\ out' # << >> /\ StartsValue(out'[1]))
       => Owed]_vars
=============================================================================
