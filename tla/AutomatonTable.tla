--------------------------- MODULE AutomatonTable ---------------------------
(***************************************************************************)
(* The transition table of src/src/Automaton.cc: character classes, states,*)
(* actions, and which cell of the table holds which of them.               *)
(*                                                                         *)
(* A character is represented by its class (DeduceType).  Every character  *)
(* the code tells apart (", \, /, b, f, n, r, t, u in an escape) is alone  *)
(* in its class, so nothing the automaton does is lost.                    *)
(***************************************************************************)

\* chars::Type.  "bad" is a control character: its column of the table is empty.
Class ==
  { "space", "white", "lcurb", "rcurb", "lsqrb", "rsqrb", "colon", "comma",
    "quote", "backs", "slash", "plus", "minus", "period", "zero", "digit",
    "a", "b", "c", "d", "e", "f", "l", "n", "r", "s", "t", "u",
    "abcdf", "upperE", "etc", "bad" }

Blank  == { "space", "white" }
Digit  == { "zero", "digit" }
Hex    == Digit \cup { "a", "b", "c", "d", "e", "f", "abcdf", "upperE" }

\* state::Code, grouped by what the automaton is reading.
Number   == { "mi_", "ze0", "inT", "frt", "ex1", "ex2", "ex3" }  \* IsNumber
Escape   == { "esp", "u1", "u2", "u3", "u4" }
Literal  == { "str" } \cup Escape \cup Number    \* a token is being collected
Word     == { "tr1", "tr2", "tr3", "fe1", "fe2", "fe3", "fe4", "n01", "n02", "n03" }
Between  == { "go", "ok", "obj", "key", "col", "val", "arr" }
State    == Between \cup Literal \cup Word

\* The number states in which the number may end here.
Ripe == { "ze0", "inT", "frt", "ex3" }

\* Edge(s, c, a): the cell of state s and class c holds action a.
Edge(s, c, a) ==
  \/ a = "soj" /\ c = "lcurb" /\ s \in { "go", "val", "arr" }
  \/ a = "sar" /\ c = "lsqrb" /\ s \in { "go", "val", "arr" }
  \/ a = "eoj" /\ c = "rcurb" /\ s = "ok"
  \/ a = "noj" /\ c = "rcurb" /\ s = "obj"
  \/ a = "ear" /\ c = "rsqrb" /\ s \in { "ok", "arr" }
  \/ a = "nxt" /\ c = "comma" /\ s = "ok"
  \/ a = "ktv" /\ c = "colon" /\ s = "col"
  \/ a = "sos" /\ c = "quote" /\ s \in { "obj", "key", "val", "arr" }
  \/ a = "eos" /\ c = "quote" /\ s = "str"
  \/ a = "sep" /\ c = "backs" /\ s = "str"
  \/ a = "eep" /\ c \in { "quote", "backs", "slash", "b", "f", "n", "r", "t" } /\ s = "esp"
  \/ a = "eep" /\ c \in Hex /\ s = "u4"
  \/ a = "eon" /\ c \in Blank /\ s \in Ripe
  \/ a = "enj" /\ c = "rcurb" /\ s \in Ripe
  \/ a = "ena" /\ c = "rsqrb" /\ s \in Ripe
  \/ a = "enx" /\ c = "comma" /\ s \in Ripe
  \/ a = "tru" /\ c = "e" /\ s = "tr3"
  \/ a = "fls" /\ c = "e" /\ s = "fe4"
  \/ a = "nul" /\ c = "l" /\ s = "n03"

\* Move(s, c, d): the cell holds the plain state d.  The code turns the moves
\* that enter Number from outside into the action son (lines 582-586).
Move(s, c, d) ==
  \/ c \in Blank /\ s \in Between /\ d = s
  \/ s = "str" /\ d = "str" /\ c \in Class \ { "white", "quote", "backs", "bad" }
  \/ s = "esp" /\ c = "u" /\ d = "u1"
  \/ c \in Hex /\ <<s, d>> \in { <<"u1", "u2">>, <<"u2", "u3">>, <<"u3", "u4">> }
  \/ s \in { "val", "arr" } /\ <<c, d>> \in { <<"minus", "mi_">>, <<"zero", "ze0">>,
       <<"digit", "inT">>, <<"t", "tr1">>, <<"f", "fe1">>, <<"n", "n01">> }
  \/ s = "mi_" /\ <<c, d>> \in { <<"zero", "ze0">>, <<"digit", "inT">> }
  \/ c \in Digit /\ <<s, d>> \in { <<"inT", "inT">>, <<"frt", "frt">>, <<"ex1", "ex3">>,
       <<"ex2", "ex3">>, <<"ex3", "ex3">> }
  \/ c = "period" /\ s \in { "ze0", "inT" } /\ d = "frt"
  \/ c \in { "e", "upperE" } /\ s \in { "inT", "frt" } /\ d = "ex1"
  \/ c \in { "plus", "minus" } /\ s = "ex1" /\ d = "ex2"
  \/ <<s, c, d>> \in { <<"tr1", "r", "tr2">>, <<"tr2", "u", "tr3">>,
       <<"fe1", "a", "fe2">>, <<"fe2", "l", "fe3">>, <<"fe3", "s", "fe4">>,
       <<"n01", "u", "n02">>, <<"n02", "l", "n03">> }

Action == { "soj", "eoj", "noj", "sar", "ear", "ktv", "nxt", "sos", "eos", "sep",
            "eep", "eon", "enj", "ena", "enx", "nul", "tru", "fls" }

\* The table as the code indexes it: the actions, and the plain states, of a cell.
\* A cell holds one or the other, or neither: then it is empty ("_____"), as all of
\* the column of bad characters is.
ActionAt == [ s \in State |-> [ c \in Class |-> { a \in Action : Edge(s, c, a) } ] ]
StateAt  == [ s \in State |-> [ c \in Class |-> { d \in State : Move(s, c, d) } ] ]

\* Edge::Dest: the state an action leads to, given the mode the handler left
\* on top of the stack.
Dest(a, mode) ==
  CASE a = "soj" -> "obj"
    [] a = "sar" -> "arr"
    [] a = "ktv" -> "val"
    [] a \in { "nxt", "enx" } -> IF mode = "object" THEN "key" ELSE "arr"
    [] a \in { "sos", "eep" } -> "str"
    [] a = "sep" -> "esp"
    [] a = "eos" -> IF mode = "key" THEN "col" ELSE "ok"
    [] a \in { "eoj", "noj", "ear", "enj", "ena", "eon", "nul", "tru", "fls" } -> "ok"
=============================================================================
