-------------------------- MODULE JsonCheckerTable --------------------------
(***************************************************************************)
(* The state_transition_table of src/src/JSON_checker.c, told from the C++ *)
(* table it is the ancestor of: one cell holds one number, a state or an   *)
(* action.                                                                 *)
(***************************************************************************)
EXTENDS AutomatonTable

\* What the C table holds where the C++ table has the action a: a state around an
\* escape and where a constant or a number ends, and one action for a closing bracket or a
\* comma, whether it also ends a number or not.
Coded(a) == CASE a \in { "eon", "nul", "tru", "fls" } -> "ok"
              [] a = "sep" -> "esp" [] a = "eep" -> "str"
              [] a = "enj" -> "eoj" [] a = "ena" -> "ear" [] a = "enx" -> "nxt"
              [] OTHER -> a

\* An empty cell holds __, which is -1: the action that starts a string.
CellOf(s, c) == IF StateAt[s][c] # {} THEN CHOOSE d \in StateAt[s][c] : TRUE
                ELSE IF ActionAt[s][c] # {} THEN Coded(CHOOSE a \in ActionAt[s][c] : TRUE)
                ELSE "sos"
Table == [ s \in State |-> [ c \in Class |-> CellOf(s, c) ] ]
EmptyCell(s, c) == StateAt[s][c] = {} /\ ActionAt[s][c] = {}
=============================================================================
