---------------------------- MODULE MCJsonChecker ----------------------------
(***************************************************************************)
(* Instances of JsonChecker for TLC, and the claims of the repository's    *)
(* texts that the runs find violated.                                      *)
(***************************************************************************)
EXTENDS JsonChecker

\* Every class but some whose cells others have too (the second blank, hexadecimal digits,
\* escapes like n) and the letters only "false" needs.
TextChars == Class \ { "white", "a", "b", "c", "d", "f", "s", "upperE" }

\* Structure, with short literals.
StructureChars == { "lcurb", "rcurb", "lsqrb", "rsqrb", "colon", "comma", "quote", "digit" }

-----------------------------------------------------------------------------
(* Claims the code does not keep.  Each is checked by a run that TLC must  *)
(* find violated.                                                          *)

\* A character the table has no cell for is an error: __ is "the universal error
\* code" (JSON_checker.c:37).  It is also -1, which starts a string (:469).
EmptyCellRejects == misled => call = "rejected"

\* "The data does not need to be a complete JSON file. It can be a fragment"
\* (JSON_checker.h:92-93): where the text is cut makes no difference to what a literal
\* delivers.  Right before the end of the literal it does.
CutsMakeNoDifference ==
  [][DeliversText /\ ~ misled' /\ lit # << >> /\ Len(lit) < TokenSize => out'[1].text = lit]_vars
=============================================================================
