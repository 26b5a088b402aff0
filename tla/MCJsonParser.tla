---------------------------- MODULE MCJsonParser ----------------------------
(***************************************************************************)
(* An instance of JsonParser for TLC: a structure with every kind of       *)
(* builder inside another, and members that have the same key at two       *)
(* levels.                                                                 *)
(*                                                                         *)
(*   struct Item { string a; int n; }           keys "a" or 0, and "1"     *)
(*   struct Host { Item a; vector<Item> n; }    keys "a", and "1"          *)
(***************************************************************************)
EXTENDS JsonParser, TLC

TheKind == [ Host |-> "object", Item |-> "object", Items |-> "vector",
             Text |-> "string", Count |-> "integer" ]
TheBuilders == DOMAIN TheKind
a == NamedKey(<< "a" >>)
one == NamedKey(<< "digit" >>)
TheMembers == [ Host |-> a :> "Item" @@ one :> "Items",
                Item |-> a :> "Text" @@ one :> "Count" @@ IndexKey(0) :> "Text" ]
TheVisitor == [ Items |-> "Item" ]

DocumentChars == { "lcurb", "rcurb", "lsqrb", "rsqrb", "colon", "comma", "quote",
                   "digit", "a" }

-----------------------------------------------------------------------------
(* Claims the code does not keep.  Each is checked by a run that TLC must  *)
(* find violated.                                                          *)

\* assert(!m_stack.empty()) at the end of a container (JsonParser.cc:95): the checker
\* delivers an end only for a container that has started.
EndsHaveStarts == parser = "aborted" => misled \/ m_stack # << >> \/ call = "aborted"
=============================================================================
