-------------------------- MODULE AutomatonTableProofs --------------------------
(***************************************************************************)
(* Facts about the transition table, read off its rows once: which actions *)
(* and which moves lie in which part of it, and what the C checker's table *)
(* makes of them.  And facts about the stack of modes, which follows it.   *)
(***************************************************************************)
EXTENDS JsonCheckerTable, DataLemmas

\* What a cell holds is what the row of its state says.
LEMMA CellHoldsAction ==
  ASSUME NEW s \in State, NEW c \in Class, NEW a \in ActionAt[s][c]
  PROVE  a \in Action /\ Edge(s, c, a)
BY DEF ActionAt

\* A cell of the table with a state holds that of a move.
LEMMA CellHoldsState ==
  ASSUME NEW s \in State, NEW c \in Class, NEW d \in StateAt[s][c]
  PROVE  d \in State /\ Move(s, c, d)
BY DEF StateAt

\* Every action leads to a state.
LEMMA DestIsState ==
  ASSUME NEW a \in Action, NEW m
  PROVE  Dest(a, m) \in State
BY DEF Action, Dest, State, Between, Literal, Escape, Number, Word

\* A cell holds one thing.
LEMMA CellsAreSingle ==
  ASSUME NEW s \in State, NEW c \in Class
  PROVE  /\ \A a \in ActionAt[s][c] : StateAt[s][c] = {}
         /\ \A d, e \in StateAt[s][c] : d = e
<1>1. \A a \in Action, d \in State : ~ (Edge(s, c, a) /\ Move(s, c, d))
  BY DEF Edge, Move, Blank, Between, Digit, Hex, Ripe, Class
<1>2. \A d, e \in State : Move(s, c, d) /\ Move(s, c, e) => d = e
  BY DEF Move, Blank, Between, Digit, Hex, Class
<1> QED
  BY <1>1, <1>2, CellHoldsAction, CellHoldsState DEF StateAt

\* And no two actions.
LEMMA OneAction ==
  ASSUME NEW s \in State, NEW c \in Class, NEW a \in ActionAt[s][c], NEW b \in ActionAt[s][c]
  PROVE  a = b
<1>1. a \in Action /\ Edge(s, c, a) /\ Edge(s, c, b)
  BY CellHoldsAction
<1> QED
  BY <1>1 DEF Edge, Blank, Hex, Digit, Ripe, Action

\* Which actions belong to literals, and how the plain moves run.
LEMMA EdgeRegions ==
  ASSUME NEW s, NEW c, NEW a, Edge(s, c, a)
  PROVE  /\ a \in { "eos", "sep" } => s = "str"
         /\ a = "eep" => s \in { "esp", "u4" }
         /\ a \in { "eon", "enj", "ena", "enx" } => s \in Number
         /\ a \in { "soj", "sar", "eoj", "noj", "ear", "ktv", "nxt", "sos", "nul", "tru", "fls" }
              => s \notin Literal
BY DEF Edge, Number, Ripe, Literal, Escape

\* A move stays among the strings, the numbers and the escapes it starts from.
LEMMA MoveRegions ==
  ASSUME NEW s \in State, NEW c, NEW d, Move(s, c, d)
  PROVE  /\ s = "str" <=> d = "str"
         /\ s \in Number => d \in Number
         /\ s \in Escape <=> d \in Escape
         /\ s \in Escape => s # "u4" /\ (s = "esp" => c = "u")
BY DEF Move, Number, Escape, Blank, Between, State, Literal, Word, Hex, Digit

\* Where each action is found, for the modes.
LEMMA EdgeModes ==
  ASSUME NEW s, NEW c, NEW a, Edge(s, c, a)
  PROVE  /\ a \in { "soj", "sar" } => s \in { "go", "val", "arr" }
         /\ a \in { "eoj", "nxt" } => s = "ok"
         /\ a = "noj" => s = "obj"
         /\ a = "ear" => s \in { "ok", "arr" }
         /\ a = "ktv" => s = "col"
         /\ a = "sos" => s \in { "obj", "key", "val", "arr" }
         /\ a \in { "nul", "tru", "fls" } => s \in Word
BY DEF Edge, Word

\* Outside words and literals, a move stays where it is or enters one.
LEMMA MoveModes ==
  ASSUME NEW s \in State, NEW c, NEW d, Move(s, c, d)
  PROVE  /\ s \in Between => d = s \/ (s \in { "val", "arr" } /\ d \in Number \cup Word)
         /\ s \in Word => d \in Word
         /\ s \in Literal => d \in Literal
<1>1. s \in Between => d = s \/ (s \in { "val", "arr" } /\ d \in Number \cup Word)
  <2>1. s \in Between /\ d # s => s \in { "val", "arr" }
    BY DEF Move, Between
  <2>2. s \in { "val", "arr" } /\ d # s => d \in Number \cup Word
    BY DEF Move, Number, Word
  <2> QED
    BY <2>1, <2>2
<1>2. s \in Word => d \in Word
  BY DEF Move, Between, Word
<1>3. s \in Literal => d \in Literal
  BY DEF Move, Between, Number, Literal, Escape
<1> QED
  BY <1>1, <1>2, <1>3

-----------------------------------------------------------------------------
(* The table of the C checker.                                             *)

\* A cell holds a state, the code of one action, or __, which is the code of the action
\* that starts a string.
LEMMA CellCases ==
  ASSUME NEW s \in State, NEW c \in Class
  PROVE  \/ /\ Table[s][c] \in State /\ Move(s, c, Table[s][c]) /\ ~ EmptyCell(s, c)
         \/ /\ ~ EmptyCell(s, c)
            /\ \E a \in Action : Edge(s, c, a) /\ Table[s][c] = Coded(a)
         \/ EmptyCell(s, c) /\ Table[s][c] = "sos"
<1>1. Table[s][c] = CellOf(s, c)
  BY DEF Table
<1>2. CASE StateAt[s][c] # {}
  <2> DEFINE d == CHOOSE d \in StateAt[s][c] : TRUE
  <2>1. d \in StateAt[s][c] /\ Table[s][c] = d
    BY <1>1, <1>2 DEF CellOf
  <2> QED
    BY <1>2, <2>1, CellHoldsState DEF EmptyCell
<1>3. CASE StateAt[s][c] = {} /\ ActionAt[s][c] # {}
  <2> DEFINE a == CHOOSE a \in ActionAt[s][c] : TRUE
  <2>1. a \in ActionAt[s][c] /\ Table[s][c] = Coded(a)
    BY <1>1, <1>3 DEF CellOf
  <2> QED
    BY <1>3, <2>1, CellHoldsAction DEF EmptyCell
<1>4. CASE StateAt[s][c] = {} /\ ActionAt[s][c] = {}
  BY <1>1, <1>4 DEF CellOf, EmptyCell
<1> QED
  BY <1>2, <1>3, <1>4

\* Which actions of the C++ table have which code in the C one.
LEMMA Codes ==
  ASSUME NEW a \in Action
  PROVE  /\ Coded(a) \in { "ok", "esp", "str", "soj", "eoj", "noj", "sar", "ear", "ktv",
                           "nxt", "sos", "eos" }
         /\ Coded(a) = "ok" => a \in { "eon", "nul", "tru", "fls" }
         /\ Coded(a) = "esp" => a = "sep"
         /\ Coded(a) = "str" => a = "eep"
         /\ Coded(a) \in { "soj", "noj", "sar", "ktv", "sos", "eos" } => a = Coded(a)
         /\ Coded(a) = "eoj" => a \in { "eoj", "enj" }
         /\ Coded(a) = "ear" => a \in { "ear", "ena" }
         /\ Coded(a) = "nxt" => a \in { "nxt", "enx" }
BY DEF Coded, Action

\* Where each code is found.
LEMMA CellRegions ==
  ASSUME NEW s \in State, NEW c \in Class
  PROVE  /\ Table[s][c] \in { "soj", "sar" } => s \in { "go", "val", "arr" }
         /\ Table[s][c] = "eoj" => s \in { "ok" } \cup Number
         /\ Table[s][c] = "noj" => s = "obj"
         /\ Table[s][c] = "ear" => s \in { "ok", "arr" } \cup Number
         /\ Table[s][c] = "nxt" => s \in { "ok" } \cup Number
         /\ Table[s][c] = "ktv" => s = "col"
         /\ Table[s][c] = "eos" => s = "str"
         /\ Table[s][c] = "sos" => s \in { "obj", "key", "val", "arr" } \/ EmptyCell(s, c)
         /\ Table[s][c] \in { "soj", "sar", "eoj", "noj", "ear", "nxt", "ktv", "eos" }
              => ~ EmptyCell(s, c)
<1> DEFINE t == Table[s][c]
<1>1. CASE t \in State /\ Move(s, c, t)
  <2>1. t \notin { "soj", "sar", "eoj", "noj", "ear", "nxt", "ktv", "eos", "sos" }
    BY <1>1 DEF State, Between, Literal, Escape, Number, Word
  <2> QED
    BY <2>1
<1>2. ASSUME NEW a \in Action, Edge(s, c, a), t = Coded(a), ~ EmptyCell(s, c)
      PROVE  /\ t \in { "soj", "sar" } => s \in { "go", "val", "arr" }
             /\ t = "eoj" => s \in { "ok" } \cup Number
             /\ t = "noj" => s = "obj"
             /\ t = "ear" => s \in { "ok", "arr" } \cup Number
             /\ t = "nxt" => s \in { "ok" } \cup Number
             /\ t = "ktv" => s = "col"
             /\ t = "eos" => s = "str"
             /\ t = "sos" => s \in { "obj", "key", "val", "arr" }
  <2> HIDE DEF t
  <2> QED
    BY <1>2, Codes, EdgeRegions, EdgeModes
<1>3. CASE EmptyCell(s, c) /\ t = "sos"
  BY <1>3
<1> QED
  BY <1>1, <1>2, <1>3, CellCases

\* Which states follow which, where the cell holds a state.
LEMMA CellStates ==
  ASSUME NEW s \in State, NEW c \in Class, Table[s][c] \in State
  PROVE  /\ ~ EmptyCell(s, c)
         /\ s \in Between => \/ Table[s][c] = s
                             \/ s \in { "val", "arr" } /\ Table[s][c] \in Number \cup Word
         /\ s \in Word => \/ Table[s][c] \in Word
                          \/ s \in { "n03", "tr3", "fe4" } /\ Table[s][c] = "ok"
         /\ s \in Number => Table[s][c] \in Number \cup { "ok" }
         /\ s \in { "str" } \cup Escape => Table[s][c] \in { "str" } \cup Escape
<1> DEFINE t == Table[s][c]
<1>1. CASE Move(s, c, t) /\ ~ EmptyCell(s, c)
  <2>1. /\ s \in Between => t = s \/ (s \in { "val", "arr" } /\ t \in Number \cup Word)
        /\ s \in Word => t \in Word
        /\ s \in Number => t \in Number
        /\ s \in { "str" } \cup Escape => t \in { "str" } \cup Escape
    BY <1>1, MoveModes, MoveRegions
  <2> QED
    BY <1>1, <2>1
<1>2. ASSUME NEW a \in Action, Edge(s, c, a), t = Coded(a), ~ EmptyCell(s, c)
      PROVE  /\ s \in Word => s \in { "n03", "tr3", "fe4" } /\ t = "ok"
             /\ s \in Number => t = "ok"
             /\ s \in { "str" } \cup Escape => t \in { "str", "esp" }
             /\ s \notin Between
  <2>1. t \in { "ok", "esp", "str" }
    BY <1>2, Codes DEF State, Between, Literal, Escape, Number, Word
  <2>2. \/ a \in { "eon", "nul", "tru", "fls" } /\ t = "ok"
        \/ a = "sep" /\ t = "esp"
        \/ a = "eep" /\ t = "str"
    BY <1>2, <2>1, Codes
  <2>3. CASE a \in { "nul", "tru", "fls" }
    BY <1>2, <2>2, <2>3 DEF Edge, Between, Number, Escape
  <2>4. CASE a = "eon"
    BY <1>2, <2>2, <2>4 DEF Edge, Ripe, Between, Word, Number, Escape
  <2>5. CASE a \in { "sep", "eep" }
    BY <1>2, <2>2, <2>5 DEF Edge, Between, Word, Number, Escape
  <2> QED
    BY <2>2, <2>3, <2>4, <2>5
<1>3. t # "sos"
  BY DEF State, Between, Literal, Escape, Number, Word
<1> QED
  BY <1>1, <1>2, <1>3, CellCases DEF Escape

-----------------------------------------------------------------------------
(* The stack of modes.                                                     *)

Modes == { "array", "done", "key", "object" }

\* done lies at the bottom and nowhere else; key lies nowhere but on top.
ModeStack(s) == /\ s \in Seq(Modes) /\ s # << >>
                /\ \A i \in 1 .. Len(s) : s[i] = "done" <=> i = 1
                /\ \A i \in 1 .. Len(s) - 1 : s[i] # "key"

\* done is on top only where nothing else is on the stack.
LEMMA TopMode ==
  ASSUME NEW s, ModeStack(s)
  PROVE  /\ Len(s) \in Nat \ {0}
         /\ Last(s) \in Modes /\ (Last(s) = "done" <=> Len(s) = 1)
<1>1. Len(s) \in Nat \ {0}
  BY EmptySeq DEF ModeStack
<1>2. Last(s) \in Modes /\ Last(s) = s[Len(s)] /\ Len(s) \in 1 .. Len(s)
  BY <1>1, FrontProperties DEF ModeStack
<1> QED
  BY <1>1, <1>2 DEF ModeStack

\* A mode can be pushed on any but key.
LEMMA PushMode ==
  ASSUME NEW s, ModeStack(s), Last(s) # "key", NEW m \in { "array", "object", "key" }
  PROVE  ModeStack(Append(s, m)) /\ Last(Append(s, m)) = m /\ Len(Append(s, m)) = Len(s) + 1
<1>1. Len(s) \in Nat \ {0} /\ s \in Seq(Modes) /\ m \in Modes
  BY TopMode DEF ModeStack, Modes
<1>2. /\ Append(s, m) \in Seq(Modes) /\ Append(s, m) # << >> /\ Len(Append(s, m)) = Len(s) + 1
      /\ \A i \in 1 .. Len(s) : Append(s, m)[i] = s[i]
      /\ Append(s, m)[Len(s) + 1] = m
  BY <1>1, AppendProperties
<1>3. \A i \in 1 .. Len(s) : s[i] # "key"
  <2>1. s[Len(s)] # "key"
    BY <1>1, FrontProperties DEF ModeStack
  <2>2. \A i \in 1 .. Len(s) : i = Len(s) \/ i \in 1 .. Len(s) - 1
    BY <1>1
  <2> QED
    BY <2>1, <2>2 DEF ModeStack
<1>4. \A i \in 1 .. Len(s) + 1 : Append(s, m)[i] = "done" <=> i = 1
  <2>1. \A i \in 1 .. Len(s) + 1 : i = Len(s) + 1 \/ i \in 1 .. Len(s)
    BY <1>1
  <2> QED
    BY <1>1, <1>2, <2>1 DEF ModeStack
<1>5. \A i \in 1 .. Len(s) + 1 - 1 : Append(s, m)[i] # "key"
  BY <1>1, <1>2, <1>3
<1> QED
  BY <1>1, <1>2, <1>4, <1>5, LastOfAppend DEF ModeStack

\* Any mode but done can be popped, and no key appears.
LEMMA PopMode ==
  ASSUME NEW s, ModeStack(s), Last(s) # "done"
  PROVE  ModeStack(Front(s)) /\ Last(Front(s)) # "key" /\ Len(Front(s)) = Len(s) - 1
<1> DEFINE f == Front(s)
<1>1. Len(s) \in Nat \ {0} /\ Len(s) # 1
  BY TopMode
<1>2. /\ f \in Seq(Modes) /\ Len(f) = Len(s) - 1
      /\ \A i \in 1 .. Len(s) - 1 : f[i] = s[i]
  BY FrontProperties DEF ModeStack
<1> HIDE DEF f
<1>3. f # << >>
  BY <1>1, <1>2, EmptySeq
<1>4. Last(f) = f[Len(f)] /\ Len(f) \in 1 .. Len(s) - 1
  <2>1. Last(f) = f[Len(f)]
    BY <1>2, <1>3, FrontProperties
  <2> QED
    BY <1>1, <1>2, <2>1
<1>5. Last(f) # "key"
  BY <1>1, <1>2, <1>4 DEF ModeStack
<1>6. /\ \A i \in 1 .. Len(f) : f[i] = "done" <=> i = 1
      /\ \A i \in 1 .. Len(f) - 1 : f[i] # "key"
  BY <1>1, <1>2 DEF ModeStack
<1> QED
  BY <1>2, <1>3, <1>5, <1>6 DEF ModeStack, f
=============================================================================
