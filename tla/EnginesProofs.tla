---------------------------- MODULE EnginesProofs ----------------------------
(***************************************************************************)
(* Theorems about the two engines side by side, for every alphabet and     *)
(* every text: where one stops, the other does, and both tell the same.    *)
(*                                                                         *)
(* Both turn their loops by one table.  A cell's action says what becomes  *)
(* of the stack and what the callbacks are told; each engine is shown to   *)
(* do that, and the two are then compared cell by cell.                    *)
(***************************************************************************)
EXTENDS Engines, AutomatonTableProofs

-----------------------------------------------------------------------------
(* The two engines mean the same by the same words.                        *)

\* Both have the table's states and classes of characters.
LEMMA SameWords ==
  /\ C!Number = Number /\ C!Word = Word /\ C!Escape = Escape /\ C!Literal = Literal
  /\ C!State = State /\ C!Class = Class
  /\ Cpp!Number = Number /\ Cpp!Literal = Literal /\ Cpp!State = State /\ Cpp!Class = Class
  /\ Cpp!Word = Word
<1>1. C!Number = Number /\ C!Word = Word /\ C!Escape = Escape /\ Cpp!Number = Number
      /\ Cpp!Escape = Escape /\ C!Between = Between /\ Cpp!Between = Between /\ Cpp!Word = Word
      /\ C!Class = Class /\ Cpp!Class = Class
  BY DEF C!Number, Number, C!Word, Word, C!Escape, Escape, Cpp!Number, Cpp!Escape, Cpp!Word,
         C!Between, Between, Cpp!Between, C!Class, Class, Cpp!Class
<1>2. C!Literal = Literal /\ Cpp!Literal = Literal
  BY <1>1 DEF C!Literal, Cpp!Literal, Literal
<1> QED
  BY <1>1, <1>2 DEF C!State, State, Cpp!State

\* The last mode of a stack, and the others.
LEMMA SameEnds ==
  \A s : C!Front(s) = Front(s) /\ C!Last(s) = Last(s) /\ Cpp!Front(s) = Front(s) /\ Cpp!Last(s) = Last(s)
BY DEF C!Front, Front, C!Last, Last, Cpp!Front, Cpp!Last

\* The tables, and where an action leads.
LEMMA SameTable ==
  /\ C!Table = Table /\ \A s, c : C!EmptyCell(s, c) <=> EmptyCell(s, c)
  /\ Cpp!ActionAt = ActionAt /\ Cpp!StateAt = StateAt
  /\ \A a, m : Cpp!Dest(a, m) = Dest(a, m)
<1>1. \A s, c, a : (C!Edge(s, c, a) <=> Edge(s, c, a)) /\ (Cpp!Edge(s, c, a) <=> Edge(s, c, a))
  BY DEF C!Edge, Edge, C!Hex, Hex, C!Ripe, Ripe, C!Blank, Blank, C!Digit, Digit,
         Cpp!Edge, Cpp!Hex, Cpp!Ripe, Cpp!Blank, Cpp!Digit
<1>2. \A s, c, d : (C!Move(s, c, d) <=> Move(s, c, d)) /\ (Cpp!Move(s, c, d) <=> Move(s, c, d))
  BY DEF C!Move, Move, C!Hex, Hex, C!Blank, Blank, C!Digit, Digit, C!Between, Between, C!Class, Class,
         Cpp!Move, Cpp!Hex, Cpp!Blank, Cpp!Digit, Cpp!Between, Cpp!Class
<1>3. C!ActionAt = ActionAt /\ Cpp!ActionAt = ActionAt
  BY <1>1, SameWords DEF C!ActionAt, ActionAt, Cpp!ActionAt, C!Action, Action, Cpp!Action
<1>4. C!StateAt = StateAt /\ Cpp!StateAt = StateAt
  BY <1>2, SameWords DEF C!StateAt, StateAt, Cpp!StateAt
<1>5. C!Table = Table
  BY <1>3, <1>4, SameWords DEF C!Table, Table, C!CellOf, CellOf, C!Coded, Coded
<1>6. \A s, c : C!EmptyCell(s, c) <=> EmptyCell(s, c)
  BY <1>3, <1>4 DEF C!EmptyCell, EmptyCell
<1>7. \A a, m : Cpp!Dest(a, m) = Dest(a, m)
  BY DEF Cpp!Dest, Dest
<1> QED
  BY <1>3, <1>4, <1>5, <1>6, <1>7

-----------------------------------------------------------------------------
(* What an action does.                                                    *)

\* The modes on top with which an action does not stop the automaton.
Needs(a) == CASE a \in { "eoj", "enj" } -> { "object" }
              [] a \in { "noj", "ktv" } -> { "key" }
              [] a \in { "ear", "ena" } -> { "array" }
              [] OTHER -> Modes

\* The stack after it.
Flip(s) == IF Last(s) = "object" THEN Append(Front(s), "key") ELSE s
After(a, s) == CASE a = "soj" -> Append(s, "key")
                 [] a = "sar" -> Append(s, "array")
                 [] a \in { "eoj", "noj", "ear", "enj", "ena" } -> Front(s)
                 [] a = "ktv" -> Append(Front(s), "object")
                 [] a \in { "nxt", "enx" } -> Flip(s)
                 [] OTHER -> s

\* What the callback is told, in the checker's words.
Says(a, top) == CASE a = "soj" -> << "JSON_object_start" >>
                  [] a = "sar" -> << "JSON_array_start" >>
                  [] a \in { "eoj", "noj" } -> << "JSON_object_end" >>
                  [] a = "ear" -> << "JSON_array_end" >>
                  [] a = "eos" -> IF top = "key" THEN << "JSON_object_key" >> ELSE << "JSON_string" >>
                  [] a \in { "eon", "enx" } -> << "JSON_number" >>
                  [] a = "enj" -> << "JSON_number", "JSON_object_end" >>
                  [] a = "ena" -> << "JSON_number", "JSON_array_end" >>
                  [] a = "nul" -> << "JSON_null" >>
                  [] a = "tru" -> << "JSON_true" >>
                  [] a = "fls" -> << "JSON_false" >>
                  [] OTHER -> << >>

\* Where the checker goes, which tells a value behind a comma from a key.
Leads(a, mode) == IF a \in { "nxt", "enx" } THEN IF mode = "key" THEN "key" ELSE "val"
                  ELSE Dest(a, mode)

\* The words of some calls.
Spoken(calls, words) == DOMAIN calls = DOMAIN words /\ \A n \in DOMAIN words : calls[n].type = words[n]

\* The events are those calls that have these words.
Heard(events, words) == \A calls : Spoken(calls, words) => TellsSame(events, calls)

Silent(e) == e.type \notin DOMAIN Told[e.ev]
Means(e, w) == e.type \in DOMAIN Told[e.ev] /\ Told[e.ev][e.type] = w

\* Up to three events, and which of them the checker has words for.
LEMMA FewEvents ==
  /\ Heard(<< >>, << >>)
  /\ \A e : Silent(e) => Heard(<< e >>, << >>)
  /\ \A e, w : Means(e, w) => Heard(<< e >>, << w >>)
  /\ \A e, f, w : Silent(e) /\ Means(f, w) => Heard(<< e, f >>, << w >>)
  /\ \A e, f, g, w, v : Silent(e) /\ Means(f, w) /\ Means(g, v) => Heard(<< e, f, g >>, << w, v >>)
<1>1. Heard(<< >>, << >>)
  <2> SUFFICES ASSUME NEW calls, Spoken(calls, << >>) PROVE TellsSame(<< >>, calls)
    BY DEF Heard
  <2>1. DOMAIN calls = {} /\ InWords(<< >>) = {}
    BY DEF Spoken, InWords
  <2>2. [n \in {} |-> n] \in [DOMAIN calls -> InWords(<< >>)]
    BY <2>1
  <2> QED
    BY <2>1, <2>2 DEF TellsSame
<1>2. ASSUME NEW e, Silent(e) PROVE Heard(<< e >>, << >>)
  <2> SUFFICES ASSUME NEW calls, Spoken(calls, << >>) PROVE TellsSame(<< e >>, calls)
    BY DEF Heard
  <2>1. DOMAIN calls = {} /\ InWords(<< e >>) = {}
    BY <1>2 DEF Spoken, InWords, Silent
  <2>2. [n \in {} |-> n] \in [DOMAIN calls -> InWords(<< e >>)]
    BY <2>1
  <2> QED
    BY <2>1, <2>2 DEF TellsSame
<1>3. ASSUME NEW e, NEW w, Means(e, w) PROVE Heard(<< e >>, << w >>)
  <2> SUFFICES ASSUME NEW calls, Spoken(calls, << w >>) PROVE TellsSame(<< e >>, calls)
    BY DEF Heard
  <2>1. DOMAIN calls = { 1 } /\ calls[1].type = w /\ InWords(<< e >>) = { 1 }
    <3>1. DOMAIN << w >> = { 1 } /\ << w >>[1] = w /\ DOMAIN << e >> = { 1 } /\ << e >>[1] = e
      OBVIOUS
    <3>2. InWords(<< e >>) = { 1 }
      BY <1>3, <3>1 DEF InWords, Means
    <3> QED
      BY <3>1, <3>2 DEF Spoken
  <2> DEFINE at == [n \in { 1 } |-> 1]
  <2>2. at \in [DOMAIN calls -> InWords(<< e >>)] /\ at[1] = 1 /\ << e >>[1] = e
    BY <2>1
  <2> HIDE DEF at
  <2> QED
    BY <1>3, <2>1, <2>2 DEF TellsSame, Means
<1>4. ASSUME NEW e, NEW f, NEW w, Silent(e), Means(f, w) PROVE Heard(<< e, f >>, << w >>)
  <2> SUFFICES ASSUME NEW calls, Spoken(calls, << w >>) PROVE TellsSame(<< e, f >>, calls)
    BY DEF Heard
  <2>1. DOMAIN calls = { 1 } /\ calls[1].type = w /\ InWords(<< e, f >>) = { 2 }
    BY <1>4 DEF Spoken, InWords, Means, Silent
  <2> DEFINE at == [n \in { 1 } |-> 2]
  <2>2. at \in [DOMAIN calls -> InWords(<< e, f >>)] /\ at[1] = 2 /\ << e, f >>[2] = f
    BY <2>1
  <2> HIDE DEF at
  <2> QED
    BY <1>4, <2>1, <2>2 DEF TellsSame, Means
<1>5. ASSUME NEW e, NEW f, NEW g, NEW w, NEW v, Silent(e), Means(f, w), Means(g, v)
      PROVE  Heard(<< e, f, g >>, << w, v >>)
  <2> SUFFICES ASSUME NEW calls, Spoken(calls, << w, v >>) PROVE TellsSame(<< e, f, g >>, calls)
    BY DEF Heard
  <2>1. /\ DOMAIN calls = { 1, 2 } /\ calls[1].type = w /\ calls[2].type = v
        /\ InWords(<< e, f, g >>) = { 2, 3 }
    BY <1>5 DEF Spoken, InWords, Means, Silent
  <2> DEFINE at == [n \in { 1, 2 } |-> n + 1]
  <2>2. /\ at \in [DOMAIN calls -> InWords(<< e, f, g >>)] /\ at[1] = 2 /\ at[2] = 3
        /\ << e, f, g >>[2] = f /\ << e, f, g >>[3] = g
    BY <2>1
  <2> HIDE DEF at
  <2> QED
    BY <1>5, <2>1, <2>2 DEF TellsSame, Means
<1> QED
  BY <1>1, <1>2, <1>3, <1>4, <1>5

-----------------------------------------------------------------------------
(* A turn of the automaton.                                                *)

IsToken(t) == t \in [saved : BOOLEAN, held : Seq(Class), tmp : Seq(Class)]
TokenFits == IsToken(a_token) /\ (a_token.saved <=> a_state \in Literal)

\* The automaton does what action a means.
CppDoes(a) == /\ a_call' = "parsing" /\ Last(a_stack) \in Needs(a)
              /\ a_stack' = After(a, a_stack) /\ a_state' = Dest(a, Last(a_stack'))
              /\ Heard(a_out', Says(a, Last(a_stack)))

\* It moves to the state d.
CppMoves(d) == a_call' = "parsing" /\ a_state' = d /\ a_stack' = a_stack /\ Heard(a_out', << >>)

\* A token is saved, cleared and goes on as one says.
LEMMA Tokens ==
  ASSUME NEW t, IsToken(t), NEW c \in Class
  PROVE  /\ IsToken(Cpp!Advance(t, c)) /\ Cpp!Advance(t, c).saved = t.saved
         /\ IsToken(Cpp!Save(t)) /\ Cpp!Save(t).saved = TRUE
         /\ IsToken(Cpp!Clear) /\ Cpp!Clear.saved = FALSE
<1>1. << >> \in Seq(Class) /\ Append(t.held, c) \in Seq(Class)
  BY EmptySeq, AppendProperties DEF IsToken
<1>2. IsToken(Cpp!Advance(t, c)) /\ Cpp!Advance(t, c).saved = t.saved
  BY <1>1 DEF Cpp!Advance, IsToken
<1>3. IsToken(Cpp!Save(t)) /\ Cpp!Save(t).saved = TRUE
  BY <1>1 DEF Cpp!Save, IsToken
<1>4. IsToken(Cpp!Clear) /\ Cpp!Clear.saved = FALSE
  BY <1>1 DEF Cpp!Clear, IsToken
<1> QED
  BY <1>2, <1>3, <1>4

\* What the handlers' events mean.
LEMMA Meanings ==
  /\ \A t \in { "number", "key", "string" } : Silent(Cpp!Ev("start", t))
  /\ \A t \in { "number", "key", "string" } : \A x : Silent(Cpp!Data(t, x))
  /\ Means(Cpp!Ev("start", "object"), "JSON_object_start")
  /\ Means(Cpp!Ev("start", "array"), "JSON_array_start")
  /\ Means(Cpp!Ev("end", "object"), "JSON_object_end")
  /\ Means(Cpp!Ev("end", "array"), "JSON_array_end")
  /\ Means(Cpp!Ev("end", "key"), "JSON_object_key")
  /\ Means(Cpp!Ev("end", "string"), "JSON_string")
  /\ Means(Cpp!Ev("end", "number"), "JSON_number")
  /\ Means(Cpp!Ev("data", "null_value"), "JSON_null")
  /\ Means(Cpp!Ev("data", "boolean_true"), "JSON_true")
  /\ Means(Cpp!Ev("data", "boolean_false"), "JSON_false")
BY DEF Silent, Means, Cpp!Ev, Cpp!Data, Told

\* The text of an open string may be delivered before its end, or before an escape.
LEMMA StringParts ==
  \/ Cpp!StringEvents = << >>
  \/ \E t \in { "key", "string" } : \E x : Cpp!StringEvents = << Cpp!Data(t, x) >>
BY DEF Cpp!StringEvents, Cpp!Current

\* A turn of the automaton does what the cell's action means, unless the mode on top is another
\* or the cell is empty; the last digit of a \uXXXX may be no escape.
LEMMA CppTells ==
  ASSUME NEW c \in Class, a_state \in State, ModeStack(a_stack), TokenFits, Cpp!Turn(c)
  PROVE  \/ /\ TokenFits'
            /\ \/ \E a \in ActionAt[a_state][c] : CppDoes(a)
               \/ \E d \in StateAt[a_state][c] : CppMoves(d)
         \/ /\ a_call' = "thrown"
            /\ \/ \E a \in ActionAt[a_state][c] : Last(a_stack) \notin Needs(a)
               \/ a_state = "u4"
               \/ EmptyCell(a_state, c)
<1> DEFINE Top == Last(a_stack)
           Keeps == /\ IsToken(a_token') /\ a_token'.saved = a_token.saved
           Ends == /\ IsToken(a_token') /\ a_token'.saved = FALSE
           Begins == /\ IsToken(a_token') /\ a_token'.saved = TRUE
           Goal == \/ /\ TokenFits'
                      /\ \/ \E a \in ActionAt[a_state][c] : CppDoes(a)
                         \/ \E d \in StateAt[a_state][c] : CppMoves(d)
                   \/ /\ a_call' = "thrown"
                      /\ \/ \E a \in ActionAt[a_state][c] : Last(a_stack) \notin Needs(a)
                         \/ a_state = "u4"
                         \/ EmptyCell(a_state, c)
<1> SUFFICES Goal
  OBVIOUS
<1>1. /\ Cpp!ActionAt = ActionAt /\ Cpp!StateAt = StateAt /\ (\A a, m : Cpp!Dest(a, m) = Dest(a, m))
      /\ Cpp!Top = Top /\ Cpp!Front(a_stack) = Front(a_stack) /\ Cpp!Last(a_stack') = Last(a_stack')
      /\ Top \in Modes /\ Cpp!Number = Number
  BY SameTable, SameEnds, TopMode, SameWords DEF Cpp!Top
<1>2. \A a \in ActionAt[a_state][c] : a \in Action /\ Edge(a_state, c, a)
  BY CellHoldsAction
<1>3. /\ Cpp!LeavesToken(a_token, c) => Keeps
      /\ Cpp!LeavesToken(Cpp!Clear, c) => Ends
      /\ Cpp!LeavesToken(Cpp!Save(a_token), c) => Begins
      /\ Cpp!LeavesToken(Cpp!Save(Cpp!Clear), c) => Begins
  <2>1. /\ IsToken(a_token) /\ IsToken(Cpp!Clear) /\ IsToken(Cpp!Save(a_token)) /\ IsToken(Cpp!Save(Cpp!Clear))
        /\ Cpp!Clear.saved = FALSE /\ Cpp!Save(a_token).saved = TRUE /\ Cpp!Save(Cpp!Clear).saved = TRUE
    BY Tokens DEF TokenFits
  <2> QED
    BY <2>1, Tokens DEF Cpp!LeavesToken
<1>4. \A a, m : a \in Action => (Dest(a, m) \in Literal <=> a \in { "sos", "sep", "eep" })
  BY DEF Dest, Action, Literal, Escape, Number
<1>5. \A a : Cpp!Goes(a) => a_call' = "parsing" /\ a_state' = Dest(a, Last(a_stack'))
  BY <1>1 DEF Cpp!Goes
<1>6. \A e : Cpp!Delivers(e) => a_out' = e
  BY DEF Cpp!Delivers
<1> HIDE DEF Top, Keeps, Ends, Begins
\* An action outside of the literals leaves the token alone, one that ends a literal clears it.
<1>7. ASSUME NEW a \in ActionAt[a_state][c], a \notin { "sos", "sep", "eep" }, Cpp!Goes(a),
             \/ Ends
             \/ Keeps /\ a \in { "soj", "sar", "eoj", "noj", "ear", "ktv", "nxt", "nul", "tru", "fls" },
             Top \in Needs(a), a_stack' = After(a, a_stack), Heard(a_out', Says(a, Top))
      PROVE  Goal
  <2>1. a_state' \notin Literal
    BY <1>2, <1>4, <1>5, <1>7
  <2>2. a \in { "soj", "sar", "eoj", "noj", "ear", "ktv", "nxt", "nul", "tru", "fls" } => a_state \notin Literal
    BY <1>2, EdgeRegions
  <2>3. TokenFits'
    BY <1>7, <2>1, <2>2 DEF TokenFits, Keeps, Ends
  <2> QED
    BY <1>5, <1>7, <2>3 DEF CppDoes, Top
\* One that begins a token is in a literal behind it.
<1>8. ASSUME NEW a \in ActionAt[a_state][c], a \in { "sos", "sep", "eep" }, Cpp!Goes(a), Begins,
             a_stack' = a_stack, Heard(a_out', << >>)
      PROVE  Goal
  <2>1. a_state' \in Literal
    BY <1>2, <1>4, <1>5, <1>8
  <2>2. TokenFits'
    BY <1>8, <2>1 DEF TokenFits, Begins
  <2>3. After(a, a_stack) = a_stack /\ Says(a, Top) = << >> /\ Needs(a) = Modes
    BY <1>8 DEF After, Says, Needs
  <2> QED
    BY <1>1, <1>5, <1>8, <2>2, <2>3 DEF CppDoes, Top
<1>9. CASE \/ "soj" \in ActionAt[a_state][c] /\ Cpp!OnStartObject(c)
           \/ "sar" \in ActionAt[a_state][c] /\ Cpp!OnStartArray(c)
  <2>1. PICK a \in { "soj", "sar" } :
          /\ a \in ActionAt[a_state][c] /\ Cpp!Goes(a) /\ Keeps
          /\ a_stack' = After(a, a_stack) /\ Heard(a_out', Says(a, Top))
    BY <1>3, <1>6, <1>9, FewEvents, Meanings DEF Cpp!OnStartObject, Cpp!OnStartArray, After, Says
  <2>2. Top \in Needs(a)
    BY <1>1, <2>1 DEF Needs
  <2> QED
    BY <1>7, <2>1, <2>2
<1>10. CASE \/ "eoj" \in ActionAt[a_state][c] /\ Cpp!OnEndObject(c)
            \/ "noj" \in ActionAt[a_state][c] /\ Cpp!OnEndEmptyObject(c)
            \/ "ear" \in ActionAt[a_state][c] /\ Cpp!OnEndArray(c)
  <2>1. PICK a \in { "eoj", "noj", "ear" } :
          /\ a \in ActionAt[a_state][c] /\ Cpp!Goes(a) /\ Keeps /\ Top \in Needs(a)
          /\ a_stack' = Front(a_stack) /\ Heard(a_out', Says(a, Top))
    BY <1>1, <1>3, <1>6, <1>10, FewEvents, Meanings
       DEF Cpp!OnEndObject, Cpp!OnEndEmptyObject, Cpp!OnEndArray, Cpp!Pops, Needs, Says
  <2>2. After(a, a_stack) = Front(a_stack)
    BY <2>1 DEF After
  <2> QED
    BY <1>7, <2>1, <2>2
<1>11. CASE "ktv" \in ActionAt[a_state][c] /\ Cpp!OnKeyToValue(c)
  <2>1. /\ Cpp!Goes("ktv") /\ Keeps /\ Top \in Needs("ktv")
        /\ a_stack' = After("ktv", a_stack) /\ Heard(a_out', Says("ktv", Top))
    BY <1>1, <1>3, <1>6, <1>11, FewEvents DEF Cpp!OnKeyToValue, Needs, After, Says
  <2> QED
    BY <1>7, <1>11, <2>1
<1>12. Cpp!Flipped = Flip(a_stack)
  BY <1>1 DEF Cpp!Flipped, Flip, Top
<1>13. CASE "nxt" \in ActionAt[a_state][c] /\ Cpp!OnNextValue(c)
  <2>1. /\ Cpp!Goes("nxt") /\ Keeps /\ Top \in Needs("nxt")
        /\ a_stack' = After("nxt", a_stack) /\ Heard(a_out', Says("nxt", Top))
    BY <1>1, <1>3, <1>6, <1>12, <1>13, FewEvents DEF Cpp!OnNextValue, Needs, After, Says
  <2> QED
    BY <1>7, <1>13, <2>1
<1>14. CASE \/ "nul" \in ActionAt[a_state][c] /\ Cpp!OnNull(c)
            \/ "tru" \in ActionAt[a_state][c] /\ Cpp!OnTrue(c)
            \/ "fls" \in ActionAt[a_state][c] /\ Cpp!OnFalse(c)
  <2>1. PICK a \in { "nul", "tru", "fls" } :
          /\ a \in ActionAt[a_state][c] /\ Cpp!Goes(a) /\ Keeps
          /\ a_stack' = a_stack /\ Heard(a_out', Says(a, Top))
    BY <1>3, <1>6, <1>14, FewEvents, Meanings
       DEF Cpp!OnNull, Cpp!OnTrue, Cpp!OnFalse, Cpp!OnWord, Says
  <2>2. Top \in Needs(a) /\ After(a, a_stack) = a_stack
    BY <1>1, <2>1 DEF Needs, After
  <2> QED
    BY <1>7, <2>1, <2>2
\* The number's text comes first, for which the checker has no word.
<1>15. /\ Cpp!NumberEvents = << Cpp!Data("number", Cpp!Text(a_token)), Cpp!Ev("end", "number") >>
       /\ \A e : Append(Cpp!NumberEvents, e)
                   = << Cpp!Data("number", Cpp!Text(a_token)), Cpp!Ev("end", "number"), e >>
       /\ Silent(Cpp!Data("number", Cpp!Text(a_token)))
  <2>1. Cpp!NumberEvents = << Cpp!Data("number", Cpp!Text(a_token)), Cpp!Ev("end", "number") >>
    BY DEF Cpp!NumberEvents
  <2>2. Silent(Cpp!Data("number", Cpp!Text(a_token)))
    BY Meanings
  <2> QED
    BY <2>1, <2>2, ShortAppends
<1>16. CASE \/ "eon" \in ActionAt[a_state][c] /\ Cpp!OnEndNumber(c)
            \/ "enx" \in ActionAt[a_state][c] /\ Cpp!OnEndNumberAndNextValue(c)
  <2>1. PICK a \in { "eon", "enx" } :
          /\ a \in ActionAt[a_state][c] /\ Cpp!Goes(a) /\ Ends
          /\ a_stack' = After(a, a_stack) /\ a_out' = Cpp!NumberEvents
    BY <1>3, <1>6, <1>12, <1>16 DEF Cpp!OnEndNumber, Cpp!OnEndNumberAndNextValue, After
  <2>2. Top \in Needs(a) /\ Says(a, Top) = << "JSON_number" >>
    BY <1>1, <2>1 DEF Needs, Says
  <2>3. Heard(a_out', << "JSON_number" >>)
    BY <1>15, <2>1, FewEvents, Meanings
  <2> QED
    BY <1>7, <2>1, <2>2, <2>3
<1>17. CASE "enj" \in ActionAt[a_state][c] /\ Cpp!OnEndNumberAndObject(c)
  <2>1. /\ Cpp!Goes("enj") /\ Ends /\ Top \in Needs("enj") /\ a_stack' = After("enj", a_stack)
        /\ a_out' = Append(Cpp!NumberEvents, Cpp!Ev("end", "object"))
    BY <1>1, <1>3, <1>6, <1>17 DEF Cpp!OnEndNumberAndObject, Cpp!Pops, Needs, After
  <2>2. Says("enj", Top) = << "JSON_number", "JSON_object_end" >>
    BY DEF Says
  <2>3. Heard(a_out', << "JSON_number", "JSON_object_end" >>)
    BY <1>15, <2>1, FewEvents, Meanings
  <2> QED
    BY <1>7, <1>17, <2>1, <2>2, <2>3
<1>18. CASE "ena" \in ActionAt[a_state][c] /\ Cpp!OnEndNumberAndArray(c)
  <2>1. /\ Cpp!Goes("ena") /\ Ends /\ Top \in Needs("ena") /\ a_stack' = After("ena", a_stack)
        /\ a_out' = Append(Cpp!NumberEvents, Cpp!Ev("end", "array"))
    BY <1>1, <1>3, <1>6, <1>18 DEF Cpp!OnEndNumberAndArray, Cpp!Pops, Needs, After
  <2>2. Says("ena", Top) = << "JSON_number", "JSON_array_end" >>
    BY DEF Says
  <2>3. Heard(a_out', << "JSON_number", "JSON_array_end" >>)
    BY <1>15, <2>1, FewEvents, Meanings
  <2> QED
    BY <1>7, <1>18, <2>1, <2>2, <2>3
<1>19. Cpp!Current \in { "key", "string" } /\ (Cpp!Current = "key" <=> Top = "key")
  BY <1>1 DEF Cpp!Current
<1>20. CASE "eos" \in ActionAt[a_state][c] /\ Cpp!OnEndString(c)
  <2>1. /\ Cpp!Goes("eos") /\ Ends /\ a_stack' = a_stack
        /\ a_out' = Append(Cpp!StringEvents, Cpp!Ev("end", Cpp!Current))
    BY <1>3, <1>6, <1>20 DEF Cpp!OnEndString
  <2>2. Top \in Needs("eos") /\ After("eos", a_stack) = a_stack
    BY <1>1 DEF Needs, After
  <2> DEFINE w == IF Top = "key" THEN "JSON_object_key" ELSE "JSON_string"
  <2>3. Says("eos", Top) = << w >> /\ Means(Cpp!Ev("end", Cpp!Current), w)
    BY <1>19, Meanings DEF Says
  <2> HIDE DEF w
  <2>4. \/ a_out' = << Cpp!Ev("end", Cpp!Current) >>
        \/ \E e : Silent(e) /\ a_out' = << e, Cpp!Ev("end", Cpp!Current) >>
    <3> DEFINE f == Cpp!Ev("end", Cpp!Current)
    <3>1. CASE Cpp!StringEvents = << >>
      <4>1. Append(<< >>, f) = << f >>
        BY ShortAppends
      <4> QED
        BY <2>1, <3>1, <4>1
    <3>2. ASSUME NEW t \in { "key", "string" }, NEW x, Cpp!StringEvents = << Cpp!Data(t, x) >>
          PROVE  \E e : Silent(e) /\ a_out' = << e, f >>
      <4> DEFINE e == Cpp!Data(t, x)
      <4>1. Silent(e)
        BY Meanings
      <4>2. Append(Cpp!StringEvents, f) = Append(<< e >>, f)
        BY <3>2
      <4> HIDE DEF e, f
      <4>3. Append(<< e >>, f) = << e, f >>
        BY ShortAppends
      <4>4. a_out' = << e, f >>
        BY <2>1, <4>2, <4>3 DEF f
      <4> QED
        BY <4>1, <4>4
    <3> QED
      BY <3>1, <3>2, StringParts
  <2>5. Heard(a_out', << w >>)
    BY <2>3, <2>4, FewEvents
  <2> QED
    BY <1>7, <1>20, <2>1, <2>2, <2>3, <2>5
<1>21. CASE \/ "sos" \in ActionAt[a_state][c] /\ Cpp!OnStartString(c)
            \/ "sep" \in ActionAt[a_state][c] /\ Cpp!OnStartEscape(c)
            \/ "eep" \in ActionAt[a_state][c] /\ Cpp!OnEndEscape(c)
  <2>1. PICK a \in { "sos", "sep", "eep" } :
          /\ a \in ActionAt[a_state][c] /\ Cpp!Goes(a) /\ Begins /\ a_stack' = a_stack
          /\ a_out' = << >> \/ \E e : Silent(e) /\ a_out' = << e >>
    BY <1>3, <1>6, <1>19, <1>21, StringParts, Meanings
       DEF Cpp!OnStartString, Cpp!OnStartEscape, Cpp!OnEndEscape
  <2>2. Heard(a_out', << >>)
    BY <2>1, FewEvents
  <2> QED
    BY <1>8, <2>1, <2>2
<1>22. CASE "eep" \in ActionAt[a_state][c] /\ Cpp!EscapeThrows(c)
  <2>1. c \notin DOMAIN Cpp!Unescaped /\ a_call' = "thrown"
    BY <1>22 DEF Cpp!EscapeThrows, Cpp!Throws
  <2>2. a_state = "u4"
    BY <1>2, <1>22, <2>1 DEF Edge, Cpp!Unescaped
  <2> QED
    BY <2>1, <2>2
<1>23. ASSUME NEW a \in ActionAt[a_state][c], Cpp!PopThrows(a)
       PROVE  Goal
  <2>1. a_call' = "thrown" /\ a \in { "eoj", "noj", "ear", "ktv", "enj", "ena" } /\ Top # Cpp!PoppedMode[a]
    BY <1>1, <1>23 DEF Cpp!PopThrows, Cpp!Throws, Cpp!PoppedMode
  <2>2. Top \notin Needs(a)
    BY <2>1 DEF Needs, Cpp!PoppedMode
  <2> QED
    BY <2>1, <2>2 DEF Top
<1>24. \A d \in StateAt[a_state][c] : d \in State /\ Move(a_state, c, d)
  BY CellHoldsState
<1>25. CASE Cpp!OnStartNumber(c)
  <2>1. PICK d \in StateAt[a_state][c] :
          /\ d \in Number /\ a_call' = "parsing" /\ a_state' = d /\ a_stack' = a_stack /\ Begins
          /\ a_out' = << Cpp!Ev("start", "number") >>
    BY <1>1, <1>3, <1>6, <1>25 DEF Cpp!OnStartNumber, Cpp!StartsNumber
  <2>2. TokenFits'
    BY <2>1 DEF TokenFits, Begins, Literal
  <2>3. Heard(a_out', << >>)
    BY <2>1, FewEvents, Meanings
  <2> QED
    BY <2>1, <2>2, <2>3 DEF CppMoves
<1>26. CASE Cpp!OnNone(c)
  <2>1. PICK d \in StateAt[a_state][c] :
          /\ ~ (a_state \notin Number /\ d \in Number)
          /\ a_call' = "parsing" /\ a_state' = d /\ a_stack' = a_stack /\ Keeps /\ a_out' = << >>
    BY <1>1, <1>3, <1>6, <1>26 DEF Cpp!OnNone, Cpp!StartsNumber
  <2>2. d \in Literal <=> a_state \in Literal
    BY <1>24, <2>1, MoveRegions DEF Literal
  <2>3. TokenFits'
    BY <2>1, <2>2 DEF TokenFits, Keeps
  <2>4. Heard(a_out', << >>)
    BY <2>1, FewEvents
  <2> QED
    BY <2>1, <2>3, <2>4 DEF CppMoves
<1>27. CASE Cpp!EmptyCellThrows(c)
  BY <1>1, <1>27 DEF Cpp!EmptyCellThrows, Cpp!Throws, EmptyCell
\* No assertion fails.
<1>28. ~ Cpp!AssertionFails(c)
  <2>1. ASSUME NEW a \in ActionAt[a_state][c], a \in Cpp!TakesToken
        PROVE  a_token.saved
    BY <1>2, <2>1, EdgeRegions DEF Cpp!TakesToken, TokenFits, Literal, Escape
  <2>2. "sos" \in ActionAt[a_state][c] => ~ a_token.saved
    BY <1>2, EdgeRegions DEF TokenFits
  <2>3. ASSUME NEW d \in StateAt[a_state][c], d \in Number, a_state \notin Number
        PROVE  ~ a_token.saved
    <3>1. a_state \notin { "str" } \cup Escape
      BY <1>24, <2>3, MoveRegions DEF Number, Escape
    <3> QED
      BY <2>3, <3>1 DEF TokenFits, Literal
  <2> QED
    BY <1>1, <2>1, <2>2, <2>3 DEF Cpp!AssertionFails, Cpp!StartsNumber
<1>29. ~ Cpp!AbortInHandler(c)
  BY <1>28 DEF Cpp!AbortInHandler
<1> HIDE DEF Goal
<1>30. ASSUME NEW a \in ActionAt[a_state][c],
              \/ a = "soj" /\ Cpp!OnStartObject(c)
              \/ a = "eoj" /\ Cpp!OnEndObject(c)
              \/ a = "noj" /\ Cpp!OnEndEmptyObject(c)
              \/ a = "sar" /\ Cpp!OnStartArray(c)
              \/ a = "ear" /\ Cpp!OnEndArray(c)
              \/ a = "ktv" /\ Cpp!OnKeyToValue(c)
              \/ a = "nxt" /\ Cpp!OnNextValue(c)
              \/ a = "sos" /\ Cpp!OnStartString(c)
              \/ a = "eos" /\ Cpp!OnEndString(c)
              \/ a = "sep" /\ Cpp!OnStartEscape(c)
              \/ a = "eep" /\ (Cpp!OnEndEscape(c) \/ Cpp!EscapeThrows(c))
              \/ a = "eon" /\ Cpp!OnEndNumber(c)
              \/ a = "enj" /\ Cpp!OnEndNumberAndObject(c)
              \/ a = "ena" /\ Cpp!OnEndNumberAndArray(c)
              \/ a = "enx" /\ Cpp!OnEndNumberAndNextValue(c)
              \/ a = "nul" /\ Cpp!OnNull(c)
              \/ a = "tru" /\ Cpp!OnTrue(c)
              \/ a = "fls" /\ Cpp!OnFalse(c)
              \/ Cpp!PopThrows(a)
       PROVE  Goal
  <2>1. CASE \/ a = "soj" /\ Cpp!OnStartObject(c)
             \/ a = "sar" /\ Cpp!OnStartArray(c)
    BY <1>9, <2>1
  <2>2. CASE \/ a = "eoj" /\ Cpp!OnEndObject(c)
             \/ a = "noj" /\ Cpp!OnEndEmptyObject(c)
             \/ a = "ear" /\ Cpp!OnEndArray(c)
    BY <1>10, <2>2
  <2>3. CASE \/ a = "ktv" /\ Cpp!OnKeyToValue(c)
             \/ a = "nxt" /\ Cpp!OnNextValue(c)
    BY <1>11, <1>13, <2>3
  <2>4. CASE \/ a = "nul" /\ Cpp!OnNull(c)
             \/ a = "tru" /\ Cpp!OnTrue(c)
             \/ a = "fls" /\ Cpp!OnFalse(c)
    BY <1>14, <2>4
  <2>5. CASE \/ a = "eon" /\ Cpp!OnEndNumber(c)
             \/ a = "enx" /\ Cpp!OnEndNumberAndNextValue(c)
    BY <1>16, <2>5
  <2>6. CASE \/ a = "enj" /\ Cpp!OnEndNumberAndObject(c)
             \/ a = "ena" /\ Cpp!OnEndNumberAndArray(c)
    BY <1>17, <1>18, <2>6
  <2>7. CASE \/ a = "eos" /\ Cpp!OnEndString(c)
             \/ a = "eep" /\ Cpp!EscapeThrows(c)
    BY <1>20, <1>22, <2>7
  <2>8. CASE \/ a = "sos" /\ Cpp!OnStartString(c)
             \/ a = "sep" /\ Cpp!OnStartEscape(c)
             \/ a = "eep" /\ Cpp!OnEndEscape(c)
    BY <1>21, <2>8
  <2>9. CASE Cpp!PopThrows(a)
    BY <1>23, <2>9
  <2> QED
    BY <1>30, <2>1, <2>2, <2>3, <2>4, <2>5, <2>6, <2>7, <2>8, <2>9
<1>31. Goal
  <2>1. CASE \E a \in ActionAt[a_state][c] :
               \/ a = "soj" /\ Cpp!OnStartObject(c)
               \/ a = "eoj" /\ Cpp!OnEndObject(c)
               \/ a = "noj" /\ Cpp!OnEndEmptyObject(c)
               \/ a = "sar" /\ Cpp!OnStartArray(c)
               \/ a = "ear" /\ Cpp!OnEndArray(c)
               \/ a = "ktv" /\ Cpp!OnKeyToValue(c)
               \/ a = "nxt" /\ Cpp!OnNextValue(c)
               \/ a = "sos" /\ Cpp!OnStartString(c)
               \/ a = "eos" /\ Cpp!OnEndString(c)
               \/ a = "sep" /\ Cpp!OnStartEscape(c)
               \/ a = "eep" /\ (Cpp!OnEndEscape(c) \/ Cpp!EscapeThrows(c))
               \/ a = "eon" /\ Cpp!OnEndNumber(c)
               \/ a = "enj" /\ Cpp!OnEndNumberAndObject(c)
               \/ a = "ena" /\ Cpp!OnEndNumberAndArray(c)
               \/ a = "enx" /\ Cpp!OnEndNumberAndNextValue(c)
               \/ a = "nul" /\ Cpp!OnNull(c)
               \/ a = "tru" /\ Cpp!OnTrue(c)
               \/ a = "fls" /\ Cpp!OnFalse(c)
               \/ Cpp!PopThrows(a)
    BY <1>30, <2>1
  <2>2. CASE Cpp!OnStartNumber(c) \/ Cpp!OnNone(c) \/ Cpp!EmptyCellThrows(c)
    BY <1>25, <1>26, <1>27, <2>2
  <2>3. Cpp!ActionAt[a_state][c] = ActionAt[a_state][c]
    BY <1>1
  <2> QED
    BY <1>29, <2>1, <2>2, <2>3 DEF Cpp!Turn
<1> QED
  BY <1>31

-----------------------------------------------------------------------------
(* A turn of the checker, on a buffer that does not end.                   *)

\* The modes on top with which an action does not stop the checker.
CNeeds(a) == IF a \in { "eos", "nxt", "enx" } THEN Modes \ { "done" } ELSE Needs(a)

\* What modes may be on top in which state.
StateFits(s, top) ==
  /\ s = "go" => top = "done"
  /\ s \in { "obj", "key", "col" } => top = "key"
  /\ s = "arr" => top = "array"
  /\ s \in { "val" } \cup Number \cup Word => top \in { "array", "object" }
  /\ s \in { "str" } \cup Escape => top # "done"
  /\ s = "ok" => top # "key"

\* The checker does what action a means.
CDoes(a) == /\ c_call' = "ok" /\ c_token' = << >> /\ Last(c_stack) \in CNeeds(a)
            /\ c_stack' = After(a, c_stack) /\ c_state' = Leads(a, Last(c_stack'))
            /\ Spoken(c_out', Says(a, Last(c_stack)))

\* It moves to the state d.
CMoves(d) == /\ c_call' = "ok" /\ c_token' = << >> /\ c_stack' = c_stack /\ c_state' = d
             /\ Spoken(c_out', << >>)

\* The words of up to two calls.
LEMMA Speaking ==
  /\ Spoken(<< >>, << >>)
  /\ \A e, v : e.type = v => Spoken(<< e >>, << v >>)
  /\ \A e, f, v, w : e.type = v /\ f.type = w => Spoken(<< e, f >>, << v, w >>)
<1>1. Spoken(<< >>, << >>)
  BY DEF Spoken
<1>2. ASSUME NEW e, NEW v, e.type = v PROVE Spoken(<< e >>, << v >>)
  BY <1>2 DEF Spoken
<1>3. ASSUME NEW e, NEW f, NEW v, NEW w, e.type = v, f.type = w PROVE Spoken(<< e, f >>, << v, w >>)
  BY <1>3 DEF Spoken
<1> QED
  BY <1>1, <1>2, <1>3

\* The column of the characters without a class is empty.
LEMMA BadColumn ==
  ASSUME NEW s \in State
  PROVE  EmptyCell(s, "bad")
<1>1. "bad" \in Class
  BY DEF Class
<1>2. \A a \in Action : ~ Edge(s, "bad", a)
  BY DEF Edge, Blank, Hex, Digit
<1>3. \A d \in State : ~ Move(s, "bad", d)
  BY DEF Move, Blank, Hex, Digit
<1> QED
  BY <1>1, <1>2, <1>3 DEF EmptyCell, ActionAt, StateAt

\* A number is told of where its last character has been read, and nothing else is.
LEMMA NumberCalls ==
  ASSUME NEW n \in C!NumberFirst
  PROVE  /\ c_state \notin Number => n = << >>
         /\ c_state \in Number => \E t : n = << C!Ev("JSON_number", t) >>
BY SameWords DEF C!NumberFirst

\* A turn of the checker does what the cell's action means, unless the mode on top is another or
\* the cell is empty.
LEMMA CheckerTells ==
  ASSUME NEW c \in Class, c_state \in State, ModeStack(c_stack), StateFits(c_state, Last(c_stack)),
         c_call = "ok", c_token = << >>, C!Turn(c), c_depth \in Nat,
         \A a \in ActionAt[c_state][c] : a \in { "soj", "sar" } => Len(c_stack) < c_depth
  PROVE  \/ EmptyCell(c_state, c)
         \/ \E a \in ActionAt[c_state][c] : CDoes(a)
         \/ \E d \in StateAt[c_state][c] : CMoves(d)
         \/ /\ c_call' = "rejected"
            /\ \E a \in ActionAt[c_state][c] : Last(c_stack) \notin CNeeds(a)
<1> DEFINE Top == Last(c_stack)
           t == Table[c_state][c]
           Goal == \/ \E a \in ActionAt[c_state][c] : CDoes(a)
                   \/ \E d \in StateAt[c_state][c] : CMoves(d)
                   \/ /\ c_call' = "rejected"
                      /\ \E a \in ActionAt[c_state][c] : Last(c_stack) \notin CNeeds(a)
<1> SUFFICES ASSUME ~ EmptyCell(c_state, c) PROVE Goal
  OBVIOUS
<1>1. /\ C!Table = Table /\ C!Top = Top /\ C!Front(c_stack) = Front(c_stack) /\ Top \in Modes
      /\ C!Number = Number /\ C!State = State
  BY SameTable, SameEnds, SameWords, TopMode DEF C!Top
<1>2. \/ t \in State /\ Move(c_state, c, t)
      \/ \E a \in ActionAt[c_state][c] : a \in Action /\ Edge(c_state, c, a) /\ t = Coded(a)
  BY CellCases DEF ActionAt
<1>3. ASSUME t \in State, Move(c_state, c, t) PROVE t \in StateAt[c_state][c]
  BY <1>3 DEF StateAt
<1>4. c # "bad"
  BY BadColumn
<1>5. \A x \in { "soj", "sar", "eoj", "noj", "ear", "nxt", "ktv", "eos", "sos" } : x \notin State
  BY DEF State, Between, Literal, Escape, Number, Word
<1> HIDE DEF t, Top, Goal
<1>6. \A s : C!GoesOn(s) => c_call' = "ok" /\ c_state' = s
  BY DEF C!GoesOn
<1>7. /\ C!Resets => c_token' = << >>
      /\ C!EndsNumberOnly => c_token' = << >>
      /\ C!Rejects => c_call' = "rejected"
  BY DEF C!Resets, C!EndsNumberOnly, C!Rejects
<1>8. \A type, x : C!Ev(type, x).type = type /\ C!Permitive(type).type = type
  BY DEF C!Ev, C!Permitive
<1>9. ASSUME NEW a \in ActionAt[c_state][c], CDoes(a) PROVE Goal
  BY <1>9 DEF Goal
<1>10. ASSUME NEW a \in ActionAt[c_state][c], c_call' = "rejected", Top \notin CNeeds(a) PROVE Goal
  BY <1>10 DEF Goal, Top
<1>11. ASSUME NEW a, NEW s, a \in ActionAt[c_state][c], Top \in CNeeds(a), C!GoesOn(s), c_token' = << >>,
              c_stack' = After(a, c_stack), s = Leads(a, Last(c_stack')), Spoken(c_out', Says(a, Top))
       PROVE  Goal
  BY <1>6, <1>9, <1>11 DEF CDoes, Top
<1>12. CASE C!NextChar(c)
  <2>1. /\ t \in State /\ ~ (c_state \in Number /\ t \notin Number)
        /\ ~ (c_state \in { "n03", "tr3", "fe4" } /\ t = "ok")
        /\ c_out' = << >> /\ C!GoesOn(t) /\ c_stack' = c_stack /\ c_token' = << >>
    BY <1>1, <1>12 DEF C!NextChar, t
  <2>2. CASE Move(c_state, c, t)
    <3>1. t \in StateAt[c_state][c]
      BY <1>3, <2>1, <2>2
    <3>2. CMoves(t)
      BY <1>6, <2>1, Speaking DEF CMoves
    <3> QED
      BY <3>1, <3>2 DEF Goal
  <2>3. ASSUME NEW a \in ActionAt[c_state][c], a \in Action, Edge(c_state, c, a), t = Coded(a)
        PROVE  Goal
    <3>1. t \in { "ok", "esp", "str" }
      BY <1>5, <2>1, <2>3, Codes
    <3>2. t # "ok"
      <4>1. t = "ok" => a \in { "eon", "nul", "tru", "fls" }
        BY <2>3, Codes
      <4>2. a = "eon" => c_state \in Number
        BY <2>3, EdgeRegions
      <4>3. a \in { "nul", "tru", "fls" } => c_state \in { "n03", "tr3", "fe4" }
        BY <2>3 DEF Edge
      <4> QED
        BY <2>1, <4>1, <4>2, <4>3 DEF Number
    <3>3. (a = "sep" /\ t = "esp") \/ (a = "eep" /\ t = "str")
      BY <2>3, <3>1, <3>2, Codes
    <3>4. /\ t = Leads(a, Last(c_stack')) /\ After(a, c_stack) = c_stack
          /\ Says(a, Top) = << >> /\ Top \in CNeeds(a)
      BY <1>1, <3>3 DEF Leads, Dest, After, Says, CNeeds, Needs
    <3> QED
      BY <1>11, <2>1, <2>3, <3>4, Speaking
  <2> QED
    BY <1>2, <2>2, <2>3
<1>13. CASE C!EndNumber(c)
  <2>1. /\ c_state \in Number /\ t = "ok" /\ c_out' \in C!NumberFirst
        /\ C!GoesOn("ok") /\ c_stack' = c_stack /\ c_token' = << >>
    BY <1>1, <1>7, <1>13 DEF C!EndNumber, t
  <2>2. ~ Move(c_state, c, t)
    BY <2>1, MoveRegions DEF Number
  <2>3. PICK a \in ActionAt[c_state][c] : a \in Action /\ Edge(c_state, c, a) /\ t = Coded(a)
    BY <1>2, <2>2
  <2>4. a = "eon"
    <3>1. a \in { "eon", "nul", "tru", "fls" }
      BY <2>1, <2>3, Codes
    <3>2. c_state \notin Word
      BY <2>1 DEF Number, Word
    <3> QED
      BY <2>3, <3>1, <3>2, EdgeModes
  <2>5. Spoken(c_out', << "JSON_number" >>)
    BY <1>8, <2>1, NumberCalls, Speaking
  <2>6. /\ "ok" = Leads(a, Last(c_stack')) /\ After(a, c_stack) = c_stack
        /\ Says(a, Top) = << "JSON_number" >> /\ Top \in CNeeds(a)
    BY <1>1, <2>4 DEF Leads, Dest, After, Says, CNeeds, Needs
  <2> QED
    BY <1>11, <2>1, <2>5, <2>6
<1>14. CASE C!EndWord(c)
  <2>1. /\ c_state \in { "n03", "tr3", "fe4" } /\ t = "ok"
        /\ c_out' = << C!Permitive(C!WordEvent[c_state]) >>
        /\ C!GoesOn("ok") /\ c_stack' = c_stack /\ c_token' = << >>
    BY <1>1, <1>7, <1>14 DEF C!EndWord, C!WordEvent, t
  <2>2. ~ Move(c_state, c, t)
    BY <2>1, MoveModes DEF Word
  <2>3. PICK a \in ActionAt[c_state][c] : a \in Action /\ Edge(c_state, c, a) /\ t = Coded(a)
    BY <1>2, <2>2
  <2>4. a \in { "nul", "tru", "fls" }
    <3>1. a \in { "eon", "nul", "tru", "fls" }
      BY <2>1, <2>3, Codes
    <3> QED
      BY <2>1, <2>3, <3>1, EdgeRegions DEF Number
  <2>5. Says(a, Top) = << C!WordEvent[c_state] >>
    BY <2>1, <2>3, <2>4 DEF Edge, Says, C!WordEvent
  <2>6. Spoken(c_out', Says(a, Top))
    BY <1>8, <2>1, <2>5, Speaking
  <2>7. "ok" = Leads(a, Last(c_stack')) /\ After(a, c_stack) = c_stack /\ Top \in CNeeds(a)
    BY <1>1, <2>4 DEF Leads, Dest, After, CNeeds, Needs
  <2> QED
    BY <1>11, <2>1, <2>6, <2>7
<1>15. CASE C!CloseContainer(c)
  <2> DEFINE m == C!ClosedBy[t].mode
             w == C!ClosedBy[t].type
  <2>1. /\ t \in { "noj", "eoj", "ear" }
        /\ \E n \in C!NumberFirst : c_out' = Append(n, C!Permitive(w))
        /\ c_token' = << >>
        /\ \/ Top = m /\ c_stack' = Front(c_stack) /\ C!GoesOn("ok")
           \/ Top # m /\ c_call' = "rejected"
    BY <1>1, <1>7, <1>15 DEF C!CloseContainer, C!ClosedBy, t
  <2>2. PICK a \in ActionAt[c_state][c] : a \in Action /\ Edge(c_state, c, a) /\ t = Coded(a)
    BY <1>2, <1>5, <2>1
  <2>3. \/ a \in { "eoj", "noj", "ear" } /\ a = t /\ c_state \notin Number
        \/ ((a = "enj" /\ t = "eoj") \/ (a = "ena" /\ t = "ear")) /\ c_state \in Number
    <3>1. \/ a = t /\ a \in { "eoj", "noj", "ear" }
          \/ a = "enj" /\ t = "eoj"
          \/ a = "ena" /\ t = "ear"
      BY <2>1, <2>2, Codes
    <3> QED
      BY <2>2, <3>1, EdgeRegions DEF Literal
  <2>4. Says(a, Top) = IF c_state \in Number THEN << "JSON_number", w >> ELSE << w >>
    BY <2>3 DEF Says, C!ClosedBy
  <2>5. After(a, c_stack) = Front(c_stack) /\ (Top \in CNeeds(a) <=> Top = m) /\ Leads(a, Last(c_stack')) = "ok"
    BY <2>3 DEF After, CNeeds, Needs, C!ClosedBy, Leads, Dest
  <2> HIDE DEF m, w
  <2>6. Spoken(c_out', Says(a, Top))
    <3>1. PICK n \in C!NumberFirst : c_out' = Append(n, C!Permitive(w))
      BY <2>1
    <3> DEFINE f == C!Permitive(w)
    <3>2. f.type = w
      BY <1>8
    <3>3. CASE c_state \notin Number
      <4>1. n = << >>
        BY <3>3, NumberCalls
      <4> HIDE DEF f
      <4>2. Append(<< >>, f) = << f >>
        BY ShortAppends
      <4>3. c_out' = << f >>
        BY <3>1, <4>1, <4>2 DEF f
      <4> QED
        BY <2>4, <3>2, <3>3, <4>3, Speaking
    <3>4. CASE c_state \in Number
      <4>1. PICK x : n = << C!Ev("JSON_number", x) >>
        BY <3>4, NumberCalls
      <4> DEFINE e == C!Ev("JSON_number", x)
      <4>2. e.type = "JSON_number" /\ n = << e >>
        BY <1>8, <4>1
      <4> HIDE DEF e, f
      <4>3. Append(<< e >>, f) = << e, f >>
        BY ShortAppends
      <4>4. c_out' = << e, f >>
        BY <3>1, <4>2, <4>3 DEF f
      <4> QED
        BY <2>4, <3>2, <3>4, <4>2, <4>4, Speaking
    <3> QED
      BY <3>3, <3>4
  <2> QED
    BY <1>10, <1>11, <2>1, <2>5, <2>6
<1>16. CASE C!OpenContainer(c)
  <2>1. PICK a \in { "soj", "sar" } :
          /\ t = a
          /\ \/ a = "soj" /\ c_out' = << C!Permitive("JSON_object_start") >> /\ C!Pushes("key", "obj")
             \/ a = "sar" /\ c_out' = << C!Permitive("JSON_array_start") >> /\ C!Pushes("array", "arr")
    BY <1>1, <1>16 DEF C!OpenContainer, t
  <2>2. PICK b \in ActionAt[c_state][c] : b \in Action /\ t = Coded(b)
    BY <1>2, <1>5, <2>1
  <2>3. a = b
    BY <2>1, <2>2, Codes
  <2>4. Len(c_stack) < c_depth /\ Len(c_stack) \in Nat /\ c_depth \in Nat
    BY <2>2, <2>3, TopMode
  <2>5. c_token' = << >>
    BY <1>7, <1>16 DEF C!OpenContainer
  <2>6. CASE a = "soj"
    <3>1. /\ c_out' = << C!Permitive("JSON_object_start") >>
          /\ c_stack' = Append(c_stack, "key") /\ C!GoesOn("obj")
      <4>1. C!Pushes("key", "obj") => \/ c_stack' = Append(c_stack, "key") /\ C!GoesOn("obj")
                                      \/ Len(c_stack) >= c_depth
        BY DEF C!Pushes
      <4> QED
        BY <2>1, <2>4, <2>6, <4>1
    <3>2. /\ After(a, c_stack) = Append(c_stack, "key") /\ "obj" = Leads(a, Last(c_stack'))
          /\ Says(a, Top) = << "JSON_object_start" >> /\ Top \in CNeeds(a)
      BY <1>1, <2>6 DEF After, Leads, Dest, Says, CNeeds, Needs
    <3> QED
      BY <1>8, <1>11, <2>2, <2>3, <2>5, <3>1, <3>2, Speaking
  <2>7. CASE a = "sar"
    <3>1. /\ c_out' = << C!Permitive("JSON_array_start") >>
          /\ c_stack' = Append(c_stack, "array") /\ C!GoesOn("arr")
      <4>1. C!Pushes("array", "arr") => \/ c_stack' = Append(c_stack, "array") /\ C!GoesOn("arr")
                                        \/ Len(c_stack) >= c_depth
        BY DEF C!Pushes
      <4> QED
        BY <2>1, <2>4, <2>7, <4>1
    <3>2. /\ After(a, c_stack) = Append(c_stack, "array") /\ "arr" = Leads(a, Last(c_stack'))
          /\ Says(a, Top) = << "JSON_array_start" >> /\ Top \in CNeeds(a)
      BY <1>1, <2>7 DEF After, Leads, Dest, Says, CNeeds, Needs
    <3> QED
      BY <1>8, <1>11, <2>2, <2>3, <2>5, <3>1, <3>2, Speaking
  <2> QED
    BY <2>6, <2>7
<1>17. CASE C!EndString(c)
  <2>1. t = "eos" /\ c_stack' = c_stack
    BY <1>1, <1>17 DEF C!EndString, t
  <2>2. PICK a \in ActionAt[c_state][c] : a \in Action /\ Edge(c_state, c, a) /\ t = Coded(a)
    BY <1>2, <1>5, <2>1
  <2>3. a = "eos" /\ c_state = "str"
    BY <2>1, <2>2, Codes, EdgeRegions
  <2>4. Top # "done"
    BY <2>3 DEF StateFits, Top
  <2>5. After(a, c_stack) = c_stack /\ Top \in CNeeds(a)
    BY <1>1, <2>3, <2>4 DEF After, CNeeds
  <2>6. CASE Top = "key"
    <3>1. \E x : c_out' = << C!Ev("JSON_object_key", x) >>
      BY <1>1, <1>17, <2>6 DEF C!EndString
    <3>2. C!GoesOn("col") /\ c_token' = << >>
      BY <1>1, <1>7, <1>17, <2>6 DEF C!EndString
    <3>3. "col" = Leads(a, Last(c_stack')) /\ Says(a, Top) = << "JSON_object_key" >>
      BY <2>1, <2>3, <2>6 DEF Leads, Dest, Says, Top
    <3> QED
      BY <1>8, <1>11, <2>1, <2>5, <3>1, <3>2, <3>3, Speaking
  <2>7. CASE Top # "key"
    <3>1. \E x : c_out' = << C!Ev("JSON_string", x) >>
      BY <1>1, <1>17, <2>4, <2>7 DEF C!EndString
    <3>2. C!GoesOn("ok") /\ c_token' = << >>
      BY <1>1, <1>7, <1>17, <2>4, <2>7 DEF C!EndString
    <3>3. "ok" = Leads(a, Last(c_stack')) /\ Says(a, Top) = << "JSON_string" >>
      BY <2>1, <2>3, <2>7 DEF Leads, Dest, Says, Top
    <3> QED
      BY <1>8, <1>11, <2>1, <2>5, <3>1, <3>2, <3>3, Speaking
  <2> QED
    BY <2>6, <2>7
<1>18. CASE C!Comma(c)
  <2>1. t = "nxt" /\ c_out' \in C!NumberFirst /\ c_token' = << >>
    BY <1>1, <1>7, <1>18 DEF C!Comma, t
  <2>2. PICK a \in ActionAt[c_state][c] : a \in Action /\ Edge(c_state, c, a) /\ t = Coded(a)
    BY <1>2, <1>5, <2>1
  <2>3. a \in { "nxt", "enx" } /\ (a = "enx" <=> c_state \in Number)
    <3>1. a \in { "nxt", "enx" }
      BY <2>1, <2>2, Codes
    <3> QED
      BY <2>2, <3>1, EdgeRegions DEF Literal
  <2>4. Spoken(c_out', Says(a, Top))
    <3>1. CASE c_state \in Number
      BY <1>8, <2>1, <2>3, <3>1, NumberCalls, Speaking DEF Says
    <3>2. CASE c_state \notin Number
      BY <2>1, <2>3, <3>2, NumberCalls, Speaking DEF Says
    <3> QED
      BY <3>1, <3>2
  <2>5. CASE Top = "object"
    <3>1. c_stack' = Append(Front(c_stack), "key") /\ C!GoesOn("key")
      BY <1>1, <1>18, <2>5 DEF C!Comma
    <3>2. After(a, c_stack) = Append(Front(c_stack), "key") /\ Top \in CNeeds(a)
      BY <1>1, <2>3, <2>5 DEF After, Flip, CNeeds, Top
    <3>3. Last(c_stack') = "key"
      <4>1. ModeStack(Front(c_stack)) /\ Last(Front(c_stack)) # "key"
        BY <2>5, PopMode DEF Top
      <4> QED
        BY <3>1, <4>1, PushMode
    <3>4. "key" = Leads(a, Last(c_stack'))
      BY <2>3, <3>3 DEF Leads
    <3> QED
      BY <1>11, <2>1, <2>4, <3>1, <3>2, <3>4
  <2>6. CASE Top = "array"
    <3>1. c_stack' = c_stack /\ C!GoesOn("val")
      BY <1>1, <1>18, <2>6 DEF C!Comma
    <3>2. After(a, c_stack) = c_stack /\ Top \in CNeeds(a) /\ "val" = Leads(a, Last(c_stack'))
      BY <1>1, <2>3, <2>6, <3>1 DEF After, Flip, CNeeds, Leads, Top
    <3> QED
      BY <1>11, <2>1, <2>4, <3>1, <3>2
  <2>7. CASE Top \in { "key", "done" }
    <3>1. c_call' = "rejected"
      BY <1>1, <1>7, <1>18, <2>7 DEF C!Comma
    <3>2. Top # "key"
      BY <2>2, <2>3, EdgeModes DEF StateFits, Top
    <3>3. Top \notin CNeeds(a)
      BY <2>3, <2>7, <3>2 DEF CNeeds
    <3> QED
      BY <1>10, <3>1, <3>3
  <2> QED
    BY <1>1, <2>5, <2>6, <2>7 DEF Modes
<1>19. CASE C!Colon(c)
  <2>1. t = "ktv" /\ c_out' = << >> /\ c_token' = << >>
    BY <1>1, <1>19 DEF C!Colon, t
  <2>2. PICK a \in ActionAt[c_state][c] : a \in Action /\ t = Coded(a)
    BY <1>2, <1>5, <2>1
  <2>3. a = "ktv"
    BY <2>1, <2>2, Codes
  <2>4. CASE Top = "key"
    <3>1. c_stack' = Append(Front(c_stack), "object") /\ C!GoesOn("val")
      BY <1>1, <1>19, <2>4 DEF C!Colon
    <3>2. /\ After(a, c_stack) = Append(Front(c_stack), "object") /\ Top \in CNeeds(a)
          /\ "val" = Leads(a, Last(c_stack')) /\ Says(a, Top) = << >>
      BY <2>3, <2>4 DEF After, CNeeds, Needs, Leads, Dest, Says
    <3> QED
      BY <1>11, <2>1, <3>1, <3>2, Speaking
  <2>5. CASE Top # "key"
    <3>1. c_call' = "rejected" /\ Top \notin CNeeds(a)
      BY <1>1, <1>7, <1>19, <2>3, <2>5 DEF C!Colon, CNeeds, Needs
    <3> QED
      BY <1>10, <3>1
  <2> QED
    BY <2>4, <2>5
<1>20. CASE C!StartString(c)
  <2>1. t = "sos" /\ c_out' \in C!NumberFirst /\ C!GoesOn("str") /\ c_stack' = c_stack
    BY <1>1, <1>20 DEF C!StartString, t
  <2>2. PICK a \in ActionAt[c_state][c] : a \in Action /\ Edge(c_state, c, a) /\ t = Coded(a)
    BY <1>2, <1>5, <2>1
  <2>3. a = "sos" /\ c_state \notin Number
    BY <2>1, <2>2, Codes, EdgeRegions DEF Literal
  <2>4. c_token' = << >>
    BY <1>1, <1>20, <2>3 DEF C!StartString
  <2>5. /\ After(a, c_stack) = c_stack /\ "str" = Leads(a, Last(c_stack'))
        /\ Says(a, Top) = << >> /\ Top \in CNeeds(a)
    BY <1>1, <2>3 DEF After, Leads, Dest, Says, CNeeds, Needs
  <2>6. c_out' = << >>
    BY <2>1, <2>3, NumberCalls
  <2> QED
    BY <1>11, <2>1, <2>4, <2>5, <2>6, Speaking
<1>21. ~ C!AbortInEmit(c)
  BY DEF C!AbortInEmit, C!EmitMayAbort
<1> QED
  BY <1>4, <1>12, <1>13, <1>14, <1>15, <1>16, <1>17, <1>18, <1>19, <1>20, <1>21 DEF C!Turn

-----------------------------------------------------------------------------
(* The states of the two engines.                                          *)

\* The automaton's state where the checker's is s: behind a comma it takes whatever an array
\* may begin with.
Same(s, top) == IF s = "key" \/ (s = "val" /\ top = "array") THEN "arr" ELSE s

\* Each action leaves a stack of modes, with a mode on top that fits the state it leads to, and
\* leads both engines to the same state.
LEMMA ActionKeepsModes ==
  ASSUME NEW s \in State, NEW c \in Class, NEW a \in ActionAt[s][c], NEW stack, ModeStack(stack),
         StateFits(s, Last(stack)), Last(stack) \in CNeeds(a)
  PROVE  LET after == After(a, stack)
             d == Leads(a, Last(after))
         IN  /\ ModeStack(after) /\ Len(after) <= Len(stack) + 1
             /\ d \in State /\ StateFits(d, Last(after))
             /\ Dest(a, Last(after)) = Same(d, Last(after))
<1> DEFINE Top == Last(stack)
           after == After(a, stack)
           d == Leads(a, Last(after))
           Goal == /\ ModeStack(after) /\ Len(after) <= Len(stack) + 1
                   /\ d \in State /\ StateFits(d, Last(after))
                   /\ Dest(a, Last(after)) = Same(d, Last(after))
<1> SUFFICES Goal
  OBVIOUS
<1>1. a \in Action /\ Edge(s, c, a)
  BY CellHoldsAction
<1>2. Top \in Modes /\ Len(stack) \in Nat
  BY TopMode
<1>3. Top \in CNeeds(a) /\ StateFits(s, Top)
  OBVIOUS
<1>4. \A x \in { "go", "ok", "obj", "key", "col", "val", "arr", "str", "esp" } : x \in State
  BY DEF State, Between, Literal, Escape
<1> HIDE DEF Top, after, d
<1>5. ASSUME NEW t, ModeStack(after), Len(after) <= Len(stack) + 1, Last(after) = t, d = Leads(a, t),
             Leads(a, t) \in State, StateFits(Leads(a, t), t), Dest(a, t) = Same(Leads(a, t), t)
      PROVE  Goal
  BY <1>5
<1> HIDE DEF Goal
<1>6. CASE a \in { "soj", "sar" }
  <2>1. s \in { "go", "val", "arr" }
    BY <1>1, <1>6, EdgeModes
  <2>2. Top # "key"
    BY <1>3, <2>1 DEF StateFits
  <2> DEFINE m == IF a = "soj" THEN "key" ELSE "array"
  <2>3. after = Append(stack, m) /\ m \in { "array", "object", "key" }
    BY <1>6 DEF after, After
  <2>4. ModeStack(after) /\ Last(after) = m /\ Len(after) = Len(stack) + 1
    BY <2>2, <2>3, PushMode DEF Top
  <2>5. Leads(a, m) = IF a = "soj" THEN "obj" ELSE "arr"
    BY <1>6 DEF Leads, Dest
  <2>6. Leads(a, m) \in State /\ StateFits(Leads(a, m), m) /\ Dest(a, m) = Same(Leads(a, m), m)
    BY <1>4, <1>6, <2>5 DEF StateFits, Same, Dest, Number, Word, Escape
  <2>7. Len(after) <= Len(stack) + 1 /\ d = Leads(a, m)
    BY <1>2, <2>4 DEF d
  <2> QED
    BY <1>5, <2>4, <2>6, <2>7
<1>7. CASE a \in { "eoj", "noj", "ear", "enj", "ena" }
  <2>1. Top # "done"
    BY <1>3, <1>7 DEF CNeeds, Needs
  <2>2. after = Front(stack)
    BY <1>7 DEF after, After
  <2> DEFINE m == Last(after)
  <2>3. ModeStack(after) /\ m # "key" /\ Len(after) = Len(stack) - 1
    BY <2>1, <2>2, PopMode DEF Top
  <2> HIDE DEF m
  <2>4. Leads(a, m) = "ok" /\ Dest(a, m) = "ok"
    BY <1>7 DEF Leads, Dest
  <2>5. Leads(a, m) \in State /\ StateFits(Leads(a, m), m) /\ Dest(a, m) = Same(Leads(a, m), m)
    BY <1>4, <2>3, <2>4 DEF StateFits, Same, Number, Word, Escape
  <2>6. Len(after) <= Len(stack) + 1 /\ d = Leads(a, m) /\ Last(after) = m
    BY <1>2, <2>3 DEF d, m
  <2> QED
    BY <1>5, <2>3, <2>5, <2>6
\* A key or a value is popped, and the other pushed.
<1>8. CASE a = "ktv" \/ (a \in { "nxt", "enx" } /\ Top = "object")
  <2>1. Top # "done"
    BY <1>3, <1>8 DEF CNeeds, Needs
  <2> DEFINE m == IF a = "ktv" THEN "object" ELSE "key"
  <2>2. after = Append(Front(stack), m) /\ m \in { "array", "object", "key" }
    BY <1>8 DEF after, After, Flip, Top
  <2>3. ModeStack(Front(stack)) /\ Last(Front(stack)) # "key" /\ Len(Front(stack)) = Len(stack) - 1
    BY <2>1, PopMode DEF Top
  <2>4. ModeStack(after) /\ Last(after) = m /\ Len(after) = Len(Front(stack)) + 1
    BY <2>2, <2>3, PushMode
  <2>5. /\ Leads(a, m) = IF a = "ktv" THEN "val" ELSE "key"
        /\ Dest(a, m) = IF a = "ktv" THEN "val" ELSE "arr"
    BY <1>8 DEF Leads, Dest
  <2>6. Leads(a, m) \in State /\ StateFits(Leads(a, m), m) /\ Dest(a, m) = Same(Leads(a, m), m)
    BY <1>4, <2>5 DEF StateFits, Same, Number, Word, Escape
  <2>7. Len(after) <= Len(stack) + 1 /\ d = Leads(a, m)
    BY <1>2, <2>3, <2>4 DEF d
  <2> QED
    BY <1>5, <2>4, <2>6, <2>7
\* The stack stays as it is.
<1>9. CASE \/ a \in { "nxt", "enx" } /\ Top # "object"
           \/ a \in { "sos", "eos", "sep", "eep", "eon", "nul", "tru", "fls" }
  <2>1. after = stack
    BY <1>9 DEF after, After, Flip, Top
  <2>2. ModeStack(after) /\ Len(after) <= Len(stack) + 1 /\ Last(after) = Top /\ d = Leads(a, Top)
    BY <1>2, <2>1 DEF Top, d
  <2>3. CASE a \in { "nxt", "enx" } /\ Top # "object"
    <3>1. Top = "array"
      <4>1. s \in { "ok" } \cup Number
        BY <1>1, <2>3, EdgeModes, EdgeRegions
      <4>2. Top \notin { "key", "done" }
        BY <1>3, <2>3, <4>1 DEF StateFits, CNeeds
      <4> QED
        BY <1>2, <2>3, <4>2 DEF Modes
    <3>2. Leads(a, Top) = "val" /\ Dest(a, Top) = "arr"
      BY <2>3, <3>1 DEF Leads, Dest
    <3>3. Leads(a, Top) \in State /\ StateFits(Leads(a, Top), Top) /\ Dest(a, Top) = Same(Leads(a, Top), Top)
      BY <1>4, <3>1, <3>2 DEF StateFits, Same, Number, Word, Escape
    <3> QED
      BY <1>5, <2>2, <3>3
  <2>4. CASE a \in { "sos", "sep", "eep" }
    <3>1. s \in { "obj", "key", "val", "arr", "str" } \cup Escape
      BY <1>1, <2>4, EdgeModes, EdgeRegions DEF Escape
    <3>2. Top # "done"
      BY <1>3, <3>1 DEF StateFits
    <3>3. Leads(a, Top) = Dest(a, Top) /\ Dest(a, Top) \in { "str", "esp" }
      BY <2>4 DEF Leads, Dest
    <3>4. Leads(a, Top) \in State /\ StateFits(Leads(a, Top), Top) /\ Dest(a, Top) = Same(Leads(a, Top), Top)
      BY <1>4, <3>2, <3>3 DEF StateFits, Same, Number, Word
    <3> QED
      BY <1>5, <2>2, <3>4
  <2>5. CASE a \in { "eos", "eon", "nul", "tru", "fls" }
    <3>1. Leads(a, Top) = Dest(a, Top) /\ Dest(a, Top) = IF a = "eos" /\ Top = "key" THEN "col" ELSE "ok"
      BY <2>5 DEF Leads, Dest
    <3>2. a # "eos" => Top # "key"
      <4>1. a # "eos" => s \in Number \cup Word
        BY <1>1, <2>5, EdgeModes, EdgeRegions
      <4> QED
        BY <1>3, <4>1 DEF StateFits
    <3>3. Leads(a, Top) \in State /\ StateFits(Leads(a, Top), Top) /\ Dest(a, Top) = Same(Leads(a, Top), Top)
      BY <1>4, <3>1, <3>2 DEF StateFits, Same, Number, Word, Escape
    <3> QED
      BY <1>5, <2>2, <3>3
  <2> QED
    BY <1>9, <2>3, <2>4, <2>5
<1> QED
  BY <1>1, <1>6, <1>7, <1>8, <1>9 DEF Action

\* So does a move, and the automaton makes the same one.
LEMMA MoveKeepsModes ==
  ASSUME NEW s \in State, NEW c \in Class, NEW d \in StateAt[s][c], NEW top \in Modes, StateFits(s, top)
  PROVE  /\ d \in State /\ StateFits(d, top)
         /\ Same(s, top) \in State /\ Same(d, top) \in StateAt[Same(s, top)][c]
<1>1. d \in State /\ Move(s, c, d)
  BY CellHoldsState
<1>2. Same(s, top) \in State /\ Same(d, top) \in State
  BY <1>1 DEF Same, State, Between
<1>3. StateFits(d, top)
  <2>1. CASE s \in Between
    <3>1. d = s \/ (s \in { "val", "arr" } /\ d \in Number \cup Word)
      BY <1>1, <2>1, MoveModes
    <3> QED
      BY <3>1 DEF StateFits, Number, Word, Escape
  <2>2. CASE s \in Word
    <3>1. d \in Word
      BY <1>1, <2>2, MoveModes
    <3> QED
      BY <2>2, <3>1 DEF StateFits, Number, Word, Escape
  <2>3. CASE s \in Number
    <3>1. d \in Number
      BY <1>1, <2>3, MoveRegions
    <3> QED
      BY <2>3, <3>1 DEF StateFits, Number, Word, Escape
  <2>4. CASE s \in { "str" } \cup Escape
    <3>1. d \in { "str" } \cup Escape
      BY <1>1, <2>4, MoveRegions
    <3> QED
      BY <2>4, <3>1 DEF StateFits, Number, Word, Escape
  <2> QED
    BY <2>1, <2>2, <2>3, <2>4 DEF State, Literal
<1>4. Move(Same(s, top), c, Same(d, top))
  <2>1. CASE s = "key" \/ (s = "val" /\ top = "array")
    <3>1. Same(s, top) = "arr"
      BY <2>1 DEF Same
    <3>2. CASE d = s
      <4>1. c \in Blank
        BY <1>1, <2>1, <3>2 DEF Move
      <4> QED
        BY <2>1, <3>1, <3>2, <4>1 DEF Move, Same, Between
    <3>3. CASE d # s
      <4>1. s = "val" /\ d \in Number \cup Word
        BY <1>1, <2>1, <3>3, MoveModes DEF Between
      <4>2. Same(d, top) = d
        BY <4>1 DEF Same, Number, Word
      <4>3. Move("arr", c, d)
        BY <1>1, <3>3, <4>1 DEF Move
      <4> QED
        BY <3>1, <4>2, <4>3
    <3> QED
      BY <3>2, <3>3
  <2>2. CASE ~ (s = "key" \/ (s = "val" /\ top = "array"))
    <3>1. Same(s, top) = s
      BY <2>2 DEF Same
    <3>2. Same(d, top) = d
      <4>1. CASE d = s
        BY <3>1, <4>1
      <4>2. CASE d # s
        <5>1. d \in Number \cup Word \cup Literal
          BY <1>1, <4>2, MoveModes DEF State
        <5> QED
          BY <5>1 DEF Same, Number, Word, Literal, Escape
      <4> QED
        BY <4>1, <4>2
    <3> QED
      BY <1>1, <3>1, <3>2
  <2> QED
    BY <2>1, <2>2
<1> QED
  BY <1>2, <1>3, <1>4, <1>1 DEF StateAt

\* Whatever action the checker finds, the automaton finds too.
LEMMA ActionAlike ==
  ASSUME NEW s \in State, NEW c \in Class, NEW a \in ActionAt[s][c], NEW top
  PROVE  Same(s, top) \in State /\ a \in ActionAt[Same(s, top)][c]
<1>1. a \in Action /\ Edge(s, c, a)
  BY CellHoldsAction
<1>2. Same(s, top) \in State
  BY DEF Same, State, Between
<1>3. s \in { "key", "val" } => Edge("arr", c, a)
  BY <1>1 DEF Edge, Ripe
<1> QED
  BY <1>1, <1>2, <1>3 DEF Same, ActionAt

-----------------------------------------------------------------------------
(* A character read by both.                                               *)

\* The checker's modes are in order, and no piece of a literal was saved.
InOrder == /\ c_state \in State /\ ModeStack(c_stack) /\ StateFits(c_state, Last(c_stack))
           /\ c_token = << >>

\* The automaton is where the checker is.
Alike == /\ a_stack = c_stack /\ a_state = Same(c_state, Last(c_stack))
         /\ TokenFits

\* The stack has room for a bracket that opens.
Room(c) == \A a \in ActionAt[c_state][c] : a \in { "soj", "sar" } => Len(c_stack) < c_depth

\* A checker that goes on stays in order.
LEMMA StaysInOrder ==
  ASSUME NEW c \in Class, InOrder,
         \/ \E a \in ActionAt[c_state][c] : CDoes(a)
         \/ \E d \in StateAt[c_state][c] : CMoves(d)
  PROVE  InOrder' /\ Len(c_stack') <= Len(c_stack) + 1
<1>1. ASSUME NEW a \in ActionAt[c_state][c], CDoes(a)
      PROVE  InOrder' /\ Len(c_stack') <= Len(c_stack) + 1
  <2>1. /\ Last(c_stack) \in CNeeds(a) /\ c_stack' = After(a, c_stack) /\ c_token' = << >>
        /\ c_state' = Leads(a, Last(c_stack'))
    BY <1>1 DEF CDoes
  <2>2. /\ ModeStack(c_stack') /\ Len(c_stack') <= Len(c_stack) + 1
        /\ c_state' \in State /\ StateFits(c_state', Last(c_stack'))
    BY <2>1, ActionKeepsModes DEF InOrder
  <2> QED
    BY <2>1, <2>2 DEF InOrder
<1>2. ASSUME NEW d \in StateAt[c_state][c], CMoves(d)
      PROVE  InOrder' /\ Len(c_stack') <= Len(c_stack) + 1
  <2>1. Last(c_stack) \in Modes /\ Len(c_stack) \in Nat
    BY TopMode DEF InOrder
  <2>2. d \in State /\ StateFits(d, Last(c_stack))
    BY <2>1, MoveKeepsModes DEF InOrder
  <2> QED
    BY <1>2, <2>1, <2>2 DEF InOrder, CMoves
<1> QED
  BY <1>1, <1>2

\* Where the checker goes on, the automaton goes along and tells the same, or throws at the end of
\* a \uXXXX.
LEMMA GoAlong ==
  ASSUME NEW c \in Class, InOrder, Alike, Cpp!Turn(c),
         \/ \E a \in ActionAt[c_state][c] : CDoes(a)
         \/ \E d \in StateAt[c_state][c] : CMoves(d)
  PROVE  \/ a_call' = "thrown" /\ c_state = "u4"
         \/ a_call' = "parsing" /\ Alike' /\ TellsSame(a_out', c_out')
<1> DEFINE Top == Last(c_stack)
           Goal == \/ a_call' = "thrown" /\ c_state = "u4"
                   \/ a_call' = "parsing" /\ Alike' /\ TellsSame(a_out', c_out')
<1> SUFFICES Goal
  OBVIOUS
<1>1. a_stack = c_stack /\ a_state = Same(c_state, Top) /\ TokenFits /\ Top \in Modes
  BY TopMode DEF Alike, InOrder
<1>2. a_state \in State /\ (a_state = "u4" => c_state = "u4")
  BY <1>1 DEF Same, InOrder, State, Between
<1>3. \/ /\ TokenFits'
         /\ \/ \E a \in ActionAt[a_state][c] : CppDoes(a)
            \/ \E d \in StateAt[a_state][c] : CppMoves(d)
      \/ /\ a_call' = "thrown"
         /\ \/ \E a \in ActionAt[a_state][c] : Top \notin Needs(a)
            \/ a_state = "u4"
            \/ EmptyCell(a_state, c)
  <2>1. ModeStack(a_stack)
    BY <1>1 DEF InOrder
  <2> QED
    BY <1>1, <1>2, <2>1, CppTells
<1>4. ASSUME NEW a \in ActionAt[c_state][c], CDoes(a) PROVE Goal
  <2>1. a \in ActionAt[a_state][c]
    BY <1>1, ActionAlike DEF InOrder
  <2>2. ~ EmptyCell(a_state, c) /\ StateAt[a_state][c] = {}
    BY <1>2, <2>1, CellsAreSingle DEF EmptyCell
  <2>3. \A b \in ActionAt[a_state][c] : b = a
    BY <1>2, <2>1, OneAction
  <2>4. Top \in CNeeds(a) /\ Top \in Needs(a)
    BY <1>1, <1>4 DEF CDoes, CNeeds, Needs
  <2>5. CASE TokenFits' /\ CppDoes(a)
    <3>1. /\ a_call' = "parsing" /\ a_stack' = After(a, c_stack) /\ a_state' = Dest(a, Last(a_stack'))
          /\ Heard(a_out', Says(a, Top))
      BY <1>1, <2>5 DEF CppDoes
    <3>2. /\ c_stack' = After(a, c_stack) /\ c_state' = Leads(a, Last(c_stack'))
          /\ Spoken(c_out', Says(a, Top))
      BY <1>4 DEF CDoes
    <3>3. Dest(a, Last(c_stack')) = Same(c_state', Last(c_stack'))
      BY <2>4, <3>2, ActionKeepsModes DEF InOrder
    <3>4. Alike'
      BY <2>5, <3>1, <3>2, <3>3 DEF Alike
    <3>5. TellsSame(a_out', c_out')
      BY <3>1, <3>2 DEF Heard
    <3> QED
      BY <3>1, <3>4, <3>5
  <2> HIDE DEF Goal
  <2>6. CASE a_call' = "thrown" /\ a_state = "u4"
    BY <1>2, <2>6 DEF Goal
  <2> QED
    BY <1>3, <2>2, <2>3, <2>4, <2>5, <2>6
<1>5. ASSUME NEW d \in StateAt[c_state][c], CMoves(d) PROVE Goal
  <2>1. /\ d \in State /\ StateFits(d, Top)
        /\ Same(d, Top) \in StateAt[a_state][c]
    BY <1>1, MoveKeepsModes DEF InOrder
  <2>2. ActionAt[a_state][c] = {} /\ ~ EmptyCell(a_state, c)
    BY <1>2, <2>1, CellsAreSingle DEF EmptyCell
  <2>3. \A e \in StateAt[a_state][c] : e = Same(d, Top)
    BY <1>2, <2>1, CellsAreSingle
  <2>4. CASE TokenFits' /\ CppMoves(Same(d, Top))
    <3>1. /\ a_call' = "parsing" /\ a_stack' = c_stack /\ a_state' = Same(d, Top)
          /\ Heard(a_out', << >>)
      BY <1>1, <2>4 DEF CppMoves
    <3>2. c_stack' = c_stack /\ c_state' = d /\ Spoken(c_out', << >>)
      BY <1>5 DEF CMoves
    <3>3. Alike'
      BY <2>4, <3>1, <3>2 DEF Alike
    <3>4. TellsSame(a_out', c_out')
      BY <3>1, <3>2 DEF Heard
    <3> QED
      BY <3>1, <3>3, <3>4
  <2> HIDE DEF Goal
  <2>5. CASE a_call' = "thrown" /\ a_state = "u4"
    BY <1>2, <2>5 DEF Goal
  <2> QED
    BY <1>3, <2>2, <2>3, <2>4, <2>5
<1> QED
  BY <1>4, <1>5

\* Where the checker stops, the automaton throws, unless commas are concerned.
LEMMA StopAlike ==
  ASSUME NEW c \in Class, InOrder, Alike, Cpp!Turn(c),
         \/ EmptyCell(c_state, c)
         \/ \E a \in ActionAt[c_state][c] : Last(c_stack) \notin CNeeds(a)
  PROVE  a_call' = "thrown" \/ (a_call' = "parsing" /\ (AfterComma \/ (Accepted /\ c = "comma")))
<1> DEFINE Top == Last(c_stack)
<1>1. a_stack = c_stack /\ a_state = Same(c_state, Top) /\ TokenFits /\ Top \in Modes
  BY TopMode DEF Alike, InOrder
<1>2. a_state \in State
  BY <1>1 DEF Same, InOrder, State, Between
<1>3. \/ a_call' = "thrown"
      \/ \E a \in ActionAt[a_state][c] : CppDoes(a)
      \/ \E d \in StateAt[a_state][c] : CppMoves(d)
  <2>1. ModeStack(a_stack)
    BY <1>1 DEF InOrder
  <2> QED
    BY <1>1, <1>2, <2>1, CppTells
<1>4. a_call' \in { "thrown", "parsing" }
  BY <1>3 DEF CppDoes, CppMoves
<1>5. CASE EmptyCell(c_state, c)
  <2>1. CASE AfterComma
    BY <1>4, <2>1
  <2>2. CASE ~ AfterComma
    <3>1. a_state = c_state
      BY <1>1, <2>2 DEF AfterComma, Same
    <3> QED
      BY <1>3, <1>5, <3>1 DEF EmptyCell
  <2> QED
    BY <2>1, <2>2
<1>6. ASSUME NEW a \in ActionAt[c_state][c], Top \notin CNeeds(a)
      PROVE  a_call' = "thrown" \/ (a_call' = "parsing" /\ Accepted /\ c = "comma")
  <2>1. a \in ActionAt[a_state][c]
    BY <1>1, ActionAlike DEF InOrder
  <2>2. StateAt[a_state][c] = {} /\ \A b \in ActionAt[a_state][c] : b = a
    BY <1>2, <2>1, CellsAreSingle, OneAction
  <2>3. a \in Action /\ Edge(c_state, c, a)
    BY <1>6, CellHoldsAction DEF InOrder
  <2>4. CASE a \notin { "eos", "nxt", "enx" }
    <3>1. ~ CppDoes(a)
      BY <1>1, <1>6, <2>4 DEF CNeeds, CppDoes
    <3> QED
      BY <1>3, <2>2, <3>1
  <2>5. CASE a \in { "eos", "nxt", "enx" }
    <3>1. Top = "done"
      BY <1>1, <1>6, <2>5 DEF CNeeds
    <3>2. a = "nxt" /\ c_state = "ok"
      <4>1. a = "eos" => c_state = "str"
        BY <2>3, EdgeRegions
      <4>2. a = "enx" => c_state \in Number
        BY <2>3, EdgeRegions
      <4>3. c_state \notin { "str" } \cup Number
        BY <3>1 DEF InOrder, StateFits
      <4> QED
        BY <2>3, <2>5, <4>1, <4>2, <4>3, EdgeModes
    <3>3. c = "comma"
      BY <2>3, <3>2 DEF Edge
    <3>4. c_stack = << "done" >>
      <4>1. c_stack \in Seq(Modes) /\ Len(c_stack) = 1 /\ c_stack[1] = "done"
        <5>1. Len(c_stack) = 1
          BY <3>1, TopMode DEF InOrder
        <5> QED
          BY <5>1 DEF InOrder, ModeStack
      <4> QED
        BY <4>1
    <3> QED
      BY <1>4, <3>2, <3>3, <3>4 DEF Accepted
  <2> QED
    BY <2>4, <2>5
<1> QED
  BY <1>5, <1>6

-----------------------------------------------------------------------------
(* The invariant, and the theorems.                                        *)

\* While the checker reads, its modes are in order and there is room for more; until the automaton
\* has thrown, it is where the checker is.  Nothing has happened before Parse is called.
EnginesInv ==
  /\ a_call \in { "idle", "begun", "parsing", "thrown" }
  /\ a_call = "idle" => CReads /\ c_state = "go" /\ c_out = << >> /\ a_token = Cpp!Clear
  /\ CReads => /\ InOrder /\ c_depth = Ample
               /\ text \in Seq(Class) /\ Len(c_stack) <= Len(text) + 1
  /\ CReads /\ a_call # "thrown" => Alike

\* What a step may do, in the two properties.
Agrees ==
  /\ CReads' => CppReads' \/ a_call = "thrown" \/ c_state = "u4"
  /\ CReads' /\ CppReads' => (Accepted' <=> Cpp!Result' /\ a_state' # "go")
  /\ CppReads' => CReads' \/ AfterComma \/ (Accepted /\ Last(text') = "comma")
Tells == CReads' /\ CppReads' => TellsSame(a_out', c_out')

\* Engines that are at the same place accept the same.
LEMMA AcceptAlike ==
  ASSUME NEW s \in State, NEW stack, ModeStack(stack), StateFits(s, Last(stack))
  PROVE  s = "ok" /\ stack = << "done" >>
           <=> (Len(stack) = 1 /\ Last(stack) = "done") /\ Same(s, Last(stack)) # "go"
<1> DEFINE Top == Last(stack)
<1>1. stack = << "done" >> <=> Len(stack) = 1 /\ Top = "done"
  <2>1. ASSUME Len(stack) = 1, Top = "done" PROVE stack = << "done" >>
    <3>1. stack \in Seq(Modes) /\ stack[1] = "done"
      BY <2>1 DEF ModeStack
    <3> QED
      BY <2>1, <3>1
  <2>2. ASSUME stack = << "done" >> PROVE Len(stack) = 1 /\ Top = "done"
    <3>1. Len(stack) = 1
      BY <2>2
    <3> QED
      BY <3>1, TopMode
  <2> QED
    BY <2>1, <2>2
<1>2. Top = "done" => s \in { "go", "ok" }
  BY DEF StateFits, State, Between, Literal
<1>3. /\ s \in { "go", "ok" } => Same(s, Top) = s
      /\ Same(s, Top) = "go" => s = "go"
  BY DEF Same
<1> QED
  BY <1>1, <1>2, <1>3

\* Both begin at the same place.
LEMMA BeginTogether == Init => EnginesInv
<1> SUFFICES ASSUME Init PROVE EnginesInv
  OBVIOUS
<1>1. /\ a_call = "idle" /\ a_state = "go" /\ a_stack = << "done" >> /\ a_token = Cpp!Clear
      /\ c_call = "ok" /\ c_depth = Ample /\ c_state = "go" /\ c_stack = << "done" >>
      /\ c_token = << >> /\ c_out = << >> /\ misled = FALSE /\ text = << >>
  BY DEF Init, Cpp!Init, C!Init
<1>2. ModeStack(<< "done" >>)
  <2>1. << "done" >> \in Seq(Modes) /\ Len(<< "done" >>) = 1 /\ << "done" >>[1] = "done"
    BY DEF Modes
  <2>2. << "done" >> # << >>
    BY <2>1, EmptySeq
  <2>3. \A j \in 1 .. 1 : j = 1
    OBVIOUS
  <2> QED
    BY <2>1, <2>2, <2>3 DEF ModeStack
<1>3. Len(c_stack) = 1 /\ Last(c_stack) = "done"
  <2>1. Len(c_stack) = 1
    BY <1>1
  <2> QED
    BY <1>1, <1>2, <2>1, TopMode
<1>4. InOrder
  BY <1>1, <1>2, <1>3 DEF InOrder, StateFits, State, Between, Number, Word, Escape
<1>5. Alike
  <2>1. IsToken(Cpp!Clear) /\ Cpp!Clear.saved = FALSE
    BY EmptySeq DEF Cpp!Clear, IsToken
  <2> QED
    BY <1>1, <2>1 DEF Alike, TokenFits, Same, Literal, Escape, Number
<1>6. text \in Seq(Class) /\ Len(c_stack) <= Len(text) + 1
  BY <1>1, <1>3, EmptySeq
<1> QED
  BY <1>1, <1>4, <1>5, <1>6 DEF EnginesInv, CReads

\* The call to Parse changes nothing but that.
LEMMA BeginStep ==
  ASSUME EnginesInv, Begin
  PROVE  EnginesInv' /\ Agrees /\ Tells
<1>1. /\ a_call = "idle" /\ a_call' = "begun" /\ a_out' = << >>
      /\ a_token' = (IF Cpp!IsStashed(a_token) THEN Cpp!Save(a_token) ELSE a_token)
      /\ UNCHANGED <<a_state, a_stack, c_call, c_depth, c_state, c_stack, c_token, c_out, misled, text>>
  BY DEF Begin, Cpp!BeginParse, Cpp!Delivers, chk
<1>2. CReads /\ c_state = "go" /\ c_out = << >> /\ a_token = Cpp!Clear /\ InOrder /\ Alike
  BY <1>1 DEF EnginesInv
<1>3. a_token' = a_token
  BY <1>1, <1>2 DEF Cpp!IsStashed, Cpp!Clear
<1>4. CReads' /\ InOrder' /\ Alike'
  BY <1>1, <1>2, <1>3 DEF CReads, InOrder, Alike, TokenFits
<1>5. EnginesInv'
  BY <1>1, <1>4 DEF EnginesInv
<1>6. CppReads'
  BY <1>1 DEF CppReads
<1>7. (Accepted <=> Cpp!Result /\ a_state # "go")'
  <2>1. ~ Accepted /\ a_state = "go"
    BY <1>2 DEF Accepted, Alike, Same
  <2> QED
    BY <1>1, <2>1 DEF Accepted
<1>8. TellsSame(a_out', c_out')
  BY <1>1, <1>2, FewEvents, Speaking DEF Heard
<1> QED
  BY <1>4, <1>5, <1>6, <1>7, <1>8 DEF Agrees, Tells

\* A character read by the engines keeps them together, or stops one or both.
LEMMA FeedStep ==
  ASSUME EnginesInv, NEW ch \in Class, a_call # "idle", Feed(ch), Room(ch)
  PROVE  EnginesInv' /\ Agrees /\ Tells
<1>1. /\ CReads /\ c_call = "ok" /\ ~ misled /\ C!Turn(ch) /\ c_depth' = c_depth
      /\ misled' = (misled \/ EmptyCell(c_state, ch)) /\ text' = Append(text, ch)
  BY SameTable DEF Feed, CReads, C!Reads, C!Observes
<1>2. /\ InOrder /\ c_depth = Ample /\ c_depth \in Nat
      /\ text \in Seq(Class) /\ Len(c_stack) <= Len(text) + 1
  BY <1>1, TextBounds DEF EnginesInv, Ample
<1>3. \/ EmptyCell(c_state, ch)
      \/ \E a \in ActionAt[c_state][ch] : CDoes(a)
      \/ \E d \in StateAt[c_state][ch] : CMoves(d)
      \/ /\ c_call' = "rejected"
         /\ \E a \in ActionAt[c_state][ch] : Last(c_stack) \notin CNeeds(a)
  BY <1>1, <1>2, CheckerTells DEF InOrder, Room
<1>4. CppReads => Cpp!Turn(ch) /\ Alike
  BY <1>1 DEF Feed, Cpp!Reads, EnginesInv, CppReads
<1>5. ~ CppReads => a_call = "thrown" /\ a_call' = "thrown"
  BY DEF EnginesInv, CppReads, Feed, cpp
<1>6. a_call' = "thrown" => ~ CppReads'
  BY DEF CppReads
<1>7. text' \in Seq(Class) /\ Len(text') = Len(text) + 1 /\ Last(text') = ch
  BY <1>1, <1>2, AppendProperties, LastOfAppend
\* The checker goes on.
<1>8. CASE /\ ~ EmptyCell(c_state, ch)
           /\ \/ \E a \in ActionAt[c_state][ch] : CDoes(a)
              \/ \E d \in StateAt[c_state][ch] : CMoves(d)
  <2>1. CReads'
    BY <1>1, <1>8 DEF CReads, CDoes, CMoves
  <2>2. InOrder' /\ Len(c_stack') <= Len(c_stack) + 1
    BY <1>2, <1>8, StaysInOrder
  <2>3. c_depth' = Ample /\ Len(c_stack') <= Len(text') + 1
    <3>1. Len(c_stack) \in Nat /\ Len(c_stack') \in Nat
      BY <1>2, <2>2, TopMode DEF InOrder
    <3>2. Len(text) \in Nat
      BY <1>2
    <3> QED
      BY <1>1, <1>2, <1>7, <2>2, <3>1, <3>2
  <2>4. \/ a_call' = "thrown" /\ (a_call = "thrown" \/ c_state = "u4")
        \/ a_call' = "parsing" /\ Alike' /\ TellsSame(a_out', c_out')
    BY <1>2, <1>4, <1>5, <1>8, GoAlong
  <2>5. EnginesInv'
    BY <1>7, <2>2, <2>3, <2>4 DEF EnginesInv
  <2>6. Alike' => (Accepted' <=> Cpp!Result' /\ a_state' # "go")
    <3>1. Alike' => a_stack' = c_stack' /\ a_state' = Same(c_state', Last(c_stack'))
      BY DEF Alike
    <3>2. Cpp!Result' <=> Len(a_stack') = 1 /\ Last(a_stack') = "done"
      BY SameEnds DEF Cpp!Result, Cpp!Top
    <3>3. Accepted' <=> c_state' = "ok" /\ c_stack' = << "done" >>
      BY DEF Accepted
    <3>4. c_state' \in State /\ ModeStack(c_stack') /\ StateFits(c_state', Last(c_stack'))
      BY <2>2 DEF InOrder
    <3> QED
      BY <3>1, <3>2, <3>3, <3>4, AcceptAlike
  <2>7. a_call' = "parsing" => CppReads'
    BY DEF CppReads
  <2> QED
    BY <1>6, <2>1, <2>4, <2>5, <2>6, <2>7 DEF Agrees, Tells
\* It stops.
<1>9. CASE \/ EmptyCell(c_state, ch)
           \/ c_call' = "rejected" /\ \E a \in ActionAt[c_state][ch] : Last(c_stack) \notin CNeeds(a)
  <2>1. ~ CReads'
    BY <1>1, <1>9 DEF CReads
  <2>2. \/ a_call' = "thrown"
        \/ a_call' = "parsing" /\ (AfterComma \/ (Accepted /\ ch = "comma"))
    BY <1>2, <1>4, <1>5, <1>9, StopAlike
  <2>3. EnginesInv'
    BY <2>1, <2>2 DEF EnginesInv
  <2> QED
    BY <1>6, <1>7, <2>1, <2>2, <2>3 DEF Agrees, Tells
<1> QED
  BY <1>3, <1>8, <1>9

\* Whatever closes what is open opens nothing but the document.
LEMMA FinishStep ==
  ASSUME EnginesInv, a_call # "idle", Finish
  PROVE  EnginesInv' /\ Agrees /\ Tells
<1>1. Feed(Closing) /\ CReads /\ InOrder /\ c_depth = Ample
  BY DEF Finish, Feed, EnginesInv
<1>2. Closing \in Class /\ (Closing \in { "lcurb", "lsqrb" } => c_state = "go")
  BY DEF Closing, Word, Rest, Class
<1>3. Room(Closing)
  <2> SUFFICES ASSUME NEW a \in ActionAt[c_state][Closing], a \in { "soj", "sar" }
               PROVE  Len(c_stack) < c_depth
    BY DEF Room
  <2>1. Closing \in { "lcurb", "lsqrb" }
    <3>1. Edge(c_state, Closing, a)
      BY <1>1, <1>2, CellHoldsAction DEF InOrder
    <3> HIDE DEF Closing
    <3> QED
      BY <3>1 DEF Edge
  <2>2. Len(c_stack) = 1
    BY <1>1, <1>2, <2>1, TopMode DEF InOrder, StateFits
  <2> QED
    BY <1>1, <2>2, TextBounds DEF Ample
<1> QED
  BY <1>1, <1>2, <1>3, FeedStep

\* A character of the text finds room on the stack.
LEMMA ReadStep ==
  ASSUME EnginesInv, a_call # "idle", NEW ch \in Chars, Read(ch)
  PROVE  EnginesInv' /\ Agrees /\ Tells
<1>1. Feed(ch) /\ ch \in Class /\ CReads /\ Len(text) < MaxLength
  BY TextBounds DEF Read, Feed
<1>2. /\ InOrder /\ c_depth = Ample
      /\ text \in Seq(Class) /\ Len(c_stack) <= Len(text) + 1
  BY <1>1 DEF EnginesInv
<1>3. Len(c_stack) < c_depth
  <2>1. Len(c_stack) \in Nat /\ Len(text) \in Nat
    BY <1>2, TopMode DEF InOrder
  <2> QED
    BY <1>1, <1>2, <2>1, TextBounds DEF Ample
<1> QED
  BY <1>1, <1>3, FeedStep DEF Room

\* Every step keeps the invariant and what the two properties say.
LEMMA EnginesStep ==
  ASSUME EnginesInv, [Next]_vars
  PROVE  EnginesInv' /\ [Agrees]_<<cpp, chk>> /\ [Tells]_<<cpp, chk>>
<1>1. CASE Next
  BY <1>1, BeginStep, FinishStep, ReadStep DEF Next
<1>2. CASE UNCHANGED vars
  <2>1. EnginesInv'
    BY <1>2 DEF vars, cpp, chk, EnginesInv, CReads, InOrder, Alike, TokenFits
  <2> QED
    BY <1>2, <2>1 DEF vars
<1> QED
  BY <1>1, <1>2

\* The two engines are where each other are for as long as both read, for every alphabet and text.
THEOREM EnginesInvCorrect == Spec => []EnginesInv
<1>1. EnginesInv /\ [Next]_vars => EnginesInv'
  BY EnginesStep
<1> QED
  BY BeginTogether, <1>1, PTL DEF Spec

\* The automaton stops at the character where the checker does, but for the end of a \uXXXX and for
\* commas, and Result() is true where the checker would accept, but for the automaton's first state.
THEOREM AgreementCorrect == Spec => EnginesAgree
<1>1. EnginesInv /\ [Next]_vars => [Agrees]_<<cpp, chk>>
  BY EnginesStep
<1>2. [][Agrees]_<<cpp, chk>> => EnginesAgree
  BY DEF Agrees, EnginesAgree
<1>3. Spec => [][Next]_vars
  BY PTL DEF Spec
<1> QED
  BY EnginesInvCorrect, <1>1, <1>2, <1>3, PTL

\* The callbacks of the two engines are told the same, in the same order and at the same character.
THEOREM SameEventsCorrect == Spec => SameEvents
<1>1. EnginesInv /\ [Next]_vars => [Tells]_<<cpp, chk>>
  BY EnginesStep
<1>2. [][Tells]_<<cpp, chk>> => SameEvents
  BY DEF Tells, SameEvents
<1>3. Spec => [][Next]_vars
  BY PTL DEF Spec
<1> QED
  BY EnginesInvCorrect, <1>1, <1>2, <1>3, PTL
=============================================================================
