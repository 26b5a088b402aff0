------------------------------- MODULE Engines -------------------------------
(***************************************************************************)
(* The two engines of the library side by side: the C++ Automaton and the  *)
(* C checker it descends from read the same text, character by character   *)
(* and in one buffer (JsonChecker and Automaton have the cuts), until the  *)
(* checker has left its table or has rejected the text.                    *)
(*                                                                         *)
(* The caller may decide at any moment to finish the document: to feed     *)
(* from then on what closes what is open, and nothing else.                *)
(***************************************************************************)
EXTENDS Integers, Sequences, SequencesExt, JsonCheckerTable, LexicalCast, JsonText

CONSTANTS
  Chars,       \* the character classes the text is made of
  MaxLength    \* bound of the model: of the text, before the caller finishes it

ASSUME TextBounds == Chars \subseteq Class /\ MaxLength \in Nat

VARIABLES
  a_call, a_state, a_stack, a_token, a_out, a_lit, a_got,
  c_call, c_depth, c_state, c_stack, c_token, c_held, c_out, c_lit, c_owed,
  misled,     \* history: an empty cell of the C table has been taken
  text,       \* history: all the characters
  finishing   \* whether the caller is finishing the document

cpp == <<a_call, a_state, a_stack, a_token, a_out, a_lit, a_got>>
chk == <<c_call, c_depth, c_state, c_stack, c_token, c_held, c_out, c_lit, c_owed, misled>>
vars == <<cpp, chk, text, finishing>>

\* Neither a depth nor a buffer of the checker's, nor a bound of the models, is reached.
Ample == 3 * MaxLength + 10

Cpp == INSTANCE Automaton
         WITH MaxDepth <- Ample, MaxText <- Ample, MaxToken <- Ample, RetryAfterThrow <- FALSE,
              call <- a_call, m_state <- a_state, m_stack <- a_stack, m_token <- a_token,
              out <- a_out, lit <- a_lit, got <- a_got
C == INSTANCE JsonChecker
       WITH Depth <- Ample, TokenSize <- Ample, MaxText <- Ample,
            call <- c_call, depth <- c_depth, state <- c_state, stack <- c_stack,
            token <- c_token, held <- c_held, out <- c_out, lit <- c_lit, owed <- c_owed

CppReads == a_call \in { "begun", "parsing" }
CReads == c_call = "ok" /\ ~ misled

Accepted == c_state = "ok" /\ c_stack = << "done" >>

-----------------------------------------------------------------------------
\* Both engines take the character ch; one that has thrown takes no more.
Feed(ch) ==
  /\ CReads
  /\ IF CppReads THEN Cpp!Reads(ch) ELSE UNCHANGED cpp
  /\ C!Reads(ch)
  /\ text' = Append(text, ch)

Read(ch) == /\ ~ finishing /\ Len(text) < MaxLength
            /\ Feed(ch) /\ UNCHANGED finishing

\* A character that brings what the checker is reading closer to its end.
Rest == [ tr1 |-> "r", tr2 |-> "u", tr3 |-> "e", fe1 |-> "a", fe2 |-> "l", fe3 |-> "s",
           fe4 |-> "e", n01 |-> "u", n02 |-> "l", n03 |-> "l" ]
Closing ==
  CASE c_state \in Word -> Rest[c_state]
    [] c_state = "go" -> "lsqrb"
    [] c_state \in { "str", "key" } -> "quote"
    [] c_state = "esp" -> "n"
    [] c_state = "col" -> "colon"
    [] c_state \in { "val", "mi_", "ex1", "ex2", "u1", "u2", "u3", "u4" } -> "digit"
    [] c_state = "obj" -> "rcurb"
    [] c_state = "arr" -> "rsqrb"
    [] OTHER -> IF Last(c_stack) = "array" THEN "rsqrb" ELSE "rcurb"

Finish == /\ ~ Accepted
          /\ Feed(Closing) /\ finishing' = TRUE

Begin == /\ a_call = "idle"
         /\ Cpp!BeginParse
         /\ UNCHANGED <<chk, text, finishing>>

Init == Cpp!Init /\ C!Init /\ text = << >> /\ finishing = FALSE

Next == Begin \/ (a_call # "idle" /\ (Finish \/ \E ch \in Chars : Read(ch)))

\* A caller who finishes a document goes on until it is complete; one who still reads is
\* not made to finish.
Spec == Init /\ [][Next]_vars /\ WF_vars(a_call # "idle" /\ Finish)

-----------------------------------------------------------------------------
(* Properties.                                                             *)

\* The checker goes on reading exactly the texts that can still become JSON, and is ready
\* to accept exactly those that are JSON; what it reads of others is a string it was misled
\* into.  That is so for an alphabet without zero, minus, point and exponent: the table takes
\* texts such as 1. for numbers.
CheckerKnowsJson ==
  /\ CReads <=> CanBecomeJson(text)
  /\ CReads => (Accepted <=> IsJson(text))

\* The automaton throws at the character where the checker stops, and before it only at
\* the end of a \uXXXX.  It goes on only where commas are concerned: it takes one behind the
\* document, and any value or bracket behind one.  As long as both go on, Result() is true where
\* the checker would accept.  The automaton's first state is left out of that: there Result() is
\* true before there is any text.
AfterComma == c_state = "key" \/ (c_state = "val" /\ Last(c_stack) = "array")
EnginesAgree ==
  [][/\ CReads' => CppReads' \/ a_call = "thrown" \/ c_state = "u4"
     /\ CReads' /\ CppReads' => (Accepted' <=> Cpp!Result' /\ a_state' # "go")
     /\ CppReads' => CReads' \/ AfterComma \/ (Accepted /\ Last(text') = "comma")]_<<cpp, chk>>

\* The checker's word for what the callback of the automaton is told.  Its data, and the
\* start of a literal, come on top.
Told == [ start |-> [object |-> "JSON_object_start", array |-> "JSON_array_start"],
          end |-> [object |-> "JSON_object_end", array |-> "JSON_array_end", key |-> "JSON_object_key",
                   string |-> "JSON_string", number |-> "JSON_number"],
          data |-> [null_value |-> "JSON_null", boolean_true |-> "JSON_true",
                    boolean_false |-> "JSON_false"] ]
InWords(events) == { i \in DOMAIN events : events[i].type \in DOMAIN Told[events[i].ev] }

\* The words are those of the events, one for one and in the same order.
TellsSame(events, words) ==
  \E at \in [DOMAIN words -> InWords(events)] :
    /\ \A m, n \in DOMAIN words : m < n => at[m] < at[n]
    /\ \A i \in InWords(events) : \E n \in DOMAIN words : at[n] = i
    /\ \A n \in DOMAIN words : words[n].type = Told[events[at[n]].ev][events[at[n]].type]

\* As long as both engines read on, their callbacks are told the same, at the same
\* characters.
SameEvents == [][CReads' /\ CppReads' => TellsSame(a_out', c_out')]_<<cpp, chk>>

\* Of every key, string and number the automaton delivers the text that Unescape makes
\* of the checker's, escapes that Unescape does not know (see LexicalCast) aside.  A text of no
\* characters is a null pointer from the checker.
Decodable(t) == LET q == << "quote" >> \o t IN
                \A n \in DOMAIN q : Escaped(q, 1, n) => q[n] \in DOMAIN Decoded
Meant(e) == IF e.text = C!Garbage THEN << >>
            ELSE IF e.type = "JSON_number" THEN e.text ELSE Unescape(e.text)
SameText ==
  [][CReads' /\ CppReads' /\ c_out' # << >> /\ c_out'[1].type \in C!KeyOrText
       /\ Decodable(c_out'[1].text)
     => a_got \o Cpp!Flushed(a_out') = Meant(c_out'[1])]_<<cpp, chk>>

\* A document its caller finishes is accepted, by both unless the automaton has thrown
\* before: no state of the engines is a dead end from which the text cannot be completed.
FinishedIsAccepted == finishing ~> Accepted /\ (CppReads => Cpp!Result /\ a_state = "ok")
=============================================================================
