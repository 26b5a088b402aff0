----------------------------- MODULE JsonChecker -----------------------------
(***************************************************************************)
(* The C checker of src/src/JSON_checker.c, which JsonParser drives, one   *)
(* step per character of the loop of JSON_checker_char.                    *)
(*                                                                         *)
(* token->start points into the caller's buffer and jc->token keeps what   *)
(* earlier calls saved: here held is the text from token->start to the     *)
(* current character (<<>> when token->start is 0), and token the first    *)
(* token_len characters of jc->token.  stack has top + 1 modes.            *)
(*                                                                         *)
(* The states and classes are those of AutomatonTable: GO is "go", MI is   *)
(* "mi_" and so on, and the actions -1 .. -9 have the C++ actions' names.  *)
(***************************************************************************)
EXTENDS Integers, Sequences, SequencesExt, JsonCheckerTable

CONSTANTS
  Chars,       \* the character classes the input is made of
  Depth,       \* the argument of new_JSON_checker
  TokenSize,   \* sizeof(jc->token): 1024 in the code
  MaxText      \* bound of the model: length of a literal (the code has none)

ASSUME CheckerChars == Chars \subseteq Class
ASSUME CheckerBounds == Depth \in Nat \ {0} /\ TokenSize \in Nat \ {0} /\ MaxText \in Nat

VARIABLES
  call,     \* what became of the checker
  depth,    \* jc->depth, which JsonParser::Done changes
  state, stack, token, held,
  out,      \* the calls of cb in the last step, in order
  lit,      \* history: the characters of the open literal
  owed,     \* history: a key has been delivered, and its value has not begun
  misled    \* history: an empty cell of the table has been taken

jc == <<depth, state, stack, token, held>>
vars == <<call, jc, out, lit, owed, misled>>

Call == { "ok",                     \* the calls so far returned true
          "rejected",               \* deleted, and false was returned
          "deleted",                \* deleted, but true was returned
          "overrun",                \* memory behind jc->token was overwritten
          "aborted",                \* the assertion of emit_token failed
          "accepted", "refused" }   \* JSON_checker_done returned
Mode == { "array", "done", "key", "object" }
Top == Last(stack)

-----------------------------------------------------------------------------
(* The events.                                                             *)

Ev(t, s) == [type |-> t, text |-> s]

\* A length computed from a null token->start: the low bits of an address.
Garbage == << "garbage" >>

\* emit_token: the texts cb may be given.  What an earlier call saved is left out
\* when it does not fit with the rest; without a token->start the length is whatever
\* the address of the character gives, and data is 0.
Emitted ==
  IF held # << >>
  THEN { IF token # << >> /\ TokenSize - Len(token) > Len(held) THEN token \o held ELSE held }
  ELSE { Garbage } \cup (IF token = << >> THEN { << >> } ELSE {})

\* assert(token->start != 0), when that length happens to be small enough.
EmitMayAbort == held = << >> /\ token # << >> /\ TokenSize > Len(token)

\* detect_state, when the character ends a number.
NumberFirst == IF state \in Number THEN { << Ev("JSON_number", t) >> : t \in Emitted } ELSE { << >> }

\* emit_permitive, which gives cb the address 0 minus token->start as a length.
Permitive(type) == Ev(type, IF held = << >> \/ state \in Number THEN << >> ELSE Garbage)

\* Bug for a mutant: the length of the saved text is not reset.
ForgetsOnlyStart == UNCHANGED token /\ held' = << >>

\* The reset at the end of emit_token.
Resets == token' = << >> /\ held' = << >>

Rejects == call' = "rejected" /\ UNCHANGED <<state, stack>>
GoesOn(s) == state' = s /\ UNCHANGED call

-----------------------------------------------------------------------------
(* One turn of the loop of JSON_checker_char on the character c.           *)

\* The next state is a state, and no token ends: save_char may set token->start.
NextChar(c) ==
  /\ Table[state][c] \in State
  /\ ~ (state \in Number /\ Table[state][c] \notin Number)
  /\ ~ (state \in { "n03", "tr3", "fe4" } /\ Table[state][c] = "ok")
  /\ held' = IF Table[state][c] \in Literal \/ held # << >> THEN Append(held, c) ELSE held
  /\ out' = << >>
  /\ GoesOn(Table[state][c])
  /\ UNCHANGED <<stack, token>>

\* detect_state: a blank ends a number.
EndNumber(c) ==
  /\ state \in Number /\ Table[state][c] = "ok"
  /\ out' \in NumberFirst
  /\ Resets
  /\ GoesOn("ok")
  /\ UNCHANGED stack

\* detect_state: null, true and false end at their last letter.
WordEvent == [ s \in { "n03", "tr3", "fe4" } |->
                 CASE s = "n03" -> "JSON_null" [] s = "tr3" -> "JSON_true" [] s = "fe4" -> "JSON_false" ]
EndWord(c) ==
  /\ state \in DOMAIN WordEvent /\ Table[state][c] = "ok"
  /\ out' = << Permitive(WordEvent[state]) >>
  /\ Resets
  /\ GoesOn("ok")
  /\ UNCHANGED stack

\* The actions -9, -8 and -7: the event, then the mode is popped.
ClosedBy == [ noj |-> [mode |-> "key", type |-> "JSON_object_end"],
              eoj |-> [mode |-> "object", type |-> "JSON_object_end"],
              ear |-> [mode |-> "array", type |-> "JSON_array_end"] ]
CloseContainer(c) ==
  /\ Table[state][c] \in DOMAIN ClosedBy
  /\ \E n \in NumberFirst : out' = Append(n, Permitive(ClosedBy[Table[state][c]].type))
  /\ Resets
  /\ \/ Top = ClosedBy[Table[state][c]].mode /\ stack' = Front(stack) /\ GoesOn("ok")
     \/ Top # ClosedBy[Table[state][c]].mode /\ Rejects

\* Bug for a mutant: the depth is not looked at.
PushesUnchecked(mode, s) == stack' = Append(stack, mode) /\ GoesOn(s)

\* push: top may not reach depth.
Pushes(mode, s) == \/ Len(stack) < depth /\ stack' = Append(stack, mode) /\ GoesOn(s)
                   \/ Len(stack) >= depth /\ Rejects

\* The actions -6 and -5: the event, then the mode is pushed.
OpenContainer(c) ==
  /\ \/ /\ Table[state][c] = "soj"
        /\ out' = << Permitive("JSON_object_start") >>
        /\ Pushes("key", "obj")
     \/ /\ Table[state][c] = "sar"
        /\ out' = << Permitive("JSON_array_start") >>
        /\ Pushes("array", "arr")
  /\ Resets

\* The action -4: the closing quote.
EndString(c) ==
  /\ Table[state][c] = "eos"
  /\ \/ /\ Top = "key"
        /\ \E t \in Emitted : out' = << Ev("JSON_object_key", t) >>
        /\ Resets /\ GoesOn("col")
     \/ /\ Top \in { "array", "object" }
        /\ \E t \in Emitted : out' = << Ev("JSON_string", t) >>
        /\ Resets /\ GoesOn("ok")
     \/ /\ Top = "done"
        /\ out' = << >> /\ Rejects /\ UNCHANGED <<token, held>>
  /\ UNCHANGED stack

\* What is left of the token when the character may have ended a number.
EndsNumberOnly == IF state \in Number THEN Resets ELSE UNCHANGED <<token, held>>

\* Bug for a mutant: an object's comma expects a value next, as an array's.
CommaToValue(c) ==
  /\ Table[state][c] = "nxt"
  /\ out' \in NumberFirst
  /\ EndsNumberOnly
  /\ \/ Top \in { "object", "array" } /\ GoesOn("val") /\ UNCHANGED stack
     \/ Top \notin { "object", "array" } /\ Rejects

\* The action -3: a comma flips an object from value to key.
Comma(c) ==
  /\ Table[state][c] = "nxt"
  /\ out' \in NumberFirst
  /\ EndsNumberOnly
  /\ \/ Top = "object" /\ stack' = Append(Front(stack), "key") /\ GoesOn("key")
     \/ Top = "array" /\ GoesOn("val") /\ UNCHANGED stack
     \/ Top \notin { "object", "array" } /\ Rejects

\* Bug for a mutant: the colon leaves the object in key mode.
ColonKeepsMode(c) ==
  /\ Table[state][c] = "ktv"
  /\ out' = << >>
  /\ GoesOn("val") /\ UNCHANGED <<stack, token, held>>

\* The action -2: a colon flips an object from key to value.
Colon(c) ==
  /\ Table[state][c] = "ktv"
  /\ out' = << >>
  /\ \/ Top = "key" /\ stack' = Append(Front(stack), "object") /\ GoesOn("val")
     \/ Top # "key" /\ Rejects
  /\ UNCHANGED <<token, held>>

\* The action -1: the opening quote, and whatever character the table has no cell for.
\* An open number is ended first; in a string the character is kept if it is not the
\* first of the buffer.
StartString(c) ==
  /\ Table[state][c] = "sos"
  /\ out' \in NumberFirst
  /\ IF state \in Number THEN Resets
     ELSE /\ held' = IF held # << >> THEN Append(held, c) ELSE held
          /\ UNCHANGED token
  /\ GoesOn("str")
  /\ UNCHANGED stack

\* ascii_class has no class for the character.
BadCharacter(c) == /\ out' = << >> /\ Rejects /\ UNCHANGED <<token, held>>

\* The assertion of emit_token fails, where a number or a string ends.
AbortInEmit(c) ==
  /\ \/ state \in Number /\ Table[state][c] \notin Number
     \/ Table[state][c] = "eos" /\ Top # "done"
  /\ EmitMayAbort
  /\ call' = "aborted" /\ out' = << >> /\ UNCHANGED jc

Turn(c) == \/ c = "bad" /\ BadCharacter(c)
           \/ /\ c # "bad"
              /\ \/ NextChar(c) \/ EndNumber(c) \/ EndWord(c)
                 \/ CloseContainer(c) \/ OpenContainer(c)
                 \/ EndString(c) \/ Comma(c) \/ Colon(c) \/ StartString(c)
                 \/ AbortInEmit(c)

-----------------------------------------------------------------------------
(* The history, and the bound of the model.                                *)

KeyOrText == { "JSON_object_key", "JSON_string", "JSON_number" }
ValueEvent == { "JSON_string", "JSON_number", "JSON_null", "JSON_true", "JSON_false",
                "JSON_object_start", "JSON_array_start" }
EndEvent == { "JSON_object_end", "JSON_array_end" }

Types(events) == { events[i].type : i \in DOMAIN events }

Observes(c) ==
  /\ lit' = CASE state' \notin Literal -> << >>
              [] state' \in Number /\ state \notin Number -> << c >>
              [] state' = "str" /\ state \notin { "str" } \cup Escape -> << >>
              [] OTHER -> Append(lit, c)
  /\ owed' = IF "JSON_object_key" \in Types(out') THEN TRUE
             ELSE owed /\ Types(out') \cap ValueEvent = { }
  /\ misled' = (misled \/ EmptyCell(state, c))

Reads(c) == /\ call = "ok" /\ Turn(c) /\ UNCHANGED depth
            /\ Observes(c) /\ Len(lit') <= MaxText

-----------------------------------------------------------------------------
(* The calls.                                                              *)

\* Bug for a mutant: each piece is saved over the one before.
SavesAtFront ==
  /\ call = "ok" /\ held # << >> /\ Len(held) < TokenSize
  /\ token' = held /\ held' = << >>
  /\ out' = << >> /\ UNCHANGED <<call, depth, state, stack, lit, owed, misled>>

\* JSON_checker_char comes to the end of the buffer: save_token, then true.  Only the
\* new piece is compared with the size of jc->token.
SaveToken ==
  /\ call = "ok" /\ held # << >>
  /\ IF Len(held) < TokenSize
     THEN /\ call' = IF Len(token) + Len(held) > TokenSize THEN "overrun" ELSE "ok"
          /\ token' = token \o held /\ held' = << >>
     ELSE call' = "deleted" /\ UNCHANGED <<token, held>>
  /\ out' = << >>
  /\ UNCHANGED <<depth, state, stack, lit, owed, misled>>

\* JSON_checker_done, between two calls.
JSON_checker_done ==
  /\ call = "ok" /\ held = << >>
  /\ call' = IF state = "ok" /\ Top = "done" THEN "accepted" ELSE "refused"
  /\ out' = << >>
  /\ UNCHANGED <<jc, lit, owed, misled>>

\* new_JSON_checker(Depth)
Init == /\ call = "ok" /\ depth = Depth
        /\ state = "go" /\ stack = << "done" >> /\ token = << >> /\ held = << >>
        /\ out = << >> /\ lit = << >> /\ owed = FALSE /\ misled = FALSE

Next == SaveToken \/ JSON_checker_done \/ \E c \in Chars : Reads(c)

Spec == Init /\ [][Next]_vars

-----------------------------------------------------------------------------
(* Properties.                                                             *)

Text == Seq(Class) \cup { Garbage }

\* Every variable holds a value the code could hold; the stack and the saved text
\* fit in the memory they have, until the overrun that save_token allows.
TypeOK ==
  /\ call \in Call
  /\ state \in State
  /\ stack \in Seq(Mode) /\ stack # << >>
  /\ depth \in Nat \ {0} /\ Len(stack) <= depth
  /\ token \in Seq(Class) /\ held \in Seq(Class)
  /\ call = "ok" => Len(token) <= TokenSize
  /\ out \in Seq([type : KeyOrText \cup ValueEvent \cup EndEvent, text : Text])
  /\ lit \in Seq(Class) /\ owed \in BOOLEAN /\ misled \in BOOLEAN

\* The state and the mode on top agree, even after an empty cell: so only a closing
\* bracket, a comma or a quote can find another mode than it expects.
CheckerModesAgree ==
  call = "ok" =>
    /\ state = "go" => stack = << "done" >>
    /\ state \in { "obj", "key", "col" } => Top = "key"
    /\ state = "arr" => Top = "array"
    /\ state \in { "val" } \cup Number \cup Word => Top \in { "array", "object" }
    /\ state = "ok" => Top # "key"

\* Saved text belongs to the literal being read: it is all of it, in order, and no
\* other event can throw it away.
TokenHoldsText ==
  call = "ok" =>
    /\ state \notin Literal => token = << >> /\ held = << >>
    /\ state \in Literal /\ ~ misled => token \o held = lit

DeliversText == out' # << >> /\ out'[1].type \in KeyOrText

\* A key, string or number is delivered whole when the buffer does not end right
\* before the character that ends it, and the pieces fit in jc->token.
TextDelivered ==
  [][DeliversText /\ ~ misled' /\ held # << >>
       /\ (token = << >> \/ Len(token) + Len(held) < TokenSize) => out'[1].text = lit]_vars

\* In a text that keeps to the table, an object's keys and values alternate, a value
\* lies in an array, after a key, or is the document, and no object ends after a key.
KeysAndValuesAlternate ==
  [][out' # << >> /\ ~ misled' /\ call' = "ok" =>
       LET e == out'[1].type IN
       /\ e = "JSON_object_key" => Top = "key" /\ ~ owed
       /\ e \in ValueEvent => /\ Top # "key"
                              /\ Top = "object" <=> owed
                              /\ Top = "done" => state = "go"
       /\ e \in EndEvent => ~ owed]_vars
=============================================================================
