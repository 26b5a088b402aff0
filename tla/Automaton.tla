------------------------------ MODULE Automaton ------------------------------
(***************************************************************************)
(* The C++ push-down machine of src/src/Automaton.cc, one step per         *)
(* character: the caller begins Parse() on a piece of the text, the loop   *)
(* takes its characters one by one, and the piece ends wherever the caller *)
(* chose to cut it.                                                        *)
(*                                                                         *)
(* The assertions of the code are in force (the build sets no NDEBUG): one *)
(* that fails takes the program to call = "aborted".                       *)
(*                                                                         *)
(* m_line and m_column are left out: they count characters, and only the   *)
(* exception that Throw() builds reads them.                               *)
(***************************************************************************)
EXTENDS Integers, Sequences, SequencesExt, AutomatonTable, EmitData

CONSTANTS
  Chars,            \* the character classes the input is made of
  MaxDepth,         \* bound of the model: modes on the stack (the code has none)
  MaxText,          \* bound of the model: length of a literal (the code has none)
  MaxToken,         \* bound of the model: length of the text held in m_token
  RetryAfterThrow   \* whether the caller calls Parse again after an exception

ASSUME CharsAssumption == Chars \subseteq Class
ASSUME BoundsAssumption == MaxDepth \in Nat /\ MaxText \in Nat /\ MaxToken \in Nat
ASSUME RetryAssumption == RetryAfterThrow \in BOOLEAN

VARIABLES
  call,       \* where the calls to Parse are
  m_state, m_stack, m_token,
  out,        \* the events the last step delivered to m_callback, in order
  lit,        \* history: what the open literal spells, so far
  got         \* history: the text m_callback was given for it, so far

impl == <<call, m_state, m_stack, m_token>>
vars == <<impl, out, lit, got>>

Call == { "idle",      \* outside Parse, which returned, or was never called
          "begun",     \* in Parse, no character taken yet
          "parsing",   \* in Parse, some taken
          "thrown",    \* Parse left by an exception
          "aborted" }  \* an assertion failed
Mode == { "array", "key", "object", "done" }
LiteralType == { "key", "string", "number" }

Top == Last(m_stack)

-----------------------------------------------------------------------------
(* Events.                                                                 *)

Ev(e, t) == [ev |-> e, type |-> t, text |-> <<>>]
Data(t, s) == [ev |-> "data", type |-> t, text |-> s]

\* Bugs for the mutants: object and key swapped; the end before the text; the
\* empty text delivered too.
CurrentSwapped == IF Top = "object" THEN "key" ELSE "string"
EndBeforeText == << Ev("end", "number"), Data("number", Text(m_token)) >>
EmptyTextToo == << Data(IF Top = "key" THEN "key" ELSE "string", Tail(Text(m_token))) >>

\* Current()
Current == IF Top = "key" THEN "key" ELSE "string"

\* OnEndNumber: the number's text and its end.
NumberEvents == << Data("number", Text(m_token)), Ev("end", "number") >>

\* EmitString: the text without the character that opened it, unless empty.
StringEvents == IF Len(Text(m_token)) > 1
                THEN << Data(Current, Tail(Text(m_token))) >> ELSE << >>

\* The arrays in and out of OnEndEscape.
Unescaped == [ c \in { "quote", "backs", "slash", "b", "f", "n", "r", "t" } |->
               CASE c = "b" -> "BS" [] c = "f" -> "FF" [] c = "n" -> "LF"
                 [] c = "r" -> "CR" [] c = "t" -> "HT" [] OTHER -> c ]

-----------------------------------------------------------------------------
(* One turn of the loop of Parse on the character c.                       *)

InLoop == call \in { "begun", "parsing" }

\* The table enters Number from outside: the code's action son.
StartsNumber(c, d) == /\ d \in StateAt[m_state][c]
                      /\ m_state \notin Number /\ d \in Number

\* The handler of action a has run: Dest looks at the mode it left on top.
Goes(a) == call' = "parsing" /\ m_state' = Dest(a, Last(m_stack'))

\* The events m_callback receives.
Delivers(events) == out' = events

\* The handler left the token t; the loop then steps over c.
LeavesToken(t, c) == m_token' = Advance(t, c)

\* An exception leaves Parse; what the handler did before it stays done.
Throws == call' = "thrown" /\ UNCHANGED <<m_state, m_stack>>

\* assert(m_token.IsSaved()), and its opposite where a literal starts.
TakesToken == { "eos", "sep", "eep", "eon", "enj", "ena", "enx" }
AssertionFails(c) ==
  \/ ~ m_token.saved /\ \E a \in ActionAt[m_state][c] : a \in TakesToken
  \/ m_token.saved /\ ( \/ "sos" \in ActionAt[m_state][c]
                       \/ \E d \in StateAt[m_state][c] : StartsNumber(c, d) )

AbortInHandler(c) ==
  /\ AssertionFails(c)
  /\ call' = "aborted"
  /\ Delivers(<< >>)
  /\ UNCHANGED <<m_state, m_stack, m_token>>

-----------------------------------------------------------------------------
(* Containers.                                                             *)

OnStartObject(c) ==
  /\ m_stack' = Append(m_stack, "key")
  /\ Delivers(<< Ev("start", "object") >>)
  /\ LeavesToken(m_token, c)
  /\ Goes("soj")

OnStartArray(c) ==
  /\ m_stack' = Append(m_stack, "array")
  /\ Delivers(<< Ev("start", "array") >>)
  /\ LeavesToken(m_token, c)
  /\ Goes("sar")

\* Bug for a mutant: the mode is popped unseen.
PopsUnseen(mode) == m_stack' = Front(m_stack)

\* Pop(mode), when that mode is on top.
Pops(mode) == Top = mode /\ m_stack' = Front(m_stack)

OnEndObject(c) ==
  /\ Pops("object")
  /\ Delivers(<< Ev("end", "object") >>)
  /\ LeavesToken(m_token, c)
  /\ Goes("eoj")

OnEndEmptyObject(c) ==
  /\ Pops("key")
  /\ Delivers(<< Ev("end", "object") >>)
  /\ LeavesToken(m_token, c)
  /\ Goes("noj")

OnEndArray(c) ==
  /\ Pops("array")
  /\ Delivers(<< Ev("end", "array") >>)
  /\ LeavesToken(m_token, c)
  /\ Goes("ear")

\* Bug for a mutant: the colon leaves the mode alone.
ColonKeepsMode(c) ==
  /\ Top = "key"
  /\ Delivers(<< >>)
  /\ LeavesToken(m_token, c)
  /\ UNCHANGED m_stack
  /\ Goes("ktv")

\* OnKeyToValue: key is popped and object pushed.
OnKeyToValue(c) ==
  /\ Top = "key"
  /\ m_stack' = Append(Front(m_stack), "object")
  /\ Delivers(<< >>)
  /\ LeavesToken(m_token, c)
  /\ Goes("ktv")

\* OnNextValue: object flips to key, any other mode stays.  Dest sees the mode
\* after the flip.
Flipped == IF Top = "object" THEN Append(Front(m_stack), "key") ELSE m_stack

OnNextValue(c) ==
  /\ m_stack' = Flipped
  /\ Delivers(<< >>)
  /\ LeavesToken(m_token, c)
  /\ Goes("nxt")

-----------------------------------------------------------------------------
(* Numbers.                                                                *)

OnStartNumber(c) ==
  \E d \in StateAt[m_state][c] :
    /\ StartsNumber(c, d)
    /\ ~ m_token.saved
    /\ Delivers(<< Ev("start", "number") >>)
    /\ LeavesToken(Save(m_token), c)
    /\ call' = "parsing" /\ m_state' = d
    /\ UNCHANGED m_stack

OnEndNumber(c) ==
  /\ m_token.saved
  /\ Delivers(NumberEvents)
  /\ LeavesToken(Clear, c)
  /\ UNCHANGED m_stack
  /\ Goes("eon")

OnEndNumberAndObject(c) ==
  /\ m_token.saved
  /\ Pops("object")
  /\ Delivers(Append(NumberEvents, Ev("end", "object")))
  /\ LeavesToken(Clear, c)
  /\ Goes("enj")

OnEndNumberAndArray(c) ==
  /\ m_token.saved
  /\ Pops("array")
  /\ Delivers(Append(NumberEvents, Ev("end", "array")))
  /\ LeavesToken(Clear, c)
  /\ Goes("ena")

OnEndNumberAndNextValue(c) ==
  /\ m_token.saved
  /\ m_stack' = Flipped
  /\ Delivers(NumberEvents)
  /\ LeavesToken(Clear, c)
  /\ Goes("enx")

\* Pop finds another mode and throws: from the handler of a closing bracket, of a
\* colon, or of a bracket that has just ended a number and delivered it.
PoppedMode == [ eoj |-> "object", noj |-> "key", ear |-> "array", ktv |-> "key",
                enj |-> "object", ena |-> "array" ]

\* Bug for a mutant: the mode is popped before it is compared.
PopThrowsLate(a) ==
  /\ a \in DOMAIN PoppedMode /\ Top # PoppedMode[a]
  /\ Delivers(IF a \in { "enj", "ena" } THEN NumberEvents ELSE << >>)
  /\ m_token' = IF a \in { "enj", "ena" } THEN Clear ELSE m_token
  /\ call' = "thrown" /\ m_stack' = Front(m_stack) /\ UNCHANGED m_state

PopThrows(a) ==
  /\ a \in DOMAIN PoppedMode
  /\ Top # PoppedMode[a]
  /\ \/ /\ a \in { "enj", "ena" } /\ m_token.saved
        /\ Delivers(NumberEvents)
        /\ m_token' = Clear
     \/ /\ a \notin { "enj", "ena" }
        /\ Delivers(<< >>)
        /\ UNCHANGED m_token
  /\ Throws

-----------------------------------------------------------------------------
(* Strings, keys, and their escapes.                                       *)

\* The token starts at the quote, which StringEvents drops.
OnStartString(c) ==
  /\ ~ m_token.saved
  /\ Delivers(<< Ev("start", Current) >>)
  /\ LeavesToken(Save(m_token), c)
  /\ UNCHANGED m_stack
  /\ Goes("sos")

\* Bug for a mutant: the token is not cleared at the end of the string.
EndStringKeepsToken(c) ==
  /\ m_token.saved
  /\ Delivers(Append(StringEvents, Ev("end", Current)))
  /\ LeavesToken(m_token, c)
  /\ UNCHANGED m_stack
  /\ Goes("eos")

OnEndString(c) ==
  /\ m_token.saved
  /\ Delivers(Append(StringEvents, Ev("end", Current)))
  /\ LeavesToken(Clear, c)
  /\ UNCHANGED m_stack
  /\ Goes("eos")

\* The text so far is delivered; the token starts again at the backslash.
OnStartEscape(c) ==
  /\ m_token.saved
  /\ Delivers(StringEvents)
  /\ LeavesToken(Save(Clear), c)
  /\ UNCHANGED m_stack
  /\ Goes("sep")

\* Bug for a mutant: what was stashed before the escape stays in the token.
EndEscapeKeepsStash(c) ==
  /\ m_token.saved /\ c \in DOMAIN Unescaped
  /\ Delivers(<< Data(Current, << Unescaped[c] >>) >>)
  /\ LeavesToken(Save(m_token), c)
  /\ UNCHANGED m_stack
  /\ Goes("eep")

\* The last character of the escape is looked up, whichever escape it ends: the
\* fourth digit of \uXXXX too.  The token starts again at it.
OnEndEscape(c) ==
  /\ m_token.saved
  /\ c \in DOMAIN Unescaped
  /\ Delivers(<< Data(Current, << Unescaped[c] >>) >>)
  /\ LeavesToken(Save(Clear), c)
  /\ UNCHANGED m_stack
  /\ Goes("eep")

EscapeThrows(c) ==
  /\ m_token.saved
  /\ c \notin DOMAIN Unescaped
  /\ Delivers(<< >>)
  /\ UNCHANGED m_token
  /\ Throws

-----------------------------------------------------------------------------
(* Constants, plain moves and empty cells.                                 *)

OnWord(a, type, c) ==
  /\ Delivers(<< Ev("data", type) >>)
  /\ LeavesToken(m_token, c)
  /\ UNCHANGED m_stack
  /\ Goes(a)

OnNull(c)  == OnWord("nul", "null_value", c)
OnTrue(c)  == OnWord("tru", "boolean_true", c)
OnFalse(c) == OnWord("fls", "boolean_false", c)

OnNone(c) ==
  \E d \in StateAt[m_state][c] :
    /\ ~ StartsNumber(c, d)
    /\ Delivers(<< >>)
    /\ LeavesToken(m_token, c)
    /\ call' = "parsing" /\ m_state' = d
    /\ UNCHANGED m_stack

EmptyCellThrows(c) ==
  /\ ActionAt[m_state][c] = {} /\ StateAt[m_state][c] = {}
  /\ Delivers(<< >>)
  /\ UNCHANGED m_token
  /\ Throws

\* The table of actions of Parse.
Turn(c) ==
  \/ \E a \in ActionAt[m_state][c] :
       \/ a = "soj" /\ OnStartObject(c)
       \/ a = "eoj" /\ OnEndObject(c)
       \/ a = "noj" /\ OnEndEmptyObject(c)
       \/ a = "sar" /\ OnStartArray(c)
       \/ a = "ear" /\ OnEndArray(c)
       \/ a = "ktv" /\ OnKeyToValue(c)
       \/ a = "nxt" /\ OnNextValue(c)
       \/ a = "sos" /\ OnStartString(c)
       \/ a = "eos" /\ OnEndString(c)
       \/ a = "sep" /\ OnStartEscape(c)
       \/ a = "eep" /\ (OnEndEscape(c) \/ EscapeThrows(c))
       \/ a = "eon" /\ OnEndNumber(c)
       \/ a = "enj" /\ OnEndNumberAndObject(c)
       \/ a = "ena" /\ OnEndNumberAndArray(c)
       \/ a = "enx" /\ OnEndNumberAndNextValue(c)
       \/ a = "nul" /\ OnNull(c)
       \/ a = "tru" /\ OnTrue(c)
       \/ a = "fls" /\ OnFalse(c)
       \/ PopThrows(a)
  \/ OnStartNumber(c) \/ OnNone(c) \/ EmptyCellThrows(c) \/ AbortInHandler(c)

-----------------------------------------------------------------------------
(* The history of the open literal, and the bounds of the model.           *)

\* What the character c adds to the literal it lies in, read as JSON.
Spelled(c) ==
  IF m_state = "esp" /\ c \in DOMAIN Unescaped THEN << Unescaped[c] >>
  ELSE IF m_state = "u4" /\ c \in Hex THEN << "unicode" >>
  ELSE IF \E d \in StateAt[m_state][c] : d \in Number \cup { "str" } THEN << c >>
  ELSE << >>

\* The literal's text among the events: a handler delivers it in one piece, first.
Flushed(events) == IF events # << >> /\ events[1].ev = "data" /\ events[1].type \in LiteralType
                   THEN events[1].text ELSE << >>

EndsLiteral(events) == \E i \in DOMAIN events :
                          events[i].ev = "end" /\ events[i].type \in LiteralType

Observes(c) ==
  IF EndsLiteral(out') THEN lit' = << >> /\ got' = << >>
  ELSE /\ lit' = IF call' = "parsing" THEN lit \o Spelled(c) ELSE lit
       /\ got' = got \o Flushed(out')

InBounds == /\ Len(m_stack') <= MaxDepth
            /\ Len(lit') <= MaxText
            /\ Len(Text(m_token')) <= MaxToken

Reads(c) == InLoop /\ Turn(c) /\ Observes(c) /\ InBounds

-----------------------------------------------------------------------------
(* The calls to Parse.                                                     *)

MayCall == call = "idle" \/ (call = "thrown" /\ RetryAfterThrow)

\* Bugs for the mutants: a stashed token is not taken up; a saved one not stashed.
BeginForgetsStash ==
  /\ MayCall
  /\ ~ m_token.saved
  /\ call' = "begun"
  /\ Delivers(<< >>)
  /\ UNCHANGED <<m_state, m_stack, m_token, lit, got>>
EndForgetsToken ==
  /\ call = "parsing"
  /\ call' = "idle"
  /\ Delivers(<< >>)
  /\ UNCHANGED <<m_state, m_stack, m_token, lit, got>>

\* The text that was stashed goes on at the start of the new buffer.
BeginParse ==
  /\ MayCall
  /\ ~ m_token.saved
  /\ call' = "begun"
  /\ m_token' = IF IsStashed(m_token) THEN Save(m_token) ELSE m_token
  /\ Delivers(<< >>)
  /\ UNCHANGED <<m_state, m_stack, lit, got>>

\* assert(!m_token.IsSaved()), line 597.
AbortInParse ==
  /\ MayCall
  /\ m_token.saved
  /\ call' = "aborted"
  /\ Delivers(<< >>)
  /\ UNCHANGED <<m_state, m_stack, m_token, lit, got>>

\* The caller's buffer ends; its length was not 0.
EndParse ==
  /\ call = "parsing"
  /\ call' = "idle"
  /\ m_token' = IF m_token.saved THEN Stash(m_token) ELSE m_token
  /\ Delivers(<< >>)
  /\ UNCHANGED <<m_state, m_stack, lit, got>>

Init ==
  /\ call = "idle"
  /\ m_state = "go"
  /\ m_stack = << "done" >>
  /\ m_token = Clear
  /\ out = << >> /\ lit = << >> /\ got = << >>

Next == BeginParse \/ AbortInParse \/ EndParse \/ \E c \in Chars : Reads(c)

Spec == Init /\ [][Next]_vars

\* Automaton::Result()
Result == Len(m_stack) = 1 /\ Top = "done"

-----------------------------------------------------------------------------
(* Properties.                                                             *)

\* What a literal can be spelt with: classes, control characters that only an
\* escape denotes, and a \uXXXX as a whole.
Glyph == Class \cup { "BS", "FF", "LF", "CR", "HT", "unicode" }
AnyText == Seq(Glyph)
DataType == LiteralType \cup { "array", "object", "boolean_true", "boolean_false", "null_value" }
Event == [ev : { "start", "end", "data" }, type : DataType, text : AnyText]

\* Every variable holds a value the code could hold.
TypeOK ==
  /\ call \in Call
  /\ m_state \in State
  /\ m_stack \in Seq(Mode) /\ m_stack # << >>
  /\ m_token \in Token(AnyText)
  /\ out \in Seq(Event)
  /\ lit \in AnyText /\ got \in AnyText

\* No assertion of Automaton.cc or EmitData.cc fails while the caller stops at the
\* first exception, however the text is cut into pieces.
AssertionsHold == call # "aborted"

\* A \uXXXX that Parse survives is not decoded: what its literal spells is
\* not compared with what was delivered.
Undecoded == "unicode" \in Range(lit)

\* Between the characters of a literal, its text so far is what has been delivered and
\* what the token holds: in a string without the opening quote, or the last character
\* of an escape, at its front; in an escape nothing of it; in a number all of it.
TextSplit ==
  /\ m_state = "str" => got \o Tail(Text(m_token)) = lit
  /\ m_state \in Escape => got = lit
  /\ m_state \in Number => Text(m_token) = lit /\ got = << >>

\* The token holds text exactly while a literal is being read: in m_start during a
\* call to Parse, all of it in m_tmp between two calls.
TokenHoldsLiteral ==
  call \in { "idle", "begun", "parsing" } =>
    /\ m_state \notin Literal => m_token = Clear /\ lit = << >> /\ got = << >>
    /\ m_state \in Literal =>
         /\ m_token.saved <=> call # "idle"
         /\ call = "idle" => m_token.held = << >>
         /\ Text(m_token) # << >>
         /\ Undecoded \/ TextSplit

\* A key, string or number reaches the callback whole and in order: when it ends,
\* the pieces delivered for it spell it, whatever escapes and whatever ends of
\* buffers lay inside it.
LiteralIntact == [][EndsLiteral(out') => Undecoded \/ got \o Flushed(out') = lit]_vars

\* Mode::done lies at the bottom of the stack, and only there.
BottomIsDone == \A i \in 1 .. Len(m_stack) : m_stack[i] = "done" <=> i = 1

\* The state and the mode on top agree: where the table expects the inside of an
\* object, the top is an object's, in the phase the state stands for.
ModesAgree ==
  /\ m_state = "go" => m_stack = << "done" >>
  /\ m_state \in { "obj", "col" } => Top = "key"
  /\ m_state = "val" => Top = "object"
  /\ m_state = "arr" => Top # "object"
  /\ BottomIsDone

\* The refinement: m_stack gives the open containers, m_token whether a literal is
\* open, m_state whether a key still waits for its value.
Containers == [ i \in 1 .. Len(m_stack) - 1 |->
                  IF m_stack[i + 1] = "array" THEN "array" ELSE "object" ]
OpenLiteral == IF ~ m_token.saved /\ ~ IsStashed(m_token) THEN "none"
               ELSE IF m_state \in Number THEN "number" ELSE Current
Owed == m_state \in { "col", "val" } \/ (m_state \in Word /\ Top = "object")

Promise == INSTANCE EventStream
             WITH Piece <- AnyText \ { << >> }, NoLiteral <- "none",
                  nest <- Containers, literal <- OpenLiteral, owed <- Owed

\* The callback sees a well-formed stream of events, even when the caller goes on
\* after an exception.
EventStreamPromised == Promise!Spec
=============================================================================
