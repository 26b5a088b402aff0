--------------------------- MODULE AutomatonProofs ---------------------------
(***************************************************************************)
(* Theorems about Automaton, for every alphabet, every bound, every text   *)
(* and every way of cutting it into pieces: its types, its literals, and   *)
(* then, also for a caller who goes on after exceptions, that its state    *)
(* agrees with its stack and its events are those of EventStream.  At the  *)
(* end the same for an m_callback that throws.                             *)
(***************************************************************************)
EXTENDS AutomatonThrows, AutomatonTableProofs

-----------------------------------------------------------------------------
(* The stack.                                                              *)

\* What the stack always is: modes, the bottom one done and no other.
GoodStack(s) == /\ s \in Seq(Mode) /\ s # << >>
                /\ \A i \in 1 .. Len(s) : s[i] = "done" <=> i = 1

\* done is on top only where nothing else is on the stack.
LEMMA TopOfStack ==
  ASSUME NEW s, GoodStack(s)
  PROVE  Last(s) \in Mode /\ (Last(s) = "done" <=> Len(s) = 1)
<1>1. Len(s) \in Nat \ {0}
  BY EmptySeq DEF GoodStack
<1>2. Last(s) \in Mode /\ Last(s) = s[Len(s)]
  BY FrontProperties DEF GoodStack
<1>3. Len(s) \in 1 .. Len(s)
  BY <1>1
<1>4. s[Len(s)] = "done" <=> Len(s) = 1
  BY <1>3 DEF GoodStack
<1> QED
  BY <1>2, <1>4

\* A container can be pushed on any stack.
LEMMA PushIsGood ==
  ASSUME NEW s, GoodStack(s), NEW m \in Mode, m # "done"
  PROVE  GoodStack(Append(s, m)) /\ Last(Append(s, m)) = m
<1>1. Len(s) \in Nat \ {0}
  BY EmptySeq DEF GoodStack
<1> QED
  BY <1>1, AppendProperties, LastOfAppend DEF GoodStack

\* Any container can be popped.
LEMMA PopIsGood ==
  ASSUME NEW s, GoodStack(s), Last(s) # "done"
  PROVE  GoodStack(Front(s))
<1>1. Len(s) \in Nat \ {0}
  BY EmptySeq DEF GoodStack
<1>2. Len(s) # 1
  BY TopOfStack
<1>3. /\ Front(s) \in Seq(Mode) /\ Len(Front(s)) = Len(s) - 1
      /\ \A i \in 1 .. Len(s) - 1 : Front(s)[i] = s[i]
  BY FrontProperties DEF GoodStack
<1>4. Front(s) # << >>
  BY <1>1, <1>2, <1>3, EmptySeq
<1> QED
  BY <1>1, <1>3, <1>4 DEF GoodStack

-----------------------------------------------------------------------------
(* The token.                                                              *)

\* The operations of the token make tokens.
LEMMA TokenTypes ==
  ASSUME NEW t \in Token(AnyText), NEW c \in Class
  PROVE  /\ Clear \in Token(AnyText)
         /\ Save(t) \in Token(AnyText)
         /\ Advance(t, c) \in Token(AnyText)
         /\ Stash(t) \in Token(AnyText)
         /\ Text(t) \in AnyText
<1>1. t.tmp \in Seq(Glyph) /\ t.held \in Seq(Glyph) /\ c \in Glyph
  BY DEF Token, AnyText, Glyph
<1>2. t.tmp \o t.held \in Seq(Glyph) /\ Append(t.held, c) \in Seq(Glyph) /\ << >> \in Seq(Glyph)
  BY <1>1, ConcatProperties, AppendProperties, EmptySeq
<1> QED
  BY <1>1, <1>2 DEF Token, AnyText, Clear, Save, Advance, Stash, Text

-----------------------------------------------------------------------------
(* The events.                                                             *)

\* Whatever is delivered is an event,
LEMMA EventTypes ==
  /\ \A e \in { "start", "end", "data" }, t \in DataType : Ev(e, t) \in Event
  /\ \A t \in DataType, s \in AnyText : Data(t, s) \in Event
BY EmptySeq DEF Ev, Data, Event, AnyText

\* one, two or none of them are a sequence of events,
LEMMA EventSequences ==
  /\ << >> \in Seq(Event)
  /\ \A e \in Event : << e >> \in Seq(Event)
  /\ \A e, f \in Event : << e, f >> \in Seq(Event)
OBVIOUS

\* and so are the events that end a number or a string,
LEMMA LiteralEvents ==
  ASSUME TypeOK, GoodStack(m_stack)
  PROVE  /\ NumberEvents \in Seq(Event)
         /\ Current \in LiteralType /\ Current \in DataType
         /\ StringEvents \in Seq(Event)
<1>1. Text(m_token) \in AnyText
  BY TokenTypes DEF TypeOK, Class
<1>2. Current \in LiteralType /\ Current \in DataType
  BY DEF Current, LiteralType, DataType
<1>3. NumberEvents \in Seq(Event)
  BY <1>1, EventTypes, EventSequences DEF NumberEvents, LiteralType, DataType
<1>4. StringEvents \in Seq(Event)
  <2>1. CASE Len(Text(m_token)) > 1
    <3>1. Text(m_token) # << >> /\ Text(m_token) \in Seq(Glyph)
      BY <1>1, <2>1, EmptySeq DEF AnyText
    <3>2. Tail(Text(m_token)) \in AnyText
      BY <3>1, HeadTailProperties DEF AnyText
    <3> QED
      BY <2>1, <1>2, <3>2, EventTypes, EventSequences DEF StringEvents
  <2>2. CASE ~ Len(Text(m_token)) > 1
    BY <2>2, EventSequences DEF StringEvents
  <2> QED
    BY <2>1, <2>2
<1> QED
  BY <1>2, <1>3, <1>4

\* with one more behind them.
LEMMA AppendedEvents ==
  ASSUME NEW es \in Seq(Event), NEW e \in Event
  PROVE  Append(es, e) \in Seq(Event)
BY AppendProperties

-----------------------------------------------------------------------------
(* Type correctness.                                                       *)

Typed == TypeOK /\ GoodStack(m_stack)

\* Whatever handler runs, and whether it returns, throws or fails an assertion, it
\* leaves values of the right type, and the bottom of the stack in place.
LEMMA TurnTypes ==
  ASSUME Typed, NEW c \in Class, Turn(c)
  PROVE  /\ call' \in Call /\ m_state' \in State
         /\ GoodStack(m_stack')
         /\ m_token' \in Token(AnyText)
         /\ out' \in Seq(Event)
<1> DEFINE Goal == /\ call' \in Call /\ m_state' \in State
                   /\ GoodStack(m_stack')
                   /\ m_token' \in Token(AnyText)
                   /\ out' \in Seq(Event)
<1>1. /\ call \in Call /\ m_state \in State /\ m_token \in Token(AnyText)
      /\ GoodStack(m_stack)
  BY DEF Typed, TypeOK
<1>2. /\ Clear \in Token(AnyText)
      /\ Advance(m_token, c) \in Token(AnyText)
      /\ Advance(Clear, c) \in Token(AnyText)
      /\ Advance(Save(m_token), c) \in Token(AnyText)
      /\ Advance(Save(Clear), c) \in Token(AnyText)
  BY <1>1, TokenTypes
<1>3. /\ \A a \in Action : Goes(a) => call' \in Call /\ m_state' \in State
      /\ \A d \in State : call' = "parsing" /\ m_state' = d => call' \in Call /\ m_state' \in State
      /\ Throws => call' \in Call /\ m_state' \in State /\ GoodStack(m_stack')
  BY <1>1, DestIsState DEF Goes, Throws, Call
<1>4. /\ \A t \in DataType : /\ << Ev("start", t) >> \in Seq(Event)
                             /\ << Ev("end", t) >> \in Seq(Event)
                             /\ << Ev("data", t) >> \in Seq(Event)
                             /\ Append(NumberEvents, Ev("end", t)) \in Seq(Event)
                             /\ Append(StringEvents, Ev("end", t)) \in Seq(Event)
      /\ << >> \in Seq(Event) /\ NumberEvents \in Seq(Event) /\ StringEvents \in Seq(Event)
  <2>1. \A t \in DataType : Ev("start", t) \in Event /\ Ev("end", t) \in Event /\ Ev("data", t) \in Event
    BY EventTypes
  <2> QED
    BY <2>1, EventSequences, LiteralEvents, AppendedEvents DEF Typed
<1>5. \A mode \in { "object", "key", "array" } : Pops(mode) => GoodStack(m_stack')
  BY <1>1, PopIsGood DEF Pops, Top
<1>6. \A mode \in { "object", "key", "array" } : GoodStack(Append(m_stack, mode))
  BY <1>1, PushIsGood DEF Mode
<1>7. Top # "done" => \A mode \in { "object", "key", "array" } : GoodStack(Append(Front(m_stack), mode))
  BY <1>1, PopIsGood, PushIsGood DEF Mode, Top
<1>8. GoodStack(Flipped)
  BY <1>1, <1>7 DEF Flipped
<1>9. Current \in DataType /\ "object" \in DataType /\ "array" \in DataType /\ "number" \in DataType
      /\ "null_value" \in DataType /\ "boolean_true" \in DataType /\ "boolean_false" \in DataType
  BY LiteralEvents DEF DataType, LiteralType, Typed
<1>10. CASE \E a \in ActionAt[m_state][c] :
              \/ a = "soj" /\ OnStartObject(c)
              \/ a = "sar" /\ OnStartArray(c)
  BY <1>10, <1>2, <1>3, <1>4, <1>6, <1>9 DEF OnStartObject, OnStartArray, Delivers, LeavesToken, Action
<1>11. CASE OnEndObject(c) \/ OnEndEmptyObject(c) \/ OnEndArray(c)
  BY <1>11, <1>2, <1>3, <1>4, <1>5, <1>9
     DEF OnEndObject, OnEndEmptyObject, OnEndArray, Delivers, LeavesToken, Action
<1>12. CASE OnKeyToValue(c) \/ OnNextValue(c)
  BY <1>12, <1>2, <1>3, <1>4, <1>7, <1>8
     DEF OnKeyToValue, OnNextValue, Delivers, LeavesToken, Action
<1>13. CASE OnStartString(c) \/ OnEndString(c) \/ OnStartEscape(c)
  BY <1>13, <1>1, <1>2, <1>3, <1>4, <1>9
     DEF OnStartString, OnEndString, OnStartEscape, Delivers, LeavesToken, Action
<1>14. CASE OnEndEscape(c)
  <2>1. << Unescaped[c] >> \in AnyText
    BY <1>14 DEF OnEndEscape, Unescaped, AnyText, Glyph, Class
  <2>2. << Data(Current, << Unescaped[c] >>) >> \in Seq(Event)
    BY <2>1, <1>9, EventTypes, EventSequences
  <2> QED
    BY <1>14, <2>2, <1>1, <1>2, <1>3 DEF OnEndEscape, Delivers, LeavesToken, Action
<1>15. CASE OnEndNumber(c) \/ OnEndNumberAndNextValue(c)
  BY <1>15, <1>1, <1>2, <1>3, <1>4, <1>8
     DEF OnEndNumber, OnEndNumberAndNextValue, Delivers, LeavesToken, Action
<1>16. CASE OnEndNumberAndObject(c) \/ OnEndNumberAndArray(c)
  BY <1>16, <1>2, <1>3, <1>4, <1>5, <1>9
     DEF OnEndNumberAndObject, OnEndNumberAndArray, Delivers, LeavesToken, Action
<1>17. CASE OnNull(c) \/ OnTrue(c) \/ OnFalse(c)
  BY <1>17, <1>1, <1>2, <1>3, <1>4, <1>9
     DEF OnNull, OnTrue, OnFalse, OnWord, Delivers, LeavesToken, Action
<1>18. CASE EscapeThrows(c) \/ EmptyCellThrows(c) \/ \E a \in ActionAt[m_state][c] : PopThrows(a)
  BY <1>18, <1>1, <1>2, <1>3, <1>4 DEF EscapeThrows, EmptyCellThrows, PopThrows, Delivers
<1>19. CASE OnStartNumber(c)
  BY <1>19, <1>1, <1>2, <1>3, <1>4, <1>9, CellHoldsState
     DEF OnStartNumber, StartsNumber, Delivers, LeavesToken
<1>20. CASE OnNone(c)
  BY <1>20, <1>1, <1>2, <1>3, <1>4, CellHoldsState DEF OnNone, Delivers, LeavesToken
<1>21. CASE AbortInHandler(c)
  BY <1>21, <1>1, <1>4 DEF AbortInHandler, Delivers, Call
<1> QED
  BY <1>10, <1>11, <1>12, <1>13, <1>14, <1>15, <1>16, <1>17, <1>18, <1>19, <1>20, <1>21 DEF Turn

\* The history variables follow the events.
LEMMA ObservedTypes ==
  ASSUME Typed, NEW c \in Class, Observes(c), out' \in Seq(Event)
  PROVE  lit' \in AnyText /\ got' \in AnyText
<1>1. lit \in Seq(Glyph) /\ got \in Seq(Glyph) /\ << >> \in Seq(Glyph)
  BY EmptySeq DEF Typed, TypeOK, AnyText
<1>2. Spelled(c) \in Seq(Glyph)
  <2>1. c \in DOMAIN Unescaped => Unescaped[c] \in Glyph
    BY DEF Unescaped, Glyph, Class
  <2>2. c \in Glyph /\ "unicode" \in Glyph
    BY DEF Glyph
  <2>3. \A g \in Glyph : << g >> \in Seq(Glyph)
    OBVIOUS
  <2> QED
    BY <1>1, <2>1, <2>2, <2>3 DEF Spelled
<1>3. Flushed(out') \in Seq(Glyph)
  <2>1. CASE out' # << >>
    <3>1. out'[1] \in Event
      BY <2>1, EmptySeq, ElementOfSeq
    <3> QED
      BY <3>1, <1>1 DEF Flushed, Event, AnyText
  <2>2. CASE out' = << >>
    BY <2>2, <1>1 DEF Flushed
  <2> QED
    BY <2>1, <2>2
<1>4. lit \o Spelled(c) \in Seq(Glyph) /\ got \o Flushed(out') \in Seq(Glyph)
  BY <1>1, <1>2, <1>3, ConcatProperties
<1> QED
  BY <1>1, <1>4 DEF Observes, AnyText

\* A new automaton has its types.
LEMMA TypedInit == Init => Typed
<1> SUFFICES ASSUME Init PROVE Typed
  OBVIOUS
<1>1. m_stack = << "done" >> /\ m_stack \in Seq(Mode)
  BY DEF Init, Mode
<1>2. GoodStack(m_stack)
  BY <1>1 DEF GoodStack
<1> QED
  BY <1>1, <1>2, EmptySeq, EventSequences
     DEF Init, Typed, TypeOK, Call, State, Between, Token, Clear, AnyText

\* Every step keeps the types, and the bottom of the stack.
LEMMA TypedStep == Typed /\ [Next]_vars => Typed'
<1> SUFFICES ASSUME Typed, [Next]_vars PROVE Typed'
  OBVIOUS
<1>1. /\ call \in Call /\ m_state \in State /\ m_token \in Token(AnyText) /\ GoodStack(m_stack)
      /\ out \in Seq(Event) /\ lit \in AnyText /\ got \in AnyText
  BY DEF Typed, TypeOK
<1>2. << >> \in Seq(Event) /\ Save(m_token) \in Token(AnyText) /\ Stash(m_token) \in Token(AnyText)
  BY <1>1, EventSequences, TokenTypes DEF Class
<1>3. CASE \E c \in Chars : Reads(c)
  <2> PICK c \in Chars : Reads(c)
    BY <1>3
  <2>1. c \in Class
    BY CharsAssumption
  <2>2. /\ call' \in Call /\ m_state' \in State /\ GoodStack(m_stack')
        /\ m_token' \in Token(AnyText) /\ out' \in Seq(Event)
    BY <2>1, TurnTypes DEF Reads
  <2>3. lit' \in AnyText /\ got' \in AnyText
    BY <2>1, <2>2, ObservedTypes DEF Reads
  <2> QED
    BY <2>2, <2>3 DEF Typed, TypeOK, GoodStack
<1>4. CASE BeginParse \/ AbortInParse \/ EndParse
  <2>1. /\ call' \in Call /\ m_state' \in State /\ m_token' \in Token(AnyText)
        /\ m_stack' = m_stack /\ out' \in Seq(Event) /\ lit' \in AnyText /\ got' \in AnyText
    BY <1>1, <1>2, <1>4 DEF BeginParse, AbortInParse, EndParse, Delivers, Call
  <2> QED
    BY <1>1, <2>1 DEF Typed, TypeOK, GoodStack
<1>5. CASE UNCHANGED vars
  BY <1>1, <1>5 DEF vars, impl, Typed, TypeOK, GoodStack
<1> QED
  BY <1>3, <1>4, <1>5 DEF Next

\* Every variable keeps its type, and Mode::done stays at the bottom of the stack and
\* nowhere else: no sequence of handlers pops it, so m_stack.back() is always defined.
THEOREM TypeCorrect == Spec => [](TypeOK /\ BottomIsDone)
<1>1. Typed => TypeOK /\ BottomIsDone
  BY DEF Typed, GoodStack, BottomIsDone
<1> QED
  BY <1>1, TypedInit, TypedStep, PTL DEF Spec

-----------------------------------------------------------------------------
(* The text of literals.                                                   *)

\* Stepping over a character appends it to the text.
LEMMA TextOfAdvance ==
  ASSUME NEW t \in Token(AnyText), NEW c \in Class, t.saved
  PROVE  Text(Advance(t, c)) = Append(Text(t), c) /\ Advance(t, c).saved
<1>1. t.tmp \in Seq(Glyph) /\ t.held \in Seq(Glyph) /\ c \in Glyph
  BY DEF Token, AnyText, Glyph
<1>2. t.tmp \o Append(t.held, c) = Append(t.tmp \o t.held, c)
  <2>1. \A x, y \in Seq(Glyph), e \in Glyph : x \o Append(y, e) = Append(x \o y, e)
    BY ConcatAppend
  <2> QED
    BY <1>1, <2>1
<1>3. /\ Advance(t, c).tmp = t.tmp /\ Advance(t, c).held = Append(t.held, c)
      /\ Advance(t, c).saved
  BY DEF Advance, Token
<1> QED
  BY <1>2, <1>3 DEF Text

\* A token that starts at the character c.
LEMMA FreshToken ==
  ASSUME NEW c \in Class
  PROVE  /\ Advance(Save(Clear), c) = [saved |-> TRUE, held |-> << c >>, tmp |-> << >>]
         /\ Text(Advance(Save(Clear), c)) = << c >>
         /\ Tail(<< c >>) = << >>
         /\ Advance(Clear, c) = Clear
<1>1. << >> \in Seq(Class) /\ << c >> \in Seq(Class) /\ Append(<< >>, c) = << c >>
  OBVIOUS
<1>2. << >> \o << c >> = << c >>
  BY <1>1, ConcatEmptySeq
<1>3. Tail(<< c >>) = << >>
  <2>1. Tail(<< c >>) \in Seq(Class) /\ Len(Tail(<< c >>)) = 0
    BY <1>1, HeadTailProperties
  <2> QED
    BY <2>1, EmptySeq
<1> QED
  BY <1>1, <1>2, <1>3 DEF Advance, Save, Clear, Text

\* What the callback receives of a literal in the events of each kind of handler.
LEMMA QuietEvents ==
  /\ ~ EndsLiteral(<< >>) /\ Flushed(<< >>) = << >>
  /\ \A e, t : Flushed(<< Ev(e, t) >>) = << >>
  /\ \A t : ~ EndsLiteral(<< Ev("start", t) >>) /\ ~ EndsLiteral(<< Ev("data", t) >>)
  /\ \A t : t \notin LiteralType => ~ EndsLiteral(<< Ev("end", t) >>)
  /\ \A t, s : /\ ~ EndsLiteral(<< Data(t, s) >>)
               /\ t \in LiteralType => Flushed(<< Data(t, s) >>) = s
BY DEF EndsLiteral, Flushed, Ev, Data

\* The events that end a number deliver its text.
LEMMA NumberEventsDeliver ==
  /\ EndsLiteral(NumberEvents) /\ Flushed(NumberEvents) = Text(m_token)
  /\ \A t : /\ EndsLiteral(Append(NumberEvents, Ev("end", t)))
            /\ Flushed(Append(NumberEvents, Ev("end", t))) = Text(m_token)
<1>1. /\ DOMAIN NumberEvents = 1 .. 2
      /\ NumberEvents[1] = Data("number", Text(m_token))
      /\ NumberEvents[2] = Ev("end", "number")
  BY DEF NumberEvents
<1>2. \A t : /\ DOMAIN Append(NumberEvents, Ev("end", t)) = 1 .. 3
             /\ Append(NumberEvents, Ev("end", t))[1] = Data("number", Text(m_token))
             /\ Append(NumberEvents, Ev("end", t))[2] = Ev("end", "number")
  BY DEF NumberEvents
<1>3. \A t : NumberEvents # << >> /\ Append(NumberEvents, Ev("end", t)) # << >>
  BY DEF NumberEvents
<1> QED
  BY <1>1, <1>2, <1>3 DEF EndsLiteral, Flushed, Data, Ev, LiteralType

\* Of two events the first delivers text, and either can end a literal.
LEMMA PairOfEvents ==
  /\ \A x, y : Append(<< x >>, y) = << x, y >> /\ Append(<< >>, y) = << y >>
  /\ \A x, y : /\ EndsLiteral(<< x, y >>) <=> EndsLiteral(<< x >>) \/ EndsLiteral(<< y >>)
               /\ Flushed(<< x, y >>) = Flushed(<< x >>)
  /\ \A t \in LiteralType : EndsLiteral(<< Ev("end", t) >>)
<1>1. ASSUME NEW x, NEW y
      PROVE  Append(<< x >>, y) = << x, y >> /\ Append(<< >>, y) = << y >>
  <2>1. /\ << x >> \in Seq({ x, y }) /\ << >> \in Seq({ x, y })
        /\ << x, y >> \in Seq({ x, y }) /\ << y >> \in Seq({ x, y })
    OBVIOUS
  <2>2. Append(<< >>, y) = << y >>
    BY <2>1
  <2>3. /\ Append(<< x >>, y) \in Seq({ x, y }) /\ Len(Append(<< x >>, y)) = 2
        /\ Append(<< x >>, y)[1] = x /\ Append(<< x >>, y)[2] = y
    BY <2>1, AppendProperties
  <2>4. Len(<< x, y >>) = 2 /\ << x, y >>[1] = x /\ << x, y >>[2] = y
    OBVIOUS
  <2>5. \A i \in 1 .. 2 : Append(<< x >>, y)[i] = << x, y >>[i]
    BY <2>3, <2>4
  <2>6. Append(<< x >>, y) = << x, y >>
    BY <2>1, <2>3, <2>4, <2>5, SeqEqual
  <2> QED
    BY <2>2, <2>6
<1>2. \A x, y : EndsLiteral(<< x, y >>) <=> EndsLiteral(<< x >>) \/ EndsLiteral(<< y >>)
  <2>1. \A x : EndsLiteral(<< x >>) <=> x.ev = "end" /\ x.type \in LiteralType
    BY DEF EndsLiteral
  <2>2. \A x, y : EndsLiteral(<< x, y >>) <=>
          (x.ev = "end" /\ x.type \in LiteralType) \/ (y.ev = "end" /\ y.type \in LiteralType)
    <3> TAKE x, y
    <3>1. DOMAIN << x, y >> = { 1, 2 } /\ << x, y >>[1] = x /\ << x, y >>[2] = y
      OBVIOUS
    <3> QED
      BY <3>1 DEF EndsLiteral
  <2> QED
    BY <2>1, <2>2
<1>3. \A x, y : Flushed(<< x, y >>) = Flushed(<< x >>)
  BY DEF Flushed
<1>4. \A t \in LiteralType : EndsLiteral(<< Ev("end", t) >>)
  BY DEF EndsLiteral, Ev
<1> QED
  BY <1>1, <1>2, <1>3, <1>4

\* The events that end a string deliver its text.
LEMMA StringEventsDeliver ==
  ASSUME Typed, Text(m_token) # << >>
  PROVE  /\ ~ EndsLiteral(StringEvents) /\ Flushed(StringEvents) = Tail(Text(m_token))
         /\ EndsLiteral(Append(StringEvents, Ev("end", Current)))
         /\ Flushed(Append(StringEvents, Ev("end", Current))) = Tail(Text(m_token))
<1>1. Text(m_token) \in Seq(Glyph) /\ Current \in LiteralType
  BY LiteralEvents, TokenTypes DEF Typed, TypeOK, AnyText, Class
<1>2. CASE Len(Text(m_token)) > 1
  <2>1. StringEvents = << Data(Current, Tail(Text(m_token))) >>
    BY <1>2 DEF StringEvents
  <2>2. Append(StringEvents, Ev("end", Current))
          = << Data(Current, Tail(Text(m_token))), Ev("end", Current) >>
    BY <2>1, PairOfEvents
  <2>3. /\ ~ EndsLiteral(<< Data(Current, Tail(Text(m_token))) >>)
        /\ Flushed(<< Data(Current, Tail(Text(m_token))) >>) = Tail(Text(m_token))
    BY <1>1, QuietEvents
  <2>4. EndsLiteral(<< Ev("end", Current) >>)
    BY <1>1, PairOfEvents
  <2> QED
    BY <2>1, <2>2, <2>3, <2>4, PairOfEvents
<1>3. CASE ~ Len(Text(m_token)) > 1
  <2>1. StringEvents = << >> /\ Append(StringEvents, Ev("end", Current)) = << Ev("end", Current) >>
    BY <1>3, PairOfEvents DEF StringEvents
  <2>2. Tail(Text(m_token)) = << >>
    <3>1. Len(Text(m_token)) = 1
      <4>1. Len(Text(m_token)) \in Nat \ {0}
        BY <1>1, EmptySeq
      <4>2. \A n \in Nat \ {0} : n > 1 \/ n = 1
        OBVIOUS
      <4> QED
        BY <1>3, <4>1, <4>2
    <3>2. Tail(Text(m_token)) \in Seq(Glyph) /\ Len(Tail(Text(m_token))) = 0
      BY <1>1, <3>1, HeadTailProperties
    <3> QED
      BY <3>2, EmptySeq
  <2>3. EndsLiteral(<< Ev("end", Current) >>) /\ Flushed(<< Ev("end", Current) >>) = << >>
    BY <1>1, PairOfEvents, QuietEvents
  <2>4. ~ EndsLiteral(<< >>) /\ Flushed(<< >>) = << >>
    BY QuietEvents
  <2> QED
    BY <2>1, <2>2, <2>3, <2>4
<1> QED
  BY <1>2, <1>3

-----------------------------------------------------------------------------
(* The literal invariant.                                                  *)

LiteralInv == Typed /\ TokenHoldsLiteral /\ AssertionsHold

\* The literal that this step ends has reached the callback whole.
Delivered == EndsLiteral(out') => Undecoded \/ got \o Flushed(out') = lit

\* A step that neither starts nor continues a literal.
LEMMA OutsideLiterals ==
  ASSUME TokenHoldsLiteral, InLoop, NEW c \in Class, m_state \notin Literal,
         m_token' = Advance(m_token, c), m_state' \notin Literal,
         Spelled(c) = << >>, ~ EndsLiteral(out'), Flushed(out') = << >>, Observes(c)
  PROVE  TokenHoldsLiteral' /\ Delivered
<1>1. m_token = Clear /\ lit = << >> /\ got = << >>
  BY DEF TokenHoldsLiteral, InLoop
<1>2. m_token' = Clear
  BY <1>1, FreshToken
<1>3. << >> \o << >> = << >>
  BY EmptySeq, ConcatEmptySeq
<1>4. lit' = << >> /\ got' = << >>
  BY <1>1, <1>3 DEF Observes
<1> QED
  BY <1>2, <1>4 DEF TokenHoldsLiteral, Delivered

\* A step that ends a literal, and has delivered all of its text.
LEMMA EndOfLiteral ==
  ASSUME m_token' = Clear, m_state' \notin Literal,
         EndsLiteral(out'), NEW c, Observes(c),
         Undecoded \/ got \o Flushed(out') = lit
  PROVE  TokenHoldsLiteral' /\ Delivered
<1>1. lit' = << >> /\ got' = << >>
  BY DEF Observes
<1> QED
  BY <1>1 DEF TokenHoldsLiteral, Delivered

\* A step that throws: there is no further claim about the token.
LEMMA AfterThrow ==
  ASSUME call' = "thrown", ~ EndsLiteral(out')
  PROVE  TokenHoldsLiteral' /\ Delivered
BY DEF TokenHoldsLiteral, Delivered

\* What spells nothing, and what stays undecoded.
LEMMA NothingSpelled ==
  ASSUME Typed, NEW c \in Class, NEW a \in ActionAt[m_state][c], a # "eep"
  PROVE  Spelled(c) = << >>
<1>1. m_state \in State
  BY DEF Typed, TypeOK
<1>2. StateAt[m_state][c] = {} /\ Edge(m_state, c, a)
  BY <1>1, CellsAreSingle, CellHoldsAction
<1>3. a \in { "eos", "sep", "eon", "enj", "ena", "enx", "soj", "sar", "eoj", "noj", "ear",
              "ktv", "nxt", "sos", "nul", "tru", "fls" }
  BY <1>1, CellHoldsAction DEF Action
<1>4. m_state \notin Escape
  BY <1>2, <1>3, EdgeRegions DEF Literal, Number, Escape
<1> QED
  BY <1>2, <1>4 DEF Spelled, Escape

\* A literal with a \u escape, which the parser leaves undecoded, still has it one character on.
LEMMA StaysUndecoded ==
  ASSUME Typed, NEW c \in Class, lit' = lit \o Spelled(c), Spelled(c) \in Seq(Glyph), Undecoded
  PROVE  Undecoded'
BY RangeOfConcat DEF Typed, TypeOK, AnyText, Undecoded

\* A turn of the loop keeps the invariant: what has been delivered and what the token holds
\* are the literal.
LEMMA TurnKeepsLiteral ==
  ASSUME LiteralInv, InLoop, NEW c \in Class, Turn(c), Observes(c)
  PROVE  TokenHoldsLiteral' /\ Delivered /\ call' # "aborted"
<1> DEFINE Goal == TokenHoldsLiteral' /\ Delivered /\ call' # "aborted"
           Cell == ActionAt[m_state][c]
<1>1. /\ Typed /\ m_state \in State /\ m_token \in Token(AnyText)
      /\ lit \in Seq(Glyph) /\ got \in Seq(Glyph) /\ c \in Glyph
  BY DEF LiteralInv, Typed, TypeOK, AnyText, Glyph
<1>2. /\ m_state \notin Literal => m_token = Clear /\ lit = << >> /\ got = << >>
      /\ m_state \in Literal => /\ m_token.saved
                                /\ Text(m_token) # << >>
                                /\ Undecoded \/ TextSplit
  BY DEF LiteralInv, TokenHoldsLiteral, InLoop
<1>3. ~ Clear.saved
  BY DEF Clear
<1>4. \A a \in Cell : a \in Action /\ Edge(m_state, c, a)
  BY <1>1, CellHoldsAction
<1>5. \A a \in Cell : a # "eep" => Spelled(c) = << >>
  BY <1>1, NothingSpelled
<1>6. Spelled(c) = << >> => lit \o Spelled(c) = lit
  BY <1>1, ConcatEmptySeq
<1>7. \A a \in Cell : a = "eep" => m_state \in { "esp", "u4" }
  BY <1>4, EdgeRegions
<1>8. Text(m_token) \in Seq(Glyph)
  BY <1>1, TokenTypes DEF AnyText
<1>10. ASSUME NEW a \in Cell,
              \/ a = "soj" /\ OnStartObject(c)
              \/ a = "sar" /\ OnStartArray(c)
              \/ a = "eoj" /\ OnEndObject(c)
              \/ a = "noj" /\ OnEndEmptyObject(c)
              \/ a = "ear" /\ OnEndArray(c)
              \/ a = "ktv" /\ OnKeyToValue(c)
              \/ a = "nxt" /\ OnNextValue(c)
              \/ a = "nul" /\ OnNull(c)
              \/ a = "tru" /\ OnTrue(c)
              \/ a = "fls" /\ OnFalse(c)
       PROVE  Goal
  <2>1. m_state \notin Literal /\ Spelled(c) = << >>
    BY <1>4, <1>5, <1>10, EdgeRegions
  <2>2. /\ m_token' = Advance(m_token, c) /\ Goes(a)
        /\ \/ out' = << >>
           \/ \E t : t \notin LiteralType /\ out' = << Ev("end", t) >>
           \/ \E t : out' = << Ev("start", t) >> \/ out' = << Ev("data", t) >>
    BY <1>10 DEF OnStartObject, OnStartArray, OnEndObject, OnEndEmptyObject, OnEndArray,
                 OnKeyToValue, OnNextValue, OnNull, OnTrue, OnFalse, OnWord,
                 Delivers, LeavesToken, LiteralType
  <2>3. m_state' \notin Literal /\ call' = "parsing"
    BY <1>10, <2>2 DEF Goes, Dest, Literal, Escape, Number
  <2>4. ~ EndsLiteral(out') /\ Flushed(out') = << >>
    <3>1. CASE out' = << >>
      BY <3>1, QuietEvents
    <3>2. ASSUME NEW t, t \notin LiteralType, out' = << Ev("end", t) >>
          PROVE  ~ EndsLiteral(out') /\ Flushed(out') = << >>
      BY <3>2, QuietEvents
    <3>3. ASSUME NEW t, out' = << Ev("start", t) >> \/ out' = << Ev("data", t) >>
          PROVE  ~ EndsLiteral(out') /\ Flushed(out') = << >>
      <4>1. ~ EndsLiteral(<< Ev("start", t) >>) /\ Flushed(<< Ev("start", t) >>) = << >>
        BY QuietEvents
      <4>2. ~ EndsLiteral(<< Ev("data", t) >>)
        BY QuietEvents
      <4>3. Flushed(<< Ev("data", t) >>) = << >>
        BY QuietEvents
      <4> QED
        BY <3>3, <4>1, <4>2, <4>3
    <3> QED
      BY <2>2, <3>1, <3>2, <3>3
  <2> QED
    BY <2>1, <2>2, <2>3, <2>4, OutsideLiterals DEF LiteralInv
<1>11. ASSUME NEW a \in Cell,
              \/ a = "eon" /\ OnEndNumber(c)
              \/ a = "enj" /\ OnEndNumberAndObject(c)
              \/ a = "ena" /\ OnEndNumberAndArray(c)
              \/ a = "enx" /\ OnEndNumberAndNextValue(c)
       PROVE  Goal
  <2>1. m_state \in Number
    BY <1>4, <1>11, EdgeRegions
  <2>2. m_token' = Clear /\ Goes(a) /\ EndsLiteral(out') /\ Flushed(out') = Text(m_token)
    BY <1>11, NumberEventsDeliver, FreshToken
       DEF OnEndNumber, OnEndNumberAndObject, OnEndNumberAndArray, OnEndNumberAndNextValue,
           Delivers, LeavesToken
  <2>3. m_state' \notin Literal /\ call' = "parsing"
    BY <1>11, <2>2 DEF Goes, Dest, Literal, Escape, Number
  <2>4. Undecoded \/ (Text(m_token) = lit /\ got = << >>)
    BY <1>2, <2>1 DEF TextSplit, Literal
  <2>5. << >> \o Text(m_token) = Text(m_token)
    BY <1>8, ConcatEmptySeq
  <2>6. Undecoded \/ got \o Flushed(out') = lit
    BY <2>2, <2>4, <2>5
  <2> QED
    BY <2>2, <2>3, <2>6, EndOfLiteral
<1>12. ASSUME NEW a \in Cell, a = "sos", OnStartString(c)
       PROVE  Goal
  <2>1. m_state \notin Literal /\ Spelled(c) = << >>
    BY <1>4, <1>5, <1>12, EdgeRegions
  <2>2. /\ m_token' = Advance(Save(Clear), c) /\ Goes("sos")
        /\ out' = << Ev("start", Current) >>
    BY <1>2, <1>12, <2>1 DEF OnStartString, Delivers, LeavesToken
  <2>3. m_state' = "str" /\ call' = "parsing"
    BY <2>2 DEF Goes, Dest
  <2>4. << >> \o << >> = << >>
    BY EmptySeq, ConcatEmptySeq
  <2>5. lit' = << >> /\ got' = << >> /\ ~ EndsLiteral(out')
    BY <1>2, <2>1, <2>2, <2>3, <2>4, QuietEvents DEF Observes
  <2>6. Text(m_token') = << c >> /\ Tail(<< c >>) = << >> /\ m_token'.saved /\ << c >> # << >>
    BY <2>2, FreshToken
  <2>7. TextSplit'
    BY <2>3, <2>4, <2>5, <2>6 DEF TextSplit, Escape, Number
  <2> QED
    BY <2>3, <2>5, <2>6, <2>7 DEF TokenHoldsLiteral, Delivered, Literal
<1>13. ASSUME NEW a \in Cell, a = "eos", OnEndString(c)
       PROVE  Goal
  <2>1. m_state = "str"
    BY <1>4, <1>13, EdgeRegions
  <2>2. m_token' = Clear /\ Goes("eos") /\ EndsLiteral(out') /\ Flushed(out') = Tail(Text(m_token))
    BY <1>1, <1>2, <1>13, <2>1, StringEventsDeliver, FreshToken
       DEF OnEndString, Delivers, LeavesToken, Literal
  <2>3. m_state' \notin Literal /\ call' = "parsing"
    BY <2>2 DEF Goes, Dest, Literal, Escape, Number
  <2>4. Undecoded \/ got \o Flushed(out') = lit
    BY <1>2, <2>1, <2>2 DEF TextSplit, Literal
  <2> QED
    BY <2>2, <2>3, <2>4, EndOfLiteral
<1>14. ASSUME NEW a \in Cell, a = "sep", OnStartEscape(c)
       PROVE  Goal
  <2>1. m_state = "str" /\ Spelled(c) = << >>
    BY <1>4, <1>5, <1>14, EdgeRegions
  <2>2. /\ m_token' = Advance(Save(Clear), c) /\ Goes("sep")
        /\ ~ EndsLiteral(out') /\ Flushed(out') = Tail(Text(m_token))
    BY <1>1, <1>2, <1>14, <2>1, StringEventsDeliver DEF OnStartEscape, Delivers, LeavesToken, Literal
  <2>3. m_state' = "esp" /\ call' = "parsing"
    BY <2>2 DEF Goes, Dest
  <2>4. lit' = lit /\ got' = got \o Tail(Text(m_token))
    BY <1>6, <2>1, <2>2, <2>3 DEF Observes
  <2>5. Text(m_token') = << c >> /\ m_token'.saved /\ << c >> # << >>
    BY <2>2, FreshToken
  <2>6. Undecoded' \/ TextSplit'
    BY <1>2, <2>1, <2>3, <2>4 DEF TextSplit, Undecoded, Escape, Number, Literal
  <2> QED
    BY <2>2, <2>3, <2>5, <2>6 DEF TokenHoldsLiteral, Delivered, Literal, Escape
<1>15. ASSUME NEW a \in Cell, a = "eep", OnEndEscape(c)
       PROVE  Goal
  <2>1. m_state \in { "esp", "u4" } /\ c \in DOMAIN Unescaped
    BY <1>7, <1>15 DEF OnEndEscape
  <2>2. /\ m_token' = Advance(Save(Clear), c) /\ Goes("eep")
        /\ out' = << Data(Current, << Unescaped[c] >>) >>
    BY <1>15 DEF OnEndEscape, Delivers, LeavesToken
  <2>3. m_state' = "str" /\ call' = "parsing"
    BY <2>2 DEF Goes, Dest
  <2>4. Current \in LiteralType
    BY DEF Current, LiteralType
  <2>5. ~ EndsLiteral(out') /\ Flushed(out') = << Unescaped[c] >>
    BY <2>2, <2>4, QuietEvents
  <2>6. lit' = lit \o Spelled(c) /\ got' = got \o << Unescaped[c] >>
    BY <2>3, <2>5 DEF Observes
  <2>7. Text(m_token') = << c >> /\ Tail(<< c >>) = << >> /\ m_token'.saved /\ << c >> # << >>
    BY <2>2, FreshToken
  <2>8. << Unescaped[c] >> \in Seq(Glyph)
    <3>1. Unescaped[c] \in Glyph
      BY <2>1 DEF Unescaped, Glyph, Class
    <3> QED
      BY <3>1
  <2>9. got' \o << >> = got'
    BY <1>1, <2>6, <2>8, ConcatProperties, ConcatEmptySeq
  <2>10. Undecoded' \/ TextSplit'
    <3>1. CASE m_state = "esp"
      <4>1. Spelled(c) = << Unescaped[c] >>
        BY <2>1, <3>1 DEF Spelled
      <4>2. CASE Undecoded
        BY <1>1, <2>6, <2>8, <4>1, <4>2, StaysUndecoded
      <4>3. CASE TextSplit
        <5>1. got = lit
          BY <3>1, <4>3 DEF TextSplit, Escape
        <5> QED
          BY <2>3, <2>6, <2>7, <2>9, <4>1, <5>1 DEF TextSplit, Escape, Number
      <4> QED
        BY <1>2, <3>1, <4>2, <4>3 DEF Literal, Escape
    <3>2. CASE m_state = "u4"
      <4>1. c \in Hex
        BY <1>4, <1>15, <3>2 DEF Edge
      <4>2. Spelled(c) = << "unicode" >>
        BY <3>2, <4>1 DEF Spelled
      <4>3. << "unicode" >> \in Seq(Glyph) /\ "unicode" \in Range(<< "unicode" >>)
        <5>1. "unicode" \in Glyph /\ DOMAIN << "unicode" >> = { 1 } /\ << "unicode" >>[1] = "unicode"
          BY DEF Glyph
        <5> QED
          BY <5>1 DEF Range
      <4> QED
        BY <1>1, <2>6, <4>2, <4>3, RangeOfConcat DEF Undecoded
    <3> QED
      BY <2>1, <3>1, <3>2
  <2> QED
    BY <2>3, <2>5, <2>7, <2>10 DEF TokenHoldsLiteral, Delivered, Literal
<1>16. ASSUME NEW a \in Cell, PopThrows(a)
       PROVE  Goal
  <2>1. call' = "thrown"
    BY <1>16 DEF PopThrows, Throws
  <2>2. CASE out' = << >>
    BY <2>1, <2>2, AfterThrow, QuietEvents
  <2>3. CASE a \in { "enj", "ena" } /\ out' = NumberEvents
    <3>1. m_state \in Number
      BY <1>4, <2>3, EdgeRegions
    <3>2. Undecoded \/ (Text(m_token) = lit /\ got = << >>)
      BY <1>2, <3>1 DEF TextSplit, Literal
    <3>3. << >> \o Text(m_token) = Text(m_token)
      BY <1>8, ConcatEmptySeq
    <3> QED
      BY <2>1, <2>3, <3>2, <3>3, NumberEventsDeliver DEF TokenHoldsLiteral, Delivered
  <2> QED
    BY <1>16, <2>2, <2>3 DEF PopThrows, Delivers
<1>17. ASSUME EscapeThrows(c) \/ EmptyCellThrows(c)
       PROVE  Goal
  BY <1>17, AfterThrow, QuietEvents DEF EscapeThrows, EmptyCellThrows, Throws, Delivers
<1>18. ASSUME OnStartNumber(c)
       PROVE  Goal
  <2>1. PICK d \in StateAt[m_state][c] :
          /\ m_state \notin Number /\ d \in Number /\ ~ m_token.saved
          /\ out' = << Ev("start", "number") >> /\ m_token' = Advance(Save(m_token), c)
          /\ call' = "parsing" /\ m_state' = d
    BY <1>18 DEF OnStartNumber, StartsNumber, Delivers, LeavesToken
  <2>2. m_state \notin Literal
    <3>1. Move(m_state, c, d)
      BY <1>1, CellHoldsState
    <3>2. d # "str" /\ d \notin Escape
      BY <2>1 DEF Number, Escape
    <3> QED
      BY <1>1, <2>1, <3>1, <3>2, MoveRegions DEF Literal
  <2>3. m_token = Clear /\ lit = << >> /\ got = << >>
    BY <1>2, <2>2
  <2>4. Spelled(c) = << c >>
    BY <2>1, <2>2 DEF Spelled, Literal, Escape
  <2>5. ~ EndsLiteral(out') /\ Flushed(out') = << >>
    BY <2>1, QuietEvents
  <2>6. << >> \o << c >> = << c >> /\ << >> \o << >> = << >>
    <3>1. << c >> \in Seq(Class) /\ << >> \in Seq(Class)
      OBVIOUS
    <3> QED
      BY <3>1, ConcatEmptySeq
  <2>7. lit' = << c >> /\ got' = << >>
    BY <2>1, <2>3, <2>4, <2>5, <2>6 DEF Observes
  <2>8. Text(m_token') = << c >> /\ m_token'.saved /\ << c >> # << >>
    BY <2>1, <2>3, FreshToken
  <2>9. TextSplit'
    BY <2>1, <2>7, <2>8 DEF TextSplit, Number, Escape
  <2> QED
    BY <2>1, <2>5, <2>8, <2>9 DEF TokenHoldsLiteral, Delivered, Literal
<1>19. ASSUME OnNone(c)
       PROVE  Goal
  <2>1. PICK d \in StateAt[m_state][c] :
          /\ ~ (m_state \notin Number /\ d \in Number)
          /\ out' = << >> /\ m_token' = Advance(m_token, c)
          /\ call' = "parsing" /\ m_state' = d
    BY <1>19 DEF OnNone, StartsNumber, Delivers, LeavesToken
  <2>2. Move(m_state, c, d) /\ d \in State /\ \A e \in StateAt[m_state][c] : e = d
    BY <1>1, CellHoldsState, CellsAreSingle
  <2>3. /\ m_state = "str" <=> d = "str"
        /\ m_state \in Number <=> d \in Number
        /\ m_state \in Escape <=> d \in Escape
        /\ m_state \in Escape => m_state # "u4" /\ (m_state = "esp" => c = "u")
    BY <1>1, <2>1, <2>2, MoveRegions
  <2>4. ~ EndsLiteral(out') /\ Flushed(out') = << >>
    BY <2>1, QuietEvents
  <2>5. Spelled(c) = IF d \in Number \cup { "str" } THEN << c >> ELSE << >>
    <3>1. m_state = "esp" => c \notin DOMAIN Unescaped
      BY <2>3 DEF Unescaped, Escape
    <3>2. m_state # "u4"
      BY <2>3 DEF Escape
    <3> QED
      BY <2>2, <3>1, <3>2 DEF Spelled
  <2>6. lit' = lit \o Spelled(c) /\ got' = got
    BY <1>1, <2>1, <2>4, ConcatEmptySeq DEF Observes
  <2>7. CASE m_state \notin Literal
    <3>1. m_state' \notin Literal /\ Spelled(c) = << >>
      BY <2>1, <2>3, <2>5, <2>7 DEF Literal
    <3> QED
      BY <2>1, <2>4, <2>7, <3>1, OutsideLiterals DEF LiteralInv
  <2>8. CASE m_state \in Literal
    <3>1. m_token.saved /\ Text(m_token) # << >>
      BY <1>2, <2>8
    <3>2. Text(m_token') = Append(Text(m_token), c) /\ m_token'.saved
      BY <1>1, <2>1, <3>1, TextOfAdvance
    <3>3. /\ Append(Text(m_token), c) # << >>
          /\ Append(Text(m_token), c) = Text(m_token) \o << c >>
          /\ Tail(Append(Text(m_token), c)) = Append(Tail(Text(m_token)), c)
      <4>1. Len(Append(Text(m_token), c)) = Len(Text(m_token)) + 1 /\ Len(Text(m_token)) \in Nat
        BY <1>1, <1>8, AppendProperties, LenProperties
      <4>2. Append(Text(m_token), c) # << >>
        BY <4>1
      <4>3. \A x \in Seq(Glyph), e \in Glyph : Append(x, e) = x \o << e >>
        BY AppendIsConcat
      <4> QED
        BY <1>1, <1>8, <3>1, <4>2, <4>3, TailOfAppend
    <3>4. d \in Literal
      BY <2>3, <2>8 DEF Literal
    <3>5. Undecoded' \/ TextSplit'
      <4>1. Spelled(c) \in Seq(Glyph)
        BY <1>1, <2>5, EmptySeq
      <4>2. CASE Undecoded
        BY <1>1, <2>6, <4>1, <4>2, StaysUndecoded
      <4>3. CASE TextSplit /\ m_state = "str"
        <5>1. got \o Tail(Text(m_token)) = lit /\ d = "str" /\ Spelled(c) = << c >>
          BY <2>3, <2>5, <4>3 DEF TextSplit
        <5>2. Tail(Text(m_token)) \in Seq(Glyph)
          BY <1>8, <3>1, HeadTailProperties
        <5>3. got \o Append(Tail(Text(m_token)), c) = Append(got \o Tail(Text(m_token)), c)
          <6>1. \A x, y \in Seq(Glyph), e \in Glyph : x \o Append(y, e) = Append(x \o y, e)
            BY ConcatAppend
          <6> QED
            BY <1>1, <5>2, <6>1
        <5>4. Append(lit, c) = lit \o << c >>
          BY <1>1, AppendIsConcat
        <5> QED
          BY <2>1, <2>6, <3>2, <3>3, <5>1, <5>3, <5>4 DEF TextSplit, Escape, Number
      <4>4. CASE TextSplit /\ m_state \in Escape
        <5>1. d \in Escape /\ d # "str" /\ d \notin Number
          BY <2>3, <4>4 DEF Escape, Number
        <5>2. Spelled(c) = << >>
          BY <2>5, <5>1
        <5> QED
          BY <1>6, <2>1, <2>6, <4>4, <5>1, <5>2 DEF TextSplit
      <4>5. CASE TextSplit /\ m_state \in Number
        <5>1. d \in Number /\ d # "str" /\ d \notin Escape /\ Spelled(c) = << c >>
          BY <2>3, <2>5, <4>5 DEF Escape, Number
        <5> QED
          BY <2>1, <2>6, <3>2, <3>3, <4>5, <5>1 DEF TextSplit
      <4> QED
        BY <1>2, <2>8, <4>2, <4>3, <4>4, <4>5 DEF Literal
    <3> QED
      BY <2>1, <2>4, <3>2, <3>3, <3>4, <3>5 DEF TokenHoldsLiteral, Delivered
  <2> QED
    BY <2>7, <2>8
<1>20. ~ AbortInHandler(c)
  <2>1. \A a \in Cell : a \in TakesToken => m_token.saved
    <3> TAKE a \in Cell
    <3>1. a \in TakesToken => m_state \in Literal
      BY <1>4, EdgeRegions DEF TakesToken, Literal, Escape
    <3> QED
      BY <1>2, <3>1
  <2>2. "sos" \in Cell => ~ m_token.saved
    BY <1>2, <1>3, <1>4, EdgeRegions
  <2>3. \A d \in StateAt[m_state][c] : StartsNumber(c, d) => ~ m_token.saved
    <3> TAKE d \in StateAt[m_state][c]
    <3>1. StartsNumber(c, d) => m_state \notin Literal
      <4>1. Move(m_state, c, d)
        BY <1>1, CellHoldsState
      <4>2. d \in Number => d # "str" /\ d \notin Escape
        BY DEF Number, Escape
      <4> QED
        BY <1>1, <4>1, <4>2, MoveRegions DEF StartsNumber, Literal
    <3> QED
      BY <1>2, <1>3, <3>1
  <2> QED
    BY <2>1, <2>2, <2>3 DEF AbortInHandler, AssertionFails
<1> QED
  BY <1>10, <1>11, <1>12, <1>13, <1>14, <1>15, <1>16, <1>17, <1>18, <1>19, <1>20 DEF Turn

\* Cutting the text loses nothing: the token is stashed at the end of a buffer and
\* taken up at the start of the next one with the same text.
LEMMA CallsKeepLiteral ==
  ASSUME LiteralInv, ~ RetryAfterThrow, BeginParse \/ AbortInParse \/ EndParse
  PROVE  TokenHoldsLiteral' /\ AssertionsHold' /\ Delivered
<1>1. /\ m_token \in Token(AnyText) /\ m_token.tmp \in Seq(Glyph) /\ m_token.held \in Seq(Glyph)
      /\ m_token.saved \in BOOLEAN
  BY DEF LiteralInv, Typed, TypeOK, AnyText, Token
<1>2. /\ UNCHANGED <<m_state, m_stack, lit, got>> /\ out' = << >>
      /\ call \in { "idle", "parsing" }
  BY DEF BeginParse, AbortInParse, EndParse, Delivers, MayCall
<1>3. /\ m_state \notin Literal => m_token = Clear /\ lit = << >> /\ got = << >>
      /\ m_state \in Literal => /\ m_token.saved <=> call # "idle"
                                /\ call = "idle" => m_token.held = << >>
                                /\ Text(m_token) # << >>
                                /\ Undecoded \/ TextSplit
  BY <1>2 DEF LiteralInv, TokenHoldsLiteral
<1>4. ~ Clear.saved /\ ~ IsStashed(Clear)
  BY DEF Clear, IsStashed
<1>5. Delivered
  BY <1>2, QuietEvents DEF Delivered
<1>6. CASE BeginParse
  <2>1. call = "idle" /\ call' = "begun"
        /\ m_token' = IF IsStashed(m_token) THEN Save(m_token) ELSE m_token
    BY <1>6 DEF BeginParse, MayCall
  <2>2. CASE m_state \notin Literal
    BY <1>2, <1>3, <1>4, <1>5, <2>1, <2>2 DEF TokenHoldsLiteral, AssertionsHold
  <2>3. CASE m_state \in Literal
    <3>1. m_token.held = << >> /\ Text(m_token) = m_token.tmp /\ m_token.tmp # << >>
      BY <1>1, <1>3, <2>1, <2>3, ConcatEmptySeq DEF Text
    <3>2. m_token' = Save(m_token)
      BY <2>1, <3>1 DEF IsStashed
    <3>3. m_token'.saved /\ m_token'.held = << >> /\ m_token'.tmp = m_token.tmp
      BY <1>1, <3>2 DEF Save, Token
    <3>4. Text(m_token') = Text(m_token)
      BY <3>1, <3>3 DEF Text
    <3>5. Undecoded' \/ TextSplit'
      BY <1>2, <1>3, <2>3, <3>4 DEF Undecoded, TextSplit
    <3> QED
      BY <1>2, <1>3, <1>5, <2>1, <2>3, <3>3, <3>4, <3>5 DEF TokenHoldsLiteral, AssertionsHold
  <2> QED
    BY <2>2, <2>3
<1>7. CASE EndParse
  <2>1. call = "parsing" /\ call' = "idle"
        /\ m_token' = IF m_token.saved THEN Stash(m_token) ELSE m_token
    BY <1>7 DEF EndParse
  <2>2. CASE m_state \notin Literal
    BY <1>2, <1>3, <1>4, <1>5, <2>1, <2>2 DEF TokenHoldsLiteral, AssertionsHold
  <2>3. CASE m_state \in Literal
    <3>1. ~ m_token'.saved /\ m_token'.held = << >> /\ m_token'.tmp = m_token.tmp \o m_token.held
      BY <1>3, <2>1, <2>3 DEF Stash
    <3>2. m_token.tmp \o m_token.held \in Seq(Glyph)
      BY <1>1, ConcatProperties
    <3>3. Text(m_token') = Text(m_token)
      BY <3>1, <3>2, ConcatEmptySeq DEF Text
    <3>4. Undecoded' \/ TextSplit'
      BY <1>2, <1>3, <2>3, <3>3 DEF Undecoded, TextSplit
    <3> QED
      BY <1>2, <1>3, <1>5, <2>1, <2>3, <3>1, <3>3, <3>4 DEF TokenHoldsLiteral, AssertionsHold
  <2> QED
    BY <2>2, <2>3
<1>8. ~ AbortInParse
  BY <1>3, <1>4 DEF AbortInParse, MayCall
<1> QED
  BY <1>6, <1>7, <1>8

\* A new automaton keeps the invariant.
LEMMA LiteralInit == Init => LiteralInv
<1> SUFFICES ASSUME Init PROVE LiteralInv
  OBVIOUS
<1>1. Typed
  BY TypedInit
<1> QED
  BY <1>1 DEF Init, LiteralInv, TokenHoldsLiteral, AssertionsHold, Literal, Escape, Number

\* So does every step.
LEMMA LiteralStep ==
  ~ RetryAfterThrow /\ LiteralInv /\ [Next]_vars => LiteralInv' /\ [Delivered]_vars
<1> SUFFICES ASSUME ~ RetryAfterThrow, LiteralInv, [Next]_vars
             PROVE  LiteralInv' /\ [Delivered]_vars
  OBVIOUS
<1>1. Typed'
  BY TypedStep DEF LiteralInv
<1>2. CASE \E c \in Chars : Reads(c)
  <2> PICK c \in Chars : Reads(c)
    BY <1>2
  <2>1. c \in Class
    BY CharsAssumption
  <2> QED
    BY <1>1, <2>1, TurnKeepsLiteral DEF Reads, LiteralInv, AssertionsHold
<1>3. CASE BeginParse \/ AbortInParse \/ EndParse
  BY <1>1, <1>3, CallsKeepLiteral DEF LiteralInv
<1>4. CASE UNCHANGED vars
  BY <1>1, <1>4 DEF vars, impl, LiteralInv, TokenHoldsLiteral, AssertionsHold, Undecoded, TextSplit
<1> QED
  BY <1>2, <1>3, <1>4 DEF Next

\* Between the characters of a literal, and between two buffers, the token and what
\* the callback was given make up what the literal spells; outside literals the token
\* is clear.  This is what the handlers of Automaton.cc and EmitData.cc rely on.
THEOREM TokenCorrect ==
  ASSUME ~ RetryAfterThrow
  PROVE  Spec => []TokenHoldsLiteral
<1>1. LiteralInv => TokenHoldsLiteral
  BY DEF LiteralInv
<1>2. LiteralInv /\ [Next]_vars => LiteralInv'
  BY LiteralStep
<1> QED
  BY <1>1, <1>2, LiteralInit, PTL DEF Spec

\* No assertion of Automaton.cc or EmitData.cc fails, as long as the caller stops at
\* the first exception: whatever the text, and wherever it is cut.
THEOREM AssertionsCorrect ==
  ASSUME ~ RetryAfterThrow
  PROVE  Spec => []AssertionsHold
<1>1. LiteralInv => AssertionsHold
  BY DEF LiteralInv
<1>2. LiteralInv /\ [Next]_vars => LiteralInv'
  BY LiteralStep
<1> QED
  BY <1>1, <1>2, LiteralInit, PTL DEF Spec

\* Every key, string and number without a \uXXXX reaches the callback whole and in
\* order, whatever escapes and whatever ends of buffers lay inside it.
THEOREM LiteralsCorrect ==
  ASSUME ~ RetryAfterThrow
  PROVE  Spec => LiteralIntact
<1>1. LiteralInv /\ [Next]_vars =>
        LiteralInv' /\ [EndsLiteral(out') => Undecoded \/ got \o Flushed(out') = lit]_vars
  BY LiteralStep DEF Delivered
<1> QED
  BY <1>1, LiteralInit, PTL DEF Spec, LiteralIntact

-----------------------------------------------------------------------------
(* The containers a stack stands for.                                      *)

ContainerOf(mode) == IF mode = "array" THEN "array" ELSE "object"
ContainersOf(s) == [ i \in 1 .. Len(s) - 1 |-> ContainerOf(s[i + 1]) ]

\* There is one container for each mode above the bottom.
LEMMA StackLength ==
  ASSUME NEW s, GoodStack(s)
  PROVE  /\ Len(s) \in Nat \ {0} /\ s \in Seq(Mode)
         /\ \A i \in 1 .. Len(s) : s[i] \in Mode
         /\ ContainersOf(s) \in Seq({ "array", "object" })
         /\ Len(ContainersOf(s)) = Len(s) - 1
         /\ \A i \in 1 .. Len(s) - 1 : ContainersOf(s)[i] = ContainerOf(s[i + 1])
<1>1. Len(s) \in Nat \ {0} /\ s \in Seq(Mode) /\ \A i \in 1 .. Len(s) : s[i] \in Mode
  BY EmptySeq DEF GoodStack
<1>2. Len(s) - 1 \in Nat
  BY <1>1
<1>3. \A i \in 1 .. Len(s) - 1 : ContainerOf(s[i + 1]) \in { "array", "object" }
  BY DEF ContainerOf
<1>4. /\ ContainersOf(s) \in [1 .. Len(s) - 1 -> { "array", "object" }]
      /\ \A i \in 1 .. Len(s) - 1 : ContainersOf(s)[i] = ContainerOf(s[i + 1])
  BY <1>3 DEF ContainersOf
<1>5. ContainersOf(s) \in Seq({ "array", "object" }) /\ Len(ContainersOf(s)) = Len(s) - 1
  BY <1>2, <1>4
<1> QED
  BY <1>1, <1>4, <1>5

\* A mode pushed opens a container.
LEMMA ContainersOfPush ==
  ASSUME NEW s, GoodStack(s), NEW m \in { "array", "object", "key" }
  PROVE  ContainersOf(Append(s, m)) = Append(ContainersOf(s), ContainerOf(m))
<1> DEFINE t == Append(s, m)
           C == ContainersOf(s)
<1>1. GoodStack(t)
  BY PushIsGood DEF Mode
<1>2. /\ Len(s) \in Nat \ {0} /\ C \in Seq({ "array", "object" }) /\ Len(C) = Len(s) - 1
      /\ \A i \in 1 .. Len(s) - 1 : C[i] = ContainerOf(s[i + 1])
  BY StackLength
<1>3. Len(t) = Len(s) + 1 /\ t[Len(s) + 1] = m /\ \A i \in 1 .. Len(s) : t[i] = s[i]
  BY AppendProperties DEF GoodStack, Mode
<1>4. /\ ContainersOf(t) \in Seq({ "array", "object" }) /\ Len(ContainersOf(t)) = Len(s)
      /\ \A i \in 1 .. Len(s) : ContainersOf(t)[i] = ContainerOf(t[i + 1])
  <2>1. /\ ContainersOf(t) \in Seq({ "array", "object" }) /\ Len(ContainersOf(t)) = Len(t) - 1
        /\ \A i \in 1 .. Len(t) - 1 : ContainersOf(t)[i] = ContainerOf(t[i + 1])
    BY <1>1, StackLength
  <2> HIDE DEF t
  <2> QED
    BY <1>2, <1>3, <2>1
<1>5. ContainerOf(m) \in { "array", "object" }
  BY DEF ContainerOf
<1>6. /\ Append(C, ContainerOf(m)) \in Seq({ "array", "object" })
      /\ Len(Append(C, ContainerOf(m))) = Len(C) + 1
      /\ Append(C, ContainerOf(m))[Len(C) + 1] = ContainerOf(m)
      /\ \A i \in 1 .. Len(C) : Append(C, ContainerOf(m))[i] = C[i]
  <2> HIDE DEF C
  <2> QED
    BY <1>2, <1>5, AppendProperties
<1>7. ASSUME NEW i \in 1 .. Len(s)
      PROVE  ContainersOf(t)[i] = Append(C, ContainerOf(m))[i]
  <2> HIDE DEF t, C
  <2>1. CASE i = Len(s)
    BY <1>2, <1>3, <1>4, <1>6, <2>1
  <2>2. CASE i \in 1 .. Len(s) - 1
    <3>1. i + 1 \in 1 .. Len(s)
      BY <1>2, <2>2
    <3> QED
      BY <1>2, <1>3, <1>4, <1>6, <2>2, <3>1
  <2> QED
    BY <1>2, <2>1, <2>2
<1> HIDE DEF t, C
<1>8. Len(Append(C, ContainerOf(m))) = Len(s)
  BY <1>2, <1>6
<1>9. ContainersOf(t) = Append(C, ContainerOf(m))
  BY <1>4, <1>6, <1>7, <1>8, SeqEqual
<1> QED
  BY <1>9 DEF t, C

\* A mode popped closes the innermost container; one exchanged for a mode of the same
\* container leaves them alone.
LEMMA ContainersOfPop ==
  ASSUME NEW s, GoodStack(s), Last(s) # "done"
  PROVE  /\ ContainersOf(s) # << >>
         /\ Last(ContainersOf(s)) = ContainerOf(Last(s))
         /\ ContainersOf(Front(s)) = Front(ContainersOf(s))
         /\ \A m \in { "array", "object", "key" } :
              ContainerOf(m) = ContainerOf(Last(s)) => ContainersOf(Append(Front(s), m)) = ContainersOf(s)
<1> DEFINE f == Front(s)
           C == ContainersOf(f)
<1>1. GoodStack(f)
  BY PopIsGood
<1>2. Append(f, Last(s)) = s
  BY FrontThenLast DEF GoodStack
<1>3. Last(s) \in { "array", "object", "key" }
  BY TopOfStack DEF Mode
<1>4. C \in Seq({ "array", "object" }) /\ ContainerOf(Last(s)) \in { "array", "object" }
  <2>1. C \in Seq({ "array", "object" })
    BY <1>1, StackLength
  <2> QED
    BY <2>1 DEF ContainerOf
<1>5. \A m \in { "array", "object", "key" } :
        ContainersOf(Append(f, m)) = Append(C, ContainerOf(m))
  BY <1>1, ContainersOfPush
<1>6. ContainersOf(s) = Append(C, ContainerOf(Last(s)))
  BY <1>2, <1>3, <1>5
<1> HIDE DEF C
<1>7. /\ Front(Append(C, ContainerOf(Last(s)))) = C /\ Append(C, ContainerOf(Last(s))) # << >>
      /\ Last(Append(C, ContainerOf(Last(s)))) = ContainerOf(Last(s))
  BY <1>4, FrontOfAppend, LastOfAppend
<1> QED
  BY <1>5, <1>6, <1>7 DEF C

\* The model's own operator for the open containers, now and after a step.
LEMMA ContainersAre == Containers = ContainersOf(m_stack) /\ Containers' = ContainersOf(m_stack')
BY DEF Containers, ContainersOf, ContainerOf

-----------------------------------------------------------------------------
(* What every step keeps.                                                  *)

\* There is a token only inside a literal.
TokenInside == m_token.saved \/ IsStashed(m_token) => m_state \in Literal

\* And once it is saved it holds some text.
TokenInLiteral ==
  /\ TokenInside
  /\ m_token.saved => Text(m_token) # << >>

\* ModesAgree is inductive together with the types; the token is what tells the events
\* of EventStream apart.
EventInv == Typed /\ ModesAgree /\ TokenInLiteral

\* Outside literals there is no token, and stepping over a character makes none.
LEMMA NoToken ==
  ASSUME TokenInside, m_state \notin Literal, NEW c
  PROVE  ~ m_token.saved /\ ~ IsStashed(m_token) /\ Advance(m_token, c) = m_token
BY DEF TokenInside, Advance

\* Stepping over a character inside a literal.
LEMMA TokenGoesOn ==
  ASSUME NEW t \in Token(AnyText), NEW c \in Class, t.saved
  PROVE  Advance(t, c).saved /\ Text(Advance(t, c)) # << >>
<1>1. Text(t) \in Seq(Glyph) /\ c \in Glyph
  BY TokenTypes DEF AnyText, Glyph
<1>2. Append(Text(t), c) # << >>
  BY <1>1, AppendProperties
<1> QED
  BY <1>2, TextOfAdvance

\* A token cleared, or saved afresh at the character c.
LEMMA NewTokens ==
  ASSUME NEW c \in Class
  PROVE  /\ Advance(Clear, c) = Clear /\ ~ Clear.saved /\ ~ IsStashed(Clear)
         /\ Advance(Save(Clear), c).saved /\ Text(Advance(Save(Clear), c)) # << >>
<1>1. /\ Advance(Save(Clear), c) = [saved |-> TRUE, held |-> << c >>, tmp |-> << >>]
      /\ Text(Advance(Save(Clear), c)) = << c >> /\ Advance(Clear, c) = Clear
  BY FreshToken
<1>2. Clear.saved = FALSE /\ Clear.tmp = << >>
  BY DEF Clear
<1>3. << c >> # << >>
  OBVIOUS
<1> QED
  BY <1>1, <1>2, <1>3 DEF IsStashed

\* What the mapping makes of the token.
LEMMA OpenLiteralIs ==
  /\ ~ m_token.saved /\ ~ IsStashed(m_token) => OpenLiteral = "none"
  /\ m_token.saved \/ IsStashed(m_token)
       => OpenLiteral = IF m_state \in Number THEN "number" ELSE Current
  /\ ~ m_token.saved' /\ ~ IsStashed(m_token)' => OpenLiteral' = "none"
  /\ m_token.saved' \/ IsStashed(m_token)'
       => OpenLiteral' = IF m_state' \in Number THEN "number" ELSE Current'
BY DEF OpenLiteral

\* A new automaton keeps the invariant.
LEMMA EventInit == Init => EventInv
<1> SUFFICES ASSUME Init PROVE EventInv
  OBVIOUS
<1>1. Typed
  BY TypedInit
<1>2. BottomIsDone
  BY <1>1 DEF Typed, GoodStack, BottomIsDone
<1>3. ~ m_token.saved /\ ~ IsStashed(m_token)
  BY DEF Init, Clear, IsStashed
<1> QED
  BY <1>1, <1>2, <1>3 DEF Init, EventInv, ModesAgree, TokenInLiteral, TokenInside

\* The comma leaves the same containers open, and never an object on top.
LEMMA FlippedModes ==
  ASSUME Typed
  PROVE  /\ GoodStack(Flipped) /\ Last(Flipped) # "object"
         /\ ContainersOf(Flipped) = ContainersOf(m_stack)
<1>1. GoodStack(m_stack)
  BY DEF Typed
<1>2. CASE Top = "object"
  <2>1. GoodStack(Front(m_stack)) /\ ContainersOf(Append(Front(m_stack), "key")) = ContainersOf(m_stack)
    BY <1>1, <1>2, PopIsGood, ContainersOfPop DEF Top, ContainerOf
  <2>2. /\ GoodStack(Append(Front(m_stack), "key"))
        /\ Last(Append(Front(m_stack), "key")) = "key"
    BY <2>1, PushIsGood DEF Mode
  <2> QED
    BY <1>2, <2>1, <2>2 DEF Flipped
<1>3. CASE Top # "object"
  BY <1>1, <1>3 DEF Flipped, Top
<1> QED
  BY <1>2, <1>3

\* A turn of the loop keeps the state and the mode on top in agreement.
LEMMA TurnKeepsModes ==
  ASSUME EventInv, NEW c \in Class, Turn(c)
  PROVE  ModesAgree'
<1> DEFINE Cell == ActionAt[m_state][c]
           Agrees == /\ m_state' = "go" => m_stack' = << "done" >>
                     /\ m_state' \in { "obj", "col" } => Last(m_stack') = "key"
                     /\ m_state' = "val" => Last(m_stack') = "object"
                     /\ m_state' = "arr" => Last(m_stack') # "object"
<1>1. Typed /\ m_state \in State /\ GoodStack(m_stack) /\ GoodStack(m_stack')
  BY TurnTypes DEF EventInv, Typed, TypeOK
<1>2. Agrees => ModesAgree'
  BY <1>1 DEF ModesAgree, BottomIsDone, GoodStack, Top
<1>3. /\ m_state = "go" => m_stack = << "done" >>
      /\ m_state \in { "obj", "col" } => Last(m_stack) = "key"
      /\ m_state = "val" => Last(m_stack) = "object"
      /\ m_state = "arr" => Last(m_stack) # "object"
  BY DEF EventInv, ModesAgree, Top
<1>4. \A a \in Cell : a \in Action /\ Edge(m_state, c, a)
  BY <1>1, CellHoldsAction
<1>5. UNCHANGED <<m_state, m_stack>> => Agrees
  BY <1>3
<1>6. ASSUME NEW a \in Cell,
             \/ a = "soj" /\ OnStartObject(c)
             \/ a = "sar" /\ OnStartArray(c)
      PROVE  Agrees
  <2>1. Last(Append(m_stack, "key")) = "key" /\ Last(Append(m_stack, "array")) = "array"
    BY <1>1, PushIsGood DEF Mode
  <2> QED
    BY <1>6, <2>1 DEF OnStartObject, OnStartArray, Goes, Dest
<1>7. ASSUME NEW a \in Cell,
             \/ a = "eoj" /\ OnEndObject(c)
             \/ a = "noj" /\ OnEndEmptyObject(c)
             \/ a = "ear" /\ OnEndArray(c)
             \/ a = "eon" /\ OnEndNumber(c)
             \/ a = "enj" /\ OnEndNumberAndObject(c)
             \/ a = "ena" /\ OnEndNumberAndArray(c)
             \/ a = "nul" /\ OnNull(c)
             \/ a = "tru" /\ OnTrue(c)
             \/ a = "fls" /\ OnFalse(c)
             \/ a = "sos" /\ OnStartString(c)
             \/ a = "sep" /\ OnStartEscape(c)
             \/ a = "eep" /\ OnEndEscape(c)
      PROVE  Agrees
  <2>1. m_state' = Dest(a, Last(m_stack'))
    BY <1>7 DEF OnEndObject, OnEndEmptyObject, OnEndArray, OnEndNumber, OnEndNumberAndObject,
                OnEndNumberAndArray, OnNull, OnTrue, OnFalse, OnWord, OnStartString,
                OnStartEscape, OnEndEscape, Goes
  <2>2. m_state' \in { "ok", "str", "esp" }
    BY <1>7, <2>1 DEF Dest
  <2> QED
    BY <2>2
<1>8. ASSUME NEW a \in Cell, a = "ktv", OnKeyToValue(c)
      PROVE  Agrees
  <2>1. m_stack' = Append(Front(m_stack), "object") /\ m_state' = "val"
    BY <1>8 DEF OnKeyToValue, Goes, Dest
  <2>2. GoodStack(Front(m_stack))
    BY <1>1, <1>8, PopIsGood DEF OnKeyToValue, Top
  <2> QED
    BY <2>1, <2>2, PushIsGood DEF Mode
<1>9. ASSUME NEW a \in Cell,
             \/ a = "nxt" /\ OnNextValue(c)
             \/ a = "enx" /\ OnEndNumberAndNextValue(c)
      PROVE  Agrees
  <2>1. m_stack' = Flipped /\ m_state' = Dest(a, Last(m_stack')) /\ Last(Flipped) # "object"
    BY <1>1, <1>9, FlippedModes DEF OnNextValue, OnEndNumberAndNextValue, Goes
  <2> QED
    BY <1>9, <2>1 DEF Dest
<1>10. ASSUME NEW a \in Cell, a = "eos", OnEndString(c)
       PROVE  Agrees
  BY <1>10 DEF OnEndString, Goes, Dest
<1>11. ASSUME NEW d \in StateAt[m_state][c], m_state' = d, UNCHANGED m_stack
       PROVE  Agrees
  <2>1. d \in State /\ Move(m_state, c, d)
    BY <1>1, CellHoldsState
  <2>2. d = m_state \/ d \in Number \cup Word \cup Literal
    BY <1>1, <2>1, MoveModes DEF State
  <2>3. d \in Number \cup Word \cup Literal => d \notin { "go", "obj", "col", "val", "arr" }
    BY DEF Number, Word, Literal, Escape
  <2> QED
    BY <1>3, <1>11, <2>2, <2>3
<1>12. \/ EscapeThrows(c) \/ EmptyCellThrows(c) \/ AbortInHandler(c)
       \/ \E a \in Cell : PopThrows(a)
       => Agrees
  BY <1>5 DEF EscapeThrows, EmptyCellThrows, AbortInHandler, PopThrows, Throws
<1>13. OnStartNumber(c) \/ OnNone(c) => Agrees
  BY <1>11 DEF OnStartNumber, OnNone
<1> HIDE DEF Agrees
<1>14. Agrees
  BY <1>6, <1>7, <1>8, <1>9, <1>10, <1>12, <1>13 DEF Turn
<1> QED
  BY <1>2, <1>14

\* A turn of the loop leaves a token only inside a literal.
LEMMA TurnKeepsTokenInside ==
  ASSUME Typed, TokenInside, NEW c \in Class, Turn(c)
  PROVE  TokenInside'
<1> DEFINE Cell == ActionAt[m_state][c]
           Kept == m_token'.saved \/ IsStashed(m_token') => m_state' \in Literal
<1>1. m_state \in State /\ \A a \in Cell : a \in Action /\ Edge(m_state, c, a)
  BY CellHoldsAction DEF Typed, TypeOK
<1>2. Kept => TokenInside'
  BY DEF TokenInside
<1>3. m_state' \in Literal => Kept
  OBVIOUS
<1>4. m_token' = Clear => Kept
  BY NewTokens
<1>5. m_state \notin Literal /\ m_token' = Advance(m_token, c) => Kept
  BY NoToken
<1>6. UNCHANGED <<m_state, m_token>> => Kept
  BY DEF TokenInside
<1>7. ASSUME NEW a \in Cell,
             \/ a = "soj" /\ OnStartObject(c)
             \/ a = "sar" /\ OnStartArray(c)
             \/ a = "eoj" /\ OnEndObject(c)
             \/ a = "noj" /\ OnEndEmptyObject(c)
             \/ a = "ear" /\ OnEndArray(c)
             \/ a = "ktv" /\ OnKeyToValue(c)
             \/ a = "nxt" /\ OnNextValue(c)
             \/ a = "nul" /\ OnNull(c)
             \/ a = "tru" /\ OnTrue(c)
             \/ a = "fls" /\ OnFalse(c)
      PROVE  Kept
  <2>1. m_state \notin Literal
    BY <1>1, <1>7, EdgeRegions
  <2>2. m_token' = Advance(m_token, c)
    BY <1>7 DEF OnStartObject, OnStartArray, OnEndObject, OnEndEmptyObject, OnEndArray,
                OnKeyToValue, OnNextValue, OnNull, OnTrue, OnFalse, OnWord, LeavesToken
  <2> QED
    BY <1>5, <2>1, <2>2
<1>8. ASSUME NEW a \in Cell,
             \/ OnEndString(c) \/ OnEndNumber(c) \/ OnEndNumberAndObject(c)
             \/ OnEndNumberAndArray(c) \/ OnEndNumberAndNextValue(c)
      PROVE  Kept
  BY <1>4, <1>8, NewTokens
     DEF OnEndString, OnEndNumber, OnEndNumberAndObject, OnEndNumberAndArray,
         OnEndNumberAndNextValue, LeavesToken
<1>9. ASSUME NEW a \in Cell,
             \/ a = "sos" /\ OnStartString(c)
             \/ a = "sep" /\ OnStartEscape(c)
             \/ a = "eep" /\ OnEndEscape(c)
      PROVE  Kept
  BY <1>3, <1>9 DEF OnStartString, OnStartEscape, OnEndEscape, Goes, Dest, Literal, Escape
<1>10. ASSUME OnStartNumber(c)
       PROVE  Kept
  BY <1>3, <1>10 DEF OnStartNumber, StartsNumber, Literal
<1>11. ASSUME OnNone(c)
       PROVE  Kept
  <2> PICK d \in StateAt[m_state][c] : OnNone(c)!(d)
    BY <1>11 DEF OnNone
  <2>1. Move(m_state, c, d) /\ m_state' = d /\ m_token' = Advance(m_token, c)
    BY <1>1, CellHoldsState DEF LeavesToken
  <2> QED
    BY <1>1, <1>3, <1>5, <2>1, MoveModes
<1>12. \/ EscapeThrows(c) \/ EmptyCellThrows(c) \/ AbortInHandler(c)
       \/ \E a \in Cell : PopThrows(a)
       => Kept
  BY <1>4, <1>6 DEF EscapeThrows, EmptyCellThrows, AbortInHandler, PopThrows, Throws
<1> HIDE DEF Kept
<1>13. Kept
  BY <1>7, <1>8, <1>9, <1>10, <1>11, <1>12 DEF Turn
<1> QED
  BY <1>2, <1>13

\* A token that is left saved has got a character.
LEMMA TurnKeepsToken ==
  ASSUME EventInv, NEW c \in Class, Turn(c)
  PROVE  TokenInLiteral'
<1> DEFINE Cell == ActionAt[m_state][c]
           HasText == m_token'.saved => Text(m_token') # << >>
<1>1. /\ Typed /\ m_state \in State /\ m_token \in Token(AnyText)
      /\ TokenInside /\ (m_token.saved => Text(m_token) # << >>)
  BY DEF EventInv, Typed, TypeOK, TokenInLiteral
<1>2. TokenInside'
  BY <1>1, TurnKeepsTokenInside
<1>3. Save(m_token) \in Token(AnyText) /\ Save(m_token).saved
  BY <1>1, TokenTypes DEF Save, Token
<1>4. m_token' \in { Clear, m_token, Advance(m_token, c), Advance(Clear, c),
                     Advance(Save(m_token), c), Advance(Save(Clear), c) }
  BY DEF Turn, OnStartObject, OnStartArray, OnEndObject, OnEndEmptyObject, OnEndArray,
         OnKeyToValue, OnNextValue, OnNull, OnTrue, OnFalse, OnWord, OnStartString, OnEndString,
         OnStartEscape, OnEndEscape, OnStartNumber, OnEndNumber, OnEndNumberAndObject,
         OnEndNumberAndArray, OnEndNumberAndNextValue, OnNone, EscapeThrows, EmptyCellThrows,
         AbortInHandler, PopThrows, LeavesToken
<1>5. HasText
  <2>1. m_token' \in { m_token, Clear, Advance(Clear, c) } => HasText
    BY <1>1, NewTokens
  <2>2. m_token' = Advance(m_token, c) => HasText
    <3>1. m_token.saved => Text(Advance(m_token, c)) # << >>
      BY <1>1, TokenGoesOn
    <3>2. ~ m_token.saved => ~ Advance(m_token, c).saved
      BY DEF Advance
    <3> QED
      BY <3>1, <3>2
  <2>3. m_token' \in { Advance(Save(m_token), c), Advance(Save(Clear), c) } => HasText
    BY <1>3, TokenGoesOn, NewTokens
  <2> QED
    BY <1>4, <2>1, <2>2, <2>3
<1> QED
  BY <1>2, <1>5 DEF TokenInLiteral

\* Neither the beginning nor the end of a call to Parse loses the token's text: what
\* the end of a buffer takes from m_start, it puts into m_tmp.
LEMMA CallsKeepToken ==
  ASSUME EventInv, BeginParse \/ AbortInParse \/ EndParse
  PROVE  /\ TokenInLiteral' /\ UNCHANGED <<m_state, m_stack>> /\ out' = << >>
         /\ (m_token.saved \/ IsStashed(m_token)) = (m_token'.saved \/ IsStashed(m_token'))
<1>1. m_token \in Token(AnyText) /\ TokenInLiteral
  BY DEF EventInv, Typed, TypeOK
<1>2. m_token.tmp \in Seq(Glyph) /\ m_token.held \in Seq(Glyph)
  BY <1>1 DEF Token, AnyText
<1>3. UNCHANGED <<m_state, m_stack>> /\ out' = << >>
  BY DEF BeginParse, AbortInParse, EndParse, Delivers
<1>4. CASE UNCHANGED m_token
  BY <1>1, <1>3, <1>4 DEF TokenInLiteral, TokenInside
<1>5. CASE IsStashed(m_token) /\ m_token' = Save(m_token)
  <2>1. m_token'.saved /\ m_token'.tmp = m_token.tmp /\ m_token'.held = << >>
    BY <1>1, <1>5 DEF Save, Token
  <2>2. Text(m_token') # << >>
    BY <1>2, <1>5, <2>1, ConcatEmptySeq DEF Text, IsStashed
  <2> QED
    BY <1>1, <1>3, <1>5, <2>1, <2>2 DEF TokenInLiteral, TokenInside
<1>6. CASE m_token.saved /\ m_token' = Stash(m_token)
  <2>1. m_token'.tmp = Text(m_token) /\ ~ m_token'.saved
    BY <1>6 DEF Stash, Text
  <2>2. IsStashed(m_token')
    BY <1>1, <1>6, <2>1 DEF TokenInLiteral, TokenInside, IsStashed
  <2> QED
    BY <1>1, <1>3, <1>6, <2>1, <2>2 DEF TokenInLiteral, TokenInside
<1> QED
  BY <1>4, <1>5, <1>6 DEF BeginParse, AbortInParse, EndParse

\* So does every step.
LEMMA EventStep == EventInv /\ [Next]_vars => EventInv'
<1> SUFFICES ASSUME EventInv, [Next]_vars PROVE EventInv'
  OBVIOUS
<1>1. Typed'
  BY TypedStep DEF EventInv
<1>2. CASE \E c \in Chars : Reads(c)
  <2> PICK c \in Chars : Reads(c)
    BY <1>2
  <2>1. c \in Class /\ Turn(c)
    BY CharsAssumption DEF Reads
  <2> QED
    BY <1>1, <2>1, TurnKeepsModes, TurnKeepsToken DEF EventInv
<1>3. CASE BeginParse \/ AbortInParse \/ EndParse
  <2>1. TokenInLiteral' /\ UNCHANGED <<m_state, m_stack>>
    BY <1>3, CallsKeepToken
  <2>2. ModesAgree'
    BY <2>1 DEF EventInv, ModesAgree, BottomIsDone, Top
  <2> QED
    BY <1>1, <2>1, <2>2 DEF EventInv
<1>4. CASE UNCHANGED vars
  BY <1>1, <1>4 DEF vars, impl, EventInv, ModesAgree, BottomIsDone, Top, TokenInLiteral, TokenInside
<1> QED
  BY <1>2, <1>3, <1>4 DEF Next

\* The state m_state and the mode on top of m_stack, which the code keeps apart, always
\* agree on where in a container the text is: after exceptions too, when a caller goes
\* on from whatever the handler that threw had already done.
THEOREM ModesCorrect == Spec => []ModesAgree
<1>1. EventInv => ModesAgree
  BY DEF EventInv
<1> QED
  BY <1>1, EventInit, EventStep, PTL DEF Spec

-----------------------------------------------------------------------------
(* The refinement of EventStream.                                          *)

\* The open containers are those of the stack, and the innermost is the one on top.
LEMMA OpenContainers ==
  ASSUME Typed, Top # "done"
  PROVE  /\ Containers # << >> /\ Last(Containers) = ContainerOf(Top)
         /\ ContainersOf(Front(m_stack)) = Front(Containers)
BY ContainersAre, ContainersOfPop DEF Typed, Top

\* The text of a data event of a literal.
LEMMA Pieces ==
  ASSUME Typed, Text(m_token) # << >>
  PROVE  /\ \A t : Promise!IsData(Data(t, Text(m_token)), t)
         /\ Len(Text(m_token)) > 1 => \A t : Promise!IsData(Data(t, Tail(Text(m_token))), t)
         /\ \A t : \A g \in Glyph : Promise!IsData(Data(t, << g >>), t)
<1>1. Text(m_token) \in Seq(Glyph)
  BY TokenTypes DEF Typed, TypeOK, AnyText, Class
<1>2. ASSUME Len(Text(m_token)) > 1
      PROVE  Tail(Text(m_token)) \in Seq(Glyph) /\ Tail(Text(m_token)) # << >>
  <2>1. /\ Tail(Text(m_token)) \in Seq(Glyph)
        /\ Len(Tail(Text(m_token))) = Len(Text(m_token)) - 1
    BY <1>1, HeadTailProperties
  <2>2. Len(Tail(Text(m_token))) # 0
    BY <1>1, <1>2, <2>1
  <2> QED
    BY <2>1, <2>2, EmptySeq
<1>3. \A g \in Glyph : << g >> \in Seq(Glyph) /\ << g >> # << >>
  OBVIOUS
<1>4. \A t, x : Data(t, x).ev = "data" /\ Data(t, x).type = t /\ Data(t, x).text = x
  BY DEF Data
<1>5. \A t, x : x \in Seq(Glyph) /\ x # << >> => Promise!IsData(Data(t, x), t)
  BY <1>4 DEF Promise!IsData, AnyText
<1> QED
  BY <1>1, <1>2, <1>3, <1>5

\* Steps that the callback does not hear of.
LEMMA UnheardOf ==
  ASSUME out' = << >>, Containers' = Containers, OpenLiteral' = OpenLiteral, Owed' = Owed
  PROVE  Promise!Next
BY DEF Promise!Next, Promise!Quiet

\* EventStream's own copies of what both modules use.
LEMMA SameEvents ==
  /\ \A e, t : Ev(e, t) = Promise!Ev(e, t)
  /\ Last(Containers) = Promise!Last(Containers)
  /\ Front(Containers) = Promise!Front(Containers)
BY DEF Ev, Promise!Ev, Last, Promise!Last, Front, Promise!Front

\* A bracket that opens a container.
LEMMA Opens ==
  ASSUME EventInv, NEW c \in Class, NEW a \in ActionAt[m_state][c],
         \/ a = "soj" /\ OnStartObject(c)
         \/ a = "sar" /\ OnStartArray(c)
  PROVE  Promise!Next
<1>1. /\ Typed /\ TokenInLiteral /\ TokenInside /\ m_state \in State /\ GoodStack(m_stack)
      /\ a \in Action /\ Edge(m_state, c, a)
  BY CellHoldsAction DEF EventInv, TokenInLiteral, Typed, TypeOK
<1>2. m_state \notin Literal
  BY <1>1, EdgeRegions
<1>3. OpenLiteral = "none" /\ OpenLiteral' = "none"
  BY <1>1, <1>2, NoToken, OpenLiteralIs DEF OnStartObject, OnStartArray, LeavesToken
<1>4. m_state' \in { "obj", "arr" }
  BY DEF OnStartObject, OnStartArray, Goes, Dest
<1>5. Owed' = FALSE
  BY <1>4 DEF Owed, Word
<1>6. CASE a = "soj" /\ OnStartObject(c)
  <2>1. Containers' = Append(Containers, "object")
    BY <1>1, <1>6, ContainersAre, ContainersOfPush DEF OnStartObject, ContainerOf
  <2>2. Promise!Open("object")
    BY <1>3, <1>5, <1>6, <2>1, SameEvents DEF Promise!Open, OnStartObject, Delivers
  <2> QED
    BY <2>2 DEF Promise!Next, Promise!Container
<1>7. CASE a = "sar" /\ OnStartArray(c)
  <2>1. Containers' = Append(Containers, "array")
    BY <1>1, <1>7, ContainersAre, ContainersOfPush DEF OnStartArray, ContainerOf
  <2>2. Promise!Open("array")
    BY <1>3, <1>5, <1>7, <2>1, SameEvents DEF Promise!Open, OnStartArray, Delivers
  <2> QED
    BY <2>2 DEF Promise!Next, Promise!Container
<1> QED
  BY <1>6, <1>7

\* A bracket that closes one.
LEMMA Closes ==
  ASSUME EventInv, NEW c \in Class, NEW a \in ActionAt[m_state][c],
         \/ a = "eoj" /\ OnEndObject(c)
         \/ a = "noj" /\ OnEndEmptyObject(c)
         \/ a = "ear" /\ OnEndArray(c)
  PROVE  Promise!Next
<1>1. /\ Typed /\ TokenInLiteral /\ TokenInside /\ m_state \in State
      /\ a \in Action /\ Edge(m_state, c, a)
  BY CellHoldsAction DEF EventInv, TokenInLiteral, Typed, TypeOK
<1>2. m_state \notin Literal /\ m_state \in { "ok", "obj", "arr" }
  BY <1>1, EdgeRegions, EdgeModes
<1>3. OpenLiteral = "none" /\ OpenLiteral' = "none"
  BY <1>1, <1>2, NoToken, OpenLiteralIs
     DEF OnEndObject, OnEndEmptyObject, OnEndArray, LeavesToken
<1>4. m_state' = "ok"
  BY DEF OnEndObject, OnEndEmptyObject, OnEndArray, Goes, Dest
<1>5. Owed = FALSE /\ Owed' = FALSE
  BY <1>2, <1>4 DEF Owed, Word
<1>6. PICK t \in { "object", "array" } :
        out' = << Ev("end", t) >> /\ t = ContainerOf(Top) /\ Top # "done" /\ m_stack' = Front(m_stack)
  BY DEF OnEndObject, OnEndEmptyObject, OnEndArray, Pops, Delivers, ContainerOf
<1>7. Containers # << >> /\ Last(Containers) = t /\ Containers' = Front(Containers)
  BY <1>1, <1>6, OpenContainers, ContainersAre
<1>8. Promise!Close(t)
  BY <1>3, <1>5, <1>6, <1>7, SameEvents DEF Promise!Close
<1> QED
  BY <1>8 DEF Promise!Next, Promise!Container

\* Colons and commas.
LEMMA Separates ==
  ASSUME EventInv, NEW c \in Class, NEW a \in ActionAt[m_state][c],
         \/ a = "ktv" /\ OnKeyToValue(c)
         \/ a = "nxt" /\ OnNextValue(c)
  PROVE  Promise!Next
<1>1. /\ Typed /\ TokenInLiteral /\ TokenInside /\ m_state \in State /\ GoodStack(m_stack)
      /\ a \in Action /\ Edge(m_state, c, a)
  BY CellHoldsAction DEF EventInv, TokenInLiteral, Typed, TypeOK
<1>2. m_state \notin Literal
  BY <1>1, EdgeRegions
<1>3. OpenLiteral = "none" /\ OpenLiteral' = "none"
  BY <1>1, <1>2, NoToken, OpenLiteralIs DEF OnKeyToValue, OnNextValue, LeavesToken
<1>4. out' = << >>
  BY DEF OnKeyToValue, OnNextValue, Delivers
<1>5. CASE a = "ktv" /\ OnKeyToValue(c)
  <2>1. m_state = "col" /\ m_state' = "val"
    BY <1>1, <1>5, EdgeModes DEF OnKeyToValue, Goes, Dest
  <2>2. Containers' = Containers
    BY <1>1, <1>5, ContainersAre, ContainersOfPop DEF OnKeyToValue, Top, ContainerOf
  <2> QED
    BY <1>3, <1>4, <2>1, <2>2, UnheardOf DEF Owed
<1>6. CASE a = "nxt" /\ OnNextValue(c)
  <2>1. m_state = "ok" /\ m_state' \in { "key", "arr" }
    BY <1>1, <1>6, EdgeModes DEF OnNextValue, Goes, Dest
  <2>2. Containers' = Containers
    BY <1>1, <1>6, ContainersAre, FlippedModes DEF OnNextValue
  <2>3. Owed' = Owed
    BY <2>1 DEF Owed, Word
  <2> QED
    BY <1>3, <1>4, <2>2, <2>3, UnheardOf
<1> QED
  BY <1>5, <1>6

\* The quote of a key or a string, and the first character of a number.
LEMMA StartsALiteral ==
  ASSUME EventInv, NEW c \in Class,
         \/ "sos" \in ActionAt[m_state][c] /\ OnStartString(c)
         \/ OnStartNumber(c)
  PROVE  Promise!Next
<1>1. /\ Typed /\ ModesAgree /\ TokenInLiteral /\ TokenInside /\ m_state \in State /\ m_token \in Token(AnyText)
      /\ GoodStack(m_stack)
  BY DEF EventInv, TokenInLiteral, Typed, TypeOK
<1>2. Save(m_token) \in Token(AnyText) /\ Save(m_token).saved
  BY <1>1, TokenTypes DEF Save, Token
<1>3. m_token'.saved
  <2>1. m_token' = Advance(Save(m_token), c)
    BY DEF OnStartString, OnStartNumber, LeavesToken
  <2> QED
    BY <1>2, <2>1, TokenGoesOn
<1>4. Containers' = Containers
  BY ContainersAre DEF OnStartString, OnStartNumber
<1>5. CASE "sos" \in ActionAt[m_state][c] /\ OnStartString(c)
  <2>1. Edge(m_state, c, "sos")
    BY <1>1, <1>5, CellHoldsAction
  <2>2. m_state \in { "obj", "key", "val", "arr" } /\ m_state \notin Literal
    BY <2>1, EdgeRegions, EdgeModes
  <2>3. OpenLiteral = "none"
    BY <1>1, <2>2, NoToken, OpenLiteralIs
  <2>4. m_state' = "str" /\ out' = << Ev("start", Current) >> /\ Current' = Current
    BY <1>5 DEF OnStartString, Goes, Dest, Delivers, Current, Top
  <2>5. OpenLiteral' = Current /\ Owed' = FALSE
    BY <1>3, <2>4, OpenLiteralIs DEF Number, Owed, Word
  <2>6. Current = "key" => Containers # << >> /\ Last(Containers) = "object" /\ ~ Owed
    <3> SUFFICES ASSUME Top = "key"
                 PROVE  Containers # << >> /\ Last(Containers) = "object" /\ ~ Owed
      BY DEF Current
    <3>1. Containers # << >> /\ Last(Containers) = "object"
      BY <1>1, OpenContainers DEF ContainerOf
    <3>2. m_state # "val"
      BY <1>1 DEF ModesAgree
    <3> QED
      BY <2>2, <3>1, <3>2 DEF Owed, Word
  <2>7. Promise!StartLiteral(Current)
    BY <1>4, <2>3, <2>4, <2>5, <2>6, SameEvents DEF Promise!StartLiteral
  <2> QED
    BY <2>7 DEF Promise!Next, Current
<1>6. CASE OnStartNumber(c)
  <2> PICK d \in StateAt[m_state][c] : OnStartNumber(c)!(d)
    BY <1>6 DEF OnStartNumber
  <2>1. d \in State /\ Move(m_state, c, d) /\ d \in Number /\ m_state \notin Number /\ m_state' = d
    BY <1>1, CellHoldsState DEF StartsNumber
  <2>2. m_state \notin Literal
    BY <1>1, <2>1, MoveRegions DEF Literal, Escape, Number
  <2>3. OpenLiteral = "none"
    BY <1>1, <2>2, NoToken, OpenLiteralIs
  <2>4. OpenLiteral' = "number" /\ Owed' = FALSE
    BY <1>3, <2>1, OpenLiteralIs DEF Number, Owed, Word
  <2>5. Promise!StartLiteral("number")
    BY <1>4, <2>3, <2>4, SameEvents DEF Promise!StartLiteral, Delivers
  <2> QED
    BY <2>5 DEF Promise!Next
<1> QED
  BY <1>5, <1>6

\* Escapes: the text before one, and what it stands for.
LEMMA DeliversPart ==
  ASSUME EventInv, NEW c \in Class, NEW a \in ActionAt[m_state][c],
         \/ a = "sep" /\ OnStartEscape(c)
         \/ a = "eep" /\ OnEndEscape(c)
  PROVE  Promise!Next
<1>1. /\ Typed /\ TokenInLiteral /\ TokenInside /\ m_state \in State
      /\ a \in Action /\ Edge(m_state, c, a)
  BY CellHoldsAction DEF EventInv, TokenInLiteral, Typed, TypeOK
<1>2. m_state \in { "str", "esp", "u4" } /\ m_state' \in { "str", "esp" }
  BY <1>1, EdgeRegions DEF OnStartEscape, OnEndEscape, Goes, Dest
<1>3. m_token.saved /\ m_token'.saved /\ Text(m_token) # << >>
  BY <1>1, NewTokens DEF OnStartEscape, OnEndEscape, LeavesToken, TokenInLiteral, TokenInside
<1>4. Containers' = Containers /\ Current' = Current
  BY ContainersAre DEF OnStartEscape, OnEndEscape, Current, Top
<1>5. OpenLiteral = Current /\ OpenLiteral' = Current
  BY <1>2, <1>3, <1>4, OpenLiteralIs DEF Number
<1>6. Owed = FALSE /\ Owed' = FALSE
  BY <1>2 DEF Owed, Word
<1>7. Current # "none"
  BY DEF Current
<1>8. ASSUME NEW x, out' = << Data(Current, x) >>, Promise!IsData(Data(Current, x), Current)
      PROVE  Promise!Next
  <2>1. Len(out') = 1 /\ out'[1] = Data(Current, x)
    BY <1>8
  <2>2. Promise!Part
    BY <1>4, <1>5, <1>6, <1>7, <1>8, <2>1 DEF Promise!Part
  <2> QED
    BY <2>2 DEF Promise!Next
<1>9. CASE a = "eep" /\ OnEndEscape(c)
  <2>1. out' = << Data(Current, << Unescaped[c] >>) >> /\ Unescaped[c] \in Glyph
    BY <1>9 DEF OnEndEscape, Delivers, Unescaped, Glyph, Class
  <2> QED
    BY <1>1, <1>3, <1>8, <2>1, Pieces
<1>10. CASE a = "sep" /\ OnStartEscape(c)
  <2>1. CASE Len(Text(m_token)) > 1
    BY <1>1, <1>3, <1>8, <1>10, <2>1, Pieces DEF OnStartEscape, Delivers, StringEvents
  <2>2. CASE ~ Len(Text(m_token)) > 1
    <3>1. out' = << >>
      BY <1>10, <2>2 DEF OnStartEscape, Delivers, StringEvents
    <3> QED
      BY <1>4, <1>5, <1>6, <3>1, UnheardOf
  <2> QED
    BY <2>1, <2>2
<1> QED
  BY <1>9, <1>10

\* The quote that ends a key or a string.
LEMMA EndsAString ==
  ASSUME EventInv, NEW c \in Class, "eos" \in ActionAt[m_state][c], OnEndString(c)
  PROVE  Promise!Next
<1>1. /\ Typed /\ TokenInLiteral /\ TokenInside /\ m_state \in State /\ Edge(m_state, c, "eos")
  BY CellHoldsAction DEF EventInv, TokenInLiteral, Typed, TypeOK
<1>2. m_state = "str" /\ m_state' = IF Top = "key" THEN "col" ELSE "ok"
  BY <1>1, EdgeRegions DEF OnEndString, Goes, Dest, Top
<1>3. m_token.saved /\ Text(m_token) # << >> /\ m_token' = Clear
  BY <1>1, NewTokens DEF OnEndString, LeavesToken, TokenInLiteral, TokenInside
<1>4. OpenLiteral = Current /\ OpenLiteral' = "none" /\ Current # "none"
  BY <1>2, <1>3, NewTokens, OpenLiteralIs DEF Number, Current
<1>5. Owed' = (Current = "key") /\ Containers' = Containers
  BY <1>2, ContainersAre DEF Owed, Word, Current, OnEndString
<1>6. \/ out' = << Promise!Ev("end", Current) >>
      \/ /\ Len(out') = 2 /\ Promise!IsData(out'[1], Current)
         /\ out'[2] = Promise!Ev("end", Current)
  <2>1. CASE Len(Text(m_token)) > 1
    <3>1. out' = << Data(Current, Tail(Text(m_token))), Ev("end", Current) >>
      BY <2>1, PairOfEvents DEF OnEndString, Delivers, StringEvents
    <3>2. Promise!IsData(Data(Current, Tail(Text(m_token))), Current)
      BY <1>1, <1>3, <2>1, Pieces
    <3>3. /\ Len(out') = 2 /\ out'[1] = Data(Current, Tail(Text(m_token)))
          /\ out'[2] = Ev("end", Current)
      BY <3>1
    <3> QED
      BY <3>2, <3>3, SameEvents
  <2>2. CASE ~ Len(Text(m_token)) > 1
    BY <2>2, PairOfEvents, SameEvents DEF OnEndString, Delivers, StringEvents
  <2> QED
    BY <2>1, <2>2
<1>7. Promise!EndLiteral
  BY <1>4, <1>5, <1>6 DEF Promise!EndLiteral
<1> QED
  BY <1>7 DEF Promise!Next

\* What follows a number ends it: a blank, a comma, or a bracket that Pop refuses.
LEMMA EndsANumber ==
  ASSUME EventInv, NEW c \in Class, NEW a \in ActionAt[m_state][c],
         \/ a = "eon" /\ OnEndNumber(c)
         \/ a = "enx" /\ OnEndNumberAndNextValue(c)
         \/ a \in { "enj", "ena" } /\ PopThrows(a)
  PROVE  Promise!Next
<1>1. /\ Typed /\ TokenInLiteral /\ TokenInside /\ m_state \in State
      /\ a \in Action /\ Edge(m_state, c, a)
  BY CellHoldsAction DEF EventInv, TokenInLiteral, Typed, TypeOK
<1>2. m_state \in Number /\ m_state' \in Number \cup { "ok", "key", "arr" }
  BY <1>1, EdgeRegions DEF OnEndNumber, OnEndNumberAndNextValue, PopThrows, Throws, Goes, Dest
<1>3. m_token.saved /\ Text(m_token) # << >> /\ m_token' = Clear /\ out' = NumberEvents
  BY <1>1, NewTokens
     DEF OnEndNumber, OnEndNumberAndNextValue, PopThrows, Delivers, LeavesToken, TokenInLiteral, TokenInside
<1>4. OpenLiteral = "number" /\ OpenLiteral' = "none"
  BY <1>2, <1>3, NewTokens, OpenLiteralIs
<1>5. Owed' = FALSE
  BY <1>2 DEF Owed, Word, Number
<1>6. Containers' = Containers
  BY <1>1, ContainersAre, FlippedModes
     DEF OnEndNumber, OnEndNumberAndNextValue, PopThrows, Throws
<1>7. /\ Len(out') = 2 /\ Promise!IsData(out'[1], "number")
      /\ out'[2] = Promise!Ev("end", "number")
  <2>1. Promise!IsData(Data("number", Text(m_token)), "number")
    BY <1>1, <1>3, Pieces
  <2>2. Len(out') = 2 /\ out'[1] = Data("number", Text(m_token)) /\ out'[2] = Ev("end", "number")
    BY <1>3 DEF NumberEvents
  <2> QED
    BY <2>1, <2>2, SameEvents
<1>8. Promise!EndLiteral
  BY <1>4, <1>5, <1>6, <1>7 DEF Promise!EndLiteral
<1> QED
  BY <1>8 DEF Promise!Next

\* A bracket that ends a number and its container.
LEMMA EndsNumberAndContainer ==
  ASSUME EventInv, NEW c \in Class, NEW a \in ActionAt[m_state][c],
         \/ a = "enj" /\ OnEndNumberAndObject(c)
         \/ a = "ena" /\ OnEndNumberAndArray(c)
  PROVE  Promise!Next
<1>1. /\ Typed /\ TokenInLiteral /\ TokenInside /\ m_state \in State
      /\ a \in Action /\ Edge(m_state, c, a)
  BY CellHoldsAction DEF EventInv, TokenInLiteral, Typed, TypeOK
<1>2. m_state \in Number /\ m_state' = "ok"
  BY <1>1, EdgeRegions DEF OnEndNumberAndObject, OnEndNumberAndArray, Goes, Dest
<1>3. m_token.saved /\ Text(m_token) # << >> /\ m_token' = Clear
  BY <1>1, NewTokens
     DEF OnEndNumberAndObject, OnEndNumberAndArray, LeavesToken, TokenInLiteral, TokenInside
<1>4. OpenLiteral = "number" /\ OpenLiteral' = "none"
  BY <1>2, <1>3, NewTokens, OpenLiteralIs
<1>5. Owed = FALSE /\ Owed' = FALSE
  BY <1>2 DEF Owed, Word, Number
<1>6. PICK t \in { "object", "array" } :
        /\ out' = Append(NumberEvents, Ev("end", t))
        /\ t = ContainerOf(Top) /\ Top # "done" /\ m_stack' = Front(m_stack)
  BY DEF OnEndNumberAndObject, OnEndNumberAndArray, Pops, Delivers, ContainerOf
<1>7. Containers # << >> /\ Last(Containers) = t /\ Containers' = Front(Containers)
  BY <1>1, <1>6, OpenContainers, ContainersAre
<1>8. /\ Len(out') = 3 /\ Promise!IsData(out'[1], "number")
      /\ out'[2] = Promise!Ev("end", "number") /\ out'[3] = Promise!Ev("end", t)
  <2>1. Promise!IsData(Data("number", Text(m_token)), "number")
    BY <1>1, <1>3, Pieces
  <2>2. /\ Len(out') = 3 /\ out'[1] = Data("number", Text(m_token))
        /\ out'[2] = Ev("end", "number") /\ out'[3] = Ev("end", t)
    BY <1>6 DEF NumberEvents
  <2> QED
    BY <2>1, <2>2, SameEvents
<1>9. Promise!EndNumberAndContainer(t)
  BY <1>4, <1>5, <1>7, <1>8, SameEvents DEF Promise!EndNumberAndContainer
<1> QED
  BY <1>9 DEF Promise!Next, Promise!Container

\* true, false and null: each is a value by itself.
LEMMA Words ==
  ASSUME EventInv, NEW c \in Class, NEW a \in ActionAt[m_state][c],
         \/ a = "nul" /\ OnNull(c)
         \/ a = "tru" /\ OnTrue(c)
         \/ a = "fls" /\ OnFalse(c)
  PROVE  Promise!Next
<1>1. /\ Typed /\ TokenInLiteral /\ TokenInside /\ m_state \in State
      /\ a \in Action /\ Edge(m_state, c, a)
  BY CellHoldsAction DEF EventInv, TokenInLiteral, Typed, TypeOK
<1>2. m_state \notin Literal
  BY <1>1, EdgeRegions
<1>3. /\ m_token' = Advance(m_token, c) /\ m_stack' = m_stack /\ m_state' = "ok"
  BY DEF OnNull, OnTrue, OnFalse, OnWord, LeavesToken, Goes, Dest
<1>4. OpenLiteral = "none" /\ OpenLiteral' = "none"
  BY <1>1, <1>2, <1>3, NoToken, OpenLiteralIs
<1>5. Owed' = FALSE /\ Containers' = Containers
  BY <1>3, ContainersAre DEF Owed, Word
<1>6. PICK t \in { "null_value", "boolean_true", "boolean_false" } : out' = << Ev("data", t) >>
  BY DEF OnNull, OnTrue, OnFalse, OnWord, Delivers
<1>7. Promise!Value(t)
  BY <1>4, <1>5, <1>6, SameEvents DEF Promise!Value
<1> QED
  BY <1>7 DEF Promise!Next, Promise!Constant

\* The characters a handler only steps over: an owed value is still owed, until the
\* last letter of a word delivers it.
LEMMA StepsOver ==
  ASSUME EventInv, NEW c \in Class, OnNone(c)
  PROVE  Promise!Next
<1>1. /\ Typed /\ ModesAgree /\ TokenInLiteral /\ TokenInside /\ m_state \in State /\ m_token \in Token(AnyText)
      /\ GoodStack(m_stack)
  BY DEF EventInv, TokenInLiteral, Typed, TypeOK
<1> PICK d \in StateAt[m_state][c] : OnNone(c)!(d)
  BY DEF OnNone
<1>2. /\ d \in State /\ Move(m_state, c, d) /\ (d \in Number => m_state \in Number)
      /\ m_state' = d /\ m_token' = Advance(m_token, c) /\ m_stack' = m_stack /\ out' = << >>
  BY <1>1, CellHoldsState DEF StartsNumber, LeavesToken, Delivers
<1>3. Containers' = Containers /\ Current' = Current /\ Top' = Top
  BY <1>2, ContainersAre DEF Current, Top
<1>4. /\ m_token'.saved = m_token.saved
      /\ IsStashed(m_token') = IsStashed(m_token)
  BY <1>1, <1>2 DEF Advance, IsStashed, Token
<1>5. m_state \in Number <=> m_state' \in Number
  BY <1>1, <1>2, MoveRegions
<1>6. OpenLiteral' = OpenLiteral
  BY <1>3, <1>4, <1>5, OpenLiteralIs
<1>7. Owed' = Owed
  <2>1. CASE m_state' = m_state
    BY <1>3, <2>1 DEF Owed
  <2>2. CASE m_state \in { "val", "arr" } /\ m_state' \in Word
    BY <1>1, <1>3, <2>2 DEF Owed, ModesAgree, Word
  <2>3. CASE m_state \in Word
    <3>1. m_state' \in Word
      BY <1>1, <1>2, <2>3, MoveModes
    <3> QED
      BY <1>3, <2>3, <3>1 DEF Owed, Word
  <2>4. CASE m_state \in Literal
    <3>1. m_state' \in Literal
      BY <1>1, <1>2, <2>4, MoveModes
    <3> QED
      BY <2>4, <3>1 DEF Owed, Word, Literal, Escape, Number
  <2>5. CASE m_state \in Between
    <3>1. m_state' = m_state \/ (m_state \in { "val", "arr" } /\ m_state' \in Number \cup Word)
      BY <1>1, <1>2, <2>5, MoveModes
    <3>2. m_state \in { "val", "arr" } => m_state' \notin Number
      BY <1>2 DEF Number
    <3> QED
      BY <2>1, <2>2, <3>1, <3>2
  <2> QED
    BY <1>1, <2>3, <2>4, <2>5 DEF State
<1> QED
  BY <1>2, <1>3, <1>6, <1>7, UnheardOf

\* Exceptions and failed assertions that leave everything as it was.
LEMMA NothingDone ==
  ASSUME out' = << >>, UNCHANGED <<m_state, m_stack, m_token>>
  PROVE  Promise!Next
<1>1. Containers' = Containers /\ OpenLiteral' = OpenLiteral /\ Owed' = Owed
  BY DEF Containers, OpenLiteral, Owed, Current, Top
<1> QED
  BY <1>1, UnheardOf

\* Every turn of the loop is a step of EventStream.
LEMMA TurnIsPromised ==
  ASSUME EventInv, NEW c \in Class, Turn(c)
  PROVE  Promise!Next
<1> DEFINE Cell == ActionAt[m_state][c]
<1>1. \A a \in Cell : \/ a = "soj" /\ OnStartObject(c)
                      \/ a = "sar" /\ OnStartArray(c)
                      => Promise!Next
  BY Opens
<1>2. \A a \in Cell : \/ a = "eoj" /\ OnEndObject(c)
                      \/ a = "noj" /\ OnEndEmptyObject(c)
                      \/ a = "ear" /\ OnEndArray(c)
                      => Promise!Next
  BY Closes
<1>3. \A a \in Cell : \/ a = "ktv" /\ OnKeyToValue(c)
                      \/ a = "nxt" /\ OnNextValue(c)
                      => Promise!Next
  BY Separates
<1>4. \A a \in Cell : a = "sos" /\ OnStartString(c) => Promise!Next
  BY StartsALiteral
<1>5. \A a \in Cell : \/ a = "sep" /\ OnStartEscape(c)
                      \/ a = "eep" /\ OnEndEscape(c)
                      => Promise!Next
  BY DeliversPart
<1>6. \A a \in Cell : a = "eos" /\ OnEndString(c) => Promise!Next
  BY EndsAString
<1>7. \A a \in Cell : \/ a = "eon" /\ OnEndNumber(c)
                      \/ a = "enx" /\ OnEndNumberAndNextValue(c)
                      \/ a \in { "enj", "ena" } /\ PopThrows(a)
                      => Promise!Next
  BY EndsANumber
<1>8. \A a \in Cell : \/ a = "enj" /\ OnEndNumberAndObject(c)
                      \/ a = "ena" /\ OnEndNumberAndArray(c)
                      => Promise!Next
  BY EndsNumberAndContainer
<1>9. \A a \in Cell : \/ a = "nul" /\ OnNull(c)
                      \/ a = "tru" /\ OnTrue(c)
                      \/ a = "fls" /\ OnFalse(c)
                      => Promise!Next
  BY Words
<1>10. \A a \in Cell : a \notin { "enj", "ena" } /\ PopThrows(a) => Promise!Next
  BY NothingDone DEF PopThrows, Delivers, Throws
<1>11. EscapeThrows(c) \/ EmptyCellThrows(c) \/ AbortInHandler(c) => Promise!Next
  BY NothingDone DEF EscapeThrows, EmptyCellThrows, AbortInHandler, Delivers, Throws
<1>12. OnStartNumber(c) => Promise!Next
  BY StartsALiteral
<1>13. OnNone(c) => Promise!Next
  BY StepsOver
<1> QED
  BY <1>1, <1>2, <1>3, <1>4, <1>5, <1>6, <1>7, <1>8, <1>9, <1>10, <1>11, <1>12, <1>13 DEF Turn

\* So is every call, or it changes nothing that EventStream can see.
LEMMA StepIsPromised == EventInv /\ [Next]_vars => [Promise!Next]_(Promise!vars)
<1> SUFFICES ASSUME EventInv, [Next]_vars PROVE [Promise!Next]_(Promise!vars)
  OBVIOUS
<1>1. CASE \E c \in Chars : Reads(c)
  BY <1>1, CharsAssumption, TurnIsPromised DEF Reads
<1>2. CASE BeginParse \/ AbortInParse \/ EndParse
  <2>1. /\ UNCHANGED <<m_state, m_stack>> /\ out' = << >>
        /\ (m_token.saved \/ IsStashed(m_token)) = (m_token'.saved \/ IsStashed(m_token'))
    BY <1>2, CallsKeepToken
  <2>2. Containers' = Containers /\ Current' = Current /\ Owed' = Owed
    BY <2>1, ContainersAre DEF Current, Owed, Top
  <2>3. OpenLiteral' = OpenLiteral
    BY <2>1, <2>2, OpenLiteralIs
  <2> QED
    BY <2>1, <2>2, <2>3, UnheardOf
<1>3. CASE UNCHANGED vars
  BY <1>3 DEF vars, impl, Promise!vars, Containers, OpenLiteral, Owed, Current, Top
<1> QED
  BY <1>1, <1>2, <1>3 DEF Next

\* A new automaton is an initial state of EventStream.
LEMMA InitIsPromised == Init => Promise!Init
<1> SUFFICES ASSUME Init PROVE Promise!Init
  OBVIOUS
<1>1. Len(m_stack) = 1 /\ ~ m_token.saved /\ ~ IsStashed(m_token) /\ m_state = "go" /\ out = << >>
  BY DEF Init, Clear, IsStashed
<1>2. Containers = << >>
  BY <1>1 DEF Containers
<1>3. OpenLiteral = "none" /\ Owed = FALSE
  BY <1>1, OpenLiteralIs DEF Owed, Word
<1> QED
  BY <1>1, <1>2, <1>3 DEF Promise!Init

\* Automaton implements EventStream: whatever the text, its pieces and the exceptions
\* after which the caller goes on, the callback is given events that nest, literals
\* that are not interrupted, and after every key exactly one value, before the next key
\* and before the end of the object.
THEOREM EventsCorrect == Spec => EventStreamPromised
<1>1. Init => Promise!Init
  BY InitIsPromised
<1>2. EventInv /\ [Next]_vars => [Promise!Next]_(Promise!vars)
  BY StepIsPromised
<1> QED
  BY <1>1, <1>2, EventInit, EventStep, PTL DEF Spec, EventStreamPromised, Promise!Spec

-----------------------------------------------------------------------------
(* An m_callback that throws at any event: types.                          *)

\* The token m_callback leaves behind when it throws in Get's caller.
LEMMA TokenAfterGet ==
  ASSUME Typed
  PROVE  AfterGet \in Token(AnyText)
BY TokenTypes DEF AfterGet, Typed, TypeOK, Class

\* The first events of a handler are events too.
LEMMA ThrownEvents ==
  ASSUME Typed
  PROVE  /\ \A t \in DataType : /\ << Ev("start", t) >> \in Seq(Event)
                                /\ << Ev("end", t) >> \in Seq(Event)
                                /\ << Ev("data", t) >> \in Seq(Event)
                                /\ Append(NumberEvents, Ev("end", t)) \in Seq(Event)
                                /\ Append(StringEvents, Ev("end", t)) \in Seq(Event)
         /\ << NumberEvents[1] >> \in Seq(Event)
         /\ NumberEvents \in Seq(Event) /\ StringEvents \in Seq(Event)
         /\ Current \in DataType
<1>1. \A t \in DataType : Ev("start", t) \in Event /\ Ev("end", t) \in Event /\ Ev("data", t) \in Event
  BY EventTypes
<1>2. NumberEvents \in Seq(Event) /\ StringEvents \in Seq(Event) /\ Current \in DataType
  BY LiteralEvents DEF Typed
<1>3. NumberEvents[1] \in Event
  <2>1. Text(m_token) \in AnyText
    BY TokenTypes DEF Typed, TypeOK, Class
  <2> QED
    BY <2>1, EventTypes DEF NumberEvents, DataType, LiteralType
<1> QED
  BY <1>1, <1>2, <1>3, EventSequences, AppendedEvents

\* An exception of the callback leaves values of the right types behind.
LEMMA ThrowTypes ==
  ASSUME Typed, NEW c \in Class, CallbackThrows(c)
  PROVE  /\ call' = "thrown" /\ m_state' = m_state
         /\ GoodStack(m_stack')
         /\ m_token' \in Token(AnyText)
         /\ out' \in Seq(Event)
<1>1. /\ m_token \in Token(AnyText) /\ GoodStack(m_stack)
      /\ Clear \in Token(AnyText) /\ Save(m_token) \in Token(AnyText) /\ AfterGet \in Token(AnyText)
  BY TokenTypes, TokenAfterGet DEF Typed, TypeOK
<1>2. /\ \A mode \in { "key", "array" } : GoodStack(Append(m_stack, mode))
      /\ Top # "done" => GoodStack(Front(m_stack))
  BY <1>1, PushIsGood, PopIsGood DEF Mode, Top
<1>3. /\ "object" \in DataType /\ "array" \in DataType /\ "number" \in DataType
      /\ { "null_value", "boolean_true", "boolean_false" } \subseteq DataType
  BY DEF DataType, LiteralType
<1>4. /\ \A t \in DataType : /\ << Ev("start", t) >> \in Seq(Event)
                             /\ << Ev("end", t) >> \in Seq(Event)
                             /\ << Ev("data", t) >> \in Seq(Event)
                             /\ Append(NumberEvents, Ev("end", t)) \in Seq(Event)
                             /\ Append(StringEvents, Ev("end", t)) \in Seq(Event)
      /\ << NumberEvents[1] >> \in Seq(Event)
      /\ NumberEvents \in Seq(Event) /\ StringEvents \in Seq(Event)
      /\ Current \in DataType
  BY ThrownEvents
<1>5. ASSUME NEW events \in Seq(Event), NEW stack, GoodStack(stack), NEW token \in Token(AnyText),
             ThrowsAt(events, stack, token)
      PROVE  /\ call' = "thrown" /\ m_state' = m_state
             /\ GoodStack(m_stack')
             /\ m_token' \in Token(AnyText)
             /\ out' \in Seq(Event)
  BY <1>5 DEF ThrowsAt, Delivers
<1>6. \A a \in DOMAIN PoppedMode : PoppedMode[a] # "done"
  BY DEF PoppedMode
<1>7. ASSUME NEW a, ContainerThrows(a)
      PROVE  /\ call' = "thrown" /\ m_state' = m_state
             /\ GoodStack(m_stack')
             /\ m_token' \in Token(AnyText)
             /\ out' \in Seq(Event)
  <2>1. a \in { "eoj", "noj" } => a \in DOMAIN PoppedMode
    BY DEF PoppedMode
  <2> QED
    BY <1>1, <1>2, <1>3, <1>4, <1>5, <1>6, <1>7, <2>1 DEF ContainerThrows, Pushed, Popped
<1>8. ASSUME NEW a, NumberThrows(a)
      PROVE  /\ call' = "thrown" /\ m_state' = m_state
             /\ GoodStack(m_stack')
             /\ m_token' \in Token(AnyText)
             /\ out' \in Seq(Event)
  <2>1. a \in { "enj", "ena" } => a \in DOMAIN PoppedMode
    BY DEF PoppedMode
  <2>2. \/ \E events \in { << NumberEvents[1] >>, NumberEvents } : ThrowsAt(events, m_stack, AfterGet)
        \/ /\ a \in { "enj", "ena" } /\ Top = PoppedMode[a]
           /\ \E type \in { "object", "array" } :
                ThrowsAt(Append(NumberEvents, Ev("end", type)), Popped, Clear)
    BY <1>8 DEF NumberThrows
  <2>3. CASE \E events \in { << NumberEvents[1] >>, NumberEvents } : ThrowsAt(events, m_stack, AfterGet)
    BY <1>1, <1>4, <1>5, <2>3
  <2>4. CASE /\ a \in { "enj", "ena" } /\ Top = PoppedMode[a]
             /\ \E type \in { "object", "array" } :
                  ThrowsAt(Append(NumberEvents, Ev("end", type)), Popped, Clear)
    BY <1>1, <1>2, <1>3, <1>4, <1>5, <1>6, <2>1, <2>4 DEF Popped
  <2> QED
    BY <2>2, <2>3, <2>4
<1>9. ASSUME NEW a, StringThrows(a, c)
      PROVE  /\ call' = "thrown" /\ m_state' = m_state
             /\ GoodStack(m_stack')
             /\ m_token' \in Token(AnyText)
             /\ out' \in Seq(Event)
  <2>1. c \in DOMAIN Unescaped => << Data(Current, << Unescaped[c] >>) >> \in Seq(Event)
    <3> SUFFICES ASSUME c \in DOMAIN Unescaped
                 PROVE  << Data(Current, << Unescaped[c] >>) >> \in Seq(Event)
      OBVIOUS
    <3>1. << Unescaped[c] >> \in AnyText
      BY DEF Unescaped, AnyText, Glyph, Class
    <3> QED
      BY <1>4, <3>1, EventTypes, EventSequences
  <2> QED
    BY <1>1, <1>4, <1>5, <1>9, <2>1 DEF StringThrows
<1>10. ASSUME NEW a, WordThrows(a)
       PROVE  /\ call' = "thrown" /\ m_state' = m_state
              /\ GoodStack(m_stack')
              /\ m_token' \in Token(AnyText)
              /\ out' \in Seq(Event)
  <2>1. WordType[a] \in DataType
    BY <1>3, <1>10 DEF WordThrows, WordType
  <2> QED
    BY <1>1, <1>4, <1>5, <1>10, <2>1 DEF WordThrows
<1>11. ASSUME NumberStartThrows(c)
       PROVE  /\ call' = "thrown" /\ m_state' = m_state
              /\ GoodStack(m_stack')
              /\ m_token' \in Token(AnyText)
              /\ out' \in Seq(Event)
  BY <1>1, <1>3, <1>4, <1>5, <1>11 DEF NumberStartThrows
<1> QED
  BY <1>7, <1>8, <1>9, <1>10, <1>11 DEF CallbackThrows

\* So does every step, with and without an exception.
LEMMA ThrowingTyped == Typed /\ [ThrowingNext]_vars => Typed'
<1> SUFFICES ASSUME Typed, [ThrowingNext]_vars PROVE Typed'
  OBVIOUS
<1>1. CASE [Next]_vars
  BY <1>1, TypedStep
<1>2. CASE \E c \in Chars : CallbackThrows(c)
  <2> PICK c \in Chars : CallbackThrows(c)
    BY <1>2
  <2>1. c \in Class
    BY CharsAssumption
  <2>2. /\ call' = "thrown" /\ m_state' = m_state /\ GoodStack(m_stack')
        /\ m_token' \in Token(AnyText) /\ out' \in Seq(Event)
    BY <2>1, ThrowTypes
  <2>3. lit' \in AnyText /\ got' \in AnyText
    BY <2>1, <2>2, ObservedTypes DEF CallbackThrows
  <2> QED
    BY <2>2, <2>3 DEF Typed, TypeOK, GoodStack, Call
<1> QED
  BY <1>1, <1>2 DEF ThrowingNext
\* An exception out of m_callback, too, leaves values of the right type, and the bottom
\* of the stack in place.
THEOREM ThrowingTypeCorrect == ThrowingSpec => [](TypeOK /\ BottomIsDone)
<1>1. Typed => TypeOK /\ BottomIsDone
  BY DEF Typed, GoodStack, BottomIsDone
<1> QED
  BY <1>1, TypedInit, ThrowingTyped, PTL DEF ThrowingSpec

-----------------------------------------------------------------------------
(* Going on after an exception.                                            *)

\* Only an exception at the start of a number leaves a token outside literals: until the
\* next call to Parse, which fails the assertion at once.
TokenOutside ==
  /\ IsStashed(m_token) => m_state \in Literal
  /\ m_token.saved => \/ m_state \in Literal
                      \/ call = "aborted"
                      \/ call = "thrown" /\ out = << Ev("start", "number") >>

ThrowInv == Typed /\ TokenOutside

\* In the loop of Parse there is a token only inside a literal.
LEMMA NoTokenInLoop == TokenOutside /\ InLoop => TokenInside
BY DEF TokenOutside, TokenInside, InLoop

\* A token inside a literal is not outside one.
LEMMA InsideIsOutside == TokenInside' => TokenOutside'
BY DEF TokenInside, TokenOutside

\* What m_callback's exception leaves of the token.
LEMMA ThrowKeepsToken ==
  ASSUME ThrowInv, NEW c \in Class, CallbackThrows(c)
  PROVE  TokenOutside'
<1>1. /\ call' = "thrown" /\ m_state' = m_state /\ TokenInside
      /\ m_token \in Token(AnyText)
  BY ThrowTypes, NoTokenInLoop DEF ThrowInv, CallbackThrows, Typed, TypeOK
<1>2. CASE m_state \in Literal
  BY <1>1, <1>2 DEF TokenOutside
<1>3. CASE m_state \notin Literal
  <2>1. ~ m_token.saved /\ ~ IsStashed(m_token)
    BY <1>1, <1>3 DEF TokenInside
  <2>2. CASE m_token' = m_token
    BY <2>1, <2>2 DEF TokenOutside
  <2>3. CASE m_token' = Save(m_token) /\ out' = << Ev("start", "number") >>
    <3>1. ~ IsStashed(m_token')
      BY <1>1, <2>1, <2>3 DEF Save, Token, IsStashed
    <3> QED
      BY <1>1, <2>3, <3>1 DEF TokenOutside
  <2>4. \A a : ContainerThrows(a) \/ NumberThrows(a) \/ StringThrows(a, c) \/ WordThrows(a)
          => m_token' = m_token
    BY <2>1 DEF ContainerThrows, NumberThrows, StringThrows, WordThrows, ThrowsAt
  <2>5. NumberStartThrows(c) => m_token' = Save(m_token) /\ out' = << Ev("start", "number") >>
    BY DEF NumberStartThrows, ThrowsAt, Delivers
  <2> QED
    BY <2>2, <2>3, <2>4, <2>5 DEF CallbackThrows
<1> QED
  BY <1>2, <1>3

\* Every step keeps the invariant.
LEMMA ThrowInvStep == ThrowInv /\ [ThrowingNext]_vars => ThrowInv'
<1> SUFFICES ASSUME ThrowInv, [ThrowingNext]_vars PROVE TokenOutside'
  BY ThrowingTyped DEF ThrowInv
<1>1. CASE \E c \in Chars : Reads(c)
  <2> PICK c \in Chars : Reads(c)
    BY <1>1
  <2>1. c \in Class /\ Turn(c) /\ Typed /\ TokenInside
    BY CharsAssumption, NoTokenInLoop DEF Reads, ThrowInv
  <2> QED
    BY <2>1, TurnKeepsTokenInside, InsideIsOutside
<1>2. CASE \E c \in Chars : CallbackThrows(c)
  BY <1>2, CharsAssumption, ThrowKeepsToken
<1>3. CASE AbortInParse
  BY <1>3 DEF AbortInParse, ThrowInv, TokenOutside
<1>4. CASE BeginParse
  BY <1>4 DEF BeginParse, ThrowInv, TokenOutside
<1>5. CASE EndParse
  BY <1>5 DEF EndParse, ThrowInv, TokenOutside
<1>6. CASE UNCHANGED vars
  BY <1>6 DEF vars, impl, ThrowInv, TokenOutside
<1> QED
  BY <1>1, <1>2, <1>3, <1>4, <1>5, <1>6 DEF ThrowingNext, Next

\* In the loop of Parse an assertion can fail only inside a literal.
LEMMA AbortsInLiteral ==
  ASSUME ThrowInv, NEW c \in Class, Reads(c), call' = "aborted"
  PROVE  m_state \in Literal
<1>1. /\ m_state \in State /\ TokenInside /\ Turn(c)
      /\ \A a \in ActionAt[m_state][c] : Edge(m_state, c, a)
  BY NoTokenInLoop, CellHoldsAction DEF Reads, ThrowInv, Typed, TypeOK
<1>2. AssertionFails(c)
  BY <1>1 DEF Turn, OnStartObject, OnStartArray, OnEndObject, OnEndEmptyObject, OnEndArray,
         OnKeyToValue, OnNextValue, OnNull, OnTrue, OnFalse, OnWord, OnStartString, OnEndString,
         OnStartEscape, OnEndEscape, OnStartNumber, OnEndNumber, OnEndNumberAndObject,
         OnEndNumberAndArray, OnEndNumberAndNextValue, OnNone, EscapeThrows, EmptyCellThrows,
         AbortInHandler, PopThrows, Goes, Throws
<1>3. CASE ~ m_token.saved /\ \E a \in ActionAt[m_state][c] : a \in TakesToken
  BY <1>1, <1>3, EdgeRegions DEF TakesToken, Literal, Escape
<1>4. CASE m_token.saved
  BY <1>1, <1>4 DEF TokenInside
<1> QED
  BY <1>2, <1>3, <1>4 DEF AssertionFails

\* A step that ends in a failed assertion was taken inside a literal, or behind the start of
\* a number that its callback did not survive.
LEMMA RecoveryStep ==
  ThrowInv /\ [ThrowingNext]_vars =>
    [call' = "aborted" => \/ m_state \in Literal
                          \/ call = "thrown" /\ out = << Ev("start", "number") >>]_vars
<1> SUFFICES ASSUME ThrowInv, ThrowingNext, call' = "aborted"
             PROVE  \/ m_state \in Literal
                    \/ call = "thrown" /\ out = << Ev("start", "number") >>
  OBVIOUS
<1>1. CASE \E c \in Chars : Reads(c)
  BY <1>1, CharsAssumption, AbortsInLiteral
<1>2. ~ \E c \in Chars : CallbackThrows(c)
  BY CharsAssumption, ThrowTypes DEF ThrowInv
<1>3. CASE AbortInParse
  BY <1>3 DEF AbortInParse, MayCall, ThrowInv, TokenOutside
<1>4. ~ BeginParse /\ ~ EndParse
  BY DEF BeginParse, EndParse
<1> QED
  BY <1>1, <1>2, <1>3, <1>4 DEF ThrowingNext, Next

\* A caller who goes on after an exception can meet a failed assertion only when a literal
\* was open, or when m_callback threw at the start of a number: whatever m_callback does,
\* at whatever event.
THEOREM RecoveryCorrect == ThrowingSpec => RecoverableOutsideLiteral
<1>1. Init => ThrowInv
  BY TypedInit DEF Init, ThrowInv, TokenOutside, Clear, IsStashed
<1> QED
  BY <1>1, ThrowInvStep, RecoveryStep, PTL DEF ThrowingSpec, RecoverableOutsideLiteral
-----------------------------------------------------------------------------
(* The stack and the events.                                               *)

Bracket == { "array", "object" }

\* Events that tell of no container.
Quiet(events) == \A i \in 1 .. Len(events) : events[i].type \notin Bracket

\* The three things a step does to the stack and tells of it.
LeavesContainers == Containers' = Containers /\ Quiet(out')
OpensContainer == \E mode \in { "key", "array" } :
                    /\ m_stack' = Append(m_stack, mode)
                    /\ out' = << Ev("start", ContainerOf(mode)) >>
ClosesContainer == /\ Top # "done" /\ m_stack' = Front(m_stack)
                   /\ \E events \in { << >>, NumberEvents } :
                        Quiet(events) /\ out' = Append(events, Ev("end", ContainerOf(Top)))

Follows ==
  /\ Containers' = IF out' = << >> THEN Containers ELSE Nested(Containers, Last(out'))
  /\ \A i \in 1 .. Len(out') - 1 : out'[i].type \notin { "array", "object" }

\* Events without brackets follow a stack that is left alone.
LEMMA LeavingFollows ==
  ASSUME LeavesContainers, out' \in Seq(Event)
  PROVE  Follows
<1>1. Quiet(out') /\ Len(out') \in Nat
  BY LenProperties DEF LeavesContainers
<1>2. ASSUME out' # << >>
      PROVE  Last(out').type \notin Bracket
  <2>1. Len(out') \in 1 .. Len(out')
    BY <1>1, <1>2, EmptySeq
  <2> QED
    BY <1>1, <2>1 DEF Quiet, Last
<1> QED
  BY <1>1, <1>2 DEF LeavesContainers, Follows, Nested, Quiet, Bracket

\* The start of a container follows what is pushed.
LEMMA OpeningFollows ==
  ASSUME Typed, OpensContainer
  PROVE  Follows
<1> PICK mode \in { "key", "array" } : /\ m_stack' = Append(m_stack, mode)
                                       /\ out' = << Ev("start", ContainerOf(mode)) >>
  BY DEF OpensContainer
<1>1. Containers' = Append(Containers, ContainerOf(mode))
  BY ContainersAre, ContainersOfPush DEF Typed
<1>2. /\ out' # << >> /\ Len(out') = 1 /\ Last(out') = Ev("start", ContainerOf(mode))
      /\ ContainerOf(mode) \in { "array", "object" }
  BY DEF Last, ContainerOf
<1> QED
  BY <1>1, <1>2 DEF Follows, Nested, Ev

\* The end of a container follows what is popped.
LEMMA ClosingFollows ==
  ASSUME Typed, ClosesContainer
  PROVE  Follows
<1> PICK events \in { << >>, NumberEvents } : /\ Quiet(events)
                                              /\ out' = Append(events, Ev("end", ContainerOf(Top)))
  BY DEF ClosesContainer
<1>1. Containers' = Front(Containers)
  BY ContainersAre, OpenContainers DEF ClosesContainer
<1>2. ContainerOf(Top) \in { "array", "object" }
  BY DEF ContainerOf
<1>3. events \in Seq(Event) /\ Ev("end", ContainerOf(Top)) \in Event
  <2>1. ContainerOf(Top) \in DataType
    BY <1>2 DEF DataType
  <2> QED
    BY <2>1, EventTypes, EventSequences, LiteralEvents DEF Typed
<1>4. /\ out' # << >> /\ Last(out') = Ev("end", ContainerOf(Top))
      /\ Len(out') = Len(events) + 1 /\ Len(events) \in Nat
      /\ \A i \in 1 .. Len(events) : out'[i] = events[i]
  BY <1>3, FrontOfAppend, LastOfAppend, AppendProperties, LenProperties
<1>5. \A i \in 1 .. Len(out') - 1 : out'[i].type \notin { "array", "object" }
  BY <1>4 DEF Quiet, Bracket
<1> QED
  BY <1>1, <1>2, <1>4, <1>5 DEF Follows, Nested, Ev

\* What is told of literals, words and separators tells of no container.
LEMMA QuietOnes ==
  /\ Quiet(<< >>) /\ Quiet(NumberEvents) /\ Quiet(<< NumberEvents[1] >>)
  /\ Quiet(StringEvents) /\ Quiet(Append(StringEvents, Ev("end", Current)))
  /\ Quiet(<< Ev("start", Current) >>) /\ Quiet(<< Ev("start", "number") >>)
  /\ \A text : Quiet(<< Data(Current, text) >>)
  /\ \A t \in { "null_value", "boolean_true", "boolean_false" } : Quiet(<< Ev("data", t) >>)
<1>1. Current \notin Bracket
  BY DEF Current, Bracket
<1>2. /\ \A e, t : Ev(e, t).type = t
      /\ \A t, text : Data(t, text).type = t
  BY DEF Ev, Data
<1>3. \A e : e.type \notin Bracket => Quiet(<< e >>)
  BY DEF Quiet
<1>4. \A e, f : e.type \notin Bracket /\ f.type \notin Bracket => Quiet(<< e, f >>)
  BY DEF Quiet
<1>5. Quiet(<< >>)
  BY DEF Quiet
<1>6. "number" \notin Bracket
  BY DEF Bracket
<1>7. Quiet(NumberEvents) /\ Quiet(<< NumberEvents[1] >>)
  BY <1>2, <1>3, <1>4, <1>6 DEF NumberEvents
<1>8. StringEvents = << >> \/ StringEvents = << Data(Current, Tail(Text(m_token))) >>
  BY DEF StringEvents
<1>9. Quiet(StringEvents)
  BY <1>1, <1>2, <1>3, <1>5, <1>8
<1>10. Quiet(Append(StringEvents, Ev("end", Current)))
  <2>1. \A f : f.type \notin Bracket => Quiet(Append(<< >>, f))
    BY DEF Quiet
  <2>2. \A e, f : e.type \notin Bracket /\ f.type \notin Bracket => Quiet(Append(<< e >>, f))
    BY DEF Quiet
  <2> QED
    BY <1>1, <1>2, <1>8, <2>1, <2>2
<1>11. \A t \in { "null_value", "boolean_true", "boolean_false" } : Quiet(<< Ev("data", t) >>)
  BY <1>2, <1>3 DEF Bracket
<1> QED
  BY <1>1, <1>2, <1>3, <1>5, <1>6, <1>7, <1>9, <1>10, <1>11

\* The containers a step leaves alone.
LEMMA SameContainers ==
  ASSUME Typed
  PROVE  /\ m_stack' = m_stack => Containers' = Containers
         /\ m_stack' = Flipped => Containers' = Containers
         /\ Top = "key" /\ m_stack' = Append(Front(m_stack), "object") => Containers' = Containers
<1>1. GoodStack(m_stack)
  BY DEF Typed
<1>2. ContainersOf(Flipped) = ContainersOf(m_stack)
  BY FlippedModes
<1>3. Last(m_stack) = "key" => ContainersOf(Append(Front(m_stack), "object")) = ContainersOf(m_stack)
  BY <1>1, ContainersOfPop DEF ContainerOf
<1> QED
  BY <1>2, <1>3, ContainersAre DEF Top

\* Every turn of the loop is of one of these kinds.
LEMMA TurnFollows ==
  ASSUME Typed, NEW c \in Class, Turn(c)
  PROVE  Follows
<1> DEFINE Cell == ActionAt[m_state][c]
<1>1. out' \in Seq(Event)
  BY TurnTypes
<1>2. ASSUME NEW a \in Cell,
             \/ a = "soj" /\ OnStartObject(c)
             \/ a = "sar" /\ OnStartArray(c)
      PROVE  OpensContainer
  BY <1>2 DEF OnStartObject, OnStartArray, Delivers, OpensContainer, ContainerOf
<1>3. ASSUME OnEndObject(c) \/ OnEndEmptyObject(c) \/ OnEndArray(c)
      PROVE  ClosesContainer
  <2>1. \A e : Append(<< >>, e) = << e >>
    OBVIOUS
  <2> QED
    BY <1>3, <2>1, QuietOnes
       DEF OnEndObject, OnEndEmptyObject, OnEndArray, Pops, Delivers, ClosesContainer, ContainerOf
<1>4. ASSUME OnEndNumberAndObject(c) \/ OnEndNumberAndArray(c)
      PROVE  ClosesContainer
  BY <1>4, QuietOnes
     DEF OnEndNumberAndObject, OnEndNumberAndArray, Pops, Delivers, ClosesContainer, ContainerOf
<1>5. ASSUME OnKeyToValue(c) \/ OnNextValue(c) \/ OnEndNumberAndNextValue(c)
      PROVE  LeavesContainers
  BY <1>5, QuietOnes, SameContainers
     DEF OnKeyToValue, OnNextValue, OnEndNumberAndNextValue, Delivers, LeavesContainers
<1>6. ASSUME \/ OnStartNumber(c) \/ OnEndNumber(c)
             \/ OnStartString(c) \/ OnEndString(c) \/ OnStartEscape(c) \/ OnEndEscape(c)
             \/ OnNull(c) \/ OnTrue(c) \/ OnFalse(c)
      PROVE  LeavesContainers
  BY <1>6, QuietOnes, SameContainers
     DEF OnStartNumber, OnEndNumber, OnStartString, OnEndString, OnStartEscape, OnEndEscape,
         OnNull, OnTrue, OnFalse, OnWord, Delivers, LeavesContainers
<1>7. ASSUME \/ OnNone(c) \/ EscapeThrows(c) \/ EmptyCellThrows(c) \/ AbortInHandler(c)
             \/ \E a \in Cell : PopThrows(a)
      PROVE  LeavesContainers
  BY <1>7, QuietOnes, SameContainers
     DEF OnNone, EscapeThrows, EmptyCellThrows, AbortInHandler, PopThrows, Throws, Delivers,
         LeavesContainers
<1>8. LeavesContainers \/ OpensContainer \/ ClosesContainer
  BY <1>2, <1>3, <1>4, <1>5, <1>6, <1>7 DEF Turn
<1> QED
  BY <1>1, <1>8, LeavingFollows, OpeningFollows, ClosingFollows

\* So is a turn that an exception ends.
LEMMA ThrowFollows ==
  ASSUME Typed, NEW c \in Class, CallbackThrows(c)
  PROVE  Follows
<1>1. out' \in Seq(Event)
  BY ThrowTypes
<1>2. ASSUME NEW a, ContainerThrows(a)
      PROVE  OpensContainer \/ ClosesContainer
  <2>1. \A e : Append(<< >>, e) = << e >>
    OBVIOUS
  <2> QED
    BY <1>2, <2>1, QuietOnes
       DEF ContainerThrows, ThrowsAt, Delivers, Pushed, Popped, PoppedMode, OpensContainer,
           ClosesContainer, ContainerOf
<1>3. ASSUME NEW a, NumberThrows(a)
      PROVE  LeavesContainers \/ ClosesContainer
  <2>1. CASE \E events \in { << NumberEvents[1] >>, NumberEvents } :
               ThrowsAt(events, m_stack, AfterGet)
    BY <2>1, QuietOnes, SameContainers DEF ThrowsAt, Delivers, LeavesContainers
  <2>2. CASE /\ a \in { "enj", "ena" } /\ Top = PoppedMode[a]
             /\ ThrowsAt(Append(NumberEvents, Ev("end", IF a = "enj" THEN "object" ELSE "array")),
                         Popped, Clear)
    BY <2>2, QuietOnes
       DEF ThrowsAt, Delivers, Popped, PoppedMode, ClosesContainer, ContainerOf
  <2> QED
    BY <1>3, <2>1, <2>2 DEF NumberThrows
<1>4. ASSUME NEW events, NEW token, ThrowsAt(events, m_stack, token), Quiet(events)
      PROVE  LeavesContainers
  BY <1>4, SameContainers DEF ThrowsAt, Delivers, LeavesContainers
<1>5. ASSUME NEW a, StringThrows(a, c)
      PROVE  LeavesContainers
  BY <1>4, <1>5, QuietOnes DEF StringThrows
<1>6. ASSUME NEW a, WordThrows(a)
      PROVE  LeavesContainers
  <2>1. WordType[a] \in { "null_value", "boolean_true", "boolean_false" }
    BY <1>6 DEF WordThrows, WordType
  <2> QED
    BY <1>4, <1>6, <2>1, QuietOnes DEF WordThrows
<1>7. ASSUME NumberStartThrows(c)
      PROVE  LeavesContainers
  BY <1>4, <1>7, QuietOnes DEF NumberStartThrows
<1>8. LeavesContainers \/ OpensContainer \/ ClosesContainer
  BY <1>2, <1>3, <1>5, <1>6, <1>7 DEF CallbackThrows
<1> QED
  BY <1>1, <1>8, LeavingFollows, OpeningFollows, ClosingFollows

\* And so every step.
LEMMA StepFollows == Typed /\ [ThrowingNext]_vars => [Follows]_vars
<1> SUFFICES ASSUME Typed, ThrowingNext PROVE Follows
  OBVIOUS
<1>1. CASE \E c \in Chars : Reads(c)
  BY <1>1, CharsAssumption, TurnFollows DEF Reads
<1>2. CASE \E c \in Chars : CallbackThrows(c)
  BY <1>2, CharsAssumption, ThrowFollows
<1>3. CASE BeginParse \/ AbortInParse \/ EndParse
  <2>1. out' = << >> /\ m_stack' = m_stack
    BY <1>3 DEF BeginParse, AbortInParse, EndParse, Delivers
  <2> QED
    BY <2>1, SameContainers DEF Follows
<1> QED
  BY <1>1, <1>2, <1>3 DEF ThrowingNext, Next

\* The stack holds exactly the containers m_callback has been told of: a container is
\* pushed, and popped, before m_callback hears of it, so that an exception out of
\* m_callback cannot part the two.
THEOREM StackCorrect == ThrowingSpec => StackFollowsEvents
<1>1. Typed /\ [ThrowingNext]_vars => Typed' /\ [Follows]_vars
  BY ThrowingTyped, StepFollows
<1>2. Typed /\ [ThrowingNext]_vars =>
        [/\ Containers' = IF out' = << >> THEN Containers ELSE Nested(Containers, Last(out'))
         /\ \A i \in 1 .. Len(out') - 1 : out'[i].type \notin { "array", "object" }]_vars
  BY <1>1 DEF Follows
<1> QED
  BY <1>1, <1>2, TypedInit, PTL DEF ThrowingSpec, StackFollowsEvents
=============================================================================
