--------------------------- MODULE JsonCheckerProofs ---------------------------
(***************************************************************************)
(* Theorems about JsonChecker, for every alphabet, every depth, every size *)
(* of jc->token, every text and every way of cutting it into pieces.       *)
(***************************************************************************)
EXTENDS JsonChecker, AutomatonTableProofs

-----------------------------------------------------------------------------
(* Types.                                                                  *)

Event == [type : KeyOrText \cup ValueEvent \cup EndEvent, text : Text]
Typed == TypeOK /\ ModeStack(stack)

\* What emit_token may deliver, and what the buffers may hold, are texts.
LEMMA TextTypes ==
  ASSUME TypeOK
  PROVE  /\ Emitted \subseteq Text
         /\ << >> \in Text /\ Garbage \in Text
         /\ << >> \in Seq(Class) /\ token \o held \in Seq(Class)
         /\ \A c \in Class : Append(held, c) \in Seq(Class)
<1>1. token \in Seq(Class) /\ held \in Seq(Class)
  BY DEF TypeOK
<1>2. << >> \in Seq(Class) /\ token \o held \in Seq(Class)
  BY <1>1, ConcatProperties, EmptySeq
<1>3. \A c \in Class : Append(held, c) \in Seq(Class)
  BY <1>1, AppendProperties
<1>4. Emitted \subseteq { token \o held, held, Garbage, << >> }
  BY DEF Emitted
<1> QED
  BY <1>1, <1>2, <1>3, <1>4 DEF Text

\* Events with a text, and sequences of them.
LEMMA EventTypes ==
  /\ \A t \in KeyOrText \cup ValueEvent \cup EndEvent, s \in Text : Ev(t, s) \in Event
  /\ << >> \in Seq(Event) /\ \A e \in Event : << e >> \in Seq(Event)
  /\ \A n \in Seq(Event), e \in Event : Append(n, e) \in Seq(Event)
<1>1. \A t \in KeyOrText \cup ValueEvent \cup EndEvent, s \in Text : Ev(t, s) \in Event
  BY DEF Ev, Event
<1>2. << >> \in Seq(Event) /\ \A e \in Event : << e >> \in Seq(Event)
  OBVIOUS
<1>3. \A n \in Seq(Event), e \in Event : Append(n, e) \in Seq(Event)
  BY AppendProperties
<1> QED
  BY <1>1, <1>2, <1>3

\* What the callback may be given is always an event with a text.
LEMMA DeliveredTypes ==
  ASSUME TypeOK
  PROVE  /\ NumberFirst \subseteq Seq(Event)
         /\ \A t \in ValueEvent \cup EndEvent : Permitive(t) \in Event
         /\ \A t \in KeyOrText, x \in Emitted : << Ev(t, x) >> \in Seq(Event)
<1>1. Emitted \subseteq Text /\ << >> \in Text /\ Garbage \in Text
  BY TextTypes
<1>2. \A t \in KeyOrText, x \in Emitted : << Ev(t, x) >> \in Seq(Event)
  BY <1>1, EventTypes
<1>3. NumberFirst \subseteq Seq(Event)
  BY <1>2, EventTypes DEF NumberFirst, KeyOrText
<1> QED
  BY <1>1, <1>2, <1>3, EventTypes DEF Permitive

\* Only where the modes agree is a container never opened in an object's key.
LEMMA OpensNoKey ==
  ASSUME Typed, CheckerModesAgree, call = "ok", state \in { "go", "val", "arr" }
  PROVE  Top # "key" /\ (Top = "done" => state = "go")
<1>1. state = "go" => Top = "done"
  <2>1. stack = << "done" >> => Len(stack) = 1
    OBVIOUS
  <2> QED
    BY <2>1, TopMode DEF CheckerModesAgree, Typed, Top
<1> QED
  BY <1>1 DEF CheckerModesAgree

\* A turn of the loop keeps the types; only where the modes agree does it keep the stack.
LEMMA TurnTypes ==
  ASSUME Typed, CheckerModesAgree, call = "ok", NEW c \in Class, Turn(c), UNCHANGED depth
  PROVE  /\ call' \in Call /\ state' \in State
         /\ ModeStack(stack') /\ Len(stack') <= depth'
         /\ token' \in Seq(Class) /\ held' \in Seq(Class) /\ Len(token') <= TokenSize
         /\ out' \in Seq(Event)
<1> DEFINE Goal == /\ call' \in Call /\ state' \in State
                   /\ ModeStack(stack') /\ Len(stack') <= depth'
                   /\ token' \in Seq(Class) /\ held' \in Seq(Class) /\ Len(token') <= TokenSize
                   /\ out' \in Seq(Event)
<1>1. /\ TypeOK /\ state \in State /\ ModeStack(stack) /\ depth \in Nat \ {0} /\ Len(stack) <= depth
      /\ token \in Seq(Class) /\ held \in Seq(Class) /\ Len(token) <= TokenSize /\ depth' = depth
      /\ Len(stack) \in Nat \ {0}
  BY TopMode DEF Typed, TypeOK
<1>2. /\ NumberFirst \subseteq Seq(Event) /\ Emitted \subseteq Text /\ << >> \in Seq(Event)
      /\ \A t \in ValueEvent \cup EndEvent : Permitive(t) \in Event
      /\ \A t \in KeyOrText, x \in Emitted : << Ev(t, x) >> \in Seq(Event)
      /\ \A n \in Seq(Event), e \in Event : Append(n, e) \in Seq(Event)
      /\ \A e \in Event : << e >> \in Seq(Event)
      /\ \A d \in Class : Append(held, d) \in Seq(Class)
  BY <1>1, DeliveredTypes, EventTypes, TextTypes
<1>3. /\ Resets => token' \in Seq(Class) /\ held' \in Seq(Class) /\ Len(token') <= TokenSize
      /\ UNCHANGED token => token' \in Seq(Class) /\ Len(token') <= TokenSize
      /\ UNCHANGED <<token, held>> => token' \in Seq(Class) /\ held' \in Seq(Class) /\ Len(token') <= TokenSize
  <2>1. << >> \in Seq(Class) /\ Len(<< >>) = 0
    BY <1>1, TextTypes
  <2>2. 0 <= TokenSize
    BY CheckerBounds
  <2> QED
    BY <1>1, <2>1, <2>2 DEF Resets
<1>4. /\ Rejects => call' \in Call /\ state' \in State /\ ModeStack(stack') /\ Len(stack') <= depth'
      /\ \A s \in State : GoesOn(s) => call' \in Call /\ state' \in State
      /\ UNCHANGED stack => ModeStack(stack') /\ Len(stack') <= depth'
  BY <1>1 DEF Rejects, GoesOn, Call, Typed, TypeOK
<1>5. /\ { "ok", "obj", "arr", "col", "val", "key", "str" } \subseteq State
      /\ KeyOrText = { "JSON_object_key", "JSON_string", "JSON_number" }
      /\ { "JSON_object_end", "JSON_array_end", "JSON_object_start", "JSON_array_start",
           "JSON_null", "JSON_true", "JSON_false" } \subseteq ValueEvent \cup EndEvent
  BY DEF State, Between, Literal, KeyOrText, ValueEvent, EndEvent
<1>6. CASE NextChar(c)
  BY <1>6, <1>2, <1>3, <1>4, <1>1 DEF NextChar
<1>7. CASE EndNumber(c)
  BY <1>7, <1>2, <1>3, <1>4, <1>5 DEF EndNumber
<1>8. CASE EndWord(c)
  <2>1. WordEvent[state] \in ValueEvent
    BY <1>8 DEF EndWord, WordEvent, ValueEvent
  <2> QED
    BY <1>8, <2>1, <1>2, <1>3, <1>4, <1>5 DEF EndWord
<1>9. CASE CloseContainer(c)
  <2>1. ClosedBy[Table[state][c]].type \in EndEvent /\ ClosedBy[Table[state][c]].mode # "done"
    BY <1>9 DEF CloseContainer, ClosedBy, EndEvent
  <2>2. out' \in Seq(Event)
    BY <1>9, <2>1, <1>2 DEF CloseContainer
  <2>3. CASE Rejects
    BY <1>9, <2>2, <2>3, <1>3, <1>4 DEF CloseContainer
  <2>4. CASE Top # "done" /\ stack' = Front(stack) /\ GoesOn("ok")
    <3>1. ModeStack(stack') /\ Len(stack') = Len(stack) - 1
      BY <1>1, <2>4, PopMode DEF Top
    <3>2. Len(stack') <= depth'
      BY <1>1, <3>1
    <3> QED
      BY <1>9, <2>2, <2>4, <3>1, <3>2, <1>3, <1>4, <1>5 DEF CloseContainer
  <2> QED
    BY <1>9, <2>1, <2>3, <2>4 DEF CloseContainer
<1>10. CASE OpenContainer(c)
  <2>1. Resets /\ out' \in Seq(Event)
    BY <1>10, <1>2, <1>5 DEF OpenContainer
  <2>2. Top # "key"
    BY <1>1, <1>10, CellRegions, OpensNoKey DEF OpenContainer
  <2>3. CASE Rejects
    BY <2>1, <2>3, <1>3, <1>4
  <2>4. ASSUME NEW m \in { "key", "array" }, NEW s \in { "obj", "arr" },
               Len(stack) < depth, stack' = Append(stack, m), GoesOn(s)
        PROVE  Goal
    <3>1. ModeStack(stack') /\ Len(stack') = Len(stack) + 1
      BY <1>1, <2>4, <2>2, PushMode DEF Top
    <3>2. Len(stack') <= depth'
      BY <1>1, <2>4, <3>1
    <3> QED
      BY <2>1, <2>4, <3>1, <3>2, <1>3, <1>4, <1>5
  <2> QED
    BY <1>10, <2>3, <2>4 DEF OpenContainer, Pushes
<1>11. CASE EndString(c)
  BY <1>11, <1>2, <1>3, <1>4, <1>5 DEF EndString
<1>12. CASE Comma(c) \/ Colon(c)
  <2>1. token' \in Seq(Class) /\ held' \in Seq(Class) /\ Len(token') <= TokenSize /\ out' \in Seq(Event)
    BY <1>12, <1>2, <1>3 DEF Comma, Colon, EndsNumberOnly
  <2>2. CASE Rejects
    BY <2>1, <2>2, <1>4
  <2>3. ASSUME NEW m \in { "key", "object" }, NEW s \in { "key", "val" },
               Top # "done", stack' = Append(Front(stack), m), GoesOn(s)
        PROVE  Goal
    <3>1. ModeStack(stack') /\ Len(stack') = Len(stack)
      <4>1. ModeStack(Front(stack)) /\ Last(Front(stack)) # "key" /\ Len(Front(stack)) = Len(stack) - 1
        BY <1>1, <2>3, PopMode DEF Top
      <4>2. ModeStack(stack') /\ Len(stack') = Len(Front(stack)) + 1
        BY <2>3, <4>1, PushMode
      <4> QED
        BY <1>1, <4>1, <4>2
    <3> QED
      BY <1>1, <2>1, <2>3, <3>1, <1>4, <1>5
  <2>4. CASE GoesOn("val") /\ UNCHANGED stack
    BY <2>1, <2>4, <1>4, <1>5
  <2> QED
    BY <1>12, <2>2, <2>3, <2>4 DEF Comma, Colon
<1>13. CASE StartString(c)
  BY <1>13, <1>1, <1>2, <1>3, <1>4, <1>5 DEF StartString
<1>14. CASE BadCharacter(c)
  BY <1>14, <1>2, <1>3, <1>4 DEF BadCharacter
<1>15. CASE AbortInEmit(c)
  BY <1>15, <1>1, <1>2 DEF AbortInEmit, jc, Call
<1> QED
  BY <1>6, <1>7, <1>8, <1>9, <1>10, <1>11, <1>12, <1>13, <1>14, <1>15 DEF Turn

-----------------------------------------------------------------------------
(* The modes.                                                              *)

\* A turn of the loop that the checker survives keeps state and top in agreement, also one
\* that takes the action of a string for a character the table has no cell for.
LEMMA TurnModes ==
  ASSUME Typed, CheckerModesAgree, call = "ok", NEW c \in Class, Turn(c)
  PROVE  CheckerModesAgree'
<1> SUFFICES ASSUME call' = "ok"
             PROVE  /\ state' = "go" => stack' = << "done" >>
                    /\ state' \in { "obj", "key", "col" } => Last(stack') = "key"
                    /\ state' = "arr" => Last(stack') = "array"
                    /\ state' \in { "val" } \cup Number \cup Word => Last(stack') \in { "array", "object" }
                    /\ state' = "ok" => Last(stack') # "key"
  BY DEF CheckerModesAgree, Top
<1>1. /\ state \in State /\ ModeStack(stack)
      /\ state = "go" => stack = << "done" >>
      /\ state \in { "obj", "key", "col" } => Last(stack) = "key"
      /\ state = "arr" => Last(stack) = "array"
      /\ state \in { "val" } \cup Number \cup Word => Last(stack) \in { "array", "object" }
      /\ state = "ok" => Last(stack) # "key"
  BY DEF CheckerModesAgree, Top, Typed, TypeOK
<1>2. ~ Rejects
  BY DEF Rejects
<1>3. \A s : GoesOn(s) => state' = s
  BY DEF GoesOn
<1>4. /\ "ok" \notin Number \cup Word /\ "val" \notin Number \cup Word
      /\ "col" \notin Number \cup Word /\ "str" \notin Number \cup Word
      /\ "key" \notin Number \cup Word /\ "obj" \notin Number \cup Word
      /\ "arr" \notin Number \cup Word
  BY DEF Number, Word
<1>5. CASE NextChar(c)
  <2>1. /\ state' = Table[state][c] /\ Table[state][c] \in State /\ stack' = stack
        /\ ~ (state \in Number /\ Table[state][c] \notin Number)
        /\ ~ (state \in { "n03", "tr3", "fe4" } /\ Table[state][c] = "ok")
    BY <1>5, <1>3 DEF NextChar
  <2>2. \/ state' = state
        \/ state \in { "val", "arr" } \cup Number \cup Word /\ state' \in Number \cup Word
        \/ state' \in { "str" } \cup Escape
    BY <1>1, <2>1, CellStates DEF State, Literal
  <2>3. state' \in Number \cup Word \cup { "str" } \cup Escape
          => state' \notin { "go", "obj", "key", "col", "arr", "val", "ok" }
    BY DEF Number, Word, Escape
  <2>4. state' \in { "str" } \cup Escape => state' \notin Number \cup Word
    BY DEF Number, Word, Escape
  <2> QED
    BY <1>1, <2>1, <2>2, <2>3, <2>4
<1>6. CASE EndNumber(c) \/ EndWord(c)
  <2>1. state \in Number \cup Word /\ state' = "ok" /\ stack' = stack
    BY <1>6, <1>3 DEF EndNumber, EndWord, WordEvent, Word
  <2> QED
    BY <1>1, <1>4, <2>1
<1>7. CASE CloseContainer(c)
  <2>1. /\ ClosedBy[Table[state][c]].mode # "done" /\ Top = ClosedBy[Table[state][c]].mode
        /\ stack' = Front(stack) /\ state' = "ok"
    BY <1>7, <1>2, <1>3 DEF CloseContainer, ClosedBy
  <2>2. Last(stack') # "key"
    BY <1>1, <2>1, PopMode DEF Top
  <2> QED
    BY <1>4, <2>1, <2>2
<1>8. CASE OpenContainer(c)
  <2>1. Top # "key"
    BY <1>1, <1>8, CellRegions, OpensNoKey DEF OpenContainer
  <2>2. \/ stack' = Append(stack, "key") /\ state' = "obj"
        \/ stack' = Append(stack, "array") /\ state' = "arr"
    BY <1>8, <1>2, <1>3 DEF OpenContainer, Pushes
  <2> QED
    BY <1>1, <1>4, <2>1, <2>2, PushMode DEF Top
<1>9. CASE EndString(c)
  <2>1. /\ stack' = stack
        /\ \/ Top = "key" /\ state' = "col"
           \/ Top \in { "array", "object" } /\ state' = "ok"
    BY <1>9, <1>2, <1>3 DEF EndString
  <2> QED
    BY <1>4, <2>1 DEF Top
<1>10. CASE Comma(c) \/ Colon(c)
  <2>1. \/ Top = "object" /\ stack' = Append(Front(stack), "key") /\ state' = "key"
        \/ Top = "array" /\ stack' = stack /\ state' = "val"
        \/ Top = "key" /\ stack' = Append(Front(stack), "object") /\ state' = "val"
    BY <1>10, <1>2, <1>3 DEF Comma, Colon
  <2>2. \A m \in { "key", "object" } : Top # "done" => Last(Append(Front(stack), m)) = m
    BY <1>1, PopMode, PushMode DEF Top
  <2> QED
    BY <1>4, <2>1, <2>2 DEF Top
<1>11. CASE StartString(c)
  BY <1>11, <1>3, <1>4 DEF StartString
<1>12. CASE BadCharacter(c) \/ AbortInEmit(c)
  BY <1>12, <1>2 DEF BadCharacter, AbortInEmit
<1> QED
  BY <1>5, <1>6, <1>7, <1>8, <1>9, <1>10, <1>11, <1>12 DEF Turn

-----------------------------------------------------------------------------
(* The text of literals.                                                   *)

\* What becomes of the history of the literal.
LEMMA LitIs ==
  ASSUME NEW c, Observes(c)
  PROVE  /\ state' \notin Literal => lit' = << >>
         /\ state' \in Number /\ state \notin Number => lit' = << c >>
         /\ state' = "str" /\ state \notin { "str" } \cup Escape => lit' = << >>
         /\ state' \in Number /\ state \in Number => lit' = Append(lit, c)
         /\ state' \in { "str" } \cup Escape /\ state \in { "str" } \cup Escape => lit' = Append(lit, c)
         /\ ~ misled' => ~ misled /\ ~ EmptyCell(state, c)
BY DEF Observes, Literal, Escape, Number

\* What emit_token delivers when it has a pointer and enough room.
LEMMA EmitsAll ==
  ASSUME TypeOK, held # << >>, token \o held = lit,
         token = << >> \/ Len(token) + Len(held) < TokenSize
  PROVE  Emitted = { lit }
<1>1. token \in Seq(Class) /\ held \in Seq(Class)
  BY DEF TypeOK, Text
<1>2. CASE token = << >>
  BY <1>1, <1>2, ConcatEmptySeq DEF Emitted
<1>3. CASE token # << >> /\ Len(token) + Len(held) < TokenSize
  <2>1. TokenSize - Len(token) > Len(held)
    BY <1>1, <1>3, CheckerBounds
  <2> QED
    BY <1>3, <2>1 DEF Emitted
<1> QED
  BY <1>2, <1>3

\* The elements of the short sequences the callback is given.
LEMMA FirstOfAppend ==
  /\ \A x, y : Append(<< x >>, y)[1] = x /\ Append(<< >>, y)[1] = y
  /\ \A x, y : DOMAIN Append(<< x >>, y) = { 1, 2 } /\ Append(<< x >>, y)[2] = y
  /\ \A y : DOMAIN Append(<< >>, y) = { 1 }
OBVIOUS

\* The body of TextDelivered.
DeliveredWhole ==
  DeliversText /\ ~ misled' /\ held # << >>
    /\ (token = << >> \/ Len(token) + Len(held) < TokenSize) => out'[1].text = lit

\* A turn of the loop loses no saved text, leaves none behind, and delivers it whole.
LEMMA TurnText ==
  ASSUME Typed, TokenHoldsText, call = "ok", NEW c \in Class, Turn(c), Observes(c)
  PROVE  TokenHoldsText' /\ DeliveredWhole
<1> DEFINE Kept == /\ state' \notin Literal => token' = << >> /\ held' = << >>
                   /\ state' \in Literal /\ ~ misled' => token' \o held' = lit'
           Goal == (call' = "ok" => Kept) /\ DeliveredWhole
<1>1. /\ TypeOK /\ state \in State
      /\ token \in Seq(Class) /\ held \in Seq(Class)
      /\ c \in Class \cup { "garbage" } /\ lit \in Seq(Class)
  BY DEF Typed, TypeOK, Text
<1>2. /\ state \notin Literal => token = << >> /\ held = << >>
      /\ state \in Literal /\ ~ misled => token \o held = lit
  BY DEF TokenHoldsText
<1>3. /\ state' \notin Literal => lit' = << >>
      /\ state' \in Number /\ state \notin Number => lit' = << c >>
      /\ state' = "str" /\ state \notin { "str" } \cup Escape => lit' = << >>
      /\ state' \in Number /\ state \in Number => lit' = Append(lit, c)
      /\ state' \in { "str" } \cup Escape /\ state \in { "str" } \cup Escape => lit' = Append(lit, c)
      /\ ~ misled' => ~ misled /\ ~ EmptyCell(state, c)
  BY LitIs
<1>4. SUFFICES Goal
  BY DEF TokenHoldsText
<1>5. (\A s : GoesOn(s) => state' = s) /\ (Rejects => call' # "ok")
  BY DEF GoesOn, Rejects
<1>6. /\ { "ok", "obj", "arr", "col", "val", "key" } \cap Literal = {}
      /\ "str" \in Literal /\ Number \subseteq Literal /\ Escape \subseteq Literal
      /\ Number \cap ({ "str" } \cup Escape) = {}
      /\ Literal = { "str" } \cup Escape \cup Number
  BY DEF Literal, Number, Escape
<1>7. Resets /\ state' \notin Literal => Kept
  BY DEF Resets
<1>8. state \in Literal /\ ~ misled' /\ held # << >>
        /\ (token = << >> \/ Len(token) + Len(held) < TokenSize) => Emitted = { lit }
  BY <1>1, <1>2, <1>3, EmitsAll
<1>9. (out' = << >> \/ out'[1].type \notin KeyOrText) => DeliveredWhole
  BY DEF DeliveredWhole, DeliversText
<1>10. \A type : \A t \in Emitted : out'[1] = Ev(type, t) /\ state \in Literal => DeliveredWhole
  BY <1>8 DEF DeliveredWhole, DeliversText, Ev
<1>11. out' \in NumberFirst => DeliveredWhole
  <2>1. CASE state \in Number
    BY <1>6, <1>10, <2>1 DEF NumberFirst
  <2>2. CASE state \notin Number
    BY <1>9, <2>2 DEF NumberFirst
  <2> QED
    BY <2>1, <2>2
<1>12. CASE NextChar(c)
  <2>1. /\ state' = Table[state][c] /\ Table[state][c] \in State /\ out' = << >> /\ token' = token
        /\ held' = IF state' \in Literal \/ held # << >> THEN Append(held, c) ELSE held
        /\ ~ (state \in Number /\ Table[state][c] \notin Number)
    BY <1>12, <1>5 DEF NextChar
  <2>2. \/ state \notin Literal /\ state' \notin Literal
        \/ state \notin Literal /\ state' \in Number
        \/ state \in Number /\ state' \in Number
        \/ state \in { "str" } \cup Escape /\ state' \in { "str" } \cup Escape
    <3>1. CASE state \in Between \cup Word
      <4>1. state \notin Literal /\ (state' \in Between \cup Word => state' \notin Literal)
        BY <3>1 DEF Between, Word, Literal, Number, Escape
      <4>2. "ok" \in Between
        BY DEF Between
      <4> QED
        BY <1>1, <2>1, <3>1, <4>1, <4>2, CellStates
    <3>2. CASE state \in Literal
      BY <1>1, <1>6, <2>1, <3>2, CellStates
    <3> QED
      BY <1>1, <3>1, <3>2 DEF State
  <2>3. CASE state \notin Literal /\ state' \notin Literal
    BY <1>2, <1>9, <2>1, <2>3
  <2>4. CASE state \notin Literal /\ state' \in Number
    <3>1. token' = << >> /\ held' = << c >> /\ lit' = << c >>
      BY <1>2, <1>3, <1>6, <2>1, <2>4
    <3>2. << >> \o << c >> = << c >>
      BY ConcatEmptySeq
    <3> QED
      BY <1>6, <1>9, <2>1, <2>4, <3>1, <3>2
  <2>5. CASE \/ state \in Number /\ state' \in Number
             \/ state \in { "str" } \cup Escape /\ state' \in { "str" } \cup Escape
    <3>1. held' = Append(held, c) /\ lit' = Append(lit, c) /\ state' \in Literal /\ state \in Literal
      BY <1>3, <1>6, <2>1, <2>5
    <3>2. token \o Append(held, c) = Append(token \o held, c)
      BY <1>1, ConcatAppend
    <3> QED
      BY <1>2, <1>3, <1>9, <2>1, <3>1, <3>2
  <2> QED
    BY <2>2, <2>3, <2>4, <2>5
<1>13. CASE EndNumber(c)
  BY <1>13, <1>5, <1>6, <1>7, <1>11 DEF EndNumber
<1>14. CASE EndWord(c)
  <2>1. out'[1].type \notin KeyOrText
    BY <1>14 DEF EndWord, WordEvent, Permitive, Ev, KeyOrText
  <2> QED
    BY <1>14, <1>5, <1>6, <1>7, <1>9, <2>1 DEF EndWord
<1>15. CASE CloseContainer(c)
  <2>1. call' = "ok" => Kept
    BY <1>15, <1>5, <1>6, <1>7 DEF CloseContainer
  <2>2. PICK n \in NumberFirst : out' = Append(n, Permitive(ClosedBy[Table[state][c]].type))
    BY <1>15 DEF CloseContainer
  <2>3. CASE state \in Number
    <3>1. PICK t \in Emitted : n = << Ev("JSON_number", t) >>
      BY <2>2, <2>3 DEF NumberFirst
    <3>2. out'[1] = Ev("JSON_number", t)
      BY <2>2, <3>1, FirstOfAppend
    <3> QED
      BY <1>6, <1>10, <2>1, <2>3, <3>2
  <2>4. CASE state \notin Number
    <3>1. out'[1] = Permitive(ClosedBy[Table[state][c]].type)
      BY <2>2, <2>4, FirstOfAppend DEF NumberFirst
    <3>2. out'[1].type \notin KeyOrText
      BY <1>15, <3>1 DEF CloseContainer, ClosedBy, Permitive, Ev, KeyOrText
    <3> QED
      BY <1>9, <2>1, <3>2
  <2> QED
    BY <2>3, <2>4
<1>16. CASE OpenContainer(c)
  <2>1. out'[1].type \notin KeyOrText
    BY <1>16 DEF OpenContainer, Permitive, Ev, KeyOrText
  <2> QED
    BY <1>16, <1>5, <1>6, <1>7, <1>9, <2>1 DEF OpenContainer, Pushes
<1>17. CASE EndString(c)
  <2>1. state \in Literal
    BY <1>1, <1>6, <1>17, CellRegions DEF EndString
  <2>2. call' = "ok" => Kept
    BY <1>17, <1>5, <1>6, <1>7 DEF EndString
  <2>3. CASE out' = << >>
    BY <1>9, <2>2, <2>3
  <2>4. ASSUME NEW t \in Emitted, NEW type, out' = << Ev(type, t) >>
        PROVE  Goal
    BY <1>10, <2>1, <2>2, <2>4
  <2> QED
    BY <1>17, <2>3, <2>4 DEF EndString
<1>18. CASE Comma(c)
  <2>1. state \in { "ok" } \cup Number
    BY <1>1, <1>18, CellRegions DEF Comma
  <2>2. call' = "ok" => state' \in { "key", "val" }
    BY <1>18, <1>5 DEF Comma
  <2>3. call' = "ok" => Kept
    BY <1>2, <1>6, <1>7, <1>18, <2>1, <2>2 DEF Comma, EndsNumberOnly
  <2> QED
    BY <1>11, <1>18, <2>3 DEF Comma
<1>19. CASE Colon(c)
  <2>1. state = "col"
    BY <1>1, <1>19, CellRegions DEF Colon
  <2>2. call' = "ok" => state' = "val"
    BY <1>19, <1>5 DEF Colon
  <2> QED
    BY <1>2, <1>6, <1>9, <1>19, <2>1, <2>2 DEF Colon
<1>20. CASE StartString(c)
  <2>1. state' = "str"
    BY <1>20, <1>5 DEF StartString
  <2>2. ~ misled' => state \in { "obj", "key", "val", "arr" }
    BY <1>1, <1>3, <1>20, CellRegions DEF StartString
  <2>3. state \in { "obj", "key", "val", "arr" } => state \notin Literal
    BY <1>6
  <2>4. state \in { "obj", "key", "val", "arr" } => token' = << >> /\ held' = << >> /\ lit' = << >>
    BY <1>2, <1>3, <1>6, <1>20, <2>1, <2>3 DEF StartString
  <2>5. << >> \o << >> = << >>
    BY ConcatEmptySeq, EmptySeq
  <2>6. Kept
    BY <1>6, <2>1, <2>2, <2>4, <2>5
  <2> QED
    BY <1>11, <1>20, <2>6 DEF StartString
<1>21. CASE BadCharacter(c) \/ AbortInEmit(c)
  BY <1>5, <1>9, <1>21 DEF BadCharacter, AbortInEmit
<1> QED
  BY <1>12, <1>13, <1>14, <1>15, <1>16, <1>17, <1>18, <1>19, <1>20, <1>21 DEF Turn

-----------------------------------------------------------------------------
(* Keys and values.                                                        *)

\* A value is owed from the quote that ends the key: at the colon, and behind it until
\* the value is delivered.
OwedAgrees ==
  call = "ok" /\ ~ misled =>
    (owed <=> \/ state = "col"
              \/ Top = "object" /\ state \in { "val" } \cup Literal \cup Word)

\* The body of KeysAndValuesAlternate.
Alternates ==
  out' # << >> /\ ~ misled' /\ call' = "ok" =>
    LET e == out'[1].type IN
    /\ e = "JSON_object_key" => Top = "key" /\ ~ owed
    /\ e \in ValueEvent => /\ Top # "key"
                           /\ Top = "object" <=> owed
                           /\ Top = "done" => state = "go"
    /\ e \in EndEvent => ~ owed

\* What the events of a step make of owed.
LEMMA OwedIs ==
  ASSUME NEW c, Observes(c), owed \in BOOLEAN
  PROVE  /\ out' = << >> => owed' = owed
         /\ \A e : out' = << e >> /\ e.type \in ValueEvent => owed' = FALSE
         /\ \A e : out' = << e >> /\ e.type = "JSON_object_key" => owed' = TRUE
         /\ \A e : out' = << e >> /\ e.type \in EndEvent => owed' = owed
         /\ \A e, f : out' = Append(<< e >>, f) /\ e.type \in ValueEvent
                        /\ f.type # "JSON_object_key" => owed' = FALSE
<1>1. /\ Types(<< >>) = {} /\ \A e : Types(<< e >>) = { e.type }
      /\ \A e, f : Types(Append(<< e >>, f)) = { e.type, f.type }
  <2>1. \A e, f : Types(Append(<< e >>, f)) = { e.type, f.type }
    BY FirstOfAppend DEF Types
  <2> QED
    BY <2>1 DEF Types
<1>2. owed' = IF "JSON_object_key" \in Types(out') THEN TRUE
              ELSE owed /\ Types(out') \cap ValueEvent = { }
  BY DEF Observes
<1>3. "JSON_object_key" \notin ValueEvent \cup EndEvent /\ ValueEvent \cap EndEvent = {}
  BY DEF ValueEvent, EndEvent
<1>4. out' = << >> => owed' = owed
  BY <1>1, <1>2
<1>5. \A e : out' = << e >> /\ e.type \in ValueEvent => owed' = FALSE
  BY <1>1, <1>2, <1>3
<1>6. \A e : out' = << e >> /\ e.type = "JSON_object_key" => owed' = TRUE
  BY <1>1, <1>2
<1>7. \A e : out' = << e >> /\ e.type \in EndEvent => owed' = owed
  BY <1>1, <1>2, <1>3
<1>8. ASSUME NEW e, NEW f, out' = Append(<< e >>, f), e.type \in ValueEvent,
             f.type # "JSON_object_key"
      PROVE  owed' = FALSE
  <2>1. Types(out') = { e.type, f.type }
    BY <1>1, <1>8
  <2>2. "JSON_object_key" \notin Types(out') /\ e.type \in Types(out') \cap ValueEvent
    BY <1>3, <1>8, <2>1
  <2> QED
    BY <1>2, <2>2
<1> QED
  BY <1>4, <1>5, <1>6, <1>7, <1>8

\* A turn of the loop that keeps to the table: whatever it delivers, keys and values take
\* turns in an object.
LEMMA TurnOwed ==
  ASSUME Typed, CheckerModesAgree, OwedAgrees, call = "ok", NEW c \in Class, Turn(c), Observes(c)
  PROVE  OwedAgrees' /\ Alternates
<1> DEFINE Agrees == owed' <=> \/ state' = "col"
                               \/ /\ Last(stack') = "object"
                                  /\ state' \in { "val" } \cup Literal \cup Word
           Goal == Agrees /\ Alternates
<1> SUFFICES ASSUME call' = "ok", ~ misled'
             PROVE  Goal
  BY DEF OwedAgrees, Alternates, Top
<1>1. ~ misled /\ ~ EmptyCell(state, c)
  BY LitIs
<1>2. /\ TypeOK /\ state \in State /\ ModeStack(stack) /\ owed \in BOOLEAN
      /\ ~ misled /\ ~ EmptyCell(state, c)
  BY <1>1 DEF Typed, TypeOK
<1>3. /\ owed <=> \/ state = "col"
                  \/ Top = "object" /\ state \in { "val" } \cup Literal \cup Word
      /\ state \in { "obj", "key", "col" } => Top = "key"
      /\ state = "arr" => Top = "array"
      /\ state \in { "val" } \cup Number \cup Word => Top \in { "array", "object" }
      /\ state = "ok" => Top # "key"
  BY <1>2 DEF CheckerModesAgree, OwedAgrees
<1>4. (\A s : GoesOn(s) => state' = s) /\ ~ Rejects
  BY DEF GoesOn, Rejects
<1>5. /\ { "ok", "obj", "arr", "key", "col", "go" } \cap ({ "val" } \cup Literal \cup Word) = {}
      /\ "str" \in Literal /\ Number \subseteq Literal /\ "val" \notin Literal \cup Word
      /\ Number \cap Word = {}
  BY DEF Literal, Number, Escape, Word
<1>6. /\ out' = << >> => owed' = owed /\ Alternates
      /\ \A e : out' = << e >> /\ e.type \in ValueEvent => owed' = FALSE
      /\ \A e : out' = << e >> /\ e.type = "JSON_object_key" => owed' = TRUE
      /\ \A e : out' = << e >> /\ e.type \in EndEvent => owed' = owed
      /\ \A e, f : out' = Append(<< e >>, f) /\ e.type \in ValueEvent
                     /\ f.type # "JSON_object_key" => owed' = FALSE
  BY <1>2, OwedIs DEF Alternates
<1>7. /\ { "JSON_number", "JSON_string", "JSON_null", "JSON_true", "JSON_false",
           "JSON_object_start", "JSON_array_start" } \subseteq ValueEvent
      /\ "JSON_object_key" \notin ValueEvent \cup EndEvent /\ ValueEvent \cap EndEvent = {}
  BY DEF ValueEvent, EndEvent
<1>8. ASSUME NEW e, out' # << >>, out'[1] = e, e.type \in ValueEvent,
             Top # "key", Top = "object" <=> owed, Top = "done" => state = "go"
      PROVE  Alternates
  BY <1>7, <1>8 DEF Alternates
\* A number that ends, with nothing behind it or another event.
<1>9. ASSUME state \in Number, NEW n \in NumberFirst,
             out' = n \/ \E f : f.type # "JSON_object_key" /\ out' = Append(n, f)
      PROVE  owed' = FALSE /\ Alternates
  <2>1. PICK t \in Emitted : n = << Ev("JSON_number", t) >>
    BY <1>9 DEF NumberFirst
  <2>2. Ev("JSON_number", t).type \in ValueEvent
    BY <1>7 DEF Ev
  <2>3. out' # << >> /\ out'[1] = Ev("JSON_number", t)
    BY <1>9, <2>1, FirstOfAppend
  <2>4. Top # "key" /\ Top # "done" /\ (Top = "object" <=> owed)
    BY <1>3, <1>5, <1>9
  <2>5. Alternates
    BY <1>8, <2>2, <2>3, <2>4
  <2> QED
    BY <1>6, <1>9, <2>1, <2>2, <2>5
<1>10. state \notin Number => NumberFirst = { << >> }
  BY DEF NumberFirst
<1>11. CASE NextChar(c)
  <2>1. /\ state' = Table[state][c] /\ Table[state][c] \in State /\ out' = << >> /\ stack' = stack
        /\ ~ (state \in Number /\ Table[state][c] \notin Number)
        /\ ~ (state \in { "n03", "tr3", "fe4" } /\ Table[state][c] = "ok")
    BY <1>4, <1>11 DEF NextChar
  <2>2. \/ state' = state
        \/ state \in { "val", "arr" } /\ state' \in Literal \cup Word
        \/ state \in Literal \cup Word /\ state' \in Literal \cup Word
    <3>1. State = Between \cup Literal \cup Word /\ Literal = { "str" } \cup Escape \cup Number
      BY DEF State, Literal
    <3> QED
      BY <1>2, <2>1, <3>1, CellStates
  <2>3. state' \in Literal \cup Word => state' # "col"
    BY <1>5
  <2>4. state \in Literal \cup Word => state # "col"
    BY <1>5
  <2> QED
    BY <1>3, <1>5, <1>6, <2>1, <2>2, <2>3, <2>4 DEF Top
<1>12. CASE EndNumber(c)
  BY <1>4, <1>5, <1>9, <1>12 DEF EndNumber
<1>13. CASE EndWord(c)
  <2>1. WordEvent[state] \in ValueEvent /\ state \in Word
    BY <1>7, <1>13 DEF EndWord, WordEvent, Word
  <2>2. out' = << Permitive(WordEvent[state]) >> /\ Permitive(WordEvent[state]).type \in ValueEvent
    BY <1>13, <2>1 DEF EndWord, Permitive, Ev
  <2>3. Top # "key" /\ Top # "done" /\ (Top = "object" <=> owed)
    BY <1>3, <1>5, <2>1
  <2> QED
    BY <1>4, <1>5, <1>6, <1>8, <1>13, <2>2, <2>3 DEF EndWord
<1>14. CASE CloseContainer(c)
  <2>1. state' = "ok"
    BY <1>4, <1>14 DEF CloseContainer
  <2>2. PICK n \in NumberFirst : out' = Append(n, Permitive(ClosedBy[Table[state][c]].type))
    BY <1>14 DEF CloseContainer
  <2>3. Permitive(ClosedBy[Table[state][c]].type).type \in EndEvent
    BY <1>14 DEF CloseContainer, ClosedBy, Permitive, Ev, EndEvent
  <2>4. CASE state \in Number
    BY <1>5, <1>7, <1>9, <2>1, <2>2, <2>3, <2>4
  <2>5. CASE state \notin Number
    <3>1. state \in { "ok", "obj", "arr" }
      BY <1>2, <1>14, <2>5, CellRegions DEF CloseContainer, ClosedBy
    <3>2. ~ owed
      BY <1>3, <1>5, <3>1
    <3>3. out' = << Permitive(ClosedBy[Table[state][c]].type) >>
      <4>1. \A y : Append(<< >>, y) = << y >>
        OBVIOUS
      <4> QED
        BY <1>10, <2>2, <2>5, <4>1
    <3>4. Alternates
      BY <1>7, <2>3, <3>2, <3>3 DEF Alternates
    <3> QED
      BY <1>5, <1>6, <2>1, <2>3, <3>2, <3>3, <3>4
  <2> QED
    BY <2>4, <2>5
<1>15. CASE OpenContainer(c)
  <2>1. state' \in { "obj", "arr" } /\ state \in { "go", "val", "arr" }
    BY <1>2, <1>4, <1>15, CellRegions DEF OpenContainer, Pushes
  <2>2. PICK t \in { "JSON_object_start", "JSON_array_start" } : out' = << Permitive(t) >>
    BY <1>15 DEF OpenContainer
  <2>3. Permitive(t).type \in ValueEvent
    BY <1>7, <2>2 DEF Permitive, Ev
  <2>4. Top # "key" /\ (Top = "done" => state = "go")
    BY <2>1, OpensNoKey
  <2>5. state = "go" => Top = "done"
    <3>1. stack = << "done" >> => Len(stack) = 1
      OBVIOUS
    <3> QED
      BY <1>2, <3>1, TopMode DEF CheckerModesAgree, Top
  <2>6. Top = "object" <=> owed
    BY <1>3, <1>5, <2>1, <2>5
  <2> QED
    BY <1>5, <1>6, <1>8, <2>1, <2>2, <2>3, <2>4, <2>6
<1>16. CASE EndString(c)
  <2>1. state = "str"
    BY <1>2, <1>16, CellRegions DEF EndString
  <2>2. CASE Top = "key"
    <3>1. PICK t \in Emitted : out' = << Ev("JSON_object_key", t) >>
      BY <1>16, <2>2 DEF EndString
    <3>2. state' = "col" /\ ~ owed
      BY <1>3, <1>4, <1>5, <1>16, <2>1, <2>2 DEF EndString
    <3>3. Ev("JSON_object_key", t).type = "JSON_object_key"
      BY DEF Ev
    <3>4. Alternates
      BY <1>7, <2>2, <3>1, <3>2, <3>3 DEF Alternates
    <3> QED
      BY <1>6, <3>1, <3>2, <3>3, <3>4
  <2>3. CASE Top \in { "array", "object" }
    <3>1. PICK t \in Emitted : out' = << Ev("JSON_string", t) >>
      BY <1>16, <2>3 DEF EndString
    <3>2. state' = "ok" /\ (Top = "object" <=> owed)
      BY <1>3, <1>4, <1>5, <1>16, <2>1, <2>3 DEF EndString
    <3>3. Ev("JSON_string", t).type \in ValueEvent
      BY <1>7 DEF Ev
    <3> QED
      BY <1>5, <1>6, <1>8, <2>3, <3>1, <3>2, <3>3
  <2> QED
    BY <1>4, <1>16, <2>2, <2>3 DEF EndString
<1>17. CASE Comma(c)
  <2>1. state \in { "ok" } \cup Number /\ out' \in NumberFirst
    BY <1>2, <1>17, CellRegions DEF Comma
  <2>2. owed' = FALSE /\ Alternates
    <3>1. CASE state \in Number
      BY <1>9, <2>1, <3>1
    <3>2. CASE state = "ok"
      BY <1>3, <1>5, <1>6, <1>10, <2>1, <3>2
    <3> QED
      BY <2>1, <3>1, <3>2
  <2>3. \/ state' = "key"
        \/ state' = "val" /\ Last(stack') # "object"
    BY <1>4, <1>17 DEF Comma, Top
  <2> QED
    BY <1>5, <2>2, <2>3
<1>18. CASE Colon(c)
  <2>1. state = "col" /\ state' = "val" /\ out' = << >>
    BY <1>2, <1>4, <1>18, CellRegions DEF Colon
  <2>2. Last(stack') = "object"
    <3>1. \A m \in { "key", "object" } : Top # "done" => Last(Append(Front(stack), m)) = m
      BY <1>2, PopMode, PushMode DEF Top
    <3> QED
      BY <1>4, <1>18, <3>1 DEF Colon
  <2> QED
    BY <1>3, <1>6, <2>1, <2>2
<1>19. CASE StartString(c)
  <2>1. state \in { "obj", "key", "val", "arr" }
    BY <1>2, <1>19, CellRegions DEF StartString
  <2>2. state \notin Number /\ out' = << >> /\ state' = "str" /\ stack' = stack
    BY <1>4, <1>5, <1>10, <1>19, <2>1 DEF StartString
  <2> QED
    BY <1>3, <1>5, <1>6, <2>1, <2>2 DEF Top
<1>20. CASE BadCharacter(c) \/ AbortInEmit(c)
  BY <1>4, <1>20 DEF BadCharacter, AbortInEmit
<1> QED
  BY <1>11, <1>12, <1>13, <1>14, <1>15, <1>16, <1>17, <1>18, <1>19, <1>20 DEF Turn

-----------------------------------------------------------------------------
(* The theorems.                                                           *)

\* The four parts need one another: without the modes a container might be pushed on a
\* key, and without the stack a closed one might uncover a key.
CheckerInv == Typed /\ CheckerModesAgree /\ TokenHoldsText /\ OwedAgrees

\* The history keeps its types.
LEMMA ObservedTypes ==
  ASSUME TypeOK, NEW c \in Class, Observes(c)
  PROVE  lit' \in Seq(Class) /\ owed' \in BOOLEAN /\ misled' \in BOOLEAN
<1>1. lit \in Seq(Class) /\ owed \in BOOLEAN /\ misled \in BOOLEAN
  BY DEF TypeOK
<1>2. << >> \in Seq(Class) /\ << c >> \in Seq(Class) /\ Append(lit, c) \in Seq(Class)
  BY <1>1, AppendProperties
<1>3. lit' \in { << >>, << c >>, Append(lit, c) }
  BY DEF Observes
<1> QED
  BY <1>1, <1>2, <1>3 DEF Observes, EmptyCell

\* A checker no character has been given to, whatever its depth.
Fresh == /\ call = "ok" /\ depth \in Nat \ {0}
         /\ state = "go" /\ stack = << "done" >> /\ token = << >> /\ held = << >>
         /\ out = << >> /\ lit = << >> /\ owed = FALSE /\ misled = FALSE

\* It keeps the invariant.
LEMMA FreshIsGood == Fresh => CheckerInv
<1> SUFFICES ASSUME Fresh PROVE CheckerInv
  OBVIOUS
<1>1. stack = << "done" >> /\ stack \in Seq(Mode) /\ Len(stack) = 1 /\ stack[1] = "done"
  BY DEF Fresh, Mode
<1>2. ModeStack(stack)
  BY <1>1 DEF ModeStack, Modes
<1>3. Len(token) <= TokenSize /\ Len(stack) <= depth
  <2>1. Len(token) = 0 /\ 0 <= TokenSize
    BY CheckerBounds DEF Fresh
  <2>2. 1 <= depth
    BY DEF Fresh
  <2> QED
    BY <1>1, <2>1, <2>2
<1>4. TypeOK
  BY <1>1, <1>3, EmptySeq DEF Fresh, TypeOK, Call, State, Between, Text
<1>5. CheckerModesAgree
  BY DEF Fresh, CheckerModesAgree, Number, Word
<1>6. TokenHoldsText
  BY DEF Fresh, TokenHoldsText, Literal, Number, Escape
<1>7. OwedAgrees
  BY DEF Fresh, OwedAgrees, Literal, Number, Escape, Word
<1> QED
  BY <1>2, <1>4, <1>5, <1>6, <1>7 DEF CheckerInv, Typed

\* The first checker.
LEMMA CheckerInit == Init => CheckerInv
BY FreshIsGood, CheckerBounds DEF Init, Fresh

\* Every step keeps the invariant, delivers what it should and keeps the order.
LEMMA CheckerStep ==
  CheckerInv /\ [Next]_vars => CheckerInv' /\ [DeliveredWhole]_vars /\ [Alternates]_vars
<1> SUFFICES ASSUME CheckerInv, [Next]_vars
             PROVE  CheckerInv' /\ [DeliveredWhole]_vars /\ [Alternates]_vars
  OBVIOUS
<1>1. Typed /\ TypeOK /\ CheckerModesAgree /\ TokenHoldsText /\ OwedAgrees
  BY DEF CheckerInv, Typed
<1>2. CASE \E c \in Chars : Reads(c)
  <2> PICK c \in Chars : Reads(c)
    BY <1>2
  <2>1. c \in Class /\ call = "ok" /\ Turn(c) /\ Observes(c) /\ UNCHANGED depth
    BY CheckerChars DEF Reads
  <2>2. /\ call' \in Call /\ state' \in State
        /\ ModeStack(stack') /\ Len(stack') <= depth'
        /\ token' \in Seq(Class) /\ held' \in Seq(Class) /\ Len(token') <= TokenSize
        /\ out' \in Seq(Event)
    BY <1>1, <2>1, TurnTypes
  <2>3. lit' \in Seq(Class) /\ owed' \in BOOLEAN /\ misled' \in BOOLEAN
    BY <1>1, <2>1, ObservedTypes
  <2>4. depth' \in Nat \ {0}
    BY <1>1, <2>1 DEF TypeOK
  <2>5. Typed'
    BY <2>2, <2>3, <2>4 DEF Typed, TypeOK, ModeStack, Mode, Modes, Event
  <2>6. CheckerModesAgree'
    BY <1>1, <2>1, TurnModes
  <2>7. TokenHoldsText' /\ DeliveredWhole
    BY <1>1, <2>1, TurnText
  <2>8. OwedAgrees' /\ Alternates
    BY <1>1, <2>1, TurnOwed
  <2> QED
    BY <2>5, <2>6, <2>7, <2>8 DEF CheckerInv
<1>3. CASE SaveToken
  <2>1. token \in Seq(Class) /\ held \in Seq(Class)
    BY <1>1 DEF TypeOK, Text
  <2>2. token \o held \in Seq(Class) /\ << >> \in Seq(Class)
    BY <1>1, TextTypes
  <2>3. Len(token \o held) = Len(token) + Len(held)
    BY <2>1, ConcatProperties
  <2>4. /\ token' \in Seq(Class) /\ held' \in Seq(Class) /\ call' \in Call
        /\ call' = "ok" => Len(token') <= TokenSize
    <3>1. token' \in Seq(Class) /\ held' \in Seq(Class) /\ call' \in Call
      BY <1>1, <1>3, <2>2 DEF SaveToken, TypeOK, Call
    <3>2. ASSUME call' = "ok" PROVE Len(token') <= TokenSize
      <4>1. ~ (Len(token) + Len(held) > TokenSize) /\ token' = token \o held
        BY <1>3, <3>2 DEF SaveToken
      <4>2. Len(token) \in Nat /\ Len(held) \in Nat
        BY <2>1
      <4> QED
        BY <2>3, <4>1, <4>2, CheckerBounds
    <3> QED
      BY <3>1, <3>2
  <2>5. /\ UNCHANGED <<depth, state, stack, lit, owed, misled>> /\ out' = << >>
        /\ call = "ok" /\ held # << >>
    BY <1>3 DEF SaveToken
  <2>6. Typed'
    BY <1>1, <2>4, <2>5, EventTypes DEF Typed, TypeOK, ModeStack
  <2>7. CheckerModesAgree' /\ OwedAgrees'
    BY <1>1, <2>5 DEF CheckerModesAgree, OwedAgrees, Top
  <2>8. TokenHoldsText'
    <3> SUFFICES ASSUME call' = "ok" PROVE TokenHoldsText'
      BY DEF TokenHoldsText
    <3>1. token' = token \o held /\ held' = << >>
      BY <1>3 DEF SaveToken
    <3>2. state \in Literal
      BY <1>1, <2>5 DEF TokenHoldsText
    <3>3. token' \o held' = token \o held
      BY <2>2, <3>1, ConcatEmptySeq DEF Text
    <3> QED
      BY <1>1, <2>5, <3>2, <3>3 DEF TokenHoldsText
  <2> QED
    BY <2>5, <2>6, <2>7, <2>8 DEF CheckerInv, DeliveredWhole, DeliversText, Alternates
<1>4. CASE JSON_checker_done
  <2>1. /\ UNCHANGED <<depth, state, stack, token, held, lit, owed, misled>> /\ out' = << >>
        /\ call' \in { "accepted", "refused" }
    BY <1>4 DEF JSON_checker_done, jc
  <2>2. Typed'
    BY <1>1, <2>1, EventTypes DEF Typed, TypeOK, ModeStack, Call
  <2> QED
    BY <2>1, <2>2 DEF CheckerInv, CheckerModesAgree, TokenHoldsText, OwedAgrees,
                      DeliveredWhole, DeliversText, Alternates
<1>5. CASE UNCHANGED vars
  BY <1>1, <1>5 DEF vars, jc, CheckerInv, Typed, TypeOK, ModeStack, CheckerModesAgree,
                    TokenHoldsText, OwedAgrees, Top
<1> QED
  BY <1>2, <1>3, <1>4, <1>5 DEF Next

\* Every variable keeps its type, the stack never outgrows jc->depth, and what
\* jc->token holds fits in it until save_token has overrun it: for every depth and size.
THEOREM CheckerTypeCorrect == Spec => []TypeOK
<1>1. CheckerInv => TypeOK
  BY DEF CheckerInv, Typed
<1>2. CheckerInv /\ [Next]_vars => CheckerInv'
  BY CheckerStep
<1> QED
  BY <1>1, <1>2, CheckerInit, PTL DEF Spec

\* The state and the mode on top agree while the checker lives, also when a character
\* without a cell has started a string in the middle of something else.
THEOREM CheckerModesCorrect == Spec => []CheckerModesAgree
<1>1. CheckerInv => CheckerModesAgree
  BY DEF CheckerInv
<1>2. CheckerInv /\ [Next]_vars => CheckerInv'
  BY CheckerStep
<1> QED
  BY <1>1, <1>2, CheckerInit, PTL DEF Spec

\* What save_token has put aside and what lies behind token->start are the open literal
\* so far, and nothing is left of them outside literals.
THEOREM CheckerTextCorrect == Spec => []TokenHoldsText
<1>1. CheckerInv => TokenHoldsText
  BY DEF CheckerInv
<1>2. CheckerInv /\ [Next]_vars => CheckerInv'
  BY CheckerStep
<1> QED
  BY <1>1, <1>2, CheckerInit, PTL DEF Spec

\* A key, string or number that ends behind at least one character of its buffer, and
\* fits in jc->token, reaches the callback whole, in however many pieces it was read.
THEOREM CheckerDeliversText == Spec => TextDelivered
<1>1. /\ CheckerInv /\ [Next]_vars => CheckerInv'
      /\ CheckerInv /\ [Next]_vars =>
           [DeliversText /\ ~ misled' /\ held # << >>
              /\ (token = << >> \/ Len(token) + Len(held) < TokenSize) => out'[1].text = lit]_vars
  BY CheckerStep DEF DeliveredWhole
<1> QED
  BY <1>1, CheckerInit, PTL DEF Spec, TextDelivered

\* In a text that keeps to the table, keys and values alternate in every object, and
\* no object ends with a key that has no value.
THEOREM CheckerAlternates == Spec => KeysAndValuesAlternate
<1>1. CheckerInv /\ [Next]_vars => CheckerInv'
  BY CheckerStep
<1>2. CheckerInv /\ [Next]_vars => [Alternates]_vars
  BY CheckerStep
<1>3. Spec => [][Alternates]_vars
  BY <1>1, <1>2, CheckerInit, PTL DEF Spec
<1>4. [][Alternates]_vars <=> KeysAndValuesAlternate
  BY DEF Alternates, KeysAndValuesAlternate
<1> QED
  BY <1>3, <1>4
=============================================================================
