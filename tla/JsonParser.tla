----------------------------- MODULE JsonParser -----------------------------
(***************************************************************************)
(* src/src/JsonParser.cc on top of the C checker: the callback keeps one   *)
(* cursor for each open container and the key of the next value, and hands *)
(* values to the builders.                                                 *)
(*                                                                         *)
(* One step is one character of JSON_checker_char, with the calls of       *)
(* Callback it makes.  An exception from Callback unwinds the checker in   *)
(* the middle of the character; the caller of the model does not parse on  *)
(* then, so what the checker had not done yet is not told apart.           *)
(* The assertions of the code are in force, as the build sets no NDEBUG.   *)
(***************************************************************************)
EXTENDS JsonChecker, Builders, Exception

CONSTANTS
  DoneDepth,  \* the depth Done() gives the next checker: 5 in the code
  MaxItems,   \* bound of the model: elements in the vectors of one target
  MaxIndex,   \* bound of the model: indexes in an array
  MaxDocs,    \* bound of the model: targets
  MaxUnfinished   \* bound of the model: documents Done() cuts off

ASSUME ParserBounds == /\ DoneDepth \in Nat \ {0}
                       /\ MaxItems \in Nat /\ MaxIndex \in Nat /\ MaxDocs \in Nat
                       /\ MaxUnfinished \in Nat

VARIABLES
  parser,     \* what became of the calls so far
  thrown,     \* what the last exception carries
  m_key, m_root, m_stack,
  items,      \* the addresses of the elements of the target's vectors
  wrote,      \* the assignments to members in the last step
  seen,       \* the events of the last step whose Callback returned
  target,     \* history: the object given for the document, as it begins
  unfinished  \* history: the documents Done() has cut off

m_json == vars
history == <<target, unfinished>>
mine == <<parser, thrown, m_key, m_root, m_stack, items, wrote, seen, history>>
parser_vars == <<m_json, mine>>

Outcome == { "ok",
             "ParseError",    \* thrown by Parse: the checker has deleted itself
             "TypeMismatch",  \* thrown by a builder
             "logic_error",   \* thrown by std::string, made from a null pointer
             "aborted" }      \* an assertion failed

-----------------------------------------------------------------------------
(* JsonParser::Callback, on what it works on.                              *)

Before == [parser |-> parser, thrown |-> thrown, key |-> m_key, stack |-> m_stack,
           items |-> items, wrote |-> << >>, seen |-> << >>]
Stops(p, how) == [p EXCEPT !.parser = how]

\* Target<Host>() throws: c is the cursor with the target.
Mismatched(p, c) ==
  [Stops(p, "TypeMismatch") EXCEPT
     !.thrown = Added(Added(NoInfo, "ExpectedTypeInfo", c.rec), "ActualTypeInfo", c.type)]
AtPosition == Added(Added(NoInfo, "LineNumInfo", 0), "ColumnNumInfo", 0)
Returns(p, e) == [p EXCEPT !.seen = Append(@, e)]

\* Bug for a mutant: below the first member, the cursor around the innermost one.
CursorAround(p) == [p.stack[IF Len(p.stack) < 3 THEN Len(p.stack) ELSE Len(p.stack) - 1] EXCEPT !.key = p.key]

\* Next(): the innermost cursor with the key of the value.
NextCursor(p) == [Last(p.stack) EXCEPT !.key = p.key]

\* Data is a null pointer where the length is 0, or made of an address.
Null(e) == e.text \in { << >>, Garbage }

OnKey(p, e) ==
  IF p.key # NoKey THEN Stops(p, "aborted")
  ELSE IF e.text = Garbage THEN Stops(p, "logic_error")
  ELSE [p EXCEPT !.key = NamedKey(e.text)]

\* Bug for a mutant: the key stays the one of the container.
StartKeepsKey(key, type) == key

StartKey(key, type) == IF type = "JSON_array_start" THEN IndexKey(0) ELSE NoKey

OnStart(p, e) ==
  IF p.stack = << >>
  THEN [p EXCEPT !.stack = << m_root >>, !.key = StartKey(@, e.type)]
  ELSE IF p.key = NoKey THEN Stops(p, "aborted")
  ELSE IF AdvanceMismatch(NextCursor(p)) THEN Mismatched(p, NextCursor(p))
  ELSE [p EXCEPT !.stack = Append(@, Advance(NextCursor(p), p.items)),
                 !.items = @ \cup AdvanceMakes(NextCursor(p), p.items),
                 !.key = StartKey(@, e.type)]

\* Bug for a mutant: the cursor of the container stays.
EndKeepsCursor(p, e) ==
  IF p.stack = << >> THEN Stops(p, "aborted")
  ELSE [p EXCEPT !.key = Finished(Last(p.stack).key)]

OnEnd(p, e) ==
  IF p.stack = << >> \/ Last(p.stack).key = NoKey THEN Stops(p, "aborted")
  ELSE [p EXCEPT !.stack = Front(@), !.key = Finished(Last(p.stack).key)]

OnValue(p, e) ==
  IF p.stack = << >> \/ CheckFails(NextCursor(p)) THEN Stops(p, "aborted")
  ELSE IF Mismatch(NextCursor(p)) THEN Mismatched(p, NextCursor(p))
  ELSE LET route == DataRoute(NextCursor(p), p.items) IN
       [p EXCEPT !.items = @ \cup route.made,
                 !.wrote = @ \o Writes(route, e.text, Null(e)),
                 !.key = Finished(@)]

Handled(p, e) ==
  CASE e.type = "JSON_object_key" -> OnKey(p, e)
    [] e.type \in { "JSON_object_start", "JSON_array_start" } -> OnStart(p, e)
    [] e.type \in { "JSON_object_end", "JSON_array_end" } -> OnEnd(p, e)
    [] OTHER -> OnValue(p, e)

\* Nothing runs after a failed assertion or an exception.
Callback(p, e) ==
  IF p.parser # "ok" THEN p
  ELSE IF Handled(p, e).parser # "ok" THEN Handled(p, e)
  ELSE Returns(Handled(p, e), e)

\* The calls of one character: the checker makes two at most, when a bracket ends a number
\* and its container.
Called(events) ==
  IF events = << >> THEN Before
  ELSE IF Len(events) = 1 THEN Callback(Before, events[1])
  ELSE Callback(Callback(Before, events[1]), events[2])

-----------------------------------------------------------------------------
(* The calls.                                                              *)

BetweenCalls == call = "ok" /\ parser = "ok" /\ held = << >>

InBounds == /\ Cardinality(items') <= MaxItems
            /\ IsIndex(m_key') => m_key'.index <= MaxIndex

\* Parse(): one character of JSON_checker_char, and the exception if it rejects.
Parses(c) ==
  /\ parser = "ok" /\ m_root.obj # Nowhere
  /\ Reads(c)
  /\ \E p \in { Called(out') } :
     /\ parser' = IF p.parser # "ok" \/ call' = "ok" THEN p.parser
                  ELSE IF call' = "rejected" THEN "ParseError" ELSE "aborted"
     /\ thrown' = IF parser' = "ParseError" THEN AtPosition ELSE p.thrown
     /\ m_key' = p.key /\ m_stack' = p.stack
     /\ items' = p.items /\ wrote' = p.wrote /\ seen' = p.seen
  /\ target' = IF state = "go" THEN m_root.obj ELSE target
  /\ UNCHANGED <<m_root, unfinished>>
  /\ InBounds

\* Parse() comes to the end of its buffer.
EndOfPiece ==
  /\ parser = "ok"
  /\ SaveToken
  /\ wrote' = << >> /\ seen' = << >>
  /\ UNCHANGED <<parser, thrown, m_key, m_root, m_stack, items, history>>

NextObject == << IF m_root.obj = Nowhere THEN 1 ELSE m_root.obj[1] + 1 >>

\* Bug for a mutant: the document that is open moves to the new object.
SetTargetAtOnce ==
  /\ BetweenCalls /\ NextObject[1] <= MaxDocs
  /\ m_root' = [m_root EXCEPT !.obj = NextObject, !.type = Root]
  /\ m_stack' = [i \in DOMAIN m_stack |-> IF i = 1 THEN m_root' ELSE m_stack[i]]
  /\ items' = {} /\ wrote' = << >> /\ seen' = << >>
  /\ UNCHANGED <<m_json, parser, thrown, m_key, history>>

\* SetTarget(), alone or as every Parse(data, len, target) calls it, with a new object; its
\* type may not be the root's Host.  The object of the call before changes nothing.  The
\* cursors of an open document keep theirs; without one, no cursor leads to old elements.
SetTarget ==
  /\ BetweenCalls
  /\ NextObject[1] <= MaxDocs
  /\ \E type \in { Root, "other" } :
       m_root' = [m_root EXCEPT !.obj = NextObject, !.type = type]
  /\ items' = IF m_stack = << >> THEN {} ELSE items
  /\ wrote' = << >> /\ seen' = << >>
  /\ UNCHANGED <<m_json, parser, thrown, m_key, m_stack, history>>

\* What JSON_checker_done answers, which Done() ignores.
Complete == state = "ok" /\ stack = << "done" >>

\* Done(), at any time: the checker deletes itself and a new one takes its place.  Nothing
\* else of the parser changes, the cursors of a document that was not complete included.
Done ==
  /\ BetweenCalls
  /\ unfinished' = IF Complete \/ state = "go" THEN unfinished ELSE unfinished + 1
  /\ unfinished' <= MaxUnfinished
  /\ call' = "ok" /\ depth' = DoneDepth
  /\ state' = "go" /\ stack' = << "done" >> /\ token' = << >> /\ held' = << >>
  /\ out' = << >> /\ lit' = << >> /\ owed' = FALSE /\ misled' = FALSE
  /\ wrote' = << >> /\ seen' = << >>
  /\ UNCHANGED <<parser, thrown, m_key, m_root, m_stack, items, target>>

\* JsonParser(root, Depth)
ParserInit ==
  /\ Init
  /\ parser = "ok" /\ thrown = NoInfo
  /\ m_key = IndexKey(0)
  /\ m_root = [key |-> IndexKey(0), obj |-> Nowhere, type |-> "void", rec |-> Root]
  /\ m_stack = << >>
  /\ items = {} /\ wrote = << >> /\ seen = << >>
  /\ target = Nowhere /\ unfinished = 0

ParserNext == SetTarget \/ EndOfPiece \/ Done \/ \E c \in Chars : Parses(c)

ParserSpec == ParserInit /\ [][ParserNext]_parser_vars
-----------------------------------------------------------------------------
(* Properties.                                                             *)

Key == [type : { "none" }] \cup [type : { "index" }, index : Nat]
         \cup [type : { "key" }, name : Seq(Class)]

IsCursor(c) == /\ DOMAIN c = { "key", "obj", "type", "rec" }
               /\ c.key \in Key
               /\ c.rec = Mock => c = MockCursor(c.key)
               /\ c.rec # Mock => c.rec \in Builder /\ c.type \in { c.rec, "other", "void" }

\* Every variable holds a value the code could hold.
ParserTypeOK ==
  /\ parser \in Outcome
  /\ m_key \in Key
  /\ IsCursor(m_root) /\ m_root.rec = Root
  /\ \A i \in DOMAIN m_stack : IsCursor(m_stack[i]) /\ m_stack[i].key # NoKey
  /\ \A i \in DOMAIN wrote : wrote[i].at # Nowhere
  /\ Len(wrote) <= 1

\* The parser's cursors and the checker's modes, two stacks kept by two components that
\* see the same brackets, stay in step: a cursor for each open container, after an empty
\* cell of the checker's table too, and over any documents that were complete at Done().
CursorsFollowModes ==
  parser = "ok" /\ call = "ok" /\ unfinished = 0 => Len(m_stack) = Len(stack) - 1

\* The key of the next value is of the kind the innermost container asks for: an index
\* in an array; in an object none until one has been read, and then that one until its
\* value has ended.
KeyFollowsMode ==
  parser = "ok" /\ call = "ok" /\ unfinished = 0 /\ ~ misled /\ m_stack # << >> =>
    /\ IsIndex(m_key) <=> Top = "array"
    /\ Top = "key" => (m_key # NoKey <=> state = "col")
    /\ Top = "object" => (m_key # NoKey <=> state # "ok")

\* An assertion of Callback or of a builder fails only on what the checker is about to
\* reject, or has failed to reject in an empty cell of its table, or behind a document that
\* Done() cut off.
AbortsOnBrokenTextOnly ==
  parser = "aborted" /\ unfinished = 0 => misled \/ call \in { "rejected", "aborted" }

\* TypeMismatch comes from the target the caller gave, never from a member, and tells what
\* type was expected of it.
MismatchIsTheCallers ==
  parser = "TypeMismatch" => /\ Len(m_stack) = 1 /\ m_stack[1].type # Root
                             /\ Get(thrown, "ExpectedTypeInfo") = Root

\* A pointer into a vector points to its last element as long as a cursor holds it: no
\* emplace_back can have moved that element.
NoDanglingElement ==
  \A i \in DOMAIN m_stack : \A e \in items :
    LET obj == m_stack[i].obj IN
    Len(e) <= Len(obj) /\ Front(e) = SubSeq(obj, 1, Len(e) - 1) => Last(e).nth <= obj[Len(e)].nth

\* The values of a document go to the object that was set as it began, not to one of an
\* earlier document, which the caller may have destroyed since.
WritesToTarget == \A i \in DOMAIN wrote : wrote[i].at[1] = target[1]

\* They do if every document was complete at Done(), whenever SetTarget is called.
CompleteDocumentsKeepApart == unfinished = 0 => WritesToTarget

\* Every value reaches the member its keys name, whatever the text and its pieces.
Map == INSTANCE ObjectMap
         WITH path <- [ i \in DOMAIN m_stack |-> m_stack[i].key ],
              next <- IF m_stack = << >> THEN NoKey ELSE m_key,
              out <- seen
ObjectMapPromised == Map!Spec
=============================================================================
