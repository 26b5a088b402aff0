# TLA+ verification of autojson

autojson parses JSON as it arrives, in buffers cut anywhere, and tells a callback what it
finds. It holds two engines with the same transition table: a C++ automaton
(`src/src/Automaton.cc`) with a callback of its own, and a C checker
(`src/src/JSON_checker.c`) under `JsonParser`, whose builders fill C++ structures. This
directory models both engines, alone and side by side, the parser and its builders on top of
the second, and `JVar`; checks them with TLC, and proves with TLAPS theorems about either engine
and both together, about the parser with its builders, and about who owns what among JVars and what
they are worth.

## Inventory

| Part | State | Operations | What makes it correct |
| --- | --- | --- | --- |
| Automaton (`Automaton.cc/.hh`) | `m_state`, the stack of modes, the token | `Parse` on each buffer (the table, one handler per action), `Result` | state and stack agree; assertions hold; literals arrive whole; events nest and alternate |
| EmitData (`EmitData.cc/.hh`) | `m_start` into the caller's buffer, `m_tmp` | `Save`, `Get`, `Stash`, `Clear` | the text of a token survives the end of a buffer |
| JSON_checker (`JSON_checker.c/.h`) | state, stack of bounded depth, `token[1024]`, and per call `token->start` | `new_JSON_checker`, `JSON_checker_char`, `JSON_checker_done` | the same, within its bounds; false if and only if it deleted itself |
| JsonParser (`JsonParser.cc/.hh`) | the checker, `m_key`, the stack of cursors | `Parse`, the callback, `Done` | one cursor per open container, one key per value, reuse after `Done` |
| Builders (`TypeBuilder.hh`, `JsonBuilder.hh`, `VectorBuilder.hh`, `JsonProcessor.hh`) | maps from keys to members | `Data`, `Advance`, `Finish` | each value reaches the member its key names; no cursor outlives its target |
| Key, Cursor | a key, an index or neither; a target and its processor | setters, comparison | never both a key and an index |
| LexicalCast | none | numbers, unescaping | agreement with JSON, or an exception |
| JVar (`JVar.cc/.hh`, `Type.hh`) | a type tag and a union that owns heap objects | construction, copy, move, assignment, access | one owner per object, tag and union agree |
| Exceptions, Range | tagged values; two pointers | throw, get | what the thrower attached is there |

The parts interact by calls only: a caller hands a buffer to an engine, the engine calls
back before it goes on. Nothing runs concurrently and nothing is persisted. What is hard is
the cut between two buffers, which may fall between any two characters; the pointers into
buffers that are gone; a handler that throws when part of its work is done; the limits of the
C checker; and long legal sequences after which a state and a stack might disagree.
`PROJECT.json` lists these hazards at their lines.

## Modules

- `AutomatonTable`: character classes, states, actions, and the table of the C++ automaton
  (`Edge` for cells that hold an action, `Move` for cells that hold a state, `Dest` for the state
  after an action). A character is its class; every character the code distinguishes is alone
  in its class.
- `EmitData`: the token as a record. `held` is the text from `m_start` to the current
  character, so the argument of `Get(p)` and `Stash(p)`, always that character, is implicit.
- `Automaton`: `BeginParse`, one step per character, `EndParse`. Each step runs one handler
  whole (`Turn` is the table of actions in `Parse`) and then the state change of the loop.
  `PopThrows`, `EscapeThrows` and `EmptyCellThrows` are the exceptions, with what the handler had
  done before; `AbortInHandler` and `AbortInParse` are assertions that fail, which ends the
  program. `lit` (what the open literal spells) and `got` (what was delivered of it) are
  history variables: no guard reads them except the bound.
- `EventStream`: the abstract specification. It knows open containers, the open literal and
  whether a key waits for its value, and says which events may come next.
  `Automaton!EventStreamPromised` is the refinement, with the mapping `Containers`,
  `OpenLiteral`, `Owed` on the automaton's own variables.
- `AutomatonThrows`: the same machine with an `m_callback` that may throw at any event.
  `CallbackThrows` keeps what the handler had done before that event; `AfterGet` is what `Get`
  leaves of a token nobody clears afterwards.
- `MCAutomaton`, `MCAutomatonThrows`: the alphabets of the runs, and a claim that the code does
  not keep.
- `JsonCheckerTable`, `JsonChecker`: the C checker, one step per character. `Table` is derived
  from `AutomatonTable`, from which the C table differs only in `Coded` and in the empty cell.
  `token` and `held` are the saved text and the text since `token->start`. `SaveToken` is the
  end of a call to `JSON_checker_char`; there is no step for the beginning of one, which changes
  nothing. A length computed from a null pointer is undefined in C: `Emitted` offers
  every outcome (garbage, nothing, or the assertion that fails). After an overrun of
  `jc->token` the model stops. `lit`, `owed` and `misled` are history; `misled` says that an
  empty cell was taken for the start of a string.
- `MCJsonChecker`: its alphabets, and claims the code does not keep.
- `JsonText`: a reference grammar of JSON over character classes, without state or stack: which
  texts are JSON and which can become JSON.
- `Engines`: an `Automaton` and a `JsonChecker` read the same text in one buffer. The caller may
  begin to finish the document at any character (`Finish` feeds what closes what is open).
- `LexicalCast`: which part of a text a cast reads, and `Unescape`, character by character.
- `Exception`: values attached to an exception, by tag.
- `Builders`: keys, cursors, and what each builder does with a cursor. A builder stands for its
  C++ type; `Members` and `Visitor` say how builders are nested. An address is the way from the
  target to a member, so that an element a vector has moved away is told from the last one.
- `JsonParser`: `Callback` as an operator on the parser's variables (`OnKey`, `OnStart`, `OnEnd`,
  `OnValue`), applied by `Called` in order to the events of one step of `JsonChecker`, which it
  extends (`ParserInit`, `ParserNext` and `ParserSpec` are its own). `SetTarget`, which every
  `Parse` with a target calls, and `Done` come at any time between two calls. `seen` and `wrote`
  record the events handled and the assignments made in a step. `target` (the object that was
  set as the document began) and `unfinished` (how many documents `Done` has cut off) are history:
  no guard reads them except the bound.
- `ObjectMap`: the abstract specification of parser and builders, which knows neither cursors
  nor addresses under construction: each value goes to the member that the keys of the open
  containers and its own name. `JsonParser!ObjectMapPromised` is the refinement; `path` is the
  sequence of the cursors' keys.
- `MCJsonParser`: a structure with every kind of builder inside another, in which one key means
  different members at different levels.
- `JVar`: a heap of strings, arrays and hashes, the slots of JVars in them, and every statement
  a program can make: construction from nothing, a copy or a move of any JVar it can name,
  assignment, `Swap`, `Add`, `operator[]`, `Clear`, writes through `As`, destruction.
- `ValueTrees`: the abstract specification of JVar: trees of values without a heap.
  `JVar!ValuesPromised` is the refinement; its mapping `TreeOf` takes each path that leads to a
  JVar to the tag and the datum there.
- `DataLemmas`, `AutomatonTableProofs`: lemmas about sequences, records and finite sets, and
  about the two tables and the stack of modes, which the proofs about the engines cite.
- `AutomatonProofs` (of `Automaton` and `AutomatonThrows`), `JsonCheckerProofs`, `EnginesProofs`,
  `JsonParserProofs` (of `JsonParser` and `ObjectMap`), `JVarProofs`, `JVarValueProofs`: the
  theorems.
- `MCJVar`: an instance, and the view that takes two heaps for one if they hold the same
  tree and differ in addresses only.

Each operator between `Bug for a mutant` comments is a plausible mistake in the operator after
it; `PROJECT.json` says which property finds it.

## Runs

`CHECK_DEADLOCK FALSE` is in every configuration because the systems do stop: after an
exception whose caller gives up, a failed assertion, a rejected or finished checker.

| Run | Shows | Bounds |
| --- | --- | --- |
| `automaton_control` | types, state and stack agree, events implement `EventStream`, all of it even for a caller who goes on after the automaton's exceptions | all 32 classes, 2 open containers, literals of 1 glyph, so that the states of fractions and exponents are not reached: for them there are the theorems |
| `automaton_literals` | no assertion fails, the token holds text only in literals, keys, strings and numbers arrive whole, in order | 10 classes, 1 container, literals of 3 glyphs, tokens of 6 characters |
| `automaton_retry` | a caller who goes on after exceptions, the automaton's and the callback's: the stack holds what the events say; the next call fails an assertion only if a literal was open or a number's start threw | 10 classes, 3 containers, literals of 3, tokens of 4, equal states with another `got` taken for one (nothing there reads it) |
| `checker_text` | types and memory limits, state and mode agree, saved text belongs to the open literal, keys and values alternate, text arrives whole unless cut right before its end or too long | 24 classes, depth 3, token buffer of 4, literals of 3 glyphs |
| `engines_text` | over an alphabet without zero, minus, point and exponent the checker knows exactly JSON's texts and their beginnings; the automaton stops where the checker does, but for commas and the end of a `\uXXXX`, and `Result()` is true where the checker would accept, but for the automaton's first state, where it is true before any text; while both read, both deliver the same events, and the text `Unescape` makes; a finished document is accepted, by the automaton too unless it has thrown | 12 classes, texts of 6 characters and what finishes them |
| `parser_build` | cursors and keys follow the checker; assertions fail on broken texts only; no cursor dangles; documents do not mix, and every value reaches its member, in the object set as the document began, though targets are set at any time between two calls | 9 classes, depth 4, 2 after `Done`, documents complete at `Done`, 2 targets, 2 elements, literals of 1 |
| `jvar_values` | tags and contents agree, one owner for each object, no leak, JVars are values | paths of 3, 3 objects, arrays of 2 |

The stack shows each mode under each other one at two containers, and the bottom one. Three
glyphs suffice for text before, in and after an escape; a six-character token holds a whole
`\uXXXX` and the quote. Tokens of the checker are both smaller and larger than the buffer.
Six characters hold a member with its value and a comma, three containers, or a string with two
escapes. `parser_build` has a container in a member of a container of the root, a second
element behind a finished one, further documents, a second target in the middle of a
document and between two, and a checker that is less deep after `Done`. What holds behind a
document that was cut off (`MismatchIsTheCallers`, `ObjectMapPromised`, `NoDanglingElement`) is
left to the theorems: the run in which one is cut off, `parser_unfinished`, ends at its first
violation. `checker_text` leaves out classes whose cells others have too, and the word `false`.
Three levels and three objects in `jvar_values` hold an array with two arrays, of which each can be moved to the other, to its parent, or its parent to it.
The bounds limit only the model: `MaxDepth`, `MaxText`, `MaxLength`, `MaxItems`, `MaxIndex`,
`MaxDocs`, `MaxUnfinished`, `MaxSlots`, `MaxPath` and `Object` stand for no limit of the code, while
`Depth`, `DoneDepth` and `TokenSize` are the code's (any, 5 and 1024 in the source).

The runs expected to find a violation each check one sentence of the repository:

| Run | What the code does instead |
| --- | --- |
| `automaton_comma` | after a comma in an object, `{"a":1,true}` delivers a value without a key: `OnNextValue` flips the mode before `Dest` reads it |
| `checker_badcell` | an unexpected character starts a string: `__` is -1, and so is that action |
| `checker_cut` | a cut right before the end of a literal loses its text |
| `parser_unfinished` | `Done()` ignores that a document is not complete and leaves its cursors: `[`, `Done()`, and the values of the next document go to the object of the first |
| `parser_ends` | for `[]]` the checker delivers the end of an array that never started, and `JsonParser` fails `assert(!m_stack.empty())` |

Seen while modelling, without a run of their own:

- Automaton: `Result()` is true before any text, and stays true for `{},`, because it looks at the
  stack only; a `\uXXXX` throws
  `InvalidChar` unless its last digit is `b` or `f`; a second document is refused (`README.md` of
  the repository calls the parser reusable).
- A callback that throws at the start of a number leaves the number's pointer behind, and the next
  `Parse` fails `assert(!m_token.IsSaved())`. One that throws at the data of a number leaves it
  too, if the number began in the same buffer; if it began in an earlier one, `Get` has stashed it
  and the caller who goes on is told the number a second time.
- Checker: a piece longer than the token buffer deletes the checker, and true is returned;
  `1.` is accepted and the `e` of `0e1` starts a string; `""` is delivered with a null pointer and a
  length made of an address.
- Parser: `Done()` after a `ParseError` frees a checker that is freed; the key `""` throws
  `std::logic_error` through the C checker; the destructor frees no checker.
- `ExpectedTypeInfo` and `ActualTypeInfo` are one type, so a `TypeMismatch` tells only what was
  expected.
- `LexicalCast<bool>` gets a null pointer for `true` and says false.
- JVar: the constructor from a vector sets neither type nor pointer; a move of a JVar into itself
  or its own element ties a knot that leaks; `Add` under a key that exists may lose a moved
  value.

Fairness is assumed in `Engines` only, `WF_vars(Finish)`: a caller who has begun to finish a document
goes on feeding characters until it is complete. That is an assumption on that caller, for the
question `FinishedIsAccepted` asks: whether every state the engines can be in leads to an accepted
document. Nothing else has liveness properties: the engines move only when their caller calls,
and nothing obliges it to.

## Proofs

Each theorem holds for every alphabet, every bound, every text and every way of cutting it.

`AutomatonProofs`:

- `TypeCorrect`: the type invariant, and `Mode::done` at the bottom of the stack and nowhere
  else, so the stack is never empty when a handler reads its top. Inductive as it stands
  (`Typed`): a `Pop` removes only a mode it has compared with `array`, `key` or `object`.
- `TokenCorrect`, `AssertionsCorrect`, `LiteralsCorrect`, for a caller who does not go on after
  an exception (`~ RetryAfterThrow`). `AssertionsHold` is not inductive: that a token is saved
  where a handler asserts it depends on the state the table led to, and `LiteralIntact`
  relates events to text delivered much earlier. The invariant is
  `LiteralInv == Typed /\ TokenHoldsLiteral /\ AssertionsHold`, where `TokenHoldsLiteral` says
  for each state what part of the literal has been delivered, what is in the token, and which
  character of the token's front is not text. `TurnKeepsLiteral` has one step per
  handler, `CallsKeepLiteral` covers the ends of buffers, and `EdgeRegions`, `MoveRegions` and
  `CellsAreSingle` (in `AutomatonTableProofs`) give the facts about the table. `NothingSpelled`
  to `StringEventsDeliver` say what a handler's events carry. A literal with a `\uXXXX` is
  excepted (`Undecoded`), since the code does not decode one.

And there, for every caller, also one who goes on after the automaton's exceptions:

- `ModesCorrect`: state and stack agree. The invariant is
  `EventInv == Typed /\ ModesAgree /\ TokenInLiteral`. `ModesAgree` is inductive with the types:
  what a handler pops is what the cell's state promised, and what it uncovers is never a key.
- `EventsCorrect`: the refinement of `EventStream`. Each action of `Automaton` is mapped to the
  steps of `EventStream` its events make, or to a stutter; an exception, to those of the events
  that came before it. `TokenInLiteral` is what tells an escape inside a literal from its start,
  and the first piece of a string from the later ones.

And there, with an `m_callback` that may throw at any event:

- `ThrowingTypeCorrect`, from the same `Typed`; `StackCorrect`, from `Typed`: a handler pushes or
  pops before it delivers, so the stack and the events agree wherever `m_callback` stops it.
- `RecoveryCorrect`: `ThrowInv == Typed /\ TokenOutside`. The one token outside a literal is that of
  a number whose start threw, and the next `Parse` fails its assertion before it does anything.

`JsonCheckerProofs`, for every depth and every size of the token:

- `CheckerTypeCorrect`, `CheckerModesCorrect`, `CheckerTextCorrect`, from one invariant,
  `CheckerInv == Typed /\ CheckerModesAgree /\ TokenHoldsText /\ OwedAgrees`. The modes need the
  types (what lies under the top), the text needs the modes (which cells begin and end
  literals), and both hold behind an empty cell of the table too. `CheckerTypeCorrect` includes
  the memory limits: the stack within `jc->depth`, the saved text within `jc->token`.
- `CheckerDeliversText` and `CheckerAlternates`, action properties: the text comes out of
  `TokenHoldsText` at the event, the alternation out of `OwedAgrees`, which says in which states a
  key waits for its value.

`EnginesProofs`, for every alphabet and every text, in one buffer:

- `AgreementCorrect` and `SameEventsCorrect`, action properties of two machines that share nothing but
  the text, from `EnginesInv`: while the checker reads, its state fits the mode on top
  (`InOrder`) and its stack has room; and until the automaton has thrown, both stacks are the same,
  the automaton's state is the checker's, or `arr` where the checker's tells a key or a value
  behind a comma (`Same`), and a token is saved in a literal and nowhere else (`Alike`).
- An action of the table is described once, for both: the modes it needs on top (`Needs`), the
  stack after it (`After`), what a callback is told (`Says`). `CppTells` shows that a turn of the
  automaton does that or throws, `CheckerTells` that a turn of the checker does it, or rejects,
  or finds an empty cell, although its table merges several actions into one code. The two are then
  compared cell by cell: `ActionAlike` and `MoveKeepsModes` say that the automaton's cell has
  whatever the checker's has, `GoAlong` and `StopAlike` what follows where the checker goes on
  and where it stops. The one cell where it does not stop alike is the comma behind the
  document; the other exceptions are what `arr` takes behind a comma.
- `TellsSame` is a one-to-one correspondence that keeps the order; `FewEvents` gives it for the
  one to three events of a handler.

`JsonParserProofs`, for every structure of builders, any number of documents and targets, and
checkers of any depth:

- `ParserTypeCorrect`, `CursorsCorrect`, `KeysCorrect`, `CallbackAssertionsHold`,
  `MismatchIsTheTargets`, `ElementsStay`, all from `ParserInv`, which contains `CheckerInv`. None of the
  six is inductive. The second to the fourth are about documents that were complete at `Done()`
  (`unfinished = 0`); behind one that was cut off the cursors of two documents lie in one stack,
  and `ParserInv` says of that stack what still holds: it begins with a root's cursor (`Base`). That the two stacks have the same height
  needs the keys, since a missing one ends the program; the keys need the kind of each
  container around, whose cursor keeps its key until it ends (`KeysFollow`); that no element
  moves needs every element of a vector to be numbered (`Numbered`), every cursor to be at an address
  of its own builder (`GoodStack`, `BuilderAt`), and the innermost one to reach furthest down.
- `TurnTells` reduces the checker's actions to what the parser can see of them: a number
  first, when one ends, then at most one event, and how the modes changed. `EventWorks` then
  has one step per kind of event, and `CalledWorks` puts two of them together.
- `DocumentsKeptApart`, that values do not go to the object of another document, from
  `DocumentInv`: the outermost cursor of an open document points to `target`, whatever `SetTarget` is
  given meanwhile, and the values go to where the cursors on it point. It needs
  `unfinished = 0`, without which the code breaks it (`parser_unfinished`), since only then no
  cursor is left when a document begins (`NothingWithoutCursor`, `StartComes`).
- `DataRoute` and `BuilderAt` are recursive functions, over what is left of the builders and
  over addresses. What is needed of them is proved along finite sets and along the numbers as
  sets, without an induction theorem.

And there, for the same structures, texts and cuts:

- `ObjectMapCorrect`: `JsonParser` implements `ObjectMap`, broken texts included. The invariant is
  `MapInv == ParserInv /\ Nested(m_stack) /\ RootKey`. `Nested` says of every cursor, not only the
  innermost, that it has the builder and the address its key means in the cursor around it;
  `NestedIsNamed` makes of that the abstract look-up, which starts at the root each time.
  `RootKey` is what keeps a key from being read where no container is open.
- A value is looked up as if its own cursor were on the stack (`NextIsNested`), and
  `RouteFollows` says where the calls of `Data` in one another end: at that cursor if its builder is
  simple, inside its object if not, and with the container's own builder if that one builds a
  simple value. `ValueIsPromised` takes the three to the three cases of `ObjectMap!Promised`.
- A callback that stops is a stutter (`Stopped`), one that returns is one action of `ObjectMap`
  (`OneCallFollows`); a bracket that ends a number and its container is two at once
  (`TwoCallsFollow`), of which the second cannot stop (`EndReturns`).

`JVarProofs`, for any variables, keys and data, heaps and arrays of any size and paths of any
length:

- `JVarTypeCorrect`, `OneOwnerCorrect` and `NoLeakCorrect`, all from
  `HeapInv == Defined => Sound(heap, Null) /\ (~ knotted => Rooted(heap, Null))`. None of the three is
  inductive: a destructor frees what it reaches, and that this is no more than what is its
  own needs the one owner; that a copy, an assignment or `Clear` finds an object where a tag
  says so needs the types; and that an object is not lost when the slot that owned it is
  overwritten needs both, and the way a statement came to the slot.
- In the middle of a statement a JVar lies in no slot: what a constructor has made, or what an
  assignment is about to destroy. `Sound` and `Rooted` therefore speak of a heap and one JVar
  that floats. A constructor makes one float (`MadeMakes`, from `MoveMakes`, `FreshMakes`,
  `CopyMakes`), a change of a slot exchanges it for the one the slot held (`ExchangeSound`,
  `ExchangeRooted`), and a destructor takes it away with all it reaches (`DestroyedSound`,
  `DestroyedRooted`). Construction, `operator=`, `Swap`, `Add` and the end of a variable are
  sequences of these.
- `Reach` is computed in as many rounds as there are objects. `ReachIsLeast` shows that this
  is enough: a round that adds nothing is the last, and each other one adds an object. After
  that, only that it is the least closed set is used. In the same way `Rooted` says that
  everything lies below the frame without an induction: no smaller set is closed.
- A path leads through one object after the other (`Leads`). Since each has one owner, two paths
  that meet have come the same way (`PathsMeet`), so a path goes through the slot of another
  only if it continues it (`PathAvoids`). This is why nothing but a move or a swap of a JVar
  into itself (`knotted`) cuts an object off, and why `operator=` and `Add` still write where
  they meant to after their argument has been moved away.

`JVarValueProofs`, for the same variables, heaps and paths:

- `ValuesCorrect`: `JVar` implements `ValueTrees`, from the same `HeapInv`; self-moves and knots
  included. What has to be shown of every statement is that it is seen at the paths it names and
  at no other, although it changes slots of objects, floats JVars outside of the heap, and
  destroys what is on the way.
- A heap unfolds into the JVars its paths lead to: `Unfolds(h, v, m)` says that `m` is that
  function, path by path. It is unique (`UnfoldsOnce`), and no two paths open one object
  (`LabelsApart`), since each object has one owner. So no path is longer than there are objects
  (`PathsAreShort`), which is why `TreeOf` may stop there, and is the tree of the unfolding
  (`TreeIs`).
- A change of one slot sets one branch of the unfolding and takes the old one out, and nothing else
  changes (`SetUnfolds`, `ElsewhereUnfolds`); a value put below itself is seen no more;
  destruction of what floats is not seen at all (`DestroyedUnfolds`).
- A constructor makes an unfolding equal to its source's: the same one after a move, one of
  other objects after a copy (`TwinsUnfold`, `MadeShows`). From there, assignment, `Add` and
  `operator[]` are sequences of changes (`PlacedShows`, `AddedShows`, `IndexShows`). `Swap` is three of them,
  by whether one path is below the other or beside it (`SwapShows`); `Clear` destroys
  exactly what is behind its path (`ReachIsBehind`).
- One lemma for each action (`ConstructIsNext` to `ThrowsIsNext`) makes that a step of `ValueTrees`, and
  `StepIsPromised` puts them together. Induction over paths is done with sets of sequences
  (`SequenceInduction`), without an induction theorem.

Assumed of the constants, in the modules that declare them, and evaluated by TLC: the alphabet is
made of classes and the bounds are naturals (`CharsAssumption`, `BoundsAssumption`, `CheckerChars`,
`CheckerBounds`, `ParserBounds`, `TextBounds`); `RetryAfterThrow` is a Boolean; depth and token size are
positive; the builders are finitely many, each of a kind, their members are builders, and the mock
handler is none of them (`BuilderTree`), which is what the C++ types of a structure give; the
tags of simple JVars are those of `Type.hh` (`JVarTags`), and a heap has finitely many addresses
(`JVarBounds`).

Only model-checked so far:

- `CheckerKnowsJson` compares with a grammar that is a recursive function over texts, and
  `SameText` with `Unescape`, which is a fold: both need an induction over data, which the provers
  cannot do.
- `FinishedIsAccepted`: liveness under fairness stays with TLC.

## Not modelled

Line and column numbers (read only by exceptions), stream operators, `Print`, `what()`; a checker
created with depth 0; a caller who parses on, or calls `Done()`, after an exception of
`JsonParser` (a `ParseError` leaves freed memory behind); the machine numbers a cast
makes of its digits, which are the C library's; `Equal` and `Size` of JVar, which change
nothing. `Range` is a pair of pointers with no behaviour of its own.

## Plan

1. Done: the modules above; the proofs about `Automaton`, `JsonChecker`, `Engines`, `JsonParser` and
   `JVar`; the refinements of `EventStream`, `ObjectMap` and `ValueTrees`.
2. Left to TLC for the reasons given under Proofs: `CheckerKnowsJson`, `SameText`,
   `FinishedIsAccepted`.
