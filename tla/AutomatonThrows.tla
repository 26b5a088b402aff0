--------------------------- MODULE AutomatonThrows ---------------------------
(***************************************************************************)
(* An Automaton whose m_callback may throw, at any event, through the      *)
(* handler and Parse: what the handler had done before the call stays      *)
(* done, the rest of it and the change of state do not happen.  The caller *)
(* may call Parse again.                                                   *)
(***************************************************************************)
EXTENDS Automaton

-----------------------------------------------------------------------------
\* Bug for a mutant: m_callback comes before Push.
PushesLate(mode) == m_stack

\* The stack when m_callback is told of a new container, and of the end of one.
Pushed(mode) == Append(m_stack, mode)
Popped == Front(m_stack)

\* What Get(p) leaves of a token that nothing clears: a stash takes up the rest of it, and
\* m_start is given up.
AfterGet == IF m_token.saved /\ IsStashed(m_token) THEN Stash(m_token) ELSE m_token

\* m_callback throws at the last of the events, with this stack and this token.
ThrowsAt(events, stack, token) ==
  /\ Delivers(events)
  /\ m_stack' = stack /\ m_token' = token
  /\ call' = "thrown" /\ UNCHANGED m_state

\* Brackets.
ContainerThrows(a) ==
  \/ a = "soj" /\ ThrowsAt(<< Ev("start", "object") >>, Pushed("key"), m_token)
  \/ a = "sar" /\ ThrowsAt(<< Ev("start", "array") >>, Pushed("array"), m_token)
  \/ /\ a \in { "eoj", "noj" } /\ Top = PoppedMode[a]
     /\ ThrowsAt(<< Ev("end", "object") >>, Popped, m_token)
  \/ /\ a = "ear" /\ Top = "array"
     /\ ThrowsAt(<< Ev("end", "array") >>, Popped, m_token)

\* The end of a number, of which the token is cleared last, and a bracket behind it.
NumberThrows(a) ==
  /\ a \in { "eon", "enj", "ena", "enx" } /\ m_token.saved
  /\ \/ \E events \in { << NumberEvents[1] >>, NumberEvents } : ThrowsAt(events, m_stack, AfterGet)
     \/ /\ a \in { "enj", "ena" } /\ Top = PoppedMode[a]
        /\ LET type == IF a = "enj" THEN "object" ELSE "array" IN
           ThrowsAt(Append(NumberEvents, Ev("end", type)), Popped, Clear)

\* The token of a string is saved behind its start, and cleared between its text and its
\* end.
StringThrows(a, c) ==
  \/ a = "sos" /\ ThrowsAt(<< Ev("start", Current) >>, m_stack, m_token)
  \/ /\ a \in { "eos", "sep" } /\ m_token.saved /\ StringEvents # << >>
     /\ ThrowsAt(StringEvents, m_stack, AfterGet)
  \/ /\ a = "eos" /\ m_token.saved
     /\ ThrowsAt(Append(StringEvents, Ev("end", Current)), m_stack, Clear)
  \/ /\ a = "eep" /\ m_token.saved /\ c \in DOMAIN Unescaped
     /\ ThrowsAt(<< Data(Current, << Unescaped[c] >>) >>, m_stack, m_token)

WordType == [ nul |-> "null_value", tru |-> "boolean_true", fls |-> "boolean_false" ]
WordThrows(a) ==
  a \in DOMAIN WordType /\ ThrowsAt(<< Ev("data", WordType[a]) >>, m_stack, m_token)

\* The token of a number is saved before its start.
NumberStartThrows(c) ==
  \E d \in StateAt[m_state][c] :
    /\ StartsNumber(c, d)
    /\ ~ m_token.saved
    /\ ThrowsAt(<< Ev("start", "number") >>, m_stack, Save(m_token))

CallbackThrows(c) ==
  /\ InLoop
  /\ \/ \E a \in ActionAt[m_state][c] :
          ContainerThrows(a) \/ NumberThrows(a) \/ StringThrows(a, c) \/ WordThrows(a)
     \/ NumberStartThrows(c)
  /\ Observes(c) /\ InBounds

ThrowingNext == Next \/ \E c \in Chars : CallbackThrows(c)

ThrowingSpec == Init /\ [][ThrowingNext]_vars

-----------------------------------------------------------------------------
(* Properties.                                                             *)

\* The open containers behind one more event.
Nested(open, e) == IF e.type \notin { "array", "object" } THEN open
                   ELSE IF e.ev = "start" THEN Append(open, e.type)
                   ELSE Front(open)

\* The stack knows exactly the containers m_callback has been told of, even one whose start
\* or end made it throw, however often the caller goes on: each has been pushed and popped
\* before m_callback hears of it.  A step tells of one container at most, and of it last.
StackFollowsEvents ==
  [][/\ Containers' = IF out' = << >> THEN Containers ELSE Nested(Containers, Last(out'))
     /\ \A i \in 1 .. Len(out') - 1 : out'[i].type \notin { "array", "object" }]_vars

\* A caller may go on after an exception as long as no literal was open, unless m_callback
\* threw at the start of a number: only then a token may be left that the next call trips
\* over.  The start of a string leaves none.
RecoverableOutsideLiteral ==
  [][call' = "aborted" => \/ m_state \in Literal
                          \/ call = "thrown" /\ out = << Ev("start", "number") >>]_vars
=============================================================================
