------------------------------ MODULE EmitData ------------------------------
(***************************************************************************)
(* EmitData (src/src/EmitData.cc): the text of the token being read.  It   *)
(* is a pointer m_start into the caller's buffer, and a copy m_tmp of the  *)
(* part that lay in earlier buffers.                                       *)
(*                                                                         *)
(* A token is a record: saved is m_start != nullptr, tmp is m_tmp, and     *)
(* held is the text between m_start and the character the automaton is     *)
(* looking at, which is what every Get(p) and Stash(p) of the code reads.  *)
(***************************************************************************)
EXTENDS Sequences

Token(Text) == [saved : BOOLEAN, held : Text, tmp : Text]

Clear == [saved |-> FALSE, held |-> <<>>, tmp |-> <<>>]

\* Save(p), at the character p: the token starts (or goes on) here.
Save(t) == [t EXCEPT !.saved = TRUE, !.held = <<>>]

\* The loop of Parse steps over the character c.
Advance(t, c) == IF t.saved THEN [t EXCEPT !.held = Append(@, c)] ELSE t

\* Bugs for the mutants: a second stash overwrites the first; the stashed
\* part is put behind the new one.
StashOverwrites(t) == [saved |-> FALSE, held |-> <<>>, tmp |-> t.held]
TextMisordered(t) == t.held \o t.tmp

\* Stash(p): the buffer is going away, keep a copy.
Stash(t) == [saved |-> FALSE, held |-> <<>>, tmp |-> t.tmp \o t.held]

\* Get(p): all of the text, from every buffer it came in.  (Get also moves held
\* to m_tmp when there was a stash; every caller clears the token next, unless
\* m_callback throws: see AfterGet in AutomatonThrows.)
Text(t) == t.tmp \o t.held

IsStashed(t) == t.tmp # <<>>
=============================================================================
