-------------------------- MODULE MCAutomatonThrows --------------------------
(***************************************************************************)
(* The instance of AutomatonThrows for TLC.                                *)
(***************************************************************************)
EXTENDS AutomatonThrows

\* Containers, strings with an escape, numbers and one word, for a caller who goes on
\* after exceptions.
RetryChars == { "lcurb", "rcurb", "lsqrb", "rsqrb", "colon", "comma", "quote", "backs",
                "digit", "t" }

\* All but got, which nothing here reads: a caller who goes on may be told the same text
\* any number of times.
ButGot == <<impl, out, lit>>
=============================================================================
