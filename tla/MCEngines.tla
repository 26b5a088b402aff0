----------------------------- MODULE MCEngines -----------------------------
(***************************************************************************)
(* Instances of Engines for TLC.                                           *)
(***************************************************************************)
EXTENDS Engines

TextChars == { "lcurb", "rcurb", "lsqrb", "rsqrb", "colon", "comma", "quote", "digit", "backs", "n", "u", "space" }
=============================================================================
