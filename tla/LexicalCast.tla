----------------------------- MODULE LexicalCast -----------------------------
(***************************************************************************)
(* src/src/LexicalCast.cc: what the text of a value becomes in a C++       *)
(* member, and Unescape.                                                   *)
(*                                                                         *)
(* A number is represented by the part of its text the conversion reads;   *)
(* which machine integer that part denotes is the C library's affair.      *)
(***************************************************************************)
EXTENDS Integers, Sequences, SequencesExt, AutomatonTable

\* The types with a LexicalCast, by what the conversion reads of a text.
SimpleKind == { "string", "bool", "integer", "real" }

\* atoi, strtoll, strtoull: blanks are skipped; then a sign, digits, and nothing behind them.
LeadingInteger(text) ==
  LET Skips(n) == \A i \in 1 .. n : text[i] \in Blank
      first == 1 + Max({ n \in 0 .. Len(text) : Skips(n) })
      Reads(n) == \A i \in first .. n :
                    text[i] \in Digit \cup (IF i = first THEN { "minus", "plus" } ELSE {})
  IN SubSeq(text, first, Max({ n \in first - 1 .. Len(text) : Reads(n) }))

\* LexicalCast<T>(data, len); null is str == nullptr.
Cast(kind, text, null) ==
  IF kind = "bool" THEN ~ null /\ text = << "t", "r", "u", "e" >>
  ELSE IF null THEN << >>
  ELSE IF kind = "integer" THEN LeadingInteger(text)
  ELSE text

\* Bug for a mutant: the character behind the backslash is kept as it is.
KeepsLetter == [ c \in { "quote", "backs", "b", "f", "n", "r", "t" } |-> c ]

\* The escapes Unescape knows: neither a slash nor \uXXXX.
Decoded == [ c \in { "quote", "backs", "b", "f", "n", "r", "t" } |->
               CASE c = "b" -> "BS" [] c = "f" -> "FF" [] c = "n" -> "LF"
                 [] c = "r" -> "CR" [] c = "t" -> "HT" [] OTHER -> c ]

\* Unescape(str, len), character by character: an escape it does not know truncates
\* the string; a backslash at the very end stands for itself.
UnescapeTurn(s, c) ==
  CASE s.at = "cut" -> s
    [] s.at = "plain" /\ c = "backs" -> [s EXCEPT !.at = "escape"]
    [] s.at = "plain" /\ c # "backs" -> [s EXCEPT !.text = Append(@, c)]
    [] s.at = "escape" /\ c \in DOMAIN Decoded ->
         [at |-> "plain", text |-> Append(s.text, Decoded[c])]
    [] s.at = "escape" /\ c \notin DOMAIN Decoded -> [s EXCEPT !.at = "cut"]

Unescape(text) ==
  LET s == FoldLeft(UnescapeTurn, [at |-> "plain", text |-> << >>], text)
  IN IF s.at = "escape" THEN Append(s.text, "backs") ELSE s.text
=============================================================================
