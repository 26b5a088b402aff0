------------------------------ MODULE JsonText ------------------------------
(***************************************************************************)
(* The reference both engines are measured against: which sequences of     *)
(* character classes are JSON texts (RFC 4627: an array or an object), and *)
(* which can still become one.  No state, no stack: only the grammar.      *)
(***************************************************************************)
EXTENDS Integers, Sequences, AutomatonTable

Blanks(t, i, j) == \A n \in i .. j : t[n] \in Blank

-----------------------------------------------------------------------------
(* Strings: t[i .. j] from quote to quote, or as far as it goes.           *)

\* The character n is escaped by the one before it.
Escaped(t, i, n) ==
  LET Is[m \in Nat] == m > i + 1 /\ t[m - 1] = "backs" /\ ~ Is[m - 1] IN Is[n]

SimpleEscape == { "quote", "backs", "slash", "b", "f", "n", "r", "t" }

\* What begins with a quote and has not come to another.
StringSoFar(t, i, j) ==
  /\ i <= j /\ t[i] = "quote"
  /\ \A n \in i + 1 .. j :
       IF Escaped(t, i, n)
       THEN \/ t[n] \in SimpleEscape
            \/ t[n] = "u" /\ \A m \in n + 1 .. n + 4 : m <= j => t[m] \in Hex
       ELSE t[n] \notin { "quote", "white", "bad" }

IsString(t, i, j) ==
  /\ i < j /\ t[j] = "quote" /\ ~ Escaped(t, i, j)
  /\ StringSoFar(t, i, j - 1)
  /\ \A n \in i + 1 .. j - 1 : Escaped(t, i, n) /\ t[n] = "u" => n + 4 < j

-----------------------------------------------------------------------------
(* Numbers and words.                                                      *)

\* minus? (zero | digit digits*) (period digits)? (e sign? digits)?
IsNumber(t, i, j) ==
  \E a \in i .. i + 1, b \in i .. j + 1, c \in i .. j + 1 :
    LET digits(m, n) == m <= n /\ \A x \in m .. n : t[x] \in Digit IN
    /\ a <= j /\ a <= b /\ b <= c
    /\ a = i + 1 => t[i] = "minus"
    /\ digits(a, b - 1) /\ (t[a] = "zero" => b = a + 1)
    /\ c = b \/ (t[b] = "period" /\ digits(b + 1, c - 1))
    /\ \/ c = j + 1
       \/ /\ t[c] \in { "e", "upperE" }
          /\ \/ digits(c + 1, j)
             \/ c < j /\ t[c + 1] \in { "plus", "minus" } /\ digits(c + 2, j)

Spelling == { << "t", "r", "u", "e" >>, << "f", "a", "l", "s", "e" >>, << "n", "u", "l", "l" >> }
IsWord(t, i, j) == SubSeq(t, i, j) \in Spelling

\* A number that lacks digits at its end, or a word that lacks letters.
ScalarSoFar(t, i, j) ==
  \/ LET more == SubSeq(t, i, j) \o << "digit" >> IN IsNumber(more, 1, Len(more))
  \/ \E w \in Spelling : j - i < Len(w) /\ SubSeq(w, 1, j - i + 1) = SubSeq(t, i, j)

-----------------------------------------------------------------------------
(* Values.  A list is what stands between brackets, not empty.             *)

Grammar(t) ==
  LET Whole[what \in { "value", "elements", "members" }, i \in Nat, j \in Nat] ==
        CASE what = "value" ->
               /\ i <= j
               /\ \/ t[i] \in Blank /\ Whole["value", i + 1, j]
                  \/ t[j] \in Blank /\ Whole["value", i, j - 1]
                  \/ IsString(t, i, j) \/ IsNumber(t, i, j) \/ IsWord(t, i, j)
                  \/ /\ t[i] = "lsqrb" /\ t[j] = "rsqrb"
                     /\ Blanks(t, i + 1, j - 1) \/ Whole["elements", i + 1, j - 1]
                  \/ /\ t[i] = "lcurb" /\ t[j] = "rcurb"
                     /\ Blanks(t, i + 1, j - 1) \/ Whole["members", i + 1, j - 1]
          [] what = "elements" ->
               \/ Whole["value", i, j]
               \/ \E k \in i .. j : /\ t[k] = "comma"
                                    /\ Whole["value", i, k - 1] /\ Whole["elements", k + 1, j]
          [] what = "members" ->
               \E a \in i .. j, k \in i .. j, b \in i .. j :
                 /\ t[k] = "colon" /\ a <= b /\ b < k
                 /\ Blanks(t, i, a - 1) /\ IsString(t, a, b) /\ Blanks(t, b + 1, k - 1)
                 /\ \/ Whole["value", k + 1, j]
                    \/ \E m \in k .. j : /\ t[m] = "comma"
                                         /\ Whole["value", k + 1, m - 1] /\ Whole["members", m + 1, j]
      Begun[what \in { "value", "elements", "members" }, i \in Nat, j \in Nat] ==
        \/ Blanks(t, i, j)
        \/ t[i] \in Blank /\ Begun[what, i + 1, j]
        \/ what # "members" /\ Whole["value", i, j]
        \/ what # "members" /\ (StringSoFar(t, i, j) \/ ScalarSoFar(t, i, j))
        \/ what # "members" /\ t[i] = "lsqrb" /\ Begun["elements", i + 1, j]
        \/ what # "members" /\ t[i] = "lcurb" /\ Begun["members", i + 1, j]
        \/ /\ what = "elements"
           /\ \E k \in i .. j : /\ t[k] = "comma"
                                /\ Whole["value", i, k - 1] /\ Begun["elements", k + 1, j]
        \/ /\ what = "members"
           /\ \/ StringSoFar(t, i, j)
              \/ \E b \in i .. j : IsString(t, i, b) /\ Blanks(t, b + 1, j)
              \/ \E k \in i .. j, b \in i .. j :
                   /\ t[k] = "colon" /\ b < k /\ IsString(t, i, b) /\ Blanks(t, b + 1, k - 1)
                   /\ \/ Begun["value", k + 1, j]
                      \/ \E m \in k .. j : /\ t[m] = "comma" /\ Whole["value", k + 1, m - 1]
                                           /\ Begun["members", m + 1, j]
  IN [whole |-> Whole["value", 1, Len(t)], begun |-> Begun["value", 1, Len(t)]]

\* A text is an array or an object, with blanks around it.
Opens(t) == \A n \in 1 .. Len(t) :
              Blanks(t, 1, n - 1) => t[n] \in Blank \cup { "lsqrb", "lcurb" }

IsJson(t) == Opens(t) /\ Grammar(t).whole
CanBecomeJson(t) == Opens(t) /\ Grammar(t).begun
=============================================================================
