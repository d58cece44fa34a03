---------------------------- MODULE TokenProperties ----------------------------
(***************************************************************************)
(* What the token parsers of a language make of a text.  A task's parser   *)
(* is one of token.hpp's; the goal's `kind' names which, `lang' is its      *)
(* language.                                                               *)
(*                                                                         *)
(* The properties compare with what a language's definition says of the    *)
(* text: where comments and words end, what a numeral denotes.  None of it *)
(* is computed the way the parsers do.                                     *)
(***************************************************************************)
EXTENDS WordTokens

-----------------------------------------------------------------------------
(* Numbers                                                                  *)

(* The digits of the text after i and up to j, worth base^0 at the end.      *)
Denotes(base, i, j) ==
  MapThenSumSet(LAMBDA k : DigitValue(input[k]) * base ^ (j - k), (i + 1)..j)

Signs  == {43, 45}
SignOf(i) == IF CharAt({45}, i) THEN -1 ELSE 1

(* A natural is its digits and number if it starts at i with a prefix 0x or *)
(* 0o, or with none; an integer has a sign before it.  What int64_t does    *)
(* not hold leaves run_parser as an exception; so does -2^63, which it      *)
(* would hold, for the sign is applied last.                                *)
IntegersDenote ==
  Finished /\ goal.kind \in {"natural", "integer"} =>
    LET i      == IF goal.kind = "integer" /\ CharAt(Signs, 0) THEN 1 ELSE 0
        marked(S) == CharAt({48}, i) /\ CharAt(S, i + 1)
        base   == IF marked({88, 120}) THEN 16 ELSE IF marked({79, 111}) THEN 8 ELSE 10
        first  == IF base = 10 THEN i ELSE i + 2
        last   == After(CASE base = 16 -> HexDigits [] base = 8 -> OctDigits
                          [] base = 10 -> Digits, first)
        number == Denotes(base, first, last)
    IN  /\ Threw <=> last > first /\ number > LLongMax
        /\ Accepted <=> last > first /\ number <= LLongMax /\ EndsToken(last)
        /\ Accepted => res.val = << number * SignOf(0) >>

(* A float has digits, then a dot and digits or an exponent or both.  Its    *)
(* value is the sum of what its digits stand for, shifted by the exponent.  *)
FloatsDenote ==
  Finished /\ goal.kind = "float" =>
    LET first    == IF CharAt(Signs, 0) THEN 1 ELSE 0
        point    == After(Digits, first)
        dotted   == CharAt({46}, point)
        last     == IF dotted THEN After(Digits, point + 1) ELSE point
        powered  == CharAt({69, 101}, last)
        from     == IF CharAt(Signs, last + 1) THEN last + 2 ELSE last + 1
        to       == After(Digits, from)
        power    == IF powered THEN SignOf(last + 1) * Denotes(10, from, to) ELSE 0
        digits   == {k \in (first + 1)..last : input[k] \in Digits}
        place(k) == power + (IF k <= point THEN point - k ELSE point + 1 - k)
        leading  == {k \in digits : input[k] # 48}
        number   == /\ point > first
                    /\ dotted => last > point + 1
                    /\ powered => to > from
                    /\ dotted \/ powered
        tooBig   == \/ powered /\ Denotes(10, from, to) > LLongMax
                    \/ \E k \in leading : place(k) >= DoubleExp
                    \/ leading # {} /\ \A k \in leading : place(k) <= -DoubleExp
    IN  /\ Threw <=> number /\ tooBig
        /\ Accepted <=> number /\ ~tooBig /\ EndsToken(IF powered THEN to ELSE last)
        /\ Accepted =>
             res.val[1] = SignOf(0) *
               MapThenSumSet(LAMBDA k : DigitValue(input[k]) * 10 ^ (place(k) - res.val[2]),
                             digits)

-----------------------------------------------------------------------------
(* Character and string literals                                            *)

(* The character at k follows an odd number of backslashes.                 *)
Escaped(k) ==
  Cardinality({j \in 2..(k - 1) : \A i \in j..(k - 1) : input[i] = 92}) % 2 = 1

Meaning(c) == CASE c = 110 -> 10 [] c = 114 -> 13 [] c = 116 -> 9
                [] c = 98 -> 8   [] c = 102 -> 12 [] OTHER   -> c

(* A literal ends at the first quote that is not escaped, however many      *)
(* backslashes stand before it, and its value is what is between, each      *)
(* escape read as the one character it stands for.                          *)
LiteralEndsAtItsQuote ==
  Finished /\ goal.kind \in {"char", "string"} =>
    LET quote   == IF goal.kind = "char" THEN 39 ELSE 34
        closing == {k \in 2..Len(input) : input[k] = quote /\ ~Escaped(k)}
        close   == CHOOSE k \in closing : \A j \in closing : k <= j
        units   == SetToSortSeq({k \in 2..(close - 1) : Escaped(k) \/ input[k] # 92}, <)
    IN  /\ Accepted <=> /\ CharAt({quote}, 0) /\ closing # {}
                        /\ goal.kind = "char" => Len(units) = 1
                        /\ EndsToken(close)
        /\ Accepted => res.val = [n \in DOMAIN units |->
                                    IF Escaped(units[n]) THEN Meaning(input[units[n]])
                                    ELSE input[units[n]]]

-----------------------------------------------------------------------------
(* Phrases of several tokens parse to the same value however much white     *)
(* space, comments included, stands between and behind the tokens.          *)
SpacingIsIrrelevant ==
  Finished /\ goal.kind = "phrase" =>
     Accepted /\ res.val = goal.value /\ res.st.index = Len(input)
=============================================================================
