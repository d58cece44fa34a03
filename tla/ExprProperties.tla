---------------------------- MODULE ExprProperties ----------------------------
(***************************************************************************)
(* What an operator table stands for, as a set of pairs of a text and the  *)
(* value it means, built up from the operands by the grammar the table     *)
(* describes; and that build_expression_parser accepts these texts, those  *)
(* only, each with its value.                                              *)
(*                                                                         *)
(* The same for the grammars of the example programs.                      *)
(***************************************************************************)
EXTENDS ParserTasks, Examples

CONSTANTS Meaning,  \* of each language's name, the set of its << text, value >>
          Numbers   \* of each example's, all that a number may be spelled as

(* An operator of a table, the value its parser returns and the texts that   *)
(* spell it.                                                                *)
Described(op, value, texts) == [op |-> op, value |-> value, texts |-> texts]

TableOf(levels) ==
  [k \in DOMAIN levels |-> [i \in DOMAIN levels[k] |-> levels[k][i].op]]

(* << text, value >> of some operators of one level.                        *)
Spelled(level, Is(_)) ==
  UNION {{<< text, level[i].value >> : text \in level[i].texts} :
           i \in {j \in DOMAIN level : Is(level[j].op)}}

UpTo(n, pairs) == {m \in pairs : Len(m[1]) <= n}

(* x, or x between a prefix and a postfix operator, or with one of them; the *)
(* prefix binds tighter.                                                    *)
Terms(x, pre, post) ==
  LET prefixed == x \cup {<< o[1] \o m[1], ApplyPrefix(o[2], m[2]) >> : o \in pre, m \in x}
  IN  prefixed \cup
      {<< m[1] \o o[1], ApplyPostfix(o[2], m[2]) >> : o \in post, m \in prefixed}

Joined(l, ops, r, n) ==
  UpTo(n, {<< x[1] \o o[1] \o y[1], Apply(o[2], x[2], y[2]) >> :
             x \in UpTo(n - 2, l), o \in ops, y \in UpTo(n - 2, r)})

LeftGroups(term, ops, n) ==
  LET left[d \in 0..n] ==
        IF d = 0 THEN term ELSE term \cup Joined(left[d - 1], ops, term, n)
  IN  left[n \div 2]

RightGroups(term, ops, n) ==
  LET right[d \in 0..n] ==
        IF d = 0 THEN term ELSE term \cup Joined(term, ops, right[d - 1], n)
  IN  right[n \div 2]

AtMostOne(term, ops, n) == term \cup Joined(term, ops, term, n)

(* Left-associative operators group to the left and bind tightest within a  *)
(* level, then those that group to the right, then at most one that does    *)
(* not group at all.                                                        *)
LevelMeaning(level, x, n) ==
  LET infix(assoc) ==
        Spelled(level, LAMBDA op : op.kind = "infix" /\ op.assoc = assoc)
      unary(kind) == Spelled(level, LAMBDA op : op.kind = kind)
      lefts == LeftGroups(UpTo(n, Terms(x, unary("prefix"), unary("postfix"))),
                          infix("left"), n)
  IN  AtMostOne(RightGroups(lefts, infix("right"), n), infix("none"), n)

(* What the texts of at most n characters mean.                             *)
TableMeaning(levels, operands, n) ==
  LET upto[k \in 0..Len(levels)] ==
        IF k = 0 THEN UpTo(n, operands) ELSE LevelMeaning(levels[k], upto[k - 1], n)
  IN  upto[Len(levels)]

(* With operands that are such texts in parentheses, at most `depth' deep.   *)
NestedMeaning(levels, operands, Enclosed(_), n, depth) ==
  LET within[d \in 0..depth] ==
        TableMeaning(levels,
                     operands \cup (IF d = 0 THEN {} ELSE Enclosed(within[d - 1])), n)
  IN  within[depth]

TextsIn(pairs) == {m[1] : m \in pairs}

-----------------------------------------------------------------------------
Means(name) ==
  /\ Accepted => << input, res.val >> \in Meaning[name]
  /\ ~Accepted => input \notin TextsIn(Meaning[name])

(* build_expression_parser, with eof behind it, accepts exactly the texts   *)
(* of the table's language, and groups every one as the table says: by      *)
(* precedence between levels, by associativity within one, prefix and       *)
(* postfix operators nearest, although it never looks ahead for any of it   *)
(* and an operator's symbol may also be a prefix or another level's.        *)
MeansWhatTheTableSays ==
  Finished /\ goal.kind = "table" => Means(goal.name)

(* A second non-associative operator after a complete `x op y' is reported  *)
(* as ambiguous, behind that operator, not as an operator that is out of    *)
(* place.                                                                   *)
AmbiguityIsReported ==
  Rejected /\ goal.kind = "table" =>
    \A i \in DOMAIN input :
       /\ input[i] \in goal.none
       /\ \E j \in 1..(i - 1) : input[j] \in goal.none
       /\ \E m \in Meaning[goal.name] : m[1] = SubSeq(input, 1, i - 1)
       => res.err = with_message(PosAt(input, i), Msg, TextAmbiguous)

(* A number stands where the language takes an operand, and goes no further, *)
(* but is no text of the language: it has no digit before its second dot, or *)
(* double does not hold it.  An operand is taken where a bracket may open.  *)
Breaks(name, bracket) ==
  \E i \in DOMAIN input : \E j \in i..Len(input) :
     /\ SubSeq(input, i, j) \in Numbers[name] \ TextsIn(Meaning[name])
     /\ j < Len(input) => \A t \in Numbers[name] : ~IsPrefix(SubSeq(input, i, j + 1), t)
     /\ \E m \in Meaning[name] : IsPrefix(Append(SubSeq(input, 1, i - 1), bracket), m[1])

(* What the calculator takes as it is written: the usual expressions, with  *)
(* blanks before an operand or a parenthesis and, since its operators are   *)
(* `spaces() > char_' and the first of a choice commits to the blanks,      *)
(* before * alone (BlanksAreTaken says what is promised instead).  It       *)
(* throws exactly where it reaches a number that stod refuses, before it    *)
(* sees whether the rest is an expression.                                  *)
CalculatorMeans ==
  Finished /\ goal.kind = "calculator" =>
     /\ Means("calculator")
     /\ Threw <=> Breaks("calculator", 40)

(* What json_parser takes as it is written: JSON, with no blank before the  *)
(* comma behind a member of an object (BlanksAreTaken says what is promised *)
(* instead), leading zeros, and any character in a key.  It throws exactly  *)
(* where it reaches a number that double does not hold.                     *)
JsonMeans ==
  Finished /\ goal.kind = "json" =>
     /\ Means("json")
     /\ Threw <=> Breaks("json", 91)

BLANK == 32
Unblanked(text) == SelectSeq(text, LAMBDA c : c # BLANK)

(* Every blank of the input stands between two other characters, and one of *)
(* the two is a mark.                                                       *)
BlanksNextTo(marks) ==
  \A i \in DOMAIN input : input[i] = BLANK =>
    \E l \in 1..(i - 1), r \in (i + 1)..Len(input) :
       /\ BLANK \notin {input[l], input[r]}
       /\ \A k \in (l + 1)..(r - 1) : input[k] = BLANK
       /\ marks \cap {input[l], input[r]} # {}

(* Where a blank may stand: around operators and parentheses, and on either  *)
(* side of JSON's punctuation.                                              *)
Marks(name) ==
  IF name = "calculator" THEN {40, 41, 42, 43, 45, 47} ELSE {44, 58, 91, 93, 123, 125}

(* README.md:51 and 54: "Interactive calculator -- enter arithmetic         *)
(* expressions, get results", "JSON parser -- reads JSON from stdin and     *)
(* prints the parsed structure".  What an example takes without blanks is   *)
(* an expression, or JSON, with blanks beside its marks too.                *)
BlanksAreTaken ==
  Finished /\ goal.kind \in {"calculator", "json"}
     /\ Unblanked(input) \in TextsIn(Meaning[goal.kind])
     /\ BlanksNextTo(Marks(goal.kind)) => Accepted

-----------------------------------------------------------------------------
(* The texts and values of the examples' languages.                         *)

(* Double holds a number whose first digit other than 0 does not stand too  *)
(* far from the ones; n of the digits stand before the dot.                 *)
DoubleHolds(digits, n, power) ==
  \A i \in DOMAIN digits :
     /\ digits[i] # 48 /\ \A k \in 1..(i - 1) : digits[k] = 48
     => n - i + power \in -(DoubleExp - 1)..(DoubleExp - 1)

(* Digits with at most one dot; stod leaves what follows a second one.       *)
CalcNumbers(pieces, n) ==
  LET dots(t)   == {i \in DOMAIN t : t[i] = DOT}
      before(t) == IF dots(t) = {} THEN Len(t) ELSE (CHOOSE i \in dots(t) : TRUE) - 1
      digits(t) == SelectSeq(t, LAMBDA c : c # DOT)
      proper    == {t \in pieces : /\ Cardinality(dots(t)) <= 1 /\ digits(t) # << >>
                                   /\ DoubleHolds(digits(t), before(t), 0)}
  IN  UpTo(n, {<< t, t >> : t \in proper}
              \cup {<< t \o << DOT >> \o s, t >> :
                       t \in {p \in proper : dots(p) # {}}, s \in pieces \cup {<< >>}})

(* A text behind another; texts that mean nothing, and that mean themselves. *)
Then(l, r) == {<< x[1] \o y[1], x[2] \o y[2] >> : x \in l, y \in r}
Mute(texts) == {<< t, << >> >> : t \in texts}
Itself(texts) == {<< t, t >> : t \in texts}

(* A number of JSON, from its parts, and all of at most n characters.       *)
JsonNumber(sign, ints, frac, exp) ==
  [text |-> sign \o ints \o (IF frac = << >> THEN << >> ELSE << DOT >> \o frac)
            \o (IF exp.digits = << >> THEN << >> ELSE << 101 >> \o exp.sign \o exp.digits),
   held |-> DoubleHolds(ints \o frac, Len(ints),
              IF exp.sign = << 45 >> THEN -Numeral(10, exp.digits)
              ELSE Numeral(10, exp.digits))]

JsonNumbers(ints, fracs, powers, n) ==
  LET exps == [sign : {<< >>, << 43 >>, << 45 >>}, digits : powers]
              \cup {[sign |-> << >>, digits |-> << >>]}
  IN  {m \in {JsonNumber(s, d, f, e) : s \in {<< >>, << 45 >>}, d \in ints,
                                       f \in fracs \cup {<< >>}, e \in exps} :
         Len(m.text) <= n}

(* Values of at most n characters and depth d; scalars are given.           *)
JsonMeaning(scalars, keys, blanks, n, depth) ==
  LET blank == Mute(blanks)
      then_(l, r) == UpTo(n, Then(l, r))
      mark(c) == Mute({<< c >>})
      spelled(c) == Itself({<< c >>})
      list(one) ==
        LET some[k \in 1..n] ==
              IF k = 1 THEN one
              ELSE one \cup then_(one, then_(mark(44), some[k - 1]))
        IN  some[n \div 2]
      enclosed(open, inner, close) ==
        then_(spelled(open), then_(blank, then_(inner, then_(blank, spelled(close)))))
      nothing == Mute({<< >>})
      value[d \in 0..depth] ==
        IF d = 0 THEN UpTo(n, scalars)
        ELSE LET item   == then_(blank, then_(value[d - 1], blank))
                 member == then_(blank, then_(keys,
                             then_(blank, then_(spelled(58), then_(blank, value[d - 1])))))
             IN  value[d - 1]
                 \cup enclosed(91, nothing \cup list(item), 93)
                 \cup enclosed(123, nothing \cup list(member), 125)
  IN  then_(blank, then_(value[depth], blank))
=============================================================================
