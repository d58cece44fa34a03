----------------------------- MODULE MCExpressions -----------------------------
(***************************************************************************)
(* Operator tables, the calculator and JSON on all short texts, on every   *)
(* somewhat longer text of their languages and on those with a character   *)
(* more.                                                                   *)
(***************************************************************************)
EXTENDS ExprProperties, Languages

a == 97

(* All texts of at most n pieces.                                           *)
TextsOf(pieces, n) ==
  LET texts[k \in 0..n] ==
        {<< >>} \cup (IF k = 0 THEN {} ELSE {p \o t : p \in pieces, t \in texts[k - 1]})
  IN  texts[n]

Chars(S) == {<< c >> : c \in S}

(* The texts of a language and, up to the length n to which it is known,    *)
(* those with one more piece.                                               *)
Near(pairs, pieces, n) ==
  TextsIn(pairs) \cup {m[1] \o p : m \in UpTo(n - 1, pairs), p \in pieces}

-----------------------------------------------------------------------------
(* Operators of one character.                                              *)
Op(op, c)   == Described(op, << c >>, {<< c >>})
In(c, assoc) == Op(Infix(char_(c), assoc), c)
Pre(c)      == Op(Prefix(char_(c)), c)
Post(c)     == Op(Postfix(char_(c)), c)

atom     == char_(a)
AtomOnly == {<< << a >>, << a >> >>}

(* One level with all associativities: ^ right, * and / left, = none.       *)
mixed == << << In(94, "right"), In(61, "none"), In(42, "left") >> >>
(* Unary operators, two of each, and an infix one on their level.           *)
unary == << << Post(33), In(43, "left"), Pre(45), Pre(35) >> >>
(* A prefix operator on a lower level, whose symbol is an infix one there   *)
(* too, and a non-associative operator below.                               *)
layered == << << In(42, "left") >>, << Pre(45), In(45, "left"), Post(33) >>,
              << In(61, "none") >> >>
(* Two levels and parentheses: the table of tests/test_expr.cpp.            *)
arithmetic == << << In(42, "left") >>, << In(43, "left") >> >>

(* With the token parsers: ** and * are reserved operators, blanks follow.  *)
py == python_style
Blanks == TextsOf(Chars({32}), 4)
Blanked(text) == {text \o b : b \in Blanks}
InToken(name, assoc) ==
  Described(Infix(map(reserved_op(py, name), means(name)), assoc), name, Blanked(name))
powers == << << InToken(op_power, "right") >>, << InToken(op_star, "left") >> >>

MixedMeaning   == TableMeaning(mixed, AtomOnly, 7)
UnaryMeaning   == TableMeaning(unary, AtomOnly, 6)
LayeredMeaning == TableMeaning(layered, AtomOnly, 6)
Enclosed(x)    == {<< << 40 >> \o m[1] \o << 41 >>, m[2] >> : m \in x}
NestedTable    == NestedMeaning(arithmetic, AtomOnly, Enclosed, 7, 2)
(* The operator of an inner level takes the first character of an outer     *)
(* one's, which is then never found.                                        *)
outer_power == Described(Infix(map(string_(op_power), means(op_power)), "left"), op_power, {})
shadowed == << << In(42, "left") >>, << outer_power, In(43, "left") >> >>
(* Reserved operators end before another operator letter, on any level.     *)
loose_powers == << << InToken(op_star, "left") >>, << InToken(op_power, "right") >> >>

Operands == {<< t, << a >> >> : t \in Blanked(<< a >>)}
ShadowedMeaning == TableMeaning(shadowed, AtomOnly, 5)
LooseMeaning    == TableMeaning(loose_powers, Operands, 6)
PowersMeaning  == TableMeaning(powers, Operands, 6)

Task(name, kind, parser, texts, none) ==
  [goal |-> [name |-> name, kind |-> kind, none |-> none], parser |-> parser,
   texts |-> texts]

Table(name, levels, term, texts, none) ==
  Task(name, "table", skip(build_expression_parser(TableOf(levels), term), eof),
       texts, none)

nested == alt(between(char_(40), char_(41), lazy("nested")), atom)

TableTasks ==
  {Table("mixed", mixed, atom,
         TextsOf(Chars({a, 94, 61, 42}), 4) \cup Near(MixedMeaning, Chars({61, 42, 94}), 7),
         {61}),
   Table("unary", unary, atom,
         TextsOf(Chars({a, 33, 43, 45}), 4) \cup Near(UnaryMeaning, Chars({33, 45}), 6), {}),
   Table("layered", layered, atom,
         TextsOf(Chars({a, 42, 45, 61}), 4) \cup Near(LayeredMeaning, Chars({45, 61}), 6),
         {61}),
   Table("arithmetic", arithmetic, nested,
         TextsOf(Chars({a, 42, 43, 40, 41}), 3) \cup Near(NestedTable, Chars({41, 43}), 7), {}),
   Table("powers", powers, lexeme(py, atom),
         TextsOf(Chars({a, 42, 32}), 5) \cup Near(PowersMeaning, Chars({42}), 6), {}),
   Table("shadowed", shadowed, atom, TextsOf(Chars({a, 42, 43}), 5), {}),
   Table("loose_powers", loose_powers, lexeme(py, atom),
         TextsOf(Chars({a, 42, 32}), 5) \cup Near(LooseMeaning, Chars({42}), 6), {})}

-----------------------------------------------------------------------------
(* The calculator.  A blank stands before an operand or before *.  DoubleExp *)
(* is 3: double holds what begins at the hundreds or behind, down to the    *)
(* hundredths.                                                              *)
spaced(pairs) == {<< b \o m[1], m[2] >> : b \in Blanks, m \in pairs}
CalcOp(c, texts) == Described(calc_op(c), << c >>, texts)
calculator_levels ==
  << << CalcOp(42, {b \o << 42 >> : b \in Blanks}), CalcOp(47, {<< 47 >>}) >>,
     << CalcOp(43, {<< 43 >>}), CalcOp(45, {<< 45 >>}) >> >>

CalcPieces  == TextsOf(Chars({49, DOT}), 5) \cup TextsOf(Chars({48, 49, DOT}), 4)
CalcSpelled == (CalcPieces \ {<< >>}) \cup {<< 48, DOT, 48, 48, 49 >>, << 48, DOT, 48, 49, DOT >>}
SpacedParens(x) == spaced({<< << 40 >> \o m[1] \o << 41 >>, m[2] >> : m \in x})
CalcMeaning ==
  NestedMeaning(calculator_levels, spaced(CalcNumbers(CalcSpelled, 5)), SpacedParens, 5, 1)
  \cup NestedMeaning(calculator_levels, spaced(CalcNumbers(TextsOf(Chars({49, DOT}), 2), 2)),
                      SpacedParens, 6, 1)
  \cup NestedMeaning(calculator_levels, {<< << 49 >>, << 49 >> >>}, Enclosed, 7, 2)

CalcTexts ==
  TextsOf(Chars({49, DOT, 42, 43, 32}), 4) \cup TextsOf(Chars({49, 40, 41, 32, 45}), 4)
  \cup TextsOf(Chars({48, 49, DOT}), 4)
  \cup {m[1] : m \in {n \in UpTo(5, CalcMeaning) :
                        {48, DOT} \cap {n[1][i] : i \in DOMAIN n[1]} = {}}}
  \cup {<< 49, 32, 47, 49 >>, << 49, 32, 42, 49, 45 >>, << 48, DOT, 48, 48, 49 >>}
  \cup {pre \o ones \o post : pre \in {<< 40 >>, << 49, 43 >>, << 49, 32, 42 >>, << 40, 49, 43 >>,
                                         << 41 >>, << 49, 32, 43 >>, << 49, 41 >>},
                               ones \in {<< 49, 49, 49, 49 >>, << DOT >>},
                               post \in {<< >>, << 41 >>, << 42 >>, << 43, 49 >>}}

-----------------------------------------------------------------------------
(* JSON *)
j_null  == << 110, 117, 108, 108 >>
j_true  == << 116, 114, 117, 101 >>
j_false == << 102, 97, 108, 115, 101 >>

digits1 == {<< 48 >>, << 49 >>, << 48, 49 >>, << 49, 48 >>}
ones4   == << 49, 49, 49, 49 >>
number_texts ==
  JsonNumbers(digits1 \cup {ones4}, digits1 \cup {<< 48, 48, 49 >>},
              {<< 48 >>, << 49 >>, << 48, 49 >>, << 49, 49 >>}, 7)

json_strings ==
  {<< << 34, 34 >>, << 34, 34 >> >>, << << 34, a, 34 >>, << 34, a, 34 >> >>,
   << << 34, 92, 110, 34 >>, << 34, NL, 34 >> >>,
   << << 34, 92, 34, 34 >>, << 34, 34, 34 >> >>,
   << << 34, 92, 47, a, 34 >>, << 34, 47, a, 34 >> >>}

json_scalars ==
  {<< j_null, << 110 >> >>, << j_true, << 116 >> >>, << j_false, << 102 >> >>}
  \cup json_strings \cup {<< m.text, << 35 >> \o m.text >> : m \in {k \in number_texts : k.held}}

ScalarMeaning == JsonMeaning(json_scalars, {}, {<< >>}, 7, 0)
ones == {<< t, << 35 >> \o t >> : t \in TextsOf(Chars({49}), 2) \ {<< >>}}
ArrayMeaning  == JsonMeaning(ones, {}, TextsOf(Chars({32}), 2), 6, 2)
one == {<< << 49 >>, << 35, 49 >> >>}
ObjectMeaning ==
  JsonMeaning(one, Itself({<< 34, 34 >>, << 34, a, 34 >>}), TextsOf(Chars({32}), 2), 9, 1)
MembersMeaning == JsonMeaning(one, Itself({<< 34, 34 >>}), {<< >>, << 32 >>}, 12, 1)
NestedJson     == JsonMeaning(one, Itself({<< 34, 34 >>}), {<< >>}, 7, 2)
small_power    == ones4 \o << 101, 45, 49 >>
PowerMeaning   == JsonMeaning({<< small_power, << 35 >> \o small_power >>},
                              Itself({<< 34, 34 >>}), {<< >>}, 12, 1)
AllJson ==
  UNION {ScalarMeaning, ArrayMeaning, ObjectMeaning, MembersMeaning, NestedJson, PowerMeaning}

JsonTexts ==
  {t \in TextsIn(ScalarMeaning) \cup {m.text : m \in number_texts} : Len(t) <= 5}
  \cup {ones4 \o t : t \in {<< 101, 49 >>, << 101, 45, 49 >>, << DOT >>, << 101 >>, << a >>,
                            << 44 >>, << 32, 93 >>}}
  \cup {<< 91 >> \o t : t \in {ones4, ones4 \o << 101, 49 >>, << 49, 44 >> \o ones4,
                                << 49, 32 >> \o ones4}}
  \cup {<< 123, 34, 34, 58 >> \o ones4 \o t : t \in {<< >>, << 125 >>, << 101, 45, 49, 125 >>}}
  \cup TextsIn(ArrayMeaning)
  \cup {<< 91 >> \o t : t \in TextsOf(Chars({91, 93, 44, 49, 32}), 3)}
  \cup {<< 123 >> \o t : t \in TextsOf({<< 125 >>, << 34, a, 34, 58 >>, << 44 >>, << 49 >>,
                                        << 32 >>}, 3)}
  \cup {<< 34 >> \o t : t \in TextsOf({<< 34 >>, << 92, 110 >>, << 92 >>, << a >>}, 2)}
  \cup {<< 110, 117, 108 >>, << 45 >>, << 49, 101 >>, << 49, DOT >>, << 49, 101, 49, 49 >>,
        << 116, 114, 117, 101, 102 >>}
  \cup {<< 123, 34, 34, 58, 49 >> \o t \o << 34, 34, 58, 49, 125 >> :
          t \in {<< 44 >>, << 32, 44 >>, << 44, 32 >>}}

-----------------------------------------------------------------------------
AllMeanings ==
  [name \in {"mixed", "unary", "layered", "arithmetic", "powers", "shadowed", "loose_powers",
             "calculator", "json"} |->
     CASE name = "mixed"      -> MixedMeaning
       [] name = "unary"      -> UnaryMeaning
       [] name = "layered"    -> LayeredMeaning
       [] name = "arithmetic" -> NestedTable
       [] name = "powers"     -> PowersMeaning
       [] name = "shadowed"   -> ShadowedMeaning
       [] name = "loose_powers" -> LooseMeaning
       [] name = "calculator" -> CalcMeaning
       [] name = "json"       -> AllJson]

AllTasks ==
  TableTasks \cup {Task("calculator", "calculator", calculator, CalcTexts, {}),
                   Task("json", "json", json_parser, JsonTexts, {})}
AllTexts == UNION {task.texts : task \in AllTasks}
AllChars == {NL} \cup 32..62 \cup {91, 92, 93, 94, 95} \cup 97..122 \cup {123, 125}
AllProducers ==
  [producer \in {"nested", "expr", "json_value"} |->
     CASE producer = "nested"     ->
            build_expression_parser(TableOf(arithmetic), nested)
       [] producer = "expr"       -> expr
       [] producer = "json_value" -> json_value]

AllNumbers ==
  [name \in {"calculator", "json"} |->
     IF name = "calculator" THEN CalcSpelled ELSE {m.text : m \in number_texts}]

(* Every text has one meaning.                                              *)
ASSUME \A name \in DOMAIN AllMeanings :
         Cardinality(AllMeanings[name]) = Cardinality(TextsIn(AllMeanings[name]))

MCMeaning == AllMeanings
MCNumbers == AllNumbers
MCTasks   == AllTasks
MCInputs  == AllTexts
MCAnyChar == AllChars
MCProduce == AllProducers
MCCounted == {}
MCRoots   == {}

MCUserContinuation(k, v) ==
  IF k.fn \in ExprFunctions THEN ExprContinuation(k, v) ELSE ExampleContinuation(k, v)
MCUserTransform(f, v) ==
  IF f.fn \in ExampleTransforms THEN ExampleTransform(f, v) ELSE TokenTransform(f, v)
MCUserThrows(f, v) == ExampleThrows(f, v)
=============================================================================
