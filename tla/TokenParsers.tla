----------------------------- MODULE TokenParsers -----------------------------
(***************************************************************************)
(* TokenParser (include/parsecpp/token.hpp): the parsers its constructor   *)
(* makes of a LanguageDef, each an operator of the language.               *)
(*                                                                         *)
(* An int64_t is a sequence of its value, a double << m, e >> for m * 10^e. *)
(***************************************************************************)
EXTENDS Parsers, SequencesExt

CONSTANTS LLongMax,   \* std::numeric_limits<long long>::max()
          DoubleExp   \* 10^DoubleExp is beyond the range of double

ASSUME RangeAssumption == LLongMax \in Nat /\ DoubleExp \in Nat

(* The constructor throws std::invalid_argument on other languages.         *)
Constructible(lang) == (lang.comment_start = << >>) <=> (lang.comment_end = << >>)

-----------------------------------------------------------------------------
\* Mutant: the space between comments is skipped one stretch only.
WhiteSpaceOnce(lang) == optional_(skip_many1(space))

(* make_white_space *)
line_comment(marker) ==
  map(then(try_parse(string_(marker)), skip_many(satisfy(AnyChar \ {NL}))),
      [fn |-> "unit"])

white_space(lang) ==
  IF lang.comment_start = << >> /\ lang.comment_line = << >>
  THEN skip_many(space)
  ELSE skip_many(choice(
         << skip_many1(space) >>
         \o (IF lang.comment_line = << >> THEN << >>
             ELSE << line_comment(lang.comment_line) >>)
         \o (IF lang.comment_start = << >> THEN << >>
             ELSE << block_comment(lang.comment_start, lang.comment_end,
                                   lang.nested_comments) >>)))

lexeme(lang, p) == skip(p, white_space(lang))
symbol(lang, s) == lexeme(lang, string_(s))

semi(lang)  == symbol(lang, << 59 >>)
comma(lang) == symbol(lang, << 44 >>)
colon(lang) == symbol(lang, << 58 >>)
dot(lang)   == symbol(lang, << 46 >>)

parens(lang, p)   == between(symbol(lang, << 40 >>), symbol(lang, << 41 >>), p)
braces(lang, p)   == between(symbol(lang, << 123 >>), symbol(lang, << 125 >>), p)
angles(lang, p)   == between(symbol(lang, << 60 >>), symbol(lang, << 62 >>), p)
brackets(lang, p) == between(symbol(lang, << 91 >>), symbol(lang, << 93 >>), p)

semi_sep(lang, p)   == sep_by(p, semi(lang))
semi_sep1(lang, p)  == sep_by1(p, semi(lang))
comma_sep(lang, p)  == sep_by(p, comma(lang))
comma_sep1(lang, p) == sep_by1(p, comma(lang))

-----------------------------------------------------------------------------
(* Numbers *)
stoll(base) == [fn |-> "stoll", base |-> base]

decimal_p == map(take_while1(Digits), stoll(10))
hex_p     == map(then(one_of({88, 120}), take_while1(HexDigits)), stoll(16))
oct_p     == map(then(one_of({79, 111}), take_while1(OctDigits)), stoll(8))

decimal(lang)     == lexeme(lang, decimal_p)
hexadecimal(lang) == lexeme(lang, hex_p)
octal(lang)       == lexeme(lang, oct_p)

natural(lang) ==
  lexeme(lang,
    alt(then(char_(48), choice(<< hexadecimal(lang), octal(lang), decimal_p,
                                  pure(<< 0 >>) >>)),
        decimal_p))

negate == [fn |-> "negate"]

\* Mutant: the sign of a negative number is dropped.
IntegerUnsigned(lang) ==
  lexeme(lang, alt(then(one_of({43, 45}), natural(lang)), natural(lang)))

integer(lang) ==
  lexeme(lang, alt(alt(then(char_(45), map(natural(lang), negate)),
                       then(char_(43), natural(lang))),
                   natural(lang)))

fraction_p == then(char_(46), take_while1(Digits))
\* Mutant: an exponent has no sign.
ExponentUnsigned ==
  then(one_of({69, 101}), map(decimal_p, [fn |-> "exponent", sign |-> << >>]))

exponent_p ==
  then(one_of({69, 101}),
       bind(option(<< >>, map(one_of({43, 45}), [fn |-> "same"])),
            [fn |-> "exponent_digits"]))
float_val == bind(take_while1(Digits), [fn |-> "float_rest"])

float_(lang) ==
  lexeme(lang, alt(alt(then(char_(45), map(float_val, negate)),
                       then(char_(43), float_val)),
                   float_val))

-----------------------------------------------------------------------------
(* Characters and strings *)
escape(c, meaning) == map(char_(c), [fn |-> "means", value |-> << meaning >>])

escape_code ==
  then(char_(92), choice(<< escape(110, 10), escape(114, 13), escape(116, 9),
                            escape(92, 92), escape(34, 34), escape(39, 39),
                            escape(98, 8), escape(102, 12), any_char >>))

\* Mutant: a backslash is a character like any other.
QuotedCharNoEscapes(quote) == satisfy(AnyChar \ {quote})
quoted_char(quote) == alt(satisfy(AnyChar \ {quote, 92}), escape_code)

char_literal(lang) == lexeme(lang, between(char_(39), char_(39), quoted_char(39)))
string_literal(lang) ==
  lexeme(lang, between(char_(34), char_(34),
                       map(many(quoted_char(34)), [fn |-> "same"])))

-----------------------------------------------------------------------------
(* Words: identifiers of ident_start and ident_letter, operators of op_start *)
(* and op_letter, all that the letters allow, and not reserved.             *)
make_word(start, letters, reserved) ==
  bind(start, [fn |-> "word_letters", letters |-> letters, reserved |-> reserved])

make_identifier(lang) ==
  make_word(lang.ident_start, lang.ident_letter, lang.reserved_names)
make_operator(lang) ==
  make_word(lang.op_start, lang.op_letter, lang.reserved_op_names)

identifier(lang) == lexeme(lang, make_identifier(lang))
operator_(lang)  == lexeme(lang, make_operator(lang))

TextReserved == << 331 >>  \* unexpected reserved name 'name'
TextKeyword  == << 332 >>  \* reserved word 'name'

\* Mutant: a longer word that starts with the reserved one is taken for it.
MakeReservedAnywhere(name, letters) ==
  label(map(try_parse(string_(name)), [fn |-> "unit"]), TextKeyword \o name)

make_reserved_word(name, letters) ==
  label(map(try_parse(then(string_(name), not_followed_by(letters))), [fn |-> "unit"]),
        TextKeyword \o name)

reserved(lang, name)    == lexeme(lang, make_reserved_word(name, lang.ident_letter))
reserved_op(lang, name) == lexeme(lang, make_reserved_word(name, lang.op_letter))

-----------------------------------------------------------------------------
(* The functions given to map and bind above.                               *)
DigitValue(c) == CASE c \in Digits -> c - 48
                   [] c \in 65..70 -> c - 55
                   [] OTHER        -> c - 87

Numeral(base, digits) ==
  FoldLeft(LAMBDA n, c : base * n + DigitValue(c), 0, digits)

Mantissa(ds, frac) == Numeral(10, ds \o frac)
ExponentOf(exp)    == IF exp = << >> THEN 0 ELSE exp[1]

TokenTransform(f, v) ==
  CASE f.fn = "stoll"    -> << Numeral(f.base, v) >>
    [] f.fn = "negate"   -> << -v[1] >> \o Tail(v)
    [] f.fn = "means"    -> f.value
    [] f.fn = "exponent" -> IF f.sign = << 45 >> THEN << -v[1] >> ELSE v
    [] f.fn = "stod"     -> << Mantissa(f.ds, f.frac), ExponentOf(v) - Len(f.frac) >>

(* std::out_of_range: stoll on a number that int64_t does not hold, stod on  *)
(* one whose first digit stands for 10^DoubleExp or more, or for as small a *)
(* fraction (strtod reports underflow the same way).                        *)
Significant(digits) ==
  LET nonzero == {i \in DOMAIN digits : digits[i] # 48}
  IN  Cardinality({i \in DOMAIN digits : \E j \in nonzero : j <= i})

LeadingExponent(ds, frac, exp) ==
  Significant(ds \o frac) - 1 - Len(frac) + exp

OutOfRange(ds, frac, exp) ==
  /\ Significant(ds \o frac) > 0
  /\ LeadingExponent(ds, frac, exp) \notin (1 - DoubleExp)..(DoubleExp - 1)

TokenThrows(f, v) ==
  \/ f.fn = "stoll" /\ Numeral(f.base, v) > LLongMax
  \/ f.fn = "stod" /\ OutOfRange(f.ds, f.frac, ExponentOf(v))

FloatContinuation(k, v) ==
  CASE k.fn = "exponent_digits" -> map(decimal_p, [fn |-> "exponent", sign |-> v])
    [] k.fn = "float_rest" ->
         choice(<< bind(fraction_p, [fn |-> "fraction", ds |-> v]),
                   map(exponent_p, [fn |-> "stod", ds |-> v, frac |-> << >>]) >>)
    [] k.fn = "fraction" ->
         map(option(<< >>, exponent_p), [fn |-> "stod", ds |-> k.ds, frac |-> v])

WordContinuation(k, v) ==
  CASE k.fn = "word_letters" ->
         bind(many(k.letters), [fn |-> "word", head |-> v, reserved |-> k.reserved])
    [] k.fn = "word" ->
         IF k.head \o v \in k.reserved THEN fail(TextReserved \o k.head \o v)
         ELSE pure(k.head \o v)

TokenContinuation(k, v) ==
  IF k.fn \in {"word_letters", "word"} THEN WordContinuation(k, v)
  ELSE FloatContinuation(k, v)
=============================================================================
