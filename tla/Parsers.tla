------------------------------- MODULE Parsers -------------------------------
(***************************************************************************)
(* Parser values.  A C++ Parser<T> holds a closure; here it is the record  *)
(* of what the factory function captured, tagged with the factory's name,  *)
(* and ParserMachine gives each tag its behaviour.  Parsers the library    *)
(* defines by composing others (between, sep_by, eof, ...) are operators   *)
(* that compose records the same way.                                      *)
(*                                                                         *)
(* The lambdas the library passes to bind and map are records too:         *)
(* `continue' and `transform' apply them.                                  *)
(*                                                                         *)
(* Values are flattened to what they spell: a char is a one-element        *)
(* sequence, a vector the concatenation of its items, a monostate the      *)
(* empty sequence, a binary operator's function the operator's symbol.     *)
(***************************************************************************)
EXTENDS ParseError

CONSTANTS AnyChar,                 \* the chars that texts are made of
          UserContinuation(_, _),  \* the lambdas a client passes to bind,
          UserTransform(_, _),     \* those it passes to map,
          UserThrows(_, _)         \* and which of the latter throw on a value

-----------------------------------------------------------------------------
(* Message texts: each fixed wording is one code, outside the characters.  *)
Quote(s)           == << 39 >> \o s \o << 39 >>
EndOfInput         == << >>
TextEmptyMany      == << 301 >>  \* many: ... accepts an empty string.
TextNoAlternatives == << 302 >>
TextToken          == << 303 >>
TextEof            == << 304 >>  \* end of input
TextWhiteSpace     == << 305 >>
TextSpace          == << 306 >>
TextEndInComment   == << 307 >>
TextOneOf          == << 308 >>
TextNoneOf         == << 309 >>
TextDigit          == << 320 >>
TextHexDigit       == << 321 >>
TextOctDigit       == << 322 >>
TextLetter         == << 323 >>
TextAlphaNum       == << 324 >>
TextUpper          == << 325 >>
TextLower          == << 326 >>
TextNewline        == << 327 >>
TextCrlf           == << 328 >>
TextEndOfLine      == << 329 >>
TextTab            == << 330 >>

(* The C locale's character classes: isspace, isdigit, isxdigit, isupper,   *)
(* islower, of the chars there are.  A char is its code.                    *)
CR         == 13
WhiteChars == AnyChar \cap {9, 10, 11, 12, 13, 32}
Digits     == AnyChar \cap 48..57
OctDigits  == AnyChar \cap 48..55
Uppers     == AnyChar \cap 65..90
Lowers     == AnyChar \cap 97..122
HexDigits  == Digits \cup (AnyChar \cap (65..70 \cup 97..102))

-----------------------------------------------------------------------------
(* parser.hpp: the members of Parser<T>.                                   *)
bind(p, k)    == [op |-> "bind", p |-> p, k |-> k]
then(p, q)    == [op |-> "then", p |-> p, q |-> q]   \* operator>
skip(p, q)    == [op |-> "skip", p |-> p, q |-> q]
map(p, f)     == [op |-> "map", p |-> p, f |-> f]
label(p, msg) == [op |-> "label", p |-> p, msg |-> msg]
alt(p, q)     == [op |-> "alt", p |-> p, q |-> q]    \* operator|

(* operator&: both values, the first closed over by the second's map.      *)
both(p, q) == bind(p, [fn |-> "pair", q |-> q])

-----------------------------------------------------------------------------
(* prim.hpp *)
pure(v)         == [op |-> "pure", value |-> v]
fail(msg)       == [op |-> "fail", msg |-> msg]
token_prim(S)   == [op |-> "token_prim", accepts |-> S]
try_parse(p)    == [op |-> "try_parse", p |-> p]
look_ahead(p)   == [op |-> "look_ahead", p |-> p]
tokens(s)       == [op |-> "tokens", str |-> s]
take_while(S)   == [op |-> "take_while", accepts |-> S]
take_while1(S)  == [op |-> "take_while1", accepts |-> S]
lazy(producer)  == [op |-> "lazy", producer |-> producer]

(* A client's own parser, through Parser's public constructor: a token_prim *)
(* that also counts in the user state.                                      *)
client_token(S) == [op |-> "client_token", accepts |-> S]

(* keep says whether acc_fn appends the item or drops it.                  *)
many_accum(keep, p, acc) ==
  [op |-> "many_accum", keep |-> keep, p |-> p, acc |-> acc]

many(p)       == many_accum(TRUE, p, << >>)
skip_many(p)  == many_accum(FALSE, p, << >>)
many1(p)      == bind(p, [fn |-> "many_accum", p |-> p])
skip_many1(p) == map(then(p, skip_many(p)), [fn |-> "unit"])

-----------------------------------------------------------------------------
(* char.hpp *)
satisfy(S) == token_prim(S)
char_(c)   == label(satisfy({c}), Quote(<< c >>))
string_(s) == label(tokens(s), Quote(s))
any_char   == satisfy(AnyChar)
one_of(S)  == label(satisfy(AnyChar \cap S), TextOneOf)
none_of(S) == label(satisfy(AnyChar \ S), TextNoneOf)

digit      == label(satisfy(Digits), TextDigit)
hex_digit  == label(satisfy(HexDigits), TextHexDigit)
oct_digit  == label(satisfy(OctDigits), TextOctDigit)
letter     == label(satisfy(Uppers \cup Lowers), TextLetter)
alpha_num  == label(satisfy(Uppers \cup Lowers \cup Digits), TextAlphaNum)
upper      == label(satisfy(Uppers), TextUpper)
lower      == label(satisfy(Lowers), TextLower)
space      == label(satisfy(WhiteChars), TextSpace)
spaces     == label(skip_many(space), TextWhiteSpace)

newline     == label(char_(NL), TextNewline)
crlf        == label(then(char_(CR), char_(NL)), TextCrlf)
end_of_line == label(alt(newline, crlf), TextEndOfLine)
tab         == label(char_(TAB), TextTab)

-----------------------------------------------------------------------------
(* combinator.hpp *)
choice(ps) ==
  IF ps = << >> THEN fail(TextNoAlternatives) ELSE [op |-> "choice", ps |-> ps]

count(n, p) ==
  IF n <= 0 THEN pure(<< >>) ELSE [op |-> "count", n |-> n, p |-> p]

sep_end_by1(p, sep)    == [op |-> "sep_end_by1", p |-> p, sep |-> sep]
chainl1(p, operator)   == [op |-> "chainl1", p |-> p, operator |-> operator]
scan_op_chain(p, operator) ==
  [op |-> "scan_op_chain", p |-> p, operator |-> operator]
not_followed_by(p)     == [op |-> "not_followed_by", p |-> p]
many_till(p, end)      == [op |-> "many_till", p |-> p, end |-> end]

between(open, close, p) == skip(then(open, p), close)
option(default, p)      == alt(p, pure(default))
option_maybe(p)         == alt(map(p, [fn |-> "same"]), pure(<< >>))
optional_(p)            == alt(map(p, [fn |-> "unit"]), pure(<< >>))
sep_by1(p, sep)         == bind(p, [fn |-> "sep_rest", p |-> p, sep |-> sep])
sep_by(p, sep)          == alt(sep_by1(p, sep), pure(<< >>))
end_by1(p, sep)         == many1(skip(p, sep))
end_by(p, sep)          == many(skip(p, sep))
sep_end_by(p, sep)      == alt(sep_end_by1(p, sep), pure(<< >>))
chainl(p, operator, default) == alt(chainl1(p, operator), pure(default))
chainr1(p, operator)    == map(scan_op_chain(p, operator), [fn |-> "fold_right"])
chainr(p, operator, default) == alt(chainr1(p, operator), pure(default))
any_token               == token_prim(AnyChar)
eof                     == label(not_followed_by(any_token), TextEof)

-----------------------------------------------------------------------------
(* The lambda of token.hpp's block comments: the start marker, then a loop   *)
(* that counts nesting until the end marker of the outermost comment.  The   *)
(* markers are never empty where it is used.                                 *)
comment_rest(start, end, nested) ==
  [op |-> "comment_rest", nested |-> nested,
   start_p |-> try_parse(string_(start)), end_p |-> try_parse(string_(end)),
   scan_non_markers |-> skip_many1(none_of({start[1], end[1]})),
   scan_one_marker |-> one_of({start[1], end[1]})]

block_comment(start, end, nested) ==
  then(try_parse(string_(start)), comment_rest(start, end, nested))

-----------------------------------------------------------------------------
(* What a binary operator's function makes of its operands: their          *)
(* spelling in parentheses, which shows how they were grouped.             *)
Apply(f, x, y) == << 40 >> \o x \o f \o y \o << 41 >>

(* An OpChain: v1 op1 v2 ... vn, with a mark between the spellings.         *)
Mark == 0
ChainOn(chain, f, v) == chain \o << Mark >> \o f \o << Mark >> \o v

ChainItems(chain) ==
  LET marks == {i \in DOMAIN chain : chain[i] = Mark}
      start == {0} \cup marks
      nth(k) == CHOOSE i \in start : Cardinality({j \in start : j < i}) = k - 1
      stop(i) == CHOOSE j \in i..Len(chain) :
                    /\ \A n \in (i + 1)..j : chain[n] # Mark
                    /\ j = Len(chain) \/ chain[j + 1] = Mark
  IN  [k \in 1..Cardinality(start) |-> SubSeq(chain, nth(k) + 1, stop(nth(k)))]

\* Mutant: the chain is folded from the left.
FoldChainLeft(chain) ==
  LET item == ChainItems(chain)
      at[i \in DOMAIN item] ==
        IF i = 1 THEN item[1]
        ELSE IF i % 2 = 0 THEN << >>
        ELSE Apply(item[i - 1], at[i - 2], item[i])
  IN  at[Len(item)]

(* chainr1's fold, from the last value to the first.                       *)
FoldChain(chain) ==
  LET item == ChainItems(chain)
      from[i \in DOMAIN item] ==
        IF i = Len(item) THEN item[i]
        ELSE IF i % 2 = 0 THEN << >>
        ELSE Apply(item[i + 1], item[i], from[i + 2])
  IN  from[1]

(* The functions the library passes to map.                                *)
transform(f, v) ==
  CASE f.fn = "same"       -> v
    [] f.fn = "unit"       -> << >>
    [] f.fn = "prepend"    -> f.head \o v
    [] f.fn = "fold_right" -> FoldChain(v)
    [] OTHER               -> UserTransform(f, v)

(* The parsers the functions the library passes to bind go on with.        *)
continue(k, v) ==
  CASE k.fn = "many_accum" -> many_accum(TRUE, k.p, v)
    [] k.fn = "sep_rest"   -> map(many(then(k.sep, k.p)), [fn |-> "prepend", head |-> v])
    [] k.fn = "pair"       -> map(k.q, [fn |-> "prepend", head |-> v])
    [] OTHER               -> UserContinuation(k, v)
=============================================================================
