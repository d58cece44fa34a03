--------------------------- MODULE MCParserMachine ---------------------------
(***************************************************************************)
(* ParserProperties on every grammar of a small shape and on some larger   *)
(* ones, over every input of up to three letters and some with newlines    *)
(* and tabs.                                                               *)
(***************************************************************************)
EXTENDS ParserProperties, SequencesExt

a == 97
b == 98
c == 99  \* left to client_token
MCCounted == {c}

-----------------------------------------------------------------------------
(* Parsers that never succeed without consuming input, and some that may.   *)
Consuming == {char_(a), string_(<< a, b >>), take_while1({b, NL}),
              try_parse(then(char_(a), char_(b))), client_token({c})}
MayBeEmpty == {pure(<< 1 >>), fail(<< 310 >>), take_while({a, TAB, NL}),
               tokens(<< a, TAB >>)}
Leaves == Consuming \cup MayBeEmpty

Unary(p) ==
  {label(p, << 311 >>), try_parse(p), look_ahead(p), not_followed_by(p), many(p),
   skip_many(p), many1(p), skip_many1(p), count(2, p), option(<< 2 >>, p),
   option_maybe(p), optional_(p), lazy("balanced")}

Binary(p, q) ==
  {both(p, q), then(p, q), skip(p, q), alt(p, q), choice(<< p, q, char_(b) >>)}

(* Loops without a guard of their own: q consumes input in every round.     *)
Loops(p, q) ==
  {sep_by(p, q), end_by(p, q), sep_end_by(p, q), chainl(p, q, << 2 >>),
   chainr(p, q, << 2 >>), many_till(q, p)}

Small == UNION {Unary(p) : p \in Leaves}
         \cup UNION {Binary(p, q) : p, q \in Leaves}
         \cup UNION {Loops(p, q) : p \in Leaves, q \in Consuming}

(* A choice inside a sequence inside a loop, where a flag or a State that   *)
(* one level gets wrong is acted on by another.                             *)
Inner == {char_(a), try_parse(then(char_(a), char_(b))), client_token({c}),
          pure(<< 1 >>), take_while({a, TAB, NL})}

Nested == UNION {
  {many(alt(then(q, p), r)), alt(then(p, q), then(p, r)),
   then(option(<< 2 >>, then(p, q)), r), sep_by(alt(p, r), q),
   choice(<< try_parse(skip(p, q)), label(both(p, r), << 311 >>), char_(b) >>),
   count(2, alt(p, then(r, q))), sep_end_by(then(p, optional_(r)), q),
   then(not_followed_by(then(p, r)), chainl1(q, client_token({c})))} :
  p, r \in Inner, q \in Inner \cap Consuming}

-----------------------------------------------------------------------------
(* The grammar of tests/test_prim.cpp's "lazy enables recursive parsers",   *)
(* with the letters a and b for the parentheses, and one left to the        *)
(* client's bind: the second letter must be the first.                      *)
Balanced == bind(char_(a), [fn |-> "inner"])

MCUserContinuation(k, v) ==
  CASE k.fn = "inner"  -> bind(optional_(lazy("balanced")), [fn |-> "close"])
    [] k.fn = "close"  -> map(char_(b), [fn |-> "unit"])
    [] k.fn = "same_again" -> tokens(v)

MCAnyChar == {a, b, c, NL, TAB}
MCUserTransform(f, v) == v
MCUserThrows(f, v) == FALSE
MCProduce == [producer \in {"balanced"} |-> Balanced]

Larger ==
  {bind(satisfy({a, b}), [fn |-> "same_again"]),
   between(char_(a), char_(b), many(client_token({c}))),
   many_till(satisfy({a, b}), string_(<< b, b >>)),
   then(many(alt(try_parse(string_(<< a, b >>)), client_token({c}))), eof),
   alt(then(client_token({c}), char_(a)), client_token({c})),
   alt(try_parse(then(client_token({c}), char_(a))), client_token({c})),
   then(look_ahead(client_token({c})), many(client_token({c}))),
   many(alt(then(char_(a), char_(b)), client_token({c}))),
   sep_end_by1(many1(char_(a)), alt(char_(b), client_token({c}))),
   choice(<< try_parse(both(char_(a), both(char_(a), char_(b)))),
             label(try_parse(then(char_(a), char_(b))), << 312 >>),
             skip(char_(a), not_followed_by(char_(a))) >>),
   chainr1(alt(char_(a), between(client_token({c}), client_token({c}), char_(a))),
           char_(b)),
   then(spaces, skip(take_while({a, TAB}), spaces)),
   block_comment(<< a, b >>, << b, a >>, TRUE),
   block_comment(<< a, TAB >>, << NL, a >>, FALSE)}

MCRoots == Small \cup Nested \cup Larger

(* many's body by way of the one parser that reports consumed input where   *)
(* it accepts the empty string.                                             *)
EmptyTextRoots == {skip_many(tokens(<< >>)), skip_many(string_(<< >>)),
                   then(char_(a), skip_many(string_(<< >>)))}

-----------------------------------------------------------------------------
MCInputs ==
  SeqOf({a, b}, 3)
  \cup {<< c >>, << c, a >>, << c, c, b >>, << a, c, b >>, << c, a, c >>,
        << a, NL, a >>, << a, TAB, a >>, << NL, b, TAB >>, << a, TAB, NL, a, TAB >>,
        << a, a, b, b >>, << a, b, a, b, a >>, << a, c, a, b >>,
        << a, b, a, b, TAB, b, a, b, a >>}
=============================================================================
