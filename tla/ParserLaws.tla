------------------------------ MODULE ParserLaws ------------------------------
(***************************************************************************)
(* Two parsers run one after the other on the same input, the way the      *)
(* "Monad laws" test of tests/test_integration.cpp compares them.  The     *)
(* left side is what the library built by hand for speed (a loop, an       *)
(* inlined bind, a scan of the input), the right side what it stands for:  *)
(* the definition by bind, operator| and pure that Parsec has, here as an  *)
(* abstract specification of the result.                                   *)
(***************************************************************************)
EXTENDS ParserMachine

CONSTANT Laws  \* [left, right : parsers, errors : do the errors agree, too]

VARIABLES law,    \* the law under test
          first   \* the left parser's ParseResult, once it has returned

lawVars == << vars, law, first >>

LawInit ==
  /\ law \in Laws
  /\ InitOn(law.left)
  /\ first = << >>

RunRight ==
  /\ Finished
  /\ first = << >>
  /\ first' = << res >>
  /\ mode' = "call"
  /\ node' = law.right
  /\ st' = Initial
  /\ UNCHANGED << input, res, stack, law >>

LawNext ==
  \/ Step /\ UNCHANGED << law, first >>
  \/ RunRight
  \/ Finished /\ first # << >> /\ UNCHANGED lawVars

LawSpec == LawInit /\ [][LawNext]_lawVars

BothDone == Finished /\ first # << >>

(* The two parsers accept the same input with the same value, consume the   *)
(* same stretch of it and leave the same State, and they agree on whether   *)
(* they consumed: in every context one can stand for the other.             *)
SameParse ==
  BothDone =>
     LET l == first[1]
     IN  /\ l.ok = res.ok
         /\ l.consumed = res.consumed
         /\ l.ok => l.val = res.val /\ l.st = res.st

(* Where both fail they report the same messages at the same place.         *)
SameFailure ==
  BothDone /\ law.errors /\ ~res.ok /\ ~first[1].ok =>
     LET messages(e) == {e.messages[i] : i \in DOMAIN e.messages}
     IN  /\ first[1].err.pos = res.err.pos
         /\ messages(first[1].err) = messages(res.err)

-----------------------------------------------------------------------------
(* The definitions that stand on the right: a client could write them.      *)

PrependTo(p, v) == map(p, [fn |-> "prepend", head |-> v])

(* many p = p >>= \x -> (x :) <$> many p  <|>  return []                    *)
ManyByBind(p) == alt(bind(p, [fn |-> "many_rest", p |-> p]), pure(<< >>))

CountByBind(n, p) ==
  IF n = 0 THEN pure(<< >>) ELSE bind(p, [fn |-> "count_rest", n |-> n - 1, p |-> p])

SepEndBy1ByBind(p, sep) == bind(p, [fn |-> "sep_end_rest", p |-> p, sep |-> sep])
SepEndByByBind(p, sep)  == alt(SepEndBy1ByBind(p, sep), pure(<< >>))

(* rest x = do { f <- op; y <- p; rest (f x y) }  <|>  return x             *)
ChainlRest(p, op, x) ==
  alt(bind(op, [fn |-> "chainl_operand", p |-> p, op |-> op, x |-> x]), pure(x))
Chainl1ByBind(p, op) == bind(p, [fn |-> "chainl_rest", p |-> p, op |-> op])

(* rest x = do { f <- op; y <- chainr1 p op; return (f x y) }  <|>  return x *)
ChainrRest(p, op, x) ==
  alt(bind(op, [fn |-> "chainr_operand", p |-> p, op |-> op, x |-> x]), pure(x))
Chainr1ByBind(p, op) == bind(p, [fn |-> "chainr_rest", p |-> p, op |-> op])

(* scan = (end >> return [])  <|>  do { x <- p; (x :) <$> scan }            *)
ManyTillByBind(p, end) ==
  alt(then(end, pure(<< >>)), bind(p, [fn |-> "till", p |-> p, end |-> end]))

(* The continuations of the laws, those that call no other one first.       *)
PlainContinuation(k, v) ==
  CASE k.fn = "pure"  -> pure(v)
    [] k.fn = "only"  -> k.q
    [] k.fn = "keep"  -> then(k.q, pure(v))
    [] k.fn = "again" -> string_(v)
    [] k.fn = "twice" -> tokens(v \o v)

LawContinuation(k, v) ==
  CASE k.fn = "kleisli"        -> bind(PlainContinuation(k.f, v), k.g)
    [] k.fn = "many_rest"      -> PrependTo(ManyByBind(k.p), v)
    [] k.fn = "count_rest"     -> PrependTo(CountByBind(k.n, k.p), v)
    [] k.fn = "sep_end_rest"   ->
         alt(then(k.sep, PrependTo(SepEndByByBind(k.p, k.sep), v)), pure(v))
    [] k.fn = "chainl_rest"    -> ChainlRest(k.p, k.op, v)
    [] k.fn = "chainl_operand" ->
         bind(k.p, [fn |-> "chainl_fold", p |-> k.p, op |-> k.op, x |-> k.x, f |-> v])
    [] k.fn = "chainl_fold"    -> ChainlRest(k.p, k.op, Apply(k.f, k.x, v))
    [] k.fn = "chainr_rest"    -> ChainrRest(k.p, k.op, v)
    [] k.fn = "chainr_operand" ->
         bind(Chainr1ByBind(k.p, k.op), [fn |-> "chainr_fold", x |-> k.x, f |-> v])
    [] k.fn = "chainr_fold"    -> pure(Apply(k.f, k.x, v))
    [] k.fn = "till"           -> PrependTo(ManyTillByBind(k.p, k.end), v)
    [] OTHER                   -> PlainContinuation(k, v)

-----------------------------------------------------------------------------
Law(left, right)      == [left |-> left, right |-> right, errors |-> TRUE]
ParseLaw(left, right) == [left |-> left, right |-> right, errors |-> FALSE]

(* The same laws with eof after both sides, where an error that a success   *)
(* carried along is merged into the one reported.                           *)
BeforeEof(laws) == laws \cup {Law(skip(l.left, eof), skip(l.right, eof)) : l \in laws}

MonadLaws(p, f, g) == BeforeEof(
  {Law(bind(pure(<< 97 >>), f), PlainContinuation(f, << 97 >>)),
   Law(bind(p, [fn |-> "pure"]), p),
   Law(bind(bind(p, f), g), bind(p, [fn |-> "kleisli", f |-> f, g |-> g]))})

(* operator> and skip inline bind; both is bind and map.                    *)
SequenceLaws(p, q, r) == BeforeEof(
  {Law(then(p, q), bind(p, [fn |-> "only", q |-> q])),
   Law(skip(p, q), bind(p, [fn |-> "keep", q |-> q])),
   Law(both(both(p, q), r), both(p, both(q, r)))})

(* operator| associates and option(x, p) ends a chain of it.                *)
AlternativeLaws(p, q, r) == BeforeEof(
  {Law(alt(alt(p, q), r), alt(p, alt(q, r))),
   Law(alt(option(<< 2 >>, p), q), option(<< 2 >>, p))})

(* choice is a chain of operator|, except that it also keeps the errors of  *)
(* the alternatives before one that consumed, so not before eof.  An        *)
(* alternative that was taken back leaves no trace but its error.           *)
ChoiceLaws(p, q, r) ==
  {Law(choice(<< p, q, r >>), alt(p, alt(q, r))),
   ParseLaw(alt(try_parse(then(p, fail(<< 310 >>))), q), q)}

(* try_parse and look_ahead do nothing a second time; not_followed_by twice *)
(* is a look_ahead without the value.                                       *)
LookLaws(p) ==
  BeforeEof({Law(try_parse(try_parse(p)), try_parse(p)),
             Law(look_ahead(look_ahead(p)), look_ahead(p)),
             Law(then(optional_(look_ahead(try_parse(p))), p), p)})
  \cup {ParseLaw(not_followed_by(not_followed_by(p)),
                 map(try_parse(look_ahead(p)), [fn |-> "unit"]))}

(* The loops: p consumes, q may succeed without.                            *)
LoopLaws(p, q) == BeforeEof(
  {Law(many(p), ManyByBind(p)),
   Law(many1(p), bind(p, [fn |-> "many_rest", p |-> p])),
   Law(count(3, q), CountByBind(3, q)),
   Law(many_till(p, q), ManyTillByBind(p, q))})

(* These loops keep the errors of the last item only, so not before eof.    *)
SeparatedLaws(p, q) ==
  {Law(sep_end_by1(q, p), SepEndBy1ByBind(q, p)),
   Law(chainl1(q, p), Chainl1ByBind(q, p)),
   Law(chainr1(q, p), Chainr1ByBind(q, p))}

(* The scans of the input.                                                  *)
ScanLaws(S) ==
  {ParseLaw(take_while(S), many(satisfy(S))),
   ParseLaw(take_while1(S), many1(satisfy(S)))}
TextLaw(c, d) == ParseLaw(string_(<< c, d >>), try_parse(both(char_(c), char_(d))))
=============================================================================
