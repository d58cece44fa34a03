------------------------------ MODULE ExprParsers ------------------------------
(***************************************************************************)
(* build_expression_parser (include/parsecpp/expr.hpp).  An operator's     *)
(* parser returns the operator's symbol in place of its function; the      *)
(* identity function of a missing prefix or postfix is the empty sequence. *)
(***************************************************************************)
EXTENDS Parsers

Infix(p, assoc) == [kind |-> "infix", parser |-> p, assoc |-> assoc]
Prefix(p)       == [kind |-> "prefix", parser |-> p]
Postfix(p)      == [kind |-> "postfix", parser |-> p]

TextNoOps     == << 340 >>
TextAmbiguous == << 341 >>  \* ambiguous use of a non-associative operator

(* What the functions of a prefix and a postfix operator make of a value.   *)
ApplyPrefix(f, x)  == IF f = << >> THEN x ELSE << 40 >> \o f \o x \o << 41 >>
ApplyPostfix(g, x) == IF g = << >> THEN x ELSE << 40 >> \o x \o g \o << 41 >>

ParsersOf(ops) == [i \in DOMAIN ops |-> ops[i].parser]

infix_of(ops, assoc) ==
  ParsersOf(SelectSeq(ops, LAMBDA op : op.kind = "infix" /\ op.assoc = assoc))

(* choice(prefix) | identity, and the same for postfix.                     *)
unary_or_identity(ops, kind) ==
  LET unary == ParsersOf(SelectSeq(ops, LAMBDA op : op.kind = kind))
  IN  IF unary = << >> THEN pure(<< >>) ELSE alt(choice(unary), pure(<< >>))

pre_parser(ops)  == unary_or_identity(ops, "prefix")
post_parser(ops) == unary_or_identity(ops, "postfix")

term_parser(ops, term) ==
  bind(pre_parser(ops), [fn |-> "level_term", term |-> term, post |-> post_parser(ops)])

\* Mutant: no operator is looked for behind a non-associative one's operands.
AmbigNever(ops) == fail(TextNoOps)

(* Any infix operator of the level.                                         *)
ambig_op(ops) ==
  IF infix_of(ops, "none") = << >> THEN fail(TextNoOps)
  ELSE try_parse(choice(infix_of(ops, "right") \o infix_of(ops, "left")
                        \o infix_of(ops, "none")))

(* result_parser, and after it at most one non-associative operator.        *)
once_more(ops, result_parser) ==
  LET none == infix_of(ops, "none")
  IN  IF none = << >> THEN result_parser
      ELSE bind(result_parser, [fn |-> "level_operator", op_n |-> choice(none),
                                operand |-> result_parser, ambig |-> ambig_op(ops)])

chain_left(ops, p)  == IF infix_of(ops, "left") = << >> THEN p
                       ELSE chainl1(p, choice(infix_of(ops, "left")))
chain_right(ops, p) == IF infix_of(ops, "right") = << >> THEN p
                       ELSE chainr1(p, choice(infix_of(ops, "right")))

\* Mutant: of one level's operators those that group to the right bind tightest.
MakeLevelRightFirst(ops, term) ==
  once_more(ops, chain_left(ops, chain_right(ops, term_parser(ops, term))))

make_level_parser(ops, term) ==
  once_more(ops, chain_right(ops, chain_left(ops, term_parser(ops, term))))

build_expression_parser(table, simple_term) ==
  LET level[k \in 0..Len(table)] ==
        IF k = 0 THEN simple_term ELSE make_level_parser(table[k], level[k - 1])
  IN  level[Len(table)]

-----------------------------------------------------------------------------
(* The lambdas given to bind above, the outer ones first.                   *)
ExprContinuation(k, v) ==
  CASE k.fn = "level_term" ->
         bind(k.term, [fn |-> "level_post", f |-> v, post |-> k.post])
    [] k.fn = "level_post" -> bind(k.post, [fn |-> "level_apply", f |-> k.f, x |-> v])
    [] k.fn = "level_apply" -> pure(ApplyPostfix(v, ApplyPrefix(k.f, k.x)))
    [] k.fn = "level_operator" ->
         alt(bind(k.op_n, [fn |-> "level_right", x |-> v, operand |-> k.operand,
                           ambig |-> k.ambig]),
             pure(v))
    [] k.fn = "level_right" ->
         bind(k.operand, [fn |-> "level_once", x |-> k.x, f |-> v, ambig |-> k.ambig])
    [] k.fn = "level_once" ->
         alt(bind(k.ambig, [fn |-> "level_ambiguous"]), pure(Apply(k.f, k.x, v)))
    [] k.fn = "level_ambiguous" -> fail(TextAmbiguous)

ExprFunctions == {"level_term", "level_post", "level_apply", "level_operator",
                  "level_right", "level_once", "level_ambiguous"}
=============================================================================
