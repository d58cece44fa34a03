----------------------------- MODULE MCParserLaws -----------------------------
(***************************************************************************)
(* The laws over a few parsers of every kind, those that consume, that may *)
(* not, that fail before and after consuming and that look further than    *)
(* they take.                                                              *)
(***************************************************************************)
EXTENDS ParserLaws, SequencesExt

a == 97
b == 98

Consuming == {char_(a), string_(<< a, b >>), then(char_(a), char_(b)),
              try_parse(then(char_(a), char_(b))), many1(satisfy({a, b}))}
MayBeEmpty == {pure(<< 1 >>), fail(<< 310 >>), take_while({b}),
               option(<< 2 >>, try_parse(then(char_(a), char_(b)))),
               spaces}
Some == Consuming \cup MayBeEmpty

Continuations == {[fn |-> "again"], [fn |-> "twice"], [fn |-> "pure"]}

MCLaws ==
  UNION {MonadLaws(p, f, g) : p \in Some, f, g \in Continuations}
  \cup UNION {SequenceLaws(p, q, r) \cup AlternativeLaws(p, q, r)
             \cup ChoiceLaws(p, q, r) : p, q \in Some,
            r \in {char_(b), option(<< 2 >>, char_(a)), fail(<< 311 >>)}}
  \cup UNION {LookLaws(p) : p \in Some}
  \cup UNION {LoopLaws(p, q) \cup SeparatedLaws(p, q) : p \in Consuming, q \in Some}
  \cup UNION {ScanLaws(S) : S \in {{a}, {b, NL}, {a, TAB}}}
  \cup {TextLaw(c, d) : c, d \in {a, b, NL, TAB}}

(* Juxtaposition: an operator that takes no input, as in a chain of atoms   *)
(* applied to one another.                                                  *)
JuxtapositionLaws ==
  {Law(chainl1(p, pure(<< 42 >>)), Chainl1ByBind(p, pure(<< 42 >>))) :
      p \in {char_(a), string_(<< a, b >>), satisfy({a, b})}}

MCRoots == {}
MCInputs == SeqOf({a, b}, 2)
            \cup {<< a, a, b >>, << a, b, b >>, << b, a, b >>,
                  << a, b, a, b >>, << a, b, b, a >>, << a, NL, b >>, << TAB, a >>,
                  << NL, TAB, a >>}

MCUserContinuation(k, v) == LawContinuation(k, v)
MCAnyChar == {a, b, NL, TAB}
MCUserTransform(f, v) == v
MCUserThrows(f, v) == FALSE
MCProduce == << >>
=============================================================================
