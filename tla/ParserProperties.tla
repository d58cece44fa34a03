--------------------------- MODULE ParserProperties ---------------------------
(***************************************************************************)
(* What a run of ParserMachine must satisfy.                               *)
(*                                                                         *)
(* Two history variables, which no action reads, remember how far any      *)
(* State got and whether a parser that may look back was called.           *)
(***************************************************************************)
EXTENDS ParserMachine

CONSTANT Counted  \* the characters that the grammars leave to client_token

VARIABLES furthest,  \* the largest index of any State so far
          licensed   \* a try_parse or a look_ahead was called

observed == << vars, furthest, licensed >>

LooksBack == {"try_parse", "look_ahead"}

ObservedInit ==
  /\ Init
  /\ furthest = 0
  /\ licensed = (node.op \in LooksBack)

ObservedNext ==
  /\ Next
  /\ furthest' = LET reached == IF mode' = "return" /\ res'.ok
                                THEN res'.st.index ELSE st'.index
                 IN  IF reached > furthest THEN reached ELSE furthest
  /\ licensed' = (licensed \/ (mode' = "call" /\ node'.op \in LooksBack))

ObservedSpec == ObservedInit /\ [][ObservedNext]_observed /\ WF_vars(Step)

-----------------------------------------------------------------------------
MessageType == SysUnExpect..Msg
ErrorType(e) ==
  /\ DOMAIN e = {"pos", "messages"}
  /\ e.pos \in [line : Nat \ {0}, column : Nat \ {0}]
  /\ \A i \in DOMAIN e.messages :
        e.messages[i].type \in MessageType /\ e.messages[i].text \in Seq(Nat)

StateType ==
  [index : 0..Len(input), pos : [line : Nat \ {0}, column : Nat \ {0}], user : Nat]

ResultType(r) ==
  /\ r.ok \in BOOLEAN
  /\ r.consumed \in BOOLEAN
  /\ ErrorType(r.err)
  /\ DOMAIN r = {"ok", "consumed", "err"} \cup (IF r.ok THEN {"val", "st"} ELSE {})
  /\ r.ok => r.st \in StateType

Phases(op) ==
  CASE op \in {"bind", "then", "skip", "alt"}                 -> {"first", "second"}
    [] op \in {"sep_end_by1", "chainl1", "scan_op_chain"}     -> {"first", "sep", "item"}
    [] op = "many_till"                                       -> {"first", "body"}
    [] op = "comment_rest"            -> {"first", "start", "skip", "marker"}
    [] OTHER                                                  -> {"first"}

(* The type invariant: every cursor stays inside the input, a suspended     *)
(* composite is in one of its own phases and holds successes in its locals. *)
TypeOK ==
  /\ input \in Inputs
  /\ mode \in {"call", "return", "threw"}
  /\ st \in StateType
  /\ ResultType(res)
  /\ \A k \in DOMAIN stack :
        LET f == stack[k]
        IN  /\ f.node.op \in Composite
            /\ f.phase \in Phases(f.node.op)
            /\ f.entry \in StateType
            /\ f.i \in Nat \ {0}
            /\ ResultType(f.sofar) /\ f.sofar.ok
            /\ ResultType(f.held) /\ f.held.ok

-----------------------------------------------------------------------------
(* A success that reports no consumed input hands back the very State its   *)
(* parser was given: cursor, position and user state.  operator|, option    *)
(* and the guard of many rest on it, and it must survive every composition. *)
EmptySuccessKeepsState ==
  mode = "return" /\ res.ok /\ ~res.consumed => res.st = st

(* A success that reports consumed input has moved the cursor forward: what *)
(* many relies on to end (its guard trusts the flag alone).  It holds while *)
(* no tokens parser has the empty string, see TextsNotEmpty.                *)
ConsumedMeansProgress ==
  mode = "return" /\ res.ok /\ res.consumed => res.st.index > st.index

(* The premise of ConsumedMeansProgress: tokens("") reports consumed input  *)
(* without consuming any.                                                   *)
TextsNotEmpty ==
  mode = "call" /\ node.op = "tokens" => node.str \in Seq(Nat) \ {<< >>}

(* A combinator that fails because a part failed reports consumed input     *)
(* exactly when the part did or had started past the combinator's own       *)
(* State: a lost flag would let operator| backtrack over input already      *)
(* taken, an invented one would stop a legal backtrack.  try_parse clears   *)
(* the flag by design; many's complaint of an empty body always sets it.    *)
FailureReportsConsumption ==
  [][ /\ stack # << >> /\ mode = "return" /\ mode' = "return"
      /\ ~res.ok /\ ~res'.ok /\ Top.node.op # "try_parse"
      => (res'.consumed <=> res.consumed \/ st.index > Top.entry.index) ]_vars

(* A failure that consumed input ends every enclosing alternative, loop and *)
(* option, unread and unchanged in where it points, up to a try_parse (or   *)
(* to run_parser): no combinator turns it into a success or goes on.        *)
CommittedFailurePropagates ==
  [][ /\ mode = "return" /\ stack # << >>
      /\ ~res.ok /\ res.consumed /\ Top.node.op # "try_parse"
      => /\ mode' = "return" /\ ~res'.ok /\ res'.consumed
         /\ PosAtMost(res.err.pos, res'.err.pos) ]_vars

(* The States some parser may yet be called on or hand back.                *)
LiveStates ==
  {st} \cup (IF res.ok THEN {res.st} ELSE {})
  \cup UNION {{stack[k].entry, stack[k].sofar.st, stack[k].held.st} : k \in DOMAIN stack}

(* Every live State's position is the one its cursor has in the input:      *)
(* update_pos_char, update_pos_string and scan_pos agree however a stretch  *)
(* of input was split between token_prim, tokens and take_while, and no     *)
(* combinator pairs the cursor of one State with the position of another.   *)
PositionsFollowInput == \A s \in LiveStates : s.pos = PosAt(input, s.index)

(* The user state is threaded with the cursor: what an alternative that was *)
(* given up, a look_ahead or a not_followed_by did to it leaves no trace,   *)
(* and nothing done on the way to a State is lost.                          *)
UserStateFollowsInput ==
  \A s \in LiveStates :
     s.user = Cardinality({i \in 1..s.index : input[i] \in Counted})

(* An error, ghost errors included, points between where its parser was     *)
(* called and the end of the input: never back at input already behind it,  *)
(* although label and many's guard put the position there themselves.       *)
ErrorsPointAhead ==
  mode = "return" =>
     /\ PosAtMost(st.pos, res.err.pos)
     /\ PosAtMost(res.err.pos, PosAt(input, Len(input)))

(* No failure is silent: whatever parsers made it up, label and the loops'  *)
(* merges among them, a failure has a message, so format never has to print *)
(* its "Unknown parse error" (error.hpp:93) for it.                         *)
FailuresSpeak == mode = "return" /\ ~res.ok => ~is_unknown(res.err)

(* "error merging by furthest position": when operator| or choice has run   *)
(* out of alternatives, or ends in an empty success, no alternative failed  *)
(* further on than the error it returns says, and the messages of all that  *)
(* failed there are in it.                                                  *)
FurthestErrorSurvives ==
  [][ /\ stack # << >> /\ mode = "return" /\ mode' = "return"
      /\ Top.node.op \in {"alt", "choice"} /\ ~res'.consumed
      => \A e \in {Top.sofar.err, res.err} :
            \/ is_unknown(e)
            \/ PosBefore(e.pos, res'.err.pos)
            \/ /\ e.pos = res'.err.pos
               /\ \A i \in DOMAIN e.messages :
                     \E j \in DOMAIN res'.err.messages :
                        res'.err.messages[j] = e.messages[i] ]_vars

(* "predictive parsing with single-token lookahead": until a try_parse or a *)
(* look_ahead is called (not_followed_by calls both), every parser is run   *)
(* at the furthest cursor reached so far.  No input is gone over again.     *)
PredictiveParsing ==
  mode = "call" /\ ~licensed => st.index = furthest

(* std::set_union's precondition, which the comment in ParseError::merge    *)
(* claims: "both vectors are sorted + deduplicated".  Two errors meet in a  *)
(* merge when operator| has the second alternative's empty result.          *)
MergesSortedMessages ==
  mode = "return" /\ stack # << >> /\ Top.node.op = "alt" /\ Top.phase = "second"
     => StrictlySorted(Top.sofar.err.messages) /\ StrictlySorted(res.err.messages)

(* The README's "Without try_parse, string_("ab") consumes 'a' then fails   *)
(* on 'c', producing a consumed error that prevents trying the alternative" *)
(* and the comment in test_prim.cpp's try_parse test: a tokens parser that  *)
(* fails after its first character matched has consumed it.                 *)
TokensConsumeWhatMatched ==
  /\ mode = "return" /\ node.op = "tokens" /\ ~res.ok
  /\ Len(node.str) > 1 /\ substr(st.index, 1) = SubSeq(node.str, 1, 1)
  => res.consumed

(* run_parser returns, on grammars whose loops consume input in every round *)
(* (many checks its own).                                                   *)
Termination == <>Finished
=============================================================================
