---------------------------- MODULE ParserMachine ----------------------------
(***************************************************************************)
(* A run of a parser, one call and one return at a time.                   *)
(*                                                                         *)
(* run_parser calls the root parser on State{input, 1:1, user, 0}; a       *)
(* composite parser calls its parts on States of its choosing and makes    *)
(* its own ParseResult of theirs.  The C++ call stack is `stack'; a frame  *)
(* holds a suspended parser and its locals.  Each combinator is the action *)
(* that handles a part's return; the first call of the composites is one   *)
(* action for all, since each starts by calling a part on its own State.   *)
(***************************************************************************)
EXTENDS Parsers

CONSTANTS Roots,      \* the parsers to run
          Inputs,     \* the inputs to run them on
          Produce     \* the parser each lazy producer makes

ASSUME InputsAssumption == \A text \in Inputs : text \in Seq(Nat)

VARIABLES
  input,    \* std::string_view that every State shares
  mode,     \* "call": node is about to run on st; "return": it returned res;
            \* "threw": an exception left run_parser
  node,     \* the parser called, or the one that just returned
  st,       \* the State it was called on
  res,      \* the ParseResult of the last return
  stack     \* the suspended callers, the innermost last

vars == << input, mode, node, st, res, stack >>

-----------------------------------------------------------------------------
(* Ok carries a value, a State and the ghost error, Err an error; both say  *)
(* whether input was consumed.                                              *)
Ok(consumed, val, state, err) ==
  [ok |-> TRUE, consumed |-> consumed, val |-> val, st |-> state, err |-> err]

Err(consumed, err) == [ok |-> FALSE, consumed |-> consumed, err |-> err]

(* State{input, SourcePos{1, 1}, user, 0} of run_parser; the user state is  *)
(* a number that client_token counts in.                                    *)
Initial == [index |-> 0, pos |-> StartPos, user |-> 0]

(* The locals of a running composite: `sofar' is what it has gathered (the  *)
(* accumulated value, the State reached, the last ghost error, consumed_    *)
(* overall), `held' the result of the separator or operator of a pair, `i'  *)
(* counts alternatives or repetitions.                                      *)
NewFrame(n, s) ==
  LET nothing == Ok(FALSE, IF n.op = "many_accum" THEN n.acc ELSE << >>,
                    s, unknown(s.pos))
  IN  [node |-> n, entry |-> s, phase |-> "first", i |-> 1,
       sofar |-> nothing, held |-> nothing]

Top   == stack[Len(stack)]
Below == SubSeq(stack, 1, Len(stack) - 1)

(* A parser that calls no other returns at once.                            *)
Return(r) == /\ mode' = "return"
             /\ res' = r
             /\ UNCHANGED << input, node, st, stack >>

(* The innermost caller goes on, with new locals f, by calling `part' on s. *)
Resume(f, part, s) ==
  /\ mode' = "call"
  /\ node' = part
  /\ st' = s
  /\ stack' = Append(Below, f)
  /\ UNCHANGED << input, res >>

(* The innermost caller returns r.                                          *)
Finish(r) == /\ res' = r
             /\ node' = Top.node
             /\ st' = Top.entry
             /\ stack' = Below
             /\ UNCHANGED << input, mode >>

Calling(op) == mode = "call" /\ node.op = op

ReturningTo(op) == mode = "return" /\ stack # << >> /\ Top.node.op = op

\* Mutant: a failure that consumed input is not told apart.
FailedAtAll == ~res.ok

(* The part failed: at once, or after consuming input.                      *)
FailedEmpty    == ~res.ok /\ ~res.consumed
FailedConsumed == ~res.ok /\ res.consumed

-----------------------------------------------------------------------------
(* prim.hpp: the parsers that read the input.                               *)

CallPure ==
  /\ Calling("pure")
  /\ Return(Ok(FALSE, node.value, st, unknown(st.pos)))

CallFail ==
  /\ Calling("fail")
  /\ Return(Err(FALSE, with_message(st.pos, Msg, node.msg)))

CallTokenPrim ==
  /\ Calling("token_prim")
  /\ LET tok     == input[st.index + 1]
         new_pos == update_pos_char(st.pos, tok)
     IN  \/ /\ st.index >= Len(input)
            /\ Return(Err(FALSE, with_message(st.pos, SysUnExpect, EndOfInput)))
         \/ /\ st.index < Len(input)
            /\ tok \notin node.accepts
            /\ Return(Err(FALSE, with_message(st.pos, SysUnExpect, << tok >>)))
         \/ /\ st.index < Len(input)
            /\ tok \in node.accepts
            /\ Return(Ok(TRUE, << tok >>,
                         [st EXCEPT !.index = @ + 1, !.pos = new_pos],
                         unknown(new_pos)))

(* A client's own Parser around a token_prim: it counts what it accepts in  *)
(* the user state.                                                          *)
CallClientToken ==
  /\ Calling("client_token")
  /\ LET new_pos == update_pos_char(st.pos, input[st.index + 1])
     IN  \/ /\ st.index < Len(input) /\ input[st.index + 1] \in node.accepts
            /\ Return(Ok(TRUE, << input[st.index + 1] >>,
                         [index |-> st.index + 1, pos |-> new_pos,
                          user |-> st.user + 1],
                         unknown(new_pos)))
         \/ /\ ~(st.index < Len(input) /\ input[st.index + 1] \in node.accepts)
            /\ Return(Err(FALSE, with_message(st.pos, SysUnExpect, EndOfInput)))

(* The input's substr(from, len), and where it ends.                        *)
SmallerOf(m, n)   == IF m <= n THEN m ELSE n
substr(from, len) == SubSeq(input, from + 1, SmallerOf(from + len, Len(input)))

\* Mutant: only what is left of the input is compared.
MatchesAsFarAsItGoes(str, idx) ==
  LET actual == substr(idx, Len(str)) IN actual = SubSeq(str, 1, Len(actual))

Matches(str, idx) == substr(idx, Len(str)) = str

CallTokens ==
  /\ Calling("tokens")
  /\ LET len     == Len(node.str)
         actual  == substr(st.index, len)
         new_pos == update_pos_string(st.pos, node.str)
     IN  \/ /\ Matches(node.str, st.index)
            /\ Return(Ok(TRUE, node.str,
                         [st EXCEPT !.index = @ + len, !.pos = new_pos],
                         unknown(new_pos)))
         \/ /\ ~Matches(node.str, st.index)
            /\ Return(Err(FALSE,
                 [pos |-> st.pos,
                  messages |->
                    << Message(Expect, Quote(node.str)),
                       Message(SysUnExpect, IF actual = << >> THEN EndOfInput
                                            ELSE Quote(actual)) >>]))

(* Where the scan that starts at idx stops: after the accepted characters    *)
(* that follow it without a gap.                                             *)
Run(accepts, idx) ==
  {i \in (idx + 1)..Len(input) : \A j \in (idx + 1)..i : input[j] \in accepts}

EndOfRun(accepts, idx) == idx + Cardinality(Run(accepts, idx))

\* Mutant: the new State has a fresh user state.
TookAfresh(end) ==
  LET new_pos == scan_pos(st.pos, input, st.index, end)
  IN  Ok(TRUE, SubSeq(input, st.index + 1, end),
         [index |-> end, pos |-> new_pos, user |-> 0], unknown(new_pos))

Took(end) ==
  LET new_pos == scan_pos(st.pos, input, st.index, end)
  IN  Ok(TRUE, SubSeq(input, st.index + 1, end),
         [st EXCEPT !.index = end, !.pos = new_pos], unknown(new_pos))

\* Mutant: reported as consumed even when nothing was taken.
CallTakeWhileAlwaysConsumed ==
  /\ Calling("take_while")
  /\ Return(Took(EndOfRun(node.accepts, st.index)))

CallTakeWhile ==
  /\ Calling("take_while")
  /\ LET end == EndOfRun(node.accepts, st.index)
     IN  \/ end = st.index /\ Return(Ok(FALSE, << >>, st, unknown(st.pos)))
         \/ end # st.index /\ Return(Took(end))

CallTakeWhile1 ==
  /\ Calling("take_while1")
  /\ LET end == EndOfRun(node.accepts, st.index)
     IN  \/ /\ end = st.index
            /\ Return(Err(FALSE, with_message(st.pos, SysUnExpect,
                 IF st.index < Len(input) THEN Quote(<< input[st.index + 1] >>)
                 ELSE EndOfInput)))
         \/ end # st.index /\ Return(Took(end))

(* The producer's parser runs in place of lazy; LazyInit has its call_once. *)
CallLazy ==
  /\ Calling("lazy")
  /\ node' = Produce[node.producer]
  /\ UNCHANGED << input, mode, st, res, stack >>

-----------------------------------------------------------------------------
Composite == {"bind", "then", "skip", "map", "label", "alt", "try_parse",
              "look_ahead", "many_accum", "choice", "count", "sep_end_by1",
              "chainl1", "scan_op_chain", "not_followed_by", "many_till",
              "comment_rest"}

(* What a composite calls first, on the State it was called on.             *)
FirstPart(n) ==
  CASE n.op = "choice"          -> n.ps[1]
    [] n.op = "many_till"       -> n.end
    [] n.op = "comment_rest"    -> n.end_p
    [] n.op = "not_followed_by" -> try_parse(look_ahead(n.p))
    [] OTHER                    -> n.p

CallComposite ==
  /\ mode = "call"
  /\ node.op \in Composite
  /\ stack' = Append(stack, NewFrame(node, st))
  /\ node' = FirstPart(node)
  /\ UNCHANGED << input, mode, st, res >>

-----------------------------------------------------------------------------
(* parser.hpp: what each combinator does with the result of a part.         *)

(* The two steps of bind, operator> and skip: the second part runs on the   *)
(* State the first one reached, and the two errors merge.                   *)
SequenceOn(second) ==
  /\ Top.phase = "first"
  /\ \/ ~res.ok /\ Finish(res)
     \/ /\ res.ok
        /\ Resume([Top EXCEPT !.phase = "second", !.sofar = res], second, res.st)

\* Mutant: only the second part's flag counts.
SequenceEndOnSecond(val) ==
  /\ Top.phase = "second"
  /\ LET merged == merge(Top.sofar.err, res.err)
     IN  \/ ~res.ok /\ Finish(Err(res.consumed, merged))
         \/ res.ok  /\ Finish(Ok(res.consumed, val, res.st, merged))

\* Mutant: a failing second part returns the first part's ghost error.
SequenceEndGhostOnly(val) ==
  /\ Top.phase = "second"
  /\ LET consumed == Top.sofar.consumed \/ res.consumed
     IN  \/ ~res.ok /\ Finish(Err(consumed, Top.sofar.err))
         \/ res.ok  /\ Finish(Ok(consumed, val, res.st, merge(Top.sofar.err, res.err)))

SequenceEnd(val) ==
  /\ Top.phase = "second"
  /\ LET consumed == Top.sofar.consumed \/ res.consumed
         merged   == merge(Top.sofar.err, res.err)
     IN  \/ ~res.ok /\ Finish(Err(consumed, merged))
         \/ res.ok  /\ Finish(Ok(consumed, val, res.st, merged))

ReturnToBind ==
  /\ ReturningTo("bind")
  /\ SequenceOn(continue(Top.node.k, res.val)) \/ SequenceEnd(res.val)

ReturnToThen ==
  /\ ReturningTo("then")
  /\ SequenceOn(Top.node.q) \/ SequenceEnd(res.val)

ReturnToSkip ==
  /\ ReturningTo("skip")
  /\ SequenceOn(Top.node.q) \/ SequenceEnd(Top.sofar.val)

(* An exception of the function leaves every caller, for nothing catches it. *)
Throw == /\ mode' = "threw"
         /\ stack' = << >>
         /\ UNCHANGED << input, node, st, res >>

\* Mutant: a value out of range is passed on as the others are.
Raises(f, v) == FALSE
Throws(f, v) == UserThrows(f, v)

ReturnToMap ==
  /\ ReturningTo("map")
  /\ \/ ~res.ok /\ Finish(res)
     \/ res.ok /\ Throws(Top.node.f, res.val) /\ Throw
     \/ /\ res.ok /\ ~Throws(Top.node.f, res.val)
        /\ Finish([res EXCEPT !.val = transform(Top.node.f, @)])

(* Only an empty error is relabelled, and moves to where the label started. *)
Relabelled(messages, msg) ==
  LET non_expect[n \in 0..Len(messages)] ==
        IF n = 0 THEN << >>
        ELSE IF messages[n].type = Expect THEN non_expect[n - 1]
        ELSE Append(non_expect[n - 1], messages[n])
  IN  Append(non_expect[Len(messages)], Message(Expect, msg))

ReturnToLabel ==
  /\ ReturningTo("label")
  /\ \/ ~FailedEmpty /\ Finish(res)
     \/ /\ FailedEmpty
        /\ Finish(Err(FALSE,
             [pos |-> Top.entry.pos,
              messages |-> Relabelled(res.err.messages, Top.node.msg)]))

(* operator|: the second alternative runs where the first one started.      *)
ReturnToAlt ==
  /\ ReturningTo("alt")
  /\ \/ /\ Top.phase = "first"
        /\ \/ ~FailedEmpty /\ Finish(res)
           \/ /\ FailedEmpty
              /\ Resume([Top EXCEPT !.phase = "second", !.sofar.err = res.err],
                        Top.node.q, Top.entry)
     \/ /\ Top.phase = "second"
        /\ \/ res.consumed  /\ Finish(res)
           \/ ~res.consumed /\ Finish([res EXCEPT !.err = merge(Top.sofar.err, @)])

-----------------------------------------------------------------------------
(* prim.hpp: the combinators.                                               *)

ReturnToTryParse ==
  /\ ReturningTo("try_parse")
  /\ \/ FailedConsumed  /\ Finish(Err(FALSE, res.err))
     \/ ~FailedConsumed /\ Finish(res)

\* Mutant: the State is not restored.
ReturnToLookAheadMoves ==
  /\ ReturningTo("look_ahead")
  /\ \/ ~res.ok /\ Finish(res)
     \/ res.ok  /\ Finish(Ok(FALSE, res.val, res.st, unknown(Top.entry.pos)))

\* Mutant: the ghost error is a default-constructed one.
ReturnToLookAheadDefaultError ==
  /\ ReturningTo("look_ahead")
  /\ \/ ~res.ok /\ Finish(res)
     \/ res.ok  /\ Finish(Ok(FALSE, res.val, Top.entry, unknown(StartPos)))

ReturnToLookAhead ==
  /\ ReturningTo("look_ahead")
  /\ \/ ~res.ok /\ Finish(res)
     \/ res.ok  /\ Finish(Ok(FALSE, res.val, Top.entry, unknown(Top.entry.pos)))

\* Mutant: an empty success of the body is tried again.
ReturnToManyAccumNoGuard ==
  /\ ReturningTo("many_accum")
  /\ LET sofar == Top.sofar
         acc   == IF Top.node.keep THEN sofar.val \o res.val ELSE sofar.val
     IN  \/ FailedConsumed /\ Finish(res)
         \/ FailedEmpty    /\ Finish([sofar EXCEPT !.err = merge(@, res.err)])
         \/ res.ok /\ ~res.consumed /\ Resume(Top, Top.node.p, sofar.st)
         \/ /\ res.ok /\ res.consumed
            /\ Resume([Top EXCEPT !.sofar = Ok(TRUE, acc, res.st, res.err)],
                      Top.node.p, res.st)

ReturnToManyAccum ==
  /\ ReturningTo("many_accum")
  /\ LET sofar == Top.sofar
         acc   == IF Top.node.keep THEN sofar.val \o res.val ELSE sofar.val
     IN  \/ FailedConsumed /\ Finish(res)
         \/ FailedEmpty    /\ Finish([sofar EXCEPT !.err = merge(@, res.err)])
         \/ /\ res.ok /\ ~res.consumed
            /\ Finish(Err(TRUE, with_message(sofar.st.pos, Msg, TextEmptyMany)))
         \/ /\ res.ok /\ res.consumed
            /\ Resume([Top EXCEPT !.sofar = Ok(TRUE, acc, res.st, res.err)],
                      Top.node.p, res.st)

-----------------------------------------------------------------------------
(* combinator.hpp                                                           *)

\* Mutant: the error of the last alternative stands for all of them.
ReturnToChoiceLastError ==
  /\ ReturningTo("choice")
  /\ \/ /\ res.ok \/ FailedConsumed \/ Top.i = Len(Top.node.ps)
        /\ Finish(res)
     \/ /\ FailedEmpty /\ Top.i < Len(Top.node.ps)
        /\ Resume([Top EXCEPT !.i = @ + 1], Top.node.ps[Top.i + 1], Top.entry)

ReturnToChoice ==
  /\ ReturningTo("choice")
  /\ LET max_error == merge(Top.sofar.err, res.err)
     IN  \/ res.ok         /\ Finish([res EXCEPT !.err = max_error])
         \/ FailedConsumed /\ Finish(res)
         \/ /\ FailedEmpty /\ Top.i = Len(Top.node.ps)
            /\ Finish(Err(FALSE, max_error))
         \/ /\ FailedEmpty /\ Top.i < Len(Top.node.ps)
            /\ Resume([Top EXCEPT !.i = @ + 1, !.sofar.err = max_error],
                      Top.node.ps[Top.i + 1], Top.entry)

ReturnToCount ==
  /\ ReturningTo("count")
  /\ LET sofar    == Top.sofar
         consumed == sofar.consumed \/ res.consumed
         gathered == Ok(consumed, sofar.val \o res.val, res.st, res.err)
     IN  \/ FailedConsumed /\ Finish(res)
         \/ FailedEmpty    /\ Finish(Err(consumed, merge(sofar.err, res.err)))
         \/ res.ok /\ Top.i = Top.node.n /\ Finish(gathered)
         \/ /\ res.ok /\ Top.i < Top.node.n
            /\ Resume([Top EXCEPT !.i = @ + 1, !.sofar = gathered],
                      Top.node.p, res.st)

(* The loops of sep_end_by1, chainl1 and scan_op_chain alternate an item    *)
(* and a separator (an operator): the first item, kept as `seed'; then a    *)
(* separator, whose empty failure ends the loop; then the next item.        *)
FirstItem(separator, seed) ==
  /\ Top.phase = "first"
  /\ \/ ~res.ok /\ Finish(res)
     \/ /\ res.ok
        /\ Resume([Top EXCEPT !.phase = "sep", !.sofar = [res EXCEPT !.val = seed]],
                  separator, res.st)

Separator ==
  /\ Top.phase = "sep"
  /\ \/ FailedConsumed /\ Finish(res)
     \/ FailedEmpty    /\ Finish([Top.sofar EXCEPT !.err = merge(@, res.err)])
     \/ /\ res.ok
        /\ Resume([Top EXCEPT !.phase = "item", !.held = res], Top.node.p, res.st)

NextItem(separator, acc) ==
  /\ Top.phase = "item"
  /\ res.ok
  /\ LET consumed == Top.sofar.consumed \/ Top.held.consumed \/ res.consumed
     IN  Resume([Top EXCEPT !.phase = "sep",
                            !.sofar = Ok(consumed, acc, res.st, res.err)],
                separator, res.st)

(* After an operator an operand must follow; after a separator none need.   *)
MissingOperand ==
  /\ Top.phase = "item"
  /\ \/ FailedConsumed /\ Finish(res)
     \/ FailedEmpty    /\ Finish(Err(Top.sofar.consumed \/ Top.held.consumed,
                                     merge(Top.held.err, res.err)))

NoMoreItems ==
  /\ Top.phase = "item"
  /\ \/ FailedConsumed /\ Finish(res)
     \/ /\ FailedEmpty
        /\ Finish(Ok(Top.sofar.consumed \/ Top.held.consumed, Top.sofar.val,
                     Top.held.st, merge(Top.held.err, res.err)))

ReturnToSepEndBy1 ==
  /\ ReturningTo("sep_end_by1")
  /\ \/ FirstItem(Top.node.sep, res.val)
     \/ Separator
     \/ NextItem(Top.node.sep, Top.sofar.val \o res.val)
     \/ NoMoreItems

ReturnToChainl1 ==
  /\ ReturningTo("chainl1")
  /\ \/ FirstItem(Top.node.operator, res.val)
     \/ Separator
     \/ NextItem(Top.node.operator, Apply(Top.held.val, Top.sofar.val, res.val))
     \/ MissingOperand

ReturnToScanOpChain ==
  /\ ReturningTo("scan_op_chain")
  /\ \/ FirstItem(Top.node.operator, res.val)
     \/ Separator
     \/ NextItem(Top.node.operator, ChainOn(Top.sofar.val, Top.held.val, res.val))
     \/ MissingOperand

ReturnToNotFollowedBy ==
  /\ ReturningTo("not_followed_by")
  /\ LET here == Top.entry
     IN  \/ ~res.ok /\ Finish(Ok(FALSE, << >>, here, unknown(here.pos)))
         \/ res.ok  /\ Finish(Err(FALSE, with_message(here.pos, UnExpect, TextToken)))

ReturnToManyTill ==
  /\ ReturningTo("many_till")
  /\ LET sofar    == Top.sofar
         consumed == sofar.consumed \/ res.consumed
         merged   == merge(sofar.err, res.err)
     IN  \/ FailedConsumed /\ Finish(res)
         \/ /\ Top.phase = "first" /\ res.ok
            /\ Finish(Ok(consumed, sofar.val, res.st, merged))
         \/ /\ Top.phase = "first" /\ FailedEmpty
            /\ Resume([Top EXCEPT !.phase = "body", !.sofar.err = merged],
                      Top.node.p, sofar.st)
         \/ /\ Top.phase = "body" /\ FailedEmpty
            /\ Finish(Err(sofar.consumed, merged))
         \/ /\ Top.phase = "body" /\ res.ok
            /\ Resume([Top EXCEPT !.phase = "first",
                         !.sofar = Ok(consumed, sofar.val \o res.val, res.st, res.err)],
                      Top.node.end, res.st)

-----------------------------------------------------------------------------
(* token.hpp: after the start marker of a block comment.  `first' tries the  *)
(* end marker, `start' another start marker; where neither is, the scan      *)
(* skips what cannot be one, or one character that could have been.  That    *)
(* character is there, so scan_one_marker cannot fail.  The flag is of what  *)
(* follows the start marker; `then' adds the marker's own.                   *)
ScanOn(phase, part) == Resume([Top EXCEPT !.phase = phase], part, Top.sofar.st)

\* Mutant: the character that could have been a marker is not skipped.
SkipInCommentNever ==
  LET curr == Top.sofar.st
  IN  \/ /\ curr.index >= Len(input)
         /\ Finish(Err(Top.sofar.consumed,
                       with_message(curr.pos, UnExpect, TextEndInComment)))
      \/ /\ curr.index < Len(input)
         /\ ScanOn("first", Top.node.end_p)

SkipInComment ==
  LET curr == Top.sofar.st
  IN  \/ /\ curr.index >= Len(input)
         /\ Finish(Err(Top.sofar.consumed,
                       with_message(curr.pos, UnExpect, TextEndInComment)))
      \/ /\ curr.index < Len(input)
         /\ ScanOn("skip", Top.node.scan_non_markers)

\* Mutant: a start marker in a comment is not counted.
NestingFlat == IF Top.phase = "first" THEN Top.i - 1 ELSE Top.i

Nesting == CASE Top.phase = "first" -> Top.i - 1
             [] Top.phase = "start" -> Top.i + 1
             [] OTHER               -> Top.i

ReturnToCommentRest ==
  /\ ReturningTo("comment_rest")
  /\ LET moved == Ok(Top.sofar.consumed \/ res.consumed, << >>, res.st,
                     unknown(res.st.pos))
     IN  \/ res.ok /\ Nesting = 0 /\ Finish(moved)
         \/ /\ res.ok /\ Nesting > 0
            /\ Resume([Top EXCEPT !.phase = "first", !.i = Nesting, !.sofar = moved],
                      Top.node.end_p, res.st)
         \/ /\ ~res.ok /\ Top.phase = "first"
            /\ \/ Top.node.nested  /\ ScanOn("start", Top.node.start_p)
               \/ ~Top.node.nested /\ SkipInComment
         \/ ~res.ok /\ Top.phase = "start" /\ SkipInComment
         \/ ~res.ok /\ Top.phase = "skip"  /\ ScanOn("marker", Top.node.scan_one_marker)

-----------------------------------------------------------------------------
(* run_parser(root, input)                                                  *)
InitOn(root) ==
  /\ input \in Inputs
  /\ mode = "call"
  /\ node = root
  /\ st = Initial
  /\ res = Ok(FALSE, << >>, Initial, unknown(StartPos))
  /\ stack = << >>

Init == \E root \in Roots : InitOn(root)

(* run_parser has its result, or an exception left it.                      *)
Finished == mode # "call" /\ stack = << >>

CallLeaf ==
  \/ CallPure \/ CallFail \/ CallTokenPrim \/ CallClientToken \/ CallTokens
  \/ CallTakeWhile \/ CallTakeWhile1

ReturnToCaller ==
  \/ ReturnToBind \/ ReturnToThen \/ ReturnToSkip \/ ReturnToMap
  \/ ReturnToLabel \/ ReturnToAlt \/ ReturnToTryParse \/ ReturnToLookAhead
  \/ ReturnToManyAccum \/ ReturnToChoice \/ ReturnToCount
  \/ ReturnToSepEndBy1 \/ ReturnToChainl1 \/ ReturnToScanOpChain
  \/ ReturnToNotFollowedBy \/ ReturnToManyTill \/ ReturnToCommentRest

Step == CallLeaf \/ CallLazy \/ CallComposite \/ ReturnToCaller

Next == Step \/ (Finished /\ UNCHANGED vars)

Spec == Init /\ [][Next]_vars

(* The thread that called run_parser keeps running.                         *)
FairSpec == Spec /\ WF_vars(Step)
=============================================================================
