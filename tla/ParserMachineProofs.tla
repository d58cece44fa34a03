-------------------------- MODULE ParserMachineProofs --------------------------
(***************************************************************************)
(* Consumption: an empty success keeps the State, a consuming one moves    *)
(* the cursor on, for every grammar, input and client.                     *)
(*                                                                         *)
(* Neither is inductive: a result depends on the locals of the callers     *)
(* that made it.  The invariant says of every suspended frame that the     *)
(* State it has gathered up to lies from its own State as its flag says,   *)
(* and of every two neighbours on the stack that the inner one was called  *)
(* on the State the outer one had reached.                                 *)
(*                                                                         *)
(* The second result needs that no tokens parser has an empty string; the  *)
(* first does not.  One proof serves both: `strict' is TRUE where the      *)
(* premise is assumed and the cursors are compared.                        *)
(***************************************************************************)
EXTENDS ParserProperties, SequenceTheorems, FiniteSetTheorems, TLAPS

-----------------------------------------------------------------------------
(* States, results and frames have their fields; under `strict' a cursor is *)
(* inside the text.                                                         *)
IsState(strict, text, s) ==
  /\ DOMAIN s = {"index", "pos", "user"}
  /\ strict => s.index \in 0..Len(text)

IsOk(strict, text, r) ==
  /\ r.ok
  /\ DOMAIN r = {"ok", "consumed", "val", "st", "err"}
  /\ r.consumed \in BOOLEAN
  /\ IsState(strict, text, r.st)

IsErr(r) ==
  /\ r.ok = FALSE
  /\ DOMAIN r = {"ok", "consumed", "err"}
  /\ r.consumed \in BOOLEAN

IsResult(strict, text, r) == IsOk(strict, text, r) \/ IsErr(r)

(* From State s a parser that reports `consumed' may have reached State s2. *)
Moves(strict, s, consumed, s2) ==
  /\ ~consumed => s2 = s
  /\ strict => s.index <= s2.index /\ (consumed => s.index < s2.index)

(* The State a suspended parser called its present part on.                 *)
CalledOn(f) == IF f.phase = "item" THEN f.held.st ELSE f.sofar.st

ItemLoops == {"sep_end_by1", "chainl1", "scan_op_chain"}

(* Composites that have not left the State they were called on.             *)
Stays == {"map", "label", "alt", "try_parse", "look_ahead", "choice", "not_followed_by"}
Repeats == {"many_accum", "count", "many_till", "comment_rest"}

AtEntry(f) ==
  \/ f.node.op \in Stays
  \/ f.phase = "first" /\ f.node.op \notin Repeats

FrameOK(strict, text, f) ==
  /\ DOMAIN f = {"node", "entry", "phase", "i", "sofar", "held"}
  /\ IsState(strict, text, f.entry)
  /\ IsOk(strict, text, f.sofar)
  /\ IsOk(strict, text, f.held)
  /\ Moves(strict, f.entry, f.sofar.consumed, f.sofar.st)
  /\ f.phase = "item" => /\ f.node.op \in ItemLoops
                         /\ Moves(strict, f.sofar.st, f.held.consumed, f.held.st)
  /\ AtEntry(f) => f.sofar.st = f.entry

FramesOK(strict, text, frames) ==
  /\ \E S : frames \in Seq(S)
  /\ \A k \in 1..Len(frames) : FrameOK(strict, text, frames[k])
  /\ \A k \in 1..(Len(frames) - 1) : frames[k + 1].entry = CalledOn(frames[k])

ResultOK(strict, s, r) == r.ok => Moves(strict, s, r.consumed, r.st)

Consumption(strict) ==
  /\ input \in Seq(Nat)
  /\ mode \in {"call", "return", "threw"}
  /\ IsState(strict, input, st)
  /\ IsResult(strict, input, res)
  /\ FramesOK(strict, input, stack)
  /\ stack # << >> => st = CalledOn(Top)
  /\ mode = "return" => ResultOK(strict, st, res)

-----------------------------------------------------------------------------
(* Moving not at all, and moving twice.                                     *)
LEMMA MovesNowhere ==
  ASSUME NEW strict \in BOOLEAN, NEW text \in Seq(Nat), NEW s,
         IsState(strict, text, s)
  PROVE  Moves(strict, s, FALSE, s)
BY DEF IsState, Moves

LEMMA MovesOn ==
  ASSUME NEW strict \in BOOLEAN, NEW text \in Seq(Nat),
         NEW s, NEW s2, NEW s3, NEW c \in BOOLEAN, NEW c2 \in BOOLEAN,
         IsState(strict, text, s), IsState(strict, text, s2),
         IsState(strict, text, s3),
         Moves(strict, s, c, s2), Moves(strict, s2, c2, s3)
  PROVE  Moves(strict, s, c \/ c2, s3)
BY DEF IsState, Moves

(* The stack with a frame more, one less, and with the last one replaced.   *)
LEMMA FramesPush ==
  ASSUME NEW strict \in BOOLEAN, NEW text, NEW frames, NEW f,
         FramesOK(strict, text, frames), FrameOK(strict, text, f),
         frames # << >> => f.entry = CalledOn(frames[Len(frames)])
  PROVE  /\ FramesOK(strict, text, Append(frames, f))
         /\ Append(frames, f) # << >>
         /\ Append(frames, f)[Len(Append(frames, f))] = f
<1>1. PICK S : frames \in Seq(S)
  BY DEF FramesOK
<1> DEFINE more == Append(frames, f)
<1>2. /\ more \in Seq(S \cup {f})
      /\ Len(more) = Len(frames) + 1
      /\ \A k \in 1..Len(frames) : more[k] = frames[k]
      /\ more[Len(frames) + 1] = f
      /\ more # << >>
      /\ Len(frames) \in Nat
  <2>1. frames \in Seq(S \cup {f}) /\ f \in S \cup {f}
    BY <1>1, SeqMonotonic
  <2> QED
    BY <2>1, <1>1, AppendProperties, LenProperties
<1> HIDE DEF more
<1>3. \A k \in 1..Len(more) : FrameOK(strict, text, more[k])
  <2> SUFFICES ASSUME NEW k \in 1..Len(more) PROVE FrameOK(strict, text, more[k])
    OBVIOUS
  <2>1. CASE k = Len(frames) + 1
    BY <2>1, <1>2
  <2>2. CASE k # Len(frames) + 1
    <3>1. k \in 1..Len(frames)
      BY <2>2, <1>2
    <3> QED
      BY <3>1, <1>2 DEF FramesOK
  <2> QED
    BY <2>1, <2>2
<1>4. \A k \in 1..(Len(more) - 1) : more[k + 1].entry = CalledOn(more[k])
  <2> SUFFICES ASSUME NEW k \in 1..(Len(more) - 1)
               PROVE  more[k + 1].entry = CalledOn(more[k])
    OBVIOUS
  <2>1. CASE k = Len(frames)
    <3>1. frames # << >>
      BY <2>1, <1>1, <1>2, EmptySeq
    <3> QED
      BY <3>1, <2>1, <1>2
  <2>2. CASE k # Len(frames)
    <3>1. k \in 1..(Len(frames) - 1) /\ k \in 1..Len(frames) /\ k + 1 \in 1..Len(frames)
      BY <2>2, <1>2
    <3> QED
      BY <3>1, <1>2 DEF FramesOK
  <2> QED
    BY <2>1, <2>2
<1> QED
  BY <1>2, <1>3, <1>4 DEF FramesOK, more

LEMMA FramesPop ==
  ASSUME NEW strict \in BOOLEAN, NEW text, NEW frames,
         FramesOK(strict, text, frames), frames # << >>,
         NEW rest, rest = SubSeq(frames, 1, Len(frames) - 1)
  PROVE  /\ FramesOK(strict, text, rest)
         /\ FrameOK(strict, text, frames[Len(frames)])
         /\ rest # << >> => frames[Len(frames)].entry = CalledOn(rest[Len(rest)])
<1>1. PICK S : frames \in Seq(S)
  BY DEF FramesOK
<1>2. Len(frames) \in Nat \ {0}
  BY <1>1, LenProperties, EmptySeq
<1>3. /\ rest \in Seq(S)
      /\ Len(rest) = Len(frames) - 1
      /\ \A k \in 1..(Len(frames) - 1) : rest[k] = frames[k]
  <2> DEFINE n == Len(frames) - 1
  <2>1. 1 \in Int /\ n \in Nat /\ n \in Int
    BY <1>2
  <2>2. \A k \in 1..n : frames[k] \in S
    BY <1>1, <1>2, ElementOfSeq
  <2>3. rest = SubSeq(frames, 1, n)
    OBVIOUS
  <2> HIDE DEF n
  <2>4. /\ rest \in Seq(S)
        /\ Len(rest) = IF 1 <= n THEN n - 1 + 1 ELSE 0
        /\ \A k \in 1..(n - 1 + 1) : rest[k] = frames[1 + k - 1]
    BY <2>1, <2>2, <2>3, SubSeqProperties
  <2>5. n - 1 + 1 = n /\ \A k \in 1..n : 1 + k - 1 = k
    BY <2>1
  <2>6. rest \in Seq(S) /\ Len(rest) = n /\ \A k \in 1..n : rest[k] = frames[k]
    BY <2>1, <2>4, <2>5
  <2> QED
    BY <2>6 DEF n
<1>4. \A k \in 1..Len(rest) : FrameOK(strict, text, rest[k])
  BY <1>2, <1>3 DEF FramesOK
<1>5. \A k \in 1..(Len(rest) - 1) : rest[k + 1].entry = CalledOn(rest[k])
  <2> SUFFICES ASSUME NEW k \in 1..(Len(rest) - 1)
               PROVE  rest[k + 1].entry = CalledOn(rest[k])
    OBVIOUS
  <2>1. k \in 1..(Len(frames) - 1) /\ k + 1 \in 1..(Len(frames) - 1)
    BY <1>2, <1>3
  <2> QED
    BY <2>1, <1>3 DEF FramesOK
<1>6. FrameOK(strict, text, frames[Len(frames)])
  BY <1>2 DEF FramesOK
<1>7. ASSUME rest # << >> PROVE frames[Len(frames)].entry = CalledOn(rest[Len(rest)])
  <2>1. Len(rest) \in Nat \ {0}
    BY <1>3, <1>7, LenProperties, EmptySeq
  <2>2. Len(frames) - 1 \in 1..(Len(frames) - 1) /\ (Len(frames) - 1) + 1 = Len(frames)
    BY <2>1, <1>2, <1>3
  <2> QED
    BY <2>2, <1>3 DEF FramesOK
<1> QED
  BY <1>3, <1>4, <1>5, <1>6, <1>7 DEF FramesOK

-----------------------------------------------------------------------------
(* The four ways the machine steps.                                         *)

LEMMA ReturnOK ==
  ASSUME NEW strict \in BOOLEAN, Consumption(strict),
         NEW r, Return(r), IsResult(strict, input, r), ResultOK(strict, st, r)
  PROVE  Consumption(strict)'
<1>1. st' = st /\ input' = input /\ stack' = stack /\ mode' = "return" /\ res' = r
  BY DEF Return
<1> QED
  BY <1>1 DEF Consumption, Top

LEMMA CallOK ==
  ASSUME NEW strict \in BOOLEAN, Consumption(strict), CallComposite
  PROVE  Consumption(strict)'
<1> DEFINE f == NewFrame(node, st)
<1>1. FrameOK(strict, input, f) /\ f.entry = st /\ CalledOn(f) = st
  <2>1. IsState(strict, input, st)
    BY DEF Consumption
  <2>2. Moves(strict, st, FALSE, st)
    BY <2>1, MovesNowhere DEF Consumption
  <2> QED
    BY <2>1, <2>2 DEF FrameOK, NewFrame, IsOk, Ok, AtEntry, CalledOn
<1> HIDE DEF f
<1>2. /\ FramesOK(strict, input, Append(stack, f))
      /\ Append(stack, f) # << >>
      /\ Append(stack, f)[Len(Append(stack, f))] = f
  <2>1. /\ FramesOK(strict, input, stack)
        /\ stack # << >> => f.entry = CalledOn(stack[Len(stack)])
    BY <1>1 DEF Consumption, Top
  <2> QED
    BY <1>1, <2>1, FramesPush
<1>3. /\ stack' = Append(stack, f)
      /\ mode' = "call" /\ st' = st /\ res' = res /\ input' = input
  BY DEF CallComposite, f
<1> QED
  BY <1>1, <1>2, <1>3 DEF Consumption, Top

(* The caller and the part that returned to it.                             *)
LEMMA CallerOK ==
  ASSUME NEW strict \in BOOLEAN, Consumption(strict), mode = "return", stack # << >>
  PROVE  /\ FrameOK(strict, input, Top)
         /\ st = CalledOn(Top)
         /\ FramesOK(strict, input, Below)
         /\ Below # << >> => Top.entry = CalledOn(Below[Len(Below)])
         /\ IsResult(strict, input, res)
         /\ ResultOK(strict, st, res)
         /\ input \in Seq(Nat)
BY FramesPop DEF Consumption, Top, Below

LEMMA ResumeOK ==
  ASSUME NEW strict \in BOOLEAN, Consumption(strict), mode = "return", stack # << >>,
         NEW f, NEW part, NEW s, Resume(f, part, s),
         FrameOK(strict, input, f), f.entry = Top.entry, s = CalledOn(f)
  PROVE  Consumption(strict)'
<1>1. /\ FramesOK(strict, input, Append(Below, f))
      /\ Append(Below, f) # << >>
      /\ Append(Below, f)[Len(Append(Below, f))] = f
  BY CallerOK, FramesPush
<1>2. IsState(strict, input, s)
  BY DEF FrameOK, CalledOn, IsOk
<1>3. /\ stack' = Append(Below, f)
      /\ mode' = "call" /\ st' = s /\ res' = res /\ input' = input
  BY DEF Resume
<1> QED
  BY <1>1, <1>2, <1>3 DEF Consumption, Top

LEMMA FinishOK ==
  ASSUME NEW strict \in BOOLEAN, Consumption(strict), mode = "return", stack # << >>,
         NEW r, Finish(r), IsResult(strict, input, r), ResultOK(strict, Top.entry, r)
  PROVE  Consumption(strict)'
<1>1. /\ FrameOK(strict, input, Top)
      /\ FramesOK(strict, input, Below)
      /\ Below # << >> => Top.entry = CalledOn(Below[Len(Below)])
  BY CallerOK
<1>2. IsState(strict, input, Top.entry)
  BY <1>1 DEF FrameOK
<1>3. /\ stack' = Below
      /\ mode' = "return" /\ st' = Top.entry /\ res' = r /\ input' = input
  BY DEF Finish
<1>4. Top' = Below[Len(Below)]
  BY <1>3 DEF Top
<1> QED
  BY <1>1, <1>2, <1>3, <1>4 DEF Consumption

(* An exception leaves no caller, and the last result as it was.            *)
LEMMA ThrowOK ==
  ASSUME NEW strict \in BOOLEAN, Consumption(strict), Throw
  PROVE  Consumption(strict)'
<1>1. /\ stack' = << >> /\ mode' = "threw"
      /\ st' = st /\ res' = res /\ input' = input
  BY DEF Throw
<1>2. FramesOK(strict, input, << >>)
  <2>1. << >> \in Seq({}) /\ Len(<< >>) = 0
    BY EmptySeq
  <2> QED
    BY <2>1 DEF FramesOK
<1> QED
  BY <1>1, <1>2 DEF Consumption

(* A failure may be returned from anywhere.                                 *)
LEMMA FailOK ==
  ASSUME NEW strict \in BOOLEAN, Consumption(strict), mode = "return", stack # << >>,
         NEW r, Finish(r), IsErr(r)
  PROVE  Consumption(strict)'
BY FinishOK DEF IsResult, IsErr, ResultOK

-----------------------------------------------------------------------------
(* The parsers that read the input.                                         *)

(* take_while stops inside the input.                                       *)
LEMMA RunStops ==
  ASSUME input \in Seq(Nat), NEW accepts, NEW idx \in 0..Len(input)
  PROVE  EndOfRun(accepts, idx) \in idx..Len(input)
<1> DEFINE rest == (idx + 1)..Len(input)
           R    == Run(accepts, idx)
<1>1. Len(input) \in Nat /\ idx \in Nat
  BY LenProperties
<1>2. IsFiniteSet(rest) /\ Cardinality(rest) = Len(input) - idx
  <2>1. idx + 1 \in Int /\ Len(input) \in Int
    BY <1>1
  <2>2. /\ IsFiniteSet((idx + 1)..Len(input))
        /\ Cardinality((idx + 1)..Len(input)) =
             IF idx + 1 > Len(input) THEN 0 ELSE Len(input) - (idx + 1) + 1
    BY <2>1, FS_Interval
  <2> QED
    BY <1>1, <2>2
<1>3. R \subseteq rest
  BY DEF Run
<1> HIDE DEF R, rest
<1>4. /\ IsFiniteSet(R)
      /\ Cardinality(R) <= Cardinality(rest)
  BY <1>2, <1>3, FS_Subset
<1>5. Cardinality(R) \in Nat
  BY <1>4, FS_CardinalityType
<1> QED
  BY <1>1, <1>2, <1>4, <1>5 DEF EndOfRun, R

LEMMA LeafOK ==
  ASSUME NEW strict \in BOOLEAN, Consumption(strict), CallLeaf,
         strict => TextsNotEmpty
  PROVE  Consumption(strict)'
<1>1. /\ IsState(strict, input, st)
      /\ input \in Seq(Nat)
      /\ Len(input) \in Nat
  BY LenProperties DEF Consumption
<1> DEFINE Fine(r) == IsResult(strict, input, r) /\ ResultOK(strict, st, r)
<1>2. ASSUME NEW e PROVE Fine(Err(FALSE, e))
  BY DEF IsResult, IsErr, Err, ResultOK
<1>3. ASSUME NEW v, NEW e PROVE Fine(Ok(FALSE, v, st, e))
  BY <1>1, MovesNowhere DEF IsResult, IsOk, Ok, ResultOK
<1>4. ASSUME NEW v, NEW e, NEW s, IsState(strict, input, s),
             strict => st.index < s.index
      PROVE  Fine(Ok(TRUE, v, s, e))
  BY <1>1, <1>4 DEF IsResult, IsOk, Ok, ResultOK, Moves, IsState
<1>5. ASSUME NEW r, Fine(r), Return(r) PROVE Consumption(strict)'
  BY <1>5, ReturnOK
<1> HIDE DEF Fine
<1>6. CASE CallPure
  BY <1>6, <1>3, <1>5 DEF CallPure
<1>7. CASE CallFail
  BY <1>7, <1>2, <1>5 DEF CallFail
<1>8. CASE CallTokenPrim
  <2> DEFINE next == [st EXCEPT !.index = @ + 1,
                                !.pos = update_pos_char(st.pos, input[st.index + 1])]
  <2>1. ASSUME st.index < Len(input)
        PROVE  IsState(strict, input, next) /\ (strict => st.index < next.index)
    <3>1. strict => st.index + 1 \in 0..Len(input) /\ st.index < st.index + 1
      BY <2>1, <1>1 DEF IsState
    <3> QED
      BY <3>1, <1>1 DEF IsState
  <2> QED
    BY <2>1, <1>8, <1>2, <1>4, <1>5 DEF CallTokenPrim
<1>9. CASE CallClientToken
  <2> DEFINE next == [index |-> st.index + 1,
                      pos |-> update_pos_char(st.pos, input[st.index + 1]),
                      user |-> st.user + 1]
  <2>1. ASSUME st.index < Len(input)
        PROVE  IsState(strict, input, next) /\ (strict => st.index < next.index)
    BY <2>1, <1>1 DEF IsState
  <2> QED
    BY <2>1, <1>9, <1>2, <1>4, <1>5 DEF CallClientToken
<1>10. CASE CallTokens
  <2> DEFINE next == [st EXCEPT !.index = @ + Len(node.str),
                                !.pos = update_pos_string(st.pos, node.str)]
  <2>1. ASSUME Matches(node.str, st.index)
        PROVE  IsState(strict, input, next) /\ (strict => st.index < next.index)
    <3>1. CASE ~strict
      BY <3>1, <1>1 DEF IsState
    <3>2. CASE strict
      <4>1. node.str \in Seq(Nat) /\ Len(node.str) \in Nat \ {0}
        BY <3>2, <1>10, EmptySeq, LenProperties DEF CallTokens, Calling, TextsNotEmpty
      <4>2. st.index \in 0..Len(input)
        BY <3>2, <1>1 DEF IsState
      <4> DEFINE to == SmallerOf(st.index + Len(node.str), Len(input))
      <4>3. to \in Nat /\ st.index <= to /\ to <= Len(input)
        BY <4>1, <4>2, <1>1 DEF SmallerOf
      <4>4. Len(SubSeq(input, st.index + 1, to)) = to - st.index
        <5>1. \A k \in (st.index + 1)..to : input[k] \in Nat
          BY <4>2, <4>3, <1>1, ElementOfSeq
        <5>2. st.index + 1 \in Int /\ to \in Int
          BY <4>2, <4>3
        <5> HIDE DEF to
        <5>3. Len(SubSeq(input, st.index + 1, to)) =
                IF st.index + 1 <= to THEN to - (st.index + 1) + 1 ELSE 0
          BY <5>1, <5>2, SubSeqProperties
        <5> QED
          BY <5>2, <5>3, <4>2, <4>3
      <4>5. st.index + Len(node.str) = to
        <5>1. SubSeq(input, st.index + 1, to) = node.str
          BY <2>1 DEF Matches, substr
        <5> HIDE DEF to
        <5> QED
          BY <5>1, <4>1, <4>2, <4>3, <4>4
      <4>6. /\ st.index + Len(node.str) \in 0..Len(input)
            /\ st.index < st.index + Len(node.str)
        BY <4>1, <4>2, <4>3, <4>5
      <4> QED
        BY <4>6, <1>1 DEF IsState
    <3> QED
      BY <3>1, <3>2
  <2> QED
    BY <2>1, <1>10, <1>2, <1>4, <1>5 DEF CallTokens
<1>11. ASSUME NEW accepts,
              EndOfRun(accepts, st.index) # st.index
       PROVE  Fine(Took(EndOfRun(accepts, st.index)))
  <2> DEFINE end  == EndOfRun(accepts, st.index)
             next == [st EXCEPT !.index = end,
                                !.pos = scan_pos(st.pos, input, st.index, end)]
  <2>1. strict => st.index \in 0..Len(input) /\ end \in st.index..Len(input)
    BY <1>1, RunStops DEF IsState
  <2> HIDE DEF end
  <2>2. strict => end \in 0..Len(input) /\ st.index < end
    BY <2>1, <1>1, <1>11 DEF end
  <2>3. IsState(strict, input, next) /\ (strict => st.index < next.index)
    BY <2>2, <1>1 DEF IsState
  <2> QED
    BY <2>3, <1>4 DEF Took, end
<1>12. CASE CallTakeWhile
  BY <1>12, <1>3, <1>5, <1>11 DEF CallTakeWhile
<1>13. CASE CallTakeWhile1
  BY <1>13, <1>2, <1>5, <1>11 DEF CallTakeWhile1
<1> QED
  BY <1>6, <1>7, <1>8, <1>9, <1>10, <1>12, <1>13 DEF CallLeaf
-----------------------------------------------------------------------------
(* What a caller may take from its locals and the result it is handed.      *)

(* A caller that has not left its State: the part ran on that State.        *)
LEMMA PartRanAtEntry ==
  ASSUME NEW strict \in BOOLEAN, Consumption(strict), mode = "return", stack # << >>,
         AtEntry(Top), Top.phase # "item"
  PROVE  /\ st = Top.entry
         /\ IsState(strict, input, Top.entry)
         /\ Moves(strict, Top.entry, FALSE, Top.entry)
<1>1. FrameOK(strict, input, Top) /\ st = CalledOn(Top) /\ input \in Seq(Nat)
  BY CallerOK
<1>2. st = Top.entry /\ IsState(strict, input, Top.entry)
  BY <1>1 DEF FrameOK, CalledOn
<1> QED
  BY <1>1, <1>2, MovesNowhere

(* The State a successful part reached, seen from the caller's own.         *)
LEMMA PartMovedOn ==
  ASSUME NEW strict \in BOOLEAN, Consumption(strict), mode = "return", stack # << >>,
         res.ok, Top.phase # "item"
  PROVE  /\ IsOk(strict, input, res)
         /\ IsState(strict, input, res.st)
         /\ Moves(strict, Top.sofar.st, res.consumed, res.st)
         /\ Moves(strict, Top.entry, Top.sofar.consumed \/ res.consumed, res.st)
<1>1. /\ FrameOK(strict, input, Top)
      /\ st = Top.sofar.st
      /\ IsOk(strict, input, res)
      /\ ResultOK(strict, st, res)
      /\ input \in Seq(Nat)
  BY CallerOK DEF CalledOn, IsResult, IsErr
<1>2. /\ IsState(strict, input, Top.entry)
      /\ IsState(strict, input, Top.sofar.st)
      /\ IsState(strict, input, res.st)
      /\ Top.sofar.consumed \in BOOLEAN /\ res.consumed \in BOOLEAN
      /\ Moves(strict, Top.entry, Top.sofar.consumed, Top.sofar.st)
      /\ Moves(strict, Top.sofar.st, res.consumed, res.st)
  BY <1>1 DEF FrameOK, IsOk, ResultOK
<1>3. Moves(strict, Top.entry, Top.sofar.consumed \/ res.consumed, res.st)
  BY <1>1, <1>2, MovesOn
<1> QED
  BY <1>1, <1>2, <1>3

(* The State a separator reached, and the next item after it.               *)
LEMMA PairMovedOn ==
  ASSUME NEW strict \in BOOLEAN, Consumption(strict), mode = "return", stack # << >>,
         Top.phase = "item"
  PROVE  LET consumed == Top.sofar.consumed \/ Top.held.consumed
         IN  /\ consumed \in BOOLEAN
             /\ IsState(strict, input, Top.held.st)
             /\ Moves(strict, Top.entry, consumed, Top.held.st)
             /\ res.ok => /\ IsOk(strict, input, res)
                          /\ Moves(strict, Top.entry, consumed \/ res.consumed, res.st)
<1>1. /\ FrameOK(strict, input, Top)
      /\ st = Top.held.st
      /\ res.ok => IsOk(strict, input, res) /\ ResultOK(strict, st, res)
      /\ input \in Seq(Nat)
  BY CallerOK DEF CalledOn, IsResult, IsErr
<1>2. /\ IsState(strict, input, Top.entry)
      /\ IsState(strict, input, Top.sofar.st)
      /\ IsState(strict, input, Top.held.st)
      /\ Top.sofar.consumed \in BOOLEAN /\ Top.held.consumed \in BOOLEAN
      /\ Moves(strict, Top.entry, Top.sofar.consumed, Top.sofar.st)
      /\ Moves(strict, Top.sofar.st, Top.held.consumed, Top.held.st)
  BY <1>1 DEF FrameOK, IsOk
<1> DEFINE consumed == Top.sofar.consumed \/ Top.held.consumed
<1>3. Moves(strict, Top.entry, consumed, Top.held.st) /\ consumed \in BOOLEAN
  BY <1>1, <1>2, MovesOn
<1> HIDE DEF consumed
<1>4. ASSUME res.ok
      PROVE  /\ IsOk(strict, input, res)
             /\ Moves(strict, Top.entry, consumed \/ res.consumed, res.st)
  <2>1. /\ IsOk(strict, input, res) /\ res.consumed \in BOOLEAN
        /\ IsState(strict, input, res.st)
        /\ Moves(strict, Top.held.st, res.consumed, res.st)
    BY <1>1, <1>4 DEF IsOk, ResultOK
  <2> QED
    BY <2>1, <1>1, <1>2, <1>3, MovesOn
<1> QED
  BY <1>2, <1>3, <1>4 DEF consumed

(* The caller returns a success, or the failure it was handed.              *)
LEMMA FinishWithOK ==
  ASSUME NEW strict \in BOOLEAN, Consumption(strict), mode = "return", stack # << >>,
         NEW c \in BOOLEAN, NEW v, NEW s, NEW e, Finish(Ok(c, v, s, e)),
         IsState(strict, input, s), Moves(strict, Top.entry, c, s)
  PROVE  Consumption(strict)'
<1>1. IsResult(strict, input, Ok(c, v, s, e)) /\ ResultOK(strict, Top.entry, Ok(c, v, s, e))
  BY DEF IsResult, IsOk, Ok, ResultOK
<1> QED
  BY <1>1, FinishOK

LEMMA PassOnFailureOK ==
  ASSUME NEW strict \in BOOLEAN, Consumption(strict), mode = "return", stack # << >>,
         ~res.ok, Finish(res)
  PROVE  Consumption(strict)'
<1>1. IsErr(res)
  BY CallerOK DEF IsResult, IsOk
<1> QED
  BY <1>1, FailOK

LEMMA FailWithOK ==
  ASSUME NEW strict \in BOOLEAN, Consumption(strict), mode = "return", stack # << >>,
         NEW c \in BOOLEAN, NEW e, Finish(Err(c, e))
  PROVE  Consumption(strict)'
BY FailOK DEF IsErr, Err

(* The caller goes on having gathered g, from where g left off.             *)
LEMMA GoOnOK ==
  ASSUME NEW strict \in BOOLEAN, Consumption(strict), mode = "return", stack # << >>,
         NEW f, NEW part, NEW g, Resume(f, part, g.st),
         DOMAIN f = {"node", "entry", "phase", "i", "sofar", "held"},
         f.node = Top.node, f.entry = Top.entry, f.held = Top.held, f.sofar = g,
         f.phase # "item", ~AtEntry(f),
         IsOk(strict, input, g), Moves(strict, Top.entry, g.consumed, g.st)
  PROVE  Consumption(strict)'
<1>1. FrameOK(strict, input, Top)
  BY CallerOK
<1>2. FrameOK(strict, input, f) /\ CalledOn(f) = g.st
  BY <1>1 DEF FrameOK, CalledOn
<1> QED
  BY <1>2, ResumeOK
-----------------------------------------------------------------------------
(* One lemma per step of a composite.                                       *)

LEMMA SequenceOnOK ==
  ASSUME NEW strict \in BOOLEAN, Consumption(strict), mode = "return", stack # << >>,
         NEW part, SequenceOn(part), Top.node.op \in {"bind", "then", "skip"}
  PROVE  Consumption(strict)'
<1>1. Top.phase = "first" /\ FrameOK(strict, input, Top)
  BY CallerOK DEF SequenceOn
<1>2. Top.sofar.st = Top.entry
  BY <1>1 DEF FrameOK, AtEntry, Repeats
<1>3. CASE ~res.ok /\ Finish(res)
  BY <1>3, PassOnFailureOK
<1>4. ASSUME res.ok,
             Resume([Top EXCEPT !.phase = "second", !.sofar = res], part, res.st)
      PROVE  Consumption(strict)'
  <2> DEFINE f == [Top EXCEPT !.phase = "second", !.sofar = res]
  <2>1. /\ DOMAIN f = {"node", "entry", "phase", "i", "sofar", "held"}
        /\ f.node = Top.node /\ f.entry = Top.entry /\ f.held = Top.held
        /\ f.sofar = res /\ f.phase = "second"
    BY <1>1 DEF FrameOK
  <2>2. IsOk(strict, input, res) /\ Moves(strict, Top.entry, res.consumed, res.st)
    BY <1>1, <1>2, <1>4, PartMovedOn
  <2> HIDE DEF f
  <2>3. ~AtEntry(f)
    BY <2>1 DEF AtEntry, Stays
  <2> QED
    BY <2>1, <2>2, <2>3, <1>4, GoOnOK DEF f
<1> QED
  BY <1>3, <1>4 DEF SequenceOn

LEMMA SequenceEndOK ==
  ASSUME NEW strict \in BOOLEAN, Consumption(strict), mode = "return", stack # << >>,
         NEW val, SequenceEnd(val)
  PROVE  Consumption(strict)'
<1> DEFINE consumed == Top.sofar.consumed \/ res.consumed
           merged   == merge(Top.sofar.err, res.err)
<1>1. /\ Top.phase # "item"
      /\ \/ ~res.ok /\ Finish(Err(consumed, merged))
         \/ res.ok  /\ Finish(Ok(consumed, val, res.st, merged))
  BY DEF SequenceEnd
<1>2. consumed \in BOOLEAN
  BY CallerOK DEF FrameOK, IsOk, IsErr, IsResult
<1>3. res.ok => IsState(strict, input, res.st) /\ Moves(strict, Top.entry, consumed, res.st)
  BY <1>1, PartMovedOn
<1> HIDE DEF consumed, merged
<1> QED
  BY <1>1, <1>2, <1>3, FinishWithOK, FailWithOK

LEMMA MapOK ==
  ASSUME NEW strict \in BOOLEAN, Consumption(strict), ReturnToMap
  PROVE  Consumption(strict)'
<1>1. mode = "return" /\ stack # << >> /\ Top.node.op = "map"
  BY DEF ReturnToMap, ReturningTo
<1>2. CASE ~res.ok /\ Finish(res)
  BY <1>1, <1>2, PassOnFailureOK
<1>3. ASSUME res.ok, NEW v, Finish([res EXCEPT !.val = v]) PROVE Consumption(strict)'
  <2>1. FrameOK(strict, input, Top) /\ AtEntry(Top) /\ Top.phase # "item"
    BY <1>1, CallerOK DEF FrameOK, AtEntry, Stays, ItemLoops
  <2>2. IsOk(strict, input, res) /\ ResultOK(strict, Top.entry, res)
    BY <1>1, <1>3, <2>1, CallerOK, PartRanAtEntry DEF IsResult, IsErr
  <2> DEFINE r == [res EXCEPT !.val = v]
  <2>3. IsOk(strict, input, r) /\ ResultOK(strict, Top.entry, r)
    BY <2>2 DEF IsOk, ResultOK
  <2> HIDE DEF r
  <2> QED
    BY <2>3, <1>1, <1>3, FinishOK DEF IsResult, r
<1>4. CASE Throw
  BY <1>4, ThrowOK
<1> QED
  BY <1>2, <1>3, <1>4 DEF ReturnToMap

LEMMA LabelOK ==
  ASSUME NEW strict \in BOOLEAN, Consumption(strict), ReturnToLabel
  PROVE  Consumption(strict)'
<1>1. mode = "return" /\ stack # << >> /\ Top.node.op = "label"
  BY DEF ReturnToLabel, ReturningTo
<1>2. CASE Finish(res)
  <2>1. FrameOK(strict, input, Top) /\ AtEntry(Top) /\ Top.phase # "item"
    BY <1>1, CallerOK DEF FrameOK, AtEntry, Stays, ItemLoops
  <2>2. IsResult(strict, input, res) /\ ResultOK(strict, Top.entry, res)
    BY <1>1, <2>1, CallerOK, PartRanAtEntry
  <2> QED
    BY <2>2, <1>1, <1>2, FinishOK
<1>3. ASSUME NEW e, Finish(Err(FALSE, e)) PROVE Consumption(strict)'
  BY <1>1, <1>3, FailWithOK
<1> QED
  BY <1>2, <1>3 DEF ReturnToLabel
LEMMA AltOK ==
  ASSUME NEW strict \in BOOLEAN, Consumption(strict), ReturnToAlt
  PROVE  Consumption(strict)'
<1>1. mode = "return" /\ stack # << >> /\ Top.node.op = "alt"
  BY DEF ReturnToAlt, ReturningTo
<1>2. FrameOK(strict, input, Top) /\ AtEntry(Top) /\ Top.phase # "item"
  BY <1>1, CallerOK DEF FrameOK, AtEntry, Stays, ItemLoops
<1>3. IsResult(strict, input, res) /\ ResultOK(strict, Top.entry, res)
  BY <1>1, <1>2, CallerOK, PartRanAtEntry
<1>4. CASE Finish(res)
  BY <1>1, <1>3, <1>4, FinishOK
<1>5. ASSUME NEW e, Finish([res EXCEPT !.err = e]) PROVE Consumption(strict)'
  <2> DEFINE r == [res EXCEPT !.err = e]
  <2>1. IsResult(strict, input, r) /\ ResultOK(strict, Top.entry, r)
    BY <1>3 DEF IsResult, IsOk, IsErr, ResultOK
  <2> HIDE DEF r
  <2> QED
    BY <2>1, <1>1, <1>5, FinishOK DEF r
<1>6. ASSUME Resume([Top EXCEPT !.phase = "second", !.sofar.err = res.err],
                    Top.node.q, Top.entry)
      PROVE  Consumption(strict)'
  <2> DEFINE f == [Top EXCEPT !.phase = "second", !.sofar.err = res.err]
  <2>1. /\ FrameOK(strict, input, f) /\ f.entry = Top.entry
        /\ Top.entry = CalledOn(f)
    BY <1>1, <1>2 DEF FrameOK, CalledOn, IsOk, AtEntry, Stays
  <2> HIDE DEF f
  <2> QED
    BY <2>1, <1>1, <1>6, ResumeOK DEF f
<1> QED
  BY <1>4, <1>5, <1>6 DEF ReturnToAlt

LEMMA TryParseOK ==
  ASSUME NEW strict \in BOOLEAN, Consumption(strict), ReturnToTryParse
  PROVE  Consumption(strict)'
<1>1. mode = "return" /\ stack # << >> /\ Top.node.op = "try_parse"
  BY DEF ReturnToTryParse, ReturningTo
<1>2. CASE Finish(res)
  <2>1. FrameOK(strict, input, Top) /\ AtEntry(Top) /\ Top.phase # "item"
    BY <1>1, CallerOK DEF FrameOK, AtEntry, Stays, ItemLoops
  <2>2. IsResult(strict, input, res) /\ ResultOK(strict, Top.entry, res)
    BY <1>1, <2>1, CallerOK, PartRanAtEntry
  <2> QED
    BY <2>2, <1>1, <1>2, FinishOK
<1>3. CASE Finish(Err(FALSE, res.err))
  BY <1>1, <1>3, FailWithOK
<1> QED
  BY <1>2, <1>3 DEF ReturnToTryParse

LEMMA LookAheadOK ==
  ASSUME NEW strict \in BOOLEAN, Consumption(strict), ReturnToLookAhead
  PROVE  Consumption(strict)'
<1>1. mode = "return" /\ stack # << >> /\ Top.node.op = "look_ahead"
  BY DEF ReturnToLookAhead, ReturningTo
<1>2. FrameOK(strict, input, Top) /\ AtEntry(Top) /\ Top.phase # "item"
  BY <1>1, CallerOK DEF FrameOK, AtEntry, Stays, ItemLoops
<1>3. CASE ~res.ok /\ Finish(res)
  BY <1>1, <1>3, PassOnFailureOK
<1>4. ASSUME NEW e, Finish(Ok(FALSE, res.val, Top.entry, e)) PROVE Consumption(strict)'
  BY <1>1, <1>2, <1>4, PartRanAtEntry, FinishWithOK
<1> QED
  BY <1>3, <1>4 DEF ReturnToLookAhead

LEMMA NotFollowedByOK ==
  ASSUME NEW strict \in BOOLEAN, Consumption(strict), ReturnToNotFollowedBy
  PROVE  Consumption(strict)'
<1>1. mode = "return" /\ stack # << >> /\ Top.node.op = "not_followed_by"
  BY DEF ReturnToNotFollowedBy, ReturningTo
<1>2. FrameOK(strict, input, Top) /\ AtEntry(Top) /\ Top.phase # "item"
  BY <1>1, CallerOK DEF FrameOK, AtEntry, Stays, ItemLoops
<1>3. ASSUME NEW e, Finish(Ok(FALSE, << >>, Top.entry, e)) PROVE Consumption(strict)'
  BY <1>1, <1>2, <1>3, PartRanAtEntry, FinishWithOK
<1>4. ASSUME NEW e, Finish(Err(FALSE, e)) PROVE Consumption(strict)'
  BY <1>1, <1>4, FailWithOK
<1> QED
  BY <1>3, <1>4 DEF ReturnToNotFollowedBy

LEMMA ManyAccumOK ==
  ASSUME NEW strict \in BOOLEAN, Consumption(strict), ReturnToManyAccum
  PROVE  Consumption(strict)'
<1>1. mode = "return" /\ stack # << >> /\ Top.node.op = "many_accum"
  BY DEF ReturnToManyAccum, ReturningTo
<1>2. FrameOK(strict, input, Top) /\ Top.phase # "item"
  BY <1>1, CallerOK DEF FrameOK, ItemLoops
<1>3. CASE FailedConsumed /\ Finish(res)
  BY <1>1, <1>3, PassOnFailureOK DEF FailedConsumed
<1>4. ASSUME NEW e, Finish([Top.sofar EXCEPT !.err = e]) PROVE Consumption(strict)'
  <2> DEFINE r == [Top.sofar EXCEPT !.err = e]
  <2>1. IsOk(strict, input, r) /\ ResultOK(strict, Top.entry, r)
    BY <1>2 DEF FrameOK, IsOk, ResultOK
  <2> HIDE DEF r
  <2> QED
    BY <2>1, <1>1, <1>4, FinishOK DEF IsResult, r
<1>5. ASSUME NEW e, Finish(Err(TRUE, e)) PROVE Consumption(strict)'
  BY <1>1, <1>5, FailWithOK
<1>6. ASSUME res.ok, res.consumed, NEW acc,
             Resume([Top EXCEPT !.sofar = Ok(TRUE, acc, res.st, res.err)],
                    Top.node.p, res.st)
      PROVE  Consumption(strict)'
  <2> DEFINE g == Ok(TRUE, acc, res.st, res.err)
             f == [Top EXCEPT !.sofar = g]
  <2>1. g.st = res.st /\ IsOk(strict, input, g) /\ Moves(strict, Top.entry, g.consumed, g.st)
    <3>1. /\ IsState(strict, input, res.st)
          /\ Moves(strict, Top.entry, Top.sofar.consumed \/ res.consumed, res.st)
      BY <1>1, <1>2, <1>6, PartMovedOn
    <3>2. Moves(strict, Top.entry, TRUE, res.st)
      BY <3>1, <1>6 DEF Moves
    <3> QED
      BY <3>1, <3>2 DEF IsOk, Ok
  <2> HIDE DEF g
  <2>2. /\ DOMAIN f = {"node", "entry", "phase", "i", "sofar", "held"}
        /\ f.node = Top.node /\ f.entry = Top.entry /\ f.held = Top.held
        /\ f.sofar = g /\ f.phase = Top.phase
    BY <1>2 DEF FrameOK
  <2> HIDE DEF f
  <2>3. ~AtEntry(f)
    BY <2>2, <1>1 DEF AtEntry, Stays, Repeats
  <2>4. Resume(f, Top.node.p, g.st)
    BY <1>6, <2>1 DEF f, g
  <2> QED
    BY <2>1, <2>2, <2>3, <2>4, <1>1, <1>2, GoOnOK
<1> QED
  BY <1>3, <1>4, <1>5, <1>6 DEF ReturnToManyAccum
LEMMA ChoiceOK ==
  ASSUME NEW strict \in BOOLEAN, Consumption(strict), ReturnToChoice
  PROVE  Consumption(strict)'
<1>1. mode = "return" /\ stack # << >> /\ Top.node.op = "choice"
  BY DEF ReturnToChoice, ReturningTo
<1>2. FrameOK(strict, input, Top) /\ AtEntry(Top) /\ Top.phase # "item"
  BY <1>1, CallerOK DEF FrameOK, AtEntry, Stays, ItemLoops
<1>3. ASSUME res.ok, NEW e, Finish([res EXCEPT !.err = e]) PROVE Consumption(strict)'
  <2> DEFINE r == [res EXCEPT !.err = e]
  <2>1. IsOk(strict, input, res) /\ ResultOK(strict, Top.entry, res)
    BY <1>1, <1>2, <1>3, CallerOK, PartRanAtEntry DEF IsResult, IsErr
  <2>2. IsResult(strict, input, r) /\ ResultOK(strict, Top.entry, r)
    BY <2>1 DEF IsResult, IsOk, ResultOK
  <2> HIDE DEF r
  <2> QED
    BY <2>2, <1>1, <1>3, FinishOK DEF r
<1>4. CASE FailedConsumed /\ Finish(res)
  BY <1>1, <1>4, PassOnFailureOK DEF FailedConsumed
<1>5. ASSUME NEW e, Finish(Err(FALSE, e)) PROVE Consumption(strict)'
  BY <1>1, <1>5, FailWithOK
<1>6. ASSUME NEW e, NEW part,
             Resume([Top EXCEPT !.i = @ + 1, !.sofar.err = e], part, Top.entry)
      PROVE  Consumption(strict)'
  <2> DEFINE f == [Top EXCEPT !.i = @ + 1, !.sofar.err = e]
  <2>1. FrameOK(strict, input, f) /\ f.entry = Top.entry /\ Top.entry = CalledOn(f)
    BY <1>1, <1>2 DEF FrameOK, CalledOn, IsOk, AtEntry, Stays
  <2> HIDE DEF f
  <2> QED
    BY <2>1, <1>1, <1>6, ResumeOK DEF f
<1> QED
  BY <1>3, <1>4, <1>5, <1>6 DEF ReturnToChoice

LEMMA CountOK ==
  ASSUME NEW strict \in BOOLEAN, Consumption(strict), ReturnToCount
  PROVE  Consumption(strict)'
<1> DEFINE consumed == Top.sofar.consumed \/ res.consumed
           gathered == Ok(consumed, Top.sofar.val \o res.val, res.st, res.err)
<1>1. mode = "return" /\ stack # << >> /\ Top.node.op = "count"
  BY DEF ReturnToCount, ReturningTo
<1>2. /\ FrameOK(strict, input, Top) /\ Top.phase # "item"
      /\ consumed \in BOOLEAN
  BY <1>1, CallerOK DEF FrameOK, ItemLoops, IsOk, IsErr, IsResult
<1>3. CASE FailedConsumed /\ Finish(res)
  BY <1>1, <1>3, PassOnFailureOK DEF FailedConsumed
<1>4. ASSUME NEW e, Finish(Err(consumed, e)) PROVE Consumption(strict)'
  <2> HIDE DEF consumed
  <2> QED
    BY <1>1, <1>2, <1>4, FailWithOK
<1>5. res.ok => IsState(strict, input, res.st) /\ Moves(strict, Top.entry, consumed, res.st)
  BY <1>1, <1>2, PartMovedOn
<1>6. CASE res.ok /\ Finish(gathered)
  <2> HIDE DEF consumed
  <2> QED
    BY <1>1, <1>2, <1>5, <1>6, FinishWithOK
<1>7. CASE res.ok /\ Resume([Top EXCEPT !.i = @ + 1, !.sofar = gathered],
                            Top.node.p, res.st)
  <2> DEFINE f == [Top EXCEPT !.i = @ + 1, !.sofar = gathered]
  <2>1. /\ gathered.st = res.st
        /\ IsOk(strict, input, gathered)
        /\ Moves(strict, Top.entry, gathered.consumed, gathered.st)
    <3> HIDE DEF consumed
    <3> QED
      BY <1>2, <1>5, <1>7 DEF IsOk, Ok
  <2> HIDE DEF gathered
  <2>2. /\ DOMAIN f = {"node", "entry", "phase", "i", "sofar", "held"}
        /\ f.node = Top.node /\ f.entry = Top.entry /\ f.held = Top.held
        /\ f.sofar = gathered /\ f.phase = Top.phase
    BY <1>2 DEF FrameOK
  <2> HIDE DEF f
  <2>3. ~AtEntry(f)
    BY <2>2, <1>1 DEF AtEntry, Stays, Repeats
  <2>4. Resume(f, Top.node.p, gathered.st)
    BY <1>7, <2>1 DEF f
  <2> QED
    BY <2>1, <2>2, <2>3, <2>4, <1>1, <1>2, GoOnOK
<1> QED
  BY <1>3, <1>4, <1>6, <1>7 DEF ReturnToCount

LEMMA ManyTillOK ==
  ASSUME NEW strict \in BOOLEAN, Consumption(strict), ReturnToManyTill
  PROVE  Consumption(strict)'
<1> DEFINE consumed == Top.sofar.consumed \/ res.consumed
           merged   == merge(Top.sofar.err, res.err)
           gathered == Ok(consumed, Top.sofar.val \o res.val, res.st, res.err)
<1>1. mode = "return" /\ stack # << >> /\ Top.node.op = "many_till"
  BY DEF ReturnToManyTill, ReturningTo
<1>2. /\ FrameOK(strict, input, Top) /\ Top.phase # "item"
      /\ consumed \in BOOLEAN /\ Top.sofar.consumed \in BOOLEAN
  BY <1>1, CallerOK DEF FrameOK, ItemLoops, IsOk, IsErr, IsResult
<1>3. CASE FailedConsumed /\ Finish(res)
  BY <1>1, <1>3, PassOnFailureOK DEF FailedConsumed
<1>4. res.ok => IsState(strict, input, res.st) /\ Moves(strict, Top.entry, consumed, res.st)
  BY <1>1, <1>2, PartMovedOn
<1>5. CASE res.ok /\ Finish(Ok(consumed, Top.sofar.val, res.st, merged))
  <2> HIDE DEF consumed
  <2> QED
    BY <1>1, <1>2, <1>4, <1>5, FinishWithOK
<1>6. CASE Resume([Top EXCEPT !.phase = "body", !.sofar.err = merged],
                  Top.node.p, Top.sofar.st)
  <2> DEFINE f == [Top EXCEPT !.phase = "body", !.sofar.err = merged]
  <2>1. FrameOK(strict, input, f) /\ f.entry = Top.entry /\ Top.sofar.st = CalledOn(f)
    BY <1>1, <1>2 DEF FrameOK, CalledOn, IsOk, AtEntry, Stays, Repeats
  <2> HIDE DEF f
  <2> QED
    BY <2>1, <1>1, <1>6, ResumeOK DEF f
<1>7. CASE Finish(Err(Top.sofar.consumed, merged))
  BY <1>1, <1>2, <1>7, FailWithOK
<1>8. CASE res.ok /\ Resume([Top EXCEPT !.phase = "first", !.sofar = gathered],
                            Top.node.end, res.st)
  <2> DEFINE f == [Top EXCEPT !.phase = "first", !.sofar = gathered]
  <2>1. /\ gathered.st = res.st
        /\ IsOk(strict, input, gathered)
        /\ Moves(strict, Top.entry, gathered.consumed, gathered.st)
    <3> HIDE DEF consumed
    <3> QED
      BY <1>2, <1>4, <1>8 DEF IsOk, Ok
  <2> HIDE DEF gathered
  <2>2. /\ DOMAIN f = {"node", "entry", "phase", "i", "sofar", "held"}
        /\ f.node = Top.node /\ f.entry = Top.entry /\ f.held = Top.held
        /\ f.sofar = gathered /\ f.phase = "first"
    BY <1>2 DEF FrameOK
  <2> HIDE DEF f
  <2>3. ~AtEntry(f)
    BY <2>2, <1>1 DEF AtEntry, Stays, Repeats
  <2>4. Resume(f, Top.node.end, gathered.st)
    BY <1>8, <2>1 DEF f
  <2> QED
    BY <2>1, <2>2, <2>3, <2>4, <1>1, <1>2, GoOnOK
<1> QED
  BY <1>3, <1>5, <1>6, <1>7, <1>8 DEF ReturnToManyTill

LEMMA ScanOnOK ==
  ASSUME NEW strict \in BOOLEAN, Consumption(strict), mode = "return", stack # << >>,
         Top.node.op = "comment_rest", NEW phase, phase # "item", NEW part,
         ScanOn(phase, part)
  PROVE  Consumption(strict)'
<1> DEFINE f == [Top EXCEPT !.phase = phase]
<1>1. FrameOK(strict, input, Top)
  BY CallerOK
<1>2. FrameOK(strict, input, f) /\ f.entry = Top.entry /\ Top.sofar.st = CalledOn(f)
  BY <1>1 DEF FrameOK, CalledOn, AtEntry, Stays, Repeats
<1> HIDE DEF f
<1> QED
  BY <1>2, ResumeOK DEF ScanOn, f

LEMMA CommentRestOK ==
  ASSUME NEW strict \in BOOLEAN, Consumption(strict), ReturnToCommentRest
  PROVE  Consumption(strict)'
<1> DEFINE consumed == Top.sofar.consumed \/ res.consumed
           moved == Ok(consumed, << >>, res.st, unknown(res.st.pos))
<1>1. mode = "return" /\ stack # << >> /\ Top.node.op = "comment_rest"
  BY DEF ReturnToCommentRest, ReturningTo
<1>2. /\ FrameOK(strict, input, Top) /\ Top.phase # "item"
      /\ consumed \in BOOLEAN /\ Top.sofar.consumed \in BOOLEAN
  BY <1>1, CallerOK DEF FrameOK, ItemLoops, IsOk, IsErr, IsResult
<1>3. res.ok => IsState(strict, input, res.st) /\ Moves(strict, Top.entry, consumed, res.st)
  BY <1>1, <1>2, PartMovedOn
<1>4. CASE res.ok /\ Finish(moved)
  <2> HIDE DEF consumed
  <2> QED
    BY <1>1, <1>2, <1>3, <1>4, FinishWithOK
<1>5. ASSUME res.ok, NEW n,
             Resume([Top EXCEPT !.phase = "first", !.i = n, !.sofar = moved],
                    Top.node.end_p, res.st)
      PROVE  Consumption(strict)'
  <2> DEFINE f == [Top EXCEPT !.phase = "first", !.i = n, !.sofar = moved]
  <2>1. /\ moved.st = res.st
        /\ IsOk(strict, input, moved)
        /\ Moves(strict, Top.entry, moved.consumed, moved.st)
    <3> HIDE DEF consumed
    <3> QED
      BY <1>2, <1>3, <1>5 DEF IsOk, Ok
  <2> HIDE DEF moved
  <2>2. /\ DOMAIN f = {"node", "entry", "phase", "i", "sofar", "held"}
        /\ f.node = Top.node /\ f.entry = Top.entry /\ f.held = Top.held
        /\ f.sofar = moved /\ f.phase = "first"
    BY <1>2 DEF FrameOK
  <2> HIDE DEF f
  <2>3. ~AtEntry(f)
    BY <2>2, <1>1 DEF AtEntry, Stays, Repeats
  <2>4. Resume(f, Top.node.end_p, moved.st)
    BY <1>5, <2>1 DEF f
  <2> QED
    BY <2>1, <2>2, <2>3, <2>4, <1>1, <1>2, GoOnOK
<1>6. ASSUME NEW phase \in {"start", "skip", "marker"}, NEW part, ScanOn(phase, part)
      PROVE  Consumption(strict)'
  BY <1>1, <1>6, ScanOnOK
<1>7. CASE SkipInComment
  <2>1. ASSUME NEW e, Finish(Err(Top.sofar.consumed, e)) PROVE Consumption(strict)'
    BY <1>1, <1>2, <2>1, FailWithOK
  <2> QED
    BY <1>6, <1>7, <2>1 DEF SkipInComment
<1> QED
  BY <1>4, <1>5, <1>6, <1>7 DEF ReturnToCommentRest
-----------------------------------------------------------------------------
(* sep_end_by1, chainl1 and scan_op_chain: the parts of their loops.        *)

LEMMA FirstItemOK ==
  ASSUME NEW strict \in BOOLEAN, Consumption(strict), mode = "return", stack # << >>,
         NEW separator, NEW seed, FirstItem(separator, seed), Top.node.op \in ItemLoops
  PROVE  Consumption(strict)'
<1>1. Top.phase = "first" /\ FrameOK(strict, input, Top)
  BY CallerOK DEF FirstItem
<1>2. Top.sofar.st = Top.entry
  BY <1>1 DEF FrameOK, AtEntry, Repeats, ItemLoops
<1>3. CASE ~res.ok /\ Finish(res)
  BY <1>3, PassOnFailureOK
<1>4. CASE res.ok /\ Resume([Top EXCEPT !.phase = "sep",
                                        !.sofar = [res EXCEPT !.val = seed]],
                            separator, res.st)
  <2> DEFINE g == [res EXCEPT !.val = seed]
             f == [Top EXCEPT !.phase = "sep", !.sofar = g]
  <2>1. IsOk(strict, input, res) /\ Moves(strict, Top.entry, res.consumed, res.st)
    BY <1>1, <1>2, <1>4, PartMovedOn
  <2>2. /\ g.st = res.st /\ IsOk(strict, input, g)
        /\ Moves(strict, Top.entry, g.consumed, g.st)
    BY <2>1 DEF IsOk
  <2> HIDE DEF g
  <2>3. /\ DOMAIN f = {"node", "entry", "phase", "i", "sofar", "held"}
        /\ f.node = Top.node /\ f.entry = Top.entry /\ f.held = Top.held
        /\ f.sofar = g /\ f.phase = "sep"
    BY <1>1 DEF FrameOK
  <2> HIDE DEF f
  <2>4. ~AtEntry(f)
    BY <2>3 DEF AtEntry, Stays, ItemLoops
  <2>5. Resume(f, separator, g.st)
    BY <1>4, <2>2 DEF f, g
  <2> QED
    BY <2>2, <2>3, <2>4, <2>5, GoOnOK
<1> QED
  BY <1>3, <1>4 DEF FirstItem

LEMMA SeparatorOK ==
  ASSUME NEW strict \in BOOLEAN, Consumption(strict), mode = "return", stack # << >>,
         Separator, Top.node.op \in ItemLoops
  PROVE  Consumption(strict)'
<1>1. Top.phase = "sep" /\ FrameOK(strict, input, Top)
  BY CallerOK DEF Separator
<1>2. CASE FailedConsumed /\ Finish(res)
  BY <1>2, PassOnFailureOK DEF FailedConsumed
<1>3. ASSUME NEW e, Finish([Top.sofar EXCEPT !.err = e]) PROVE Consumption(strict)'
  <2> DEFINE r == [Top.sofar EXCEPT !.err = e]
  <2>1. IsOk(strict, input, r) /\ ResultOK(strict, Top.entry, r)
    BY <1>1 DEF FrameOK, IsOk, ResultOK
  <2> HIDE DEF r
  <2> QED
    BY <2>1, <1>3, FinishOK DEF IsResult, r
<1>4. CASE res.ok /\ Resume([Top EXCEPT !.phase = "item", !.held = res],
                            Top.node.p, res.st)
  <2> DEFINE f == [Top EXCEPT !.phase = "item", !.held = res]
  <2>1. IsOk(strict, input, res) /\ Moves(strict, Top.sofar.st, res.consumed, res.st)
    BY <1>1, <1>4, PartMovedOn
  <2>2. FrameOK(strict, input, f) /\ f.entry = Top.entry /\ res.st = CalledOn(f)
    BY <1>1, <2>1 DEF FrameOK, CalledOn, AtEntry, Stays, ItemLoops
  <2> HIDE DEF f
  <2> QED
    BY <2>2, <1>4, ResumeOK DEF f
<1> QED
  BY <1>2, <1>3, <1>4 DEF Separator

LEMMA NextItemOK ==
  ASSUME NEW strict \in BOOLEAN, Consumption(strict), mode = "return", stack # << >>,
         NEW separator, NEW acc, NextItem(separator, acc), Top.node.op \in ItemLoops
  PROVE  Consumption(strict)'
<1> DEFINE consumed == Top.sofar.consumed \/ Top.held.consumed \/ res.consumed
           g == Ok(consumed, acc, res.st, res.err)
           f == [Top EXCEPT !.phase = "sep", !.sofar = g]
<1>1. Top.phase = "item" /\ res.ok /\ FrameOK(strict, input, Top)
  BY CallerOK DEF NextItem
<1>2. IsOk(strict, input, res) /\ Moves(strict, Top.entry, consumed, res.st)
  BY <1>1, PairMovedOn
<1>3. consumed \in BOOLEAN
  BY <1>1, <1>2 DEF FrameOK, IsOk
<1> HIDE DEF consumed
<1>4. /\ g.st = res.st /\ IsOk(strict, input, g)
      /\ Moves(strict, Top.entry, g.consumed, g.st)
  BY <1>2, <1>3 DEF IsOk, Ok
<1> HIDE DEF g
<1>5. /\ DOMAIN f = {"node", "entry", "phase", "i", "sofar", "held"}
      /\ f.node = Top.node /\ f.entry = Top.entry /\ f.held = Top.held
      /\ f.sofar = g /\ f.phase = "sep"
  BY <1>1 DEF FrameOK
<1> HIDE DEF f
<1>6. ~AtEntry(f)
  BY <1>5 DEF AtEntry, Stays, ItemLoops
<1>7. Resume(f, separator, g.st)
  BY <1>4 DEF NextItem, f, g, consumed
<1> QED
  BY <1>4, <1>5, <1>6, <1>7, GoOnOK

LEMMA MissingOperandOK ==
  ASSUME NEW strict \in BOOLEAN, Consumption(strict), mode = "return", stack # << >>,
         MissingOperand
  PROVE  Consumption(strict)'
<1> DEFINE consumed == Top.sofar.consumed \/ Top.held.consumed
<1>1. consumed \in BOOLEAN
  BY PairMovedOn DEF MissingOperand
<1>2. CASE FailedConsumed /\ Finish(res)
  BY <1>2, PassOnFailureOK DEF FailedConsumed
<1>3. ASSUME NEW e, Finish(Err(consumed, e)) PROVE Consumption(strict)'
  <2> HIDE DEF consumed
  <2> QED
    BY <1>1, <1>3, FailWithOK
<1> QED
  BY <1>2, <1>3 DEF MissingOperand

LEMMA NoMoreItemsOK ==
  ASSUME NEW strict \in BOOLEAN, Consumption(strict), mode = "return", stack # << >>,
         NoMoreItems
  PROVE  Consumption(strict)'
<1> DEFINE consumed == Top.sofar.consumed \/ Top.held.consumed
<1>1. /\ consumed \in BOOLEAN
      /\ IsState(strict, input, Top.held.st)
      /\ Moves(strict, Top.entry, consumed, Top.held.st)
  BY PairMovedOn DEF NoMoreItems
<1>2. CASE FailedConsumed /\ Finish(res)
  BY <1>2, PassOnFailureOK DEF FailedConsumed
<1>3. ASSUME NEW e, Finish(Ok(consumed, Top.sofar.val, Top.held.st, e))
      PROVE  Consumption(strict)'
  <2> HIDE DEF consumed
  <2> QED
    BY <1>1, <1>3, FinishWithOK
<1> QED
  BY <1>2, <1>3 DEF NoMoreItems

LEMMA ItemLoopOK ==
  ASSUME NEW strict \in BOOLEAN, Consumption(strict),
         ReturnToSepEndBy1 \/ ReturnToChainl1 \/ ReturnToScanOpChain
  PROVE  Consumption(strict)'
<1>1. mode = "return" /\ stack # << >> /\ Top.node.op \in ItemLoops
  BY DEF ReturnToSepEndBy1, ReturnToChainl1, ReturnToScanOpChain, ReturningTo, ItemLoops
<1>2. CASE ReturnToSepEndBy1
  BY <1>1, <1>2, FirstItemOK, SeparatorOK, NextItemOK, NoMoreItemsOK
     DEF ReturnToSepEndBy1
<1>3. CASE ReturnToChainl1
  BY <1>1, <1>3, FirstItemOK, SeparatorOK, NextItemOK, MissingOperandOK
     DEF ReturnToChainl1
<1>4. CASE ReturnToScanOpChain
  BY <1>1, <1>4, FirstItemOK, SeparatorOK, NextItemOK, MissingOperandOK
     DEF ReturnToScanOpChain
<1> QED
  BY <1>2, <1>3, <1>4

-----------------------------------------------------------------------------
LEMMA SequencesOK ==
  ASSUME NEW strict \in BOOLEAN, Consumption(strict),
         ReturnToBind \/ ReturnToThen \/ ReturnToSkip
  PROVE  Consumption(strict)'
<1>1. /\ mode = "return" /\ stack # << >>
      /\ Top.node.op \in {"bind", "then", "skip"}
      /\ (\E part : SequenceOn(part)) \/ (\E val : SequenceEnd(val))
  BY DEF ReturnToBind, ReturnToThen, ReturnToSkip, ReturningTo
<1> QED
  BY <1>1, SequenceOnOK, SequenceEndOK

(* The machine starts well, and every step keeps it so.                     *)
LEMMA ConsumptionStart ==
  ASSUME NEW strict \in BOOLEAN, NEW root, InitOn(root)
  PROVE  Consumption(strict)
<1>1. /\ input \in Seq(Nat) /\ mode = "call" /\ st = Initial
      /\ res = Ok(FALSE, << >>, Initial, unknown(StartPos)) /\ stack = << >>
  BY InputsAssumption DEF InitOn
<1>2. IsState(strict, input, Initial)
  <2>1. Len(input) \in Nat
    BY <1>1, LenProperties
  <2> QED
    BY <2>1 DEF IsState, Initial
<1>3. IsResult(strict, input, res)
  BY <1>1, <1>2 DEF IsResult, IsOk, Ok
<1>4. FramesOK(strict, input, stack)
  <2>1. stack \in Seq({}) /\ Len(stack) = 0
    BY <1>1, EmptySeq
  <2> QED
    BY <2>1 DEF FramesOK
<1> QED
  BY <1>1, <1>2, <1>3, <1>4 DEF Consumption

LEMMA ConsumptionInit ==
  ASSUME NEW strict \in BOOLEAN, Init
  PROVE  Consumption(strict)
BY ConsumptionStart DEF Init

LEMMA ConsumptionStep ==
  ASSUME NEW strict \in BOOLEAN, Consumption(strict), [Next]_vars,
         strict => TextsNotEmpty
  PROVE  Consumption(strict)'
<1>1. CASE CallLeaf
  BY <1>1, LeafOK
<1>2. CASE CallLazy
  BY <1>2 DEF CallLazy, Calling, Consumption, Top
<1>3. CASE CallComposite
  BY <1>3, CallOK
<1>4. CASE ReturnToCaller
  BY <1>4, SequencesOK, MapOK, LabelOK, AltOK, TryParseOK, LookAheadOK, ManyAccumOK,
     ChoiceOK, CountOK, ItemLoopOK, NotFollowedByOK, ManyTillOK, CommentRestOK
     DEF ReturnToCaller
<1>5. CASE UNCHANGED vars
  BY <1>5 DEF vars, Consumption, Top
<1> QED
  BY <1>1, <1>2, <1>3, <1>4, <1>5 DEF Next, Step

(* A success that reports no consumed input hands back the State it was     *)
(* called on, whatever the grammar: what operator|, option and every loop's *)
(* exit rely on when they go on from a State they kept.                     *)
THEOREM EmptySuccess == Spec => []EmptySuccessKeepsState
<1>1. Init => Consumption(FALSE)
  BY ConsumptionInit
<1>2. Consumption(FALSE) /\ [Next]_vars => Consumption(FALSE)'
  BY ConsumptionStep
<1>3. Consumption(FALSE) => EmptySuccessKeepsState
  BY DEF Consumption, ResultOK, Moves, EmptySuccessKeepsState
<1> QED
  BY <1>1, <1>2, <1>3, PTL DEF Spec

(* While no tokens parser has an empty string, a success that reports       *)
(* consumed input has moved the cursor on, and every cursor stays inside    *)
(* the input: what many's guard trusts the flag for.                        *)
CursorsInside ==
  /\ st.index \in 0..Len(input)
  /\ mode = "return" /\ res.ok => res.st.index \in 0..Len(input)

THEOREM Progress == Spec /\ []TextsNotEmpty => [](ConsumedMeansProgress /\ CursorsInside)
<1>1. Init => Consumption(TRUE)
  BY ConsumptionInit
<1>2. Consumption(TRUE) /\ TextsNotEmpty /\ [Next]_vars => Consumption(TRUE)'
  BY ConsumptionStep
<1>3. Consumption(TRUE) => ConsumedMeansProgress /\ CursorsInside
  <2> SUFFICES ASSUME Consumption(TRUE) PROVE ConsumedMeansProgress /\ CursorsInside
    OBVIOUS
  <2>1. IsState(TRUE, input, st) /\ IsResult(TRUE, input, res)
    BY DEF Consumption
  <2>2. res.ok => IsState(TRUE, input, res.st)
    BY <2>1 DEF IsResult, IsOk, IsErr
  <2>3. mode = "return" /\ res.ok /\ res.consumed => st.index < res.st.index
    BY DEF Consumption, ResultOK, Moves
  <2>4. input \in Seq(Nat)
    BY DEF Consumption
  <2>5. Len(input) \in Nat
    BY <2>4, LenProperties
  <2> QED
    BY <2>1, <2>2, <2>3, <2>5 DEF IsState, ConsumedMeansProgress, CursorsInside
<1> QED
  BY <1>1, <1>2, <1>3, PTL DEF Spec
=============================================================================
