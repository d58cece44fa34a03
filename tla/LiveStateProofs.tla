--------------------------- MODULE LiveStateProofs ---------------------------
(***************************************************************************)
(* Position and user state are those of the cursor, in every State that is *)
(* alive anywhere on the stack, for every grammar, input and client.       *)
(*                                                                         *)
(* A step of a combinator makes no new State: it passes on one of those    *)
(* its caller, its locals or its part have (CallerKeepsStates).  Only a    *)
(* parser that reads the input makes one, from its own (LeafTakes), so     *)
(* what each such parser does to a State is all that is left to look at.   *)
(***************************************************************************)
EXTENDS ParserMachineProofs, OperatorLemmas

-----------------------------------------------------------------------------
(* Where a State may be alive.                                              *)
IsLive(s) ==
  \/ s = st
  \/ res.ok /\ s = res.st
  \/ \E k \in DOMAIN stack :
        s = stack[k].entry \/ s = stack[k].sofar.st \/ s = stack[k].held.st

LEMMA LiveUnfold ==
  /\ \A s : s \in LiveStates <=> IsLive(s)
  /\ (\A s : s \in LiveStates <=> IsLive(s))'
<1>1. \A s : s \in LiveStates <=> IsLive(s)
  BY DEF LiveStates, IsLive
<1>2. (\A s : s \in LiveStates <=> IsLive(s))'
  BY DEF LiveStates, IsLive
<1> QED
  BY <1>1, <1>2

(* The stack below its top, and the frame on top.                           *)
LEMMA StackShape ==
  ASSUME Consumption(FALSE), stack # << >>
  PROVE  /\ Len(stack) \in DOMAIN stack /\ Len(stack) \in Nat \ {0}
         /\ DOMAIN stack = 1..Len(stack)
         /\ DOMAIN Below = 1..(Len(stack) - 1)
         /\ \A k \in DOMAIN Below : Below[k] = stack[k]
         /\ FrameOK(FALSE, input, Top)
<1>1. PICK S : stack \in Seq(S)
  BY DEF Consumption, FramesOK
<1>2. Len(stack) \in Nat \ {0} /\ DOMAIN stack = 1..Len(stack) /\ Len(stack) \in DOMAIN stack
  BY <1>1, LenProperties, EmptySeq
<1>3. /\ DOMAIN Below = 1..(Len(stack) - 1)
      /\ \A k \in DOMAIN Below : Below[k] = stack[k]
  <2> DEFINE n == Len(stack) - 1
  <2>1. 1 \in Int /\ n \in Nat /\ n \in Int
    BY <1>2
  <2>2. \A k \in 1..n : stack[k] \in S
    BY <1>1, <1>2, ElementOfSeq
  <2>3. Below = SubSeq(stack, 1, n)
    BY DEF Below
  <2> HIDE DEF n
  <2>4. /\ Below \in Seq(S)
        /\ Len(Below) = IF 1 <= n THEN n - 1 + 1 ELSE 0
        /\ \A k \in 1..(n - 1 + 1) : Below[k] = stack[1 + k - 1]
    BY <2>1, <2>2, <2>3, SubSeqProperties
  <2>5. n - 1 + 1 = n /\ \A k \in 1..n : 1 + k - 1 = k
    BY <2>1
  <2>6. DOMAIN Below = 1..n /\ \A k \in 1..n : Below[k] = stack[k]
    <3>1. DOMAIN Below = 1..Len(Below)
      BY <2>4, LenProperties
    <3> QED
      BY <2>1, <2>4, <2>5, <3>1
  <2> QED
    BY <2>6 DEF n
<1>4. FrameOK(FALSE, input, Top)
  BY FramesPop DEF Consumption, Top, Below
<1> QED
  BY <1>2, <1>3, <1>4

LEMMA TopLive ==
  ASSUME Consumption(FALSE), stack # << >>
  PROVE  /\ st \in LiveStates
         /\ res.ok => res.st \in LiveStates
         /\ {Top.entry, Top.sofar.st, Top.held.st} \subseteq LiveStates
         /\ DOMAIN Top = {"node", "entry", "phase", "i", "sofar", "held"}
         /\ DOMAIN Top.sofar = {"ok", "consumed", "val", "st", "err"}
BY StackShape, LiveUnfold DEF IsLive, Top, FrameOK, IsOk

(* The three ways a combinator goes on leave no State but those there were. *)
LEMMA FinishKeepsStates ==
  ASSUME Consumption(FALSE), stack # << >>,
         NEW r, Finish(r), r.ok => r.st \in LiveStates
  PROVE  LiveStates' \subseteq LiveStates
<1>1. st' = Top.entry /\ res' = r /\ stack' = Below
  BY DEF Finish
<1>2. ASSUME NEW s, IsLive(s)' PROVE s \in LiveStates
  <2>1. CASE s = st'
    BY <2>1, <1>1, TopLive
  <2>2. CASE res'.ok /\ s = res'.st
    BY <2>2, <1>1
  <2>3. CASE \E k \in DOMAIN Below :
                s = Below[k].entry \/ s = Below[k].sofar.st \/ s = Below[k].held.st
    <3>1. DOMAIN Below \subseteq DOMAIN stack
      BY StackShape
    <3> QED
      BY <2>3, <3>1, StackShape, LiveUnfold DEF IsLive
  <2> QED
    BY <1>1, <1>2, <2>1, <2>2, <2>3 DEF IsLive
<1> QED
  BY <1>2, LiveUnfold

LEMMA ResumeKeepsStates ==
  ASSUME Consumption(FALSE), stack # << >>,
         NEW f, NEW part, NEW s, Resume(f, part, s), s \in LiveStates,
         f.entry \in LiveStates, f.sofar.st \in LiveStates, f.held.st \in LiveStates
  PROVE  LiveStates' \subseteq LiveStates
<1>1. st' = s /\ res' = res /\ stack' = Append(Below, f)
  BY DEF Resume
<1>2. /\ DOMAIN stack' = (DOMAIN Below) \cup {Len(Below) + 1}
      /\ \A k \in DOMAIN Below : stack'[k] = Below[k]
      /\ stack'[Len(Below) + 1] = f
  <2>1. PICK S : Below \in Seq(S)
    BY FramesPop DEF Consumption, FramesOK, Below
  <2>2. /\ Append(Below, f) \in Seq(S \cup {f})
        /\ Len(Append(Below, f)) = Len(Below) + 1
        /\ \A k \in 1..Len(Below) : Append(Below, f)[k] = Below[k]
        /\ Append(Below, f)[Len(Below) + 1] = f
    <3>1. Below \in Seq(S \cup {f}) /\ f \in S \cup {f}
      BY <2>1, SeqMonotonic
    <3> QED
      BY <3>1, AppendProperties
  <2>3. /\ DOMAIN Below = 1..Len(Below) /\ Len(Below) \in Nat
        /\ DOMAIN Append(Below, f) = 1..(Len(Below) + 1)
    BY <2>1, <2>2, LenProperties
  <2>4. 1..(Len(Below) + 1) = (1..Len(Below)) \cup {Len(Below) + 1}
    BY <2>3
  <2> QED
    BY <1>1, <2>2, <2>3, <2>4
<1>3. ASSUME NEW t, IsLive(t)' PROVE t \in LiveStates
  <2>1. CASE t = st'
    BY <2>1, <1>1
  <2>2. CASE res'.ok /\ t = res'.st
    BY <2>2, <1>1, TopLive
  <2>3. CASE \E k \in DOMAIN stack' :
                t = stack'[k].entry \/ t = stack'[k].sofar.st \/ t = stack'[k].held.st
    <3>1. PICK k \in DOMAIN stack' :
                t = stack'[k].entry \/ t = stack'[k].sofar.st \/ t = stack'[k].held.st
      BY <2>3
    <3>2. CASE k \in DOMAIN Below
      <4>1. k \in DOMAIN stack /\ stack'[k] = stack[k]
        BY <3>2, <1>2, StackShape
      <4> QED
        BY <3>1, <4>1, LiveUnfold DEF IsLive
    <3>3. CASE k = Len(Below) + 1
      BY <3>1, <3>3, <1>2
    <3> QED
      BY <3>2, <3>3, <1>2
  <2> QED
    BY <1>3, <2>1, <2>2, <2>3 DEF IsLive
<1> QED
  BY <1>3, LiveUnfold

LEMMA ThrowKeepsStates ==
  ASSUME Consumption(FALSE), Throw
  PROVE  LiveStates' \subseteq LiveStates
<1>1. st' = st /\ res' = res /\ DOMAIN stack' = {}
  BY DEF Throw
<1> QED
  BY <1>1, LiveUnfold DEF IsLive

LEMMA CallKeepsStates ==
  ASSUME Consumption(FALSE), CallComposite
  PROVE  LiveStates' \subseteq LiveStates
<1> DEFINE f == NewFrame(node, st)
<1>1. st' = st /\ res' = res /\ stack' = Append(stack, f)
  BY DEF CallComposite
<1>2. f.entry = st /\ f.sofar.st = st /\ f.held.st = st
  BY DEF NewFrame, Ok
<1> HIDE DEF f
<1>3. /\ DOMAIN stack' = (DOMAIN stack) \cup {Len(stack) + 1}
      /\ \A k \in DOMAIN stack : stack'[k] = stack[k]
      /\ stack'[Len(stack) + 1] = f
  <2>1. PICK S : stack \in Seq(S)
    BY DEF Consumption, FramesOK
  <2>2. stack \in Seq(S \cup {f}) /\ f \in S \cup {f}
    BY <2>1, SeqMonotonic
  <2>3. /\ Append(stack, f) \in Seq(S \cup {f})
        /\ Len(Append(stack, f)) = Len(stack) + 1
        /\ \A k \in 1..Len(stack) : Append(stack, f)[k] = stack[k]
        /\ Append(stack, f)[Len(stack) + 1] = f
    BY <2>2, AppendProperties
  <2>4. /\ DOMAIN stack = 1..Len(stack) /\ Len(stack) \in Nat
        /\ DOMAIN Append(stack, f) = 1..(Len(stack) + 1)
    BY <2>1, <2>3, LenProperties
  <2>5. 1..(Len(stack) + 1) = (1..Len(stack)) \cup {Len(stack) + 1}
    BY <2>4
  <2> QED
    BY <1>1, <2>3, <2>4, <2>5
<1>4. ASSUME NEW t, IsLive(t)' PROVE IsLive(t)
  BY <1>1, <1>2, <1>3, <1>4 DEF IsLive
<1> QED
  BY <1>4, LiveUnfold

-----------------------------------------------------------------------------
LEMMA ReturnKeepsInput ==
  ASSUME ReturnToCaller
  PROVE  input' = input
BY DEF ReturnToCaller, ReturnToBind, ReturnToThen, ReturnToSkip, ReturnToMap,
       ReturnToLabel, ReturnToAlt, ReturnToTryParse, ReturnToLookAhead,
       ReturnToManyAccum, ReturnToChoice, ReturnToCount, ReturnToSepEndBy1,
       ReturnToChainl1, ReturnToScanOpChain, ReturnToNotFollowedBy,
       ReturnToManyTill, ReturnToCommentRest, SequenceOn, SequenceEnd, FirstItem,
       Separator, NextItem, MissingOperand, NoMoreItems, SkipInComment, ScanOn,
       Finish, Resume, Throw

(* One case per combinator.                                                 *)
LEMMA CallerKeepsStates ==
  ASSUME Consumption(FALSE), ReturnToCaller
  PROVE  LiveStates' \subseteq LiveStates
<1>1. mode = "return" /\ stack # << >>
  BY DEF ReturnToCaller, ReturnToBind, ReturnToThen, ReturnToSkip, ReturnToMap,
         ReturnToLabel, ReturnToAlt, ReturnToTryParse, ReturnToLookAhead,
         ReturnToManyAccum, ReturnToChoice, ReturnToCount, ReturnToSepEndBy1,
         ReturnToChainl1, ReturnToScanOpChain, ReturnToNotFollowedBy,
         ReturnToManyTill, ReturnToCommentRest, ReturningTo
<1>2. /\ st \in LiveStates
      /\ res.ok => res.st \in LiveStates
      /\ {Top.entry, Top.sofar.st, Top.held.st} \subseteq LiveStates
      /\ DOMAIN Top = {"node", "entry", "phase", "i", "sofar", "held"}
      /\ DOMAIN Top.sofar = {"ok", "consumed", "val", "st", "err"}
  BY <1>1, TopLive
<1> DEFINE Keeps == LiveStates' \subseteq LiveStates
<1>3. IsResult(FALSE, input, res)
  BY DEF Consumption
(* What a caller does next, with the State it takes on.                     *)
<1>4. ASSUME ~res.ok, Finish(res) PROVE Keeps
  BY <1>1, <1>4, FinishKeepsStates
<1>5. ASSUME Finish(res) PROVE Keeps
  BY <1>1, <1>2, <1>5, FinishKeepsStates
<1>6. ASSUME NEW c, NEW e, Finish(Err(c, e)) PROVE Keeps
  BY <1>1, <1>6, FinishKeepsStates DEF Err
<1>7. ASSUME NEW c, NEW v, NEW s \in LiveStates, NEW e, Finish(Ok(c, v, s, e))
      PROVE  Keeps
  BY <1>1, <1>7, FinishKeepsStates DEF Ok
<1>8. ASSUME NEW e, Finish([res EXCEPT !.err = e]) PROVE Keeps
  <2>1. /\ [res EXCEPT !.err = e].ok = res.ok
        /\ res.ok => [res EXCEPT !.err = e].st = res.st
    BY <1>3 DEF IsResult, IsOk, IsErr
  <2> QED
    BY <1>1, <1>2, <1>8, <2>1, FinishKeepsStates
<1>9. ASSUME NEW e, Finish([Top.sofar EXCEPT !.err = e]) PROVE Keeps
  <2>1. [Top.sofar EXCEPT !.err = e].st = Top.sofar.st
    BY <1>2
  <2> QED
    BY <1>1, <1>2, <1>9, <2>1, FinishKeepsStates
<1>10. ASSUME NEW f, NEW part, NEW s \in LiveStates, Resume(f, part, s),
              f.entry = Top.entry,
              f.sofar.st \in LiveStates, f.held.st \in LiveStates
       PROVE  Keeps
  BY <1>1, <1>2, <1>10, ResumeKeepsStates
<1> HIDE DEF Keeps
<1> SUFFICES Keeps
  BY DEF Keeps
<1>11. ASSUME NEW part, SequenceOn(part) PROVE Keeps
  <2>1. ASSUME res.ok PROVE LET f == [Top EXCEPT !.phase = "second", !.sofar = res]
                            IN  f.entry = Top.entry /\ f.sofar = res /\ f.held = Top.held
    BY <1>2
  <2> QED
    BY <1>2, <1>4, <1>10, <1>11, <2>1 DEF SequenceOn
<1>12. ASSUME NEW val, SequenceEnd(val) PROVE Keeps
  BY <1>2, <1>6, <1>7, <1>12 DEF SequenceEnd
<1>13. CASE ReturnToBind \/ ReturnToThen \/ ReturnToSkip
  BY <1>11, <1>12, <1>13 DEF ReturnToBind, ReturnToThen, ReturnToSkip
<1>14. CASE ReturnToMap
  <2>1. ASSUME res.ok, NEW v, Finish([res EXCEPT !.val = v]) PROVE Keeps
    <3>1. [res EXCEPT !.val = v].st = res.st
      BY <1>3, <2>1 DEF IsResult, IsOk, IsErr
    <3> QED
      BY <1>1, <1>2, <2>1, <3>1, FinishKeepsStates DEF Keeps
  <2>2. Throw => Keeps
    BY ThrowKeepsStates DEF Keeps
  <2> QED
    BY <1>4, <1>14, <2>1, <2>2 DEF ReturnToMap
<1>15. CASE ReturnToLabel
  BY <1>5, <1>6, <1>15 DEF ReturnToLabel
<1>16. CASE ReturnToAlt
  <2> DEFINE f == [Top EXCEPT !.phase = "second", !.sofar.err = res.err]
  <2>1. f.entry = Top.entry /\ f.sofar.st = Top.sofar.st /\ f.held = Top.held
    BY <1>2
  <2> QED
    BY <1>2, <1>5, <1>8, <1>10, <1>16, <2>1 DEF ReturnToAlt
<1>17. CASE ReturnToTryParse
  BY <1>5, <1>6, <1>17 DEF ReturnToTryParse
<1>18. CASE ReturnToLookAhead
  BY <1>2, <1>4, <1>7, <1>18 DEF ReturnToLookAhead
<1>19. CASE ReturnToManyAccum
  <2>1. ASSUME NEW acc, res.ok, Resume([Top EXCEPT !.sofar = Ok(TRUE, acc, res.st, res.err)],
                                       Top.node.p, res.st)
        PROVE  Keeps
    <3> DEFINE f == [Top EXCEPT !.sofar = Ok(TRUE, acc, res.st, res.err)]
    <3>1. f.entry = Top.entry /\ f.sofar.st = res.st /\ f.held = Top.held
      BY <1>2 DEF Ok
    <3> QED
      BY <1>2, <1>10, <2>1, <3>1
  <2> QED
    BY <1>5, <1>6, <1>9, <1>19, <2>1 DEF ReturnToManyAccum
<1>20. CASE ReturnToChoice
  <2> DEFINE e == merge(Top.sofar.err, res.err)
             f == [Top EXCEPT !.i = @ + 1, !.sofar.err = e]
  <2> HIDE DEF e
  <2>1. f.entry = Top.entry /\ f.sofar.st = Top.sofar.st /\ f.held = Top.held
    BY <1>2
  <2> QED
    BY <1>2, <1>5, <1>6, <1>8, <1>10, <1>20, <2>1 DEF ReturnToChoice, e
<1>21. CASE ReturnToCount
  <2> DEFINE g == Ok(Top.sofar.consumed \/ res.consumed, Top.sofar.val \o res.val,
                     res.st, res.err)
             f == [Top EXCEPT !.i = @ + 1, !.sofar = g]
  <2>1. f.entry = Top.entry /\ f.sofar.st = res.st /\ f.held = Top.held
    BY <1>2 DEF Ok
  <2> QED
    BY <1>2, <1>5, <1>6, <1>7, <1>10, <1>21, <2>1 DEF ReturnToCount
<1>22. ASSUME NEW separator, NEW seed, FirstItem(separator, seed) PROVE Keeps
  <2> DEFINE f == [Top EXCEPT !.phase = "sep", !.sofar = [res EXCEPT !.val = seed]]
  <2>1. ASSUME res.ok
        PROVE  f.entry = Top.entry /\ f.sofar.st = res.st /\ f.held = Top.held
    BY <1>2, <1>3, <2>1 DEF IsResult, IsOk, IsErr
  <2> QED
    BY <1>2, <1>4, <1>10, <1>22, <2>1 DEF FirstItem
<1>23. CASE Separator
  <2> DEFINE f == [Top EXCEPT !.phase = "item", !.held = res]
  <2>1. f.entry = Top.entry /\ f.sofar = Top.sofar /\ f.held = res
    BY <1>2
  <2> QED
    BY <1>2, <1>5, <1>9, <1>10, <1>23, <2>1 DEF Separator
<1>24. ASSUME NEW separator, NEW acc, NextItem(separator, acc) PROVE Keeps
  <2> DEFINE g == Ok(Top.sofar.consumed \/ Top.held.consumed \/ res.consumed, acc,
                     res.st, res.err)
             f == [Top EXCEPT !.phase = "sep", !.sofar = g]
  <2>1. f.entry = Top.entry /\ f.sofar.st = res.st /\ f.held = Top.held
    BY <1>2 DEF Ok
  <2> QED
    BY <1>2, <1>10, <1>24, <2>1 DEF NextItem
<1>25. CASE MissingOperand \/ NoMoreItems
  BY <1>2, <1>5, <1>6, <1>7, <1>25 DEF MissingOperand, NoMoreItems
<1>26. CASE ReturnToSepEndBy1 \/ ReturnToChainl1 \/ ReturnToScanOpChain
  BY <1>22, <1>23, <1>24, <1>25, <1>26
     DEF ReturnToSepEndBy1, ReturnToChainl1, ReturnToScanOpChain
<1>27. CASE ReturnToNotFollowedBy
  BY <1>2, <1>6, <1>7, <1>27 DEF ReturnToNotFollowedBy
<1>28. CASE ReturnToManyTill
  <2> DEFINE merged == merge(Top.sofar.err, res.err)
             g == Ok(Top.sofar.consumed \/ res.consumed, Top.sofar.val \o res.val,
                     res.st, res.err)
             f == [Top EXCEPT !.phase = "body", !.sofar.err = merged]
             h == [Top EXCEPT !.phase = "first", !.sofar = g]
  <2> HIDE DEF merged
  <2>1. f.entry = Top.entry /\ f.sofar.st = Top.sofar.st /\ f.held = Top.held
    BY <1>2
  <2>2. h.entry = Top.entry /\ h.sofar.st = res.st /\ h.held = Top.held
    BY <1>2 DEF Ok
  <2> QED
    BY <1>2, <1>5, <1>6, <1>7, <1>10, <1>28, <2>1, <2>2 DEF ReturnToManyTill, merged
<1>29. ASSUME NEW phase, NEW part, ScanOn(phase, part) PROVE Keeps
  <2> DEFINE f == [Top EXCEPT !.phase = phase]
  <2>1. f.entry = Top.entry /\ f.sofar = Top.sofar /\ f.held = Top.held
    BY <1>2
  <2> QED
    BY <1>2, <1>10, <1>29, <2>1 DEF ScanOn
<1>30. CASE ReturnToCommentRest
  <2>1. SkipInComment => Keeps
    BY <1>6, <1>29 DEF SkipInComment
  <2> DEFINE moved == Ok(Top.sofar.consumed \/ res.consumed, << >>, res.st,
                         unknown(res.st.pos))
             f == [Top EXCEPT !.phase = "first", !.i = Nesting, !.sofar = moved]
  <2>2. f.entry = Top.entry /\ f.sofar.st = res.st /\ f.held = Top.held
    BY <1>2 DEF Ok
  <2> QED
    BY <1>2, <1>7, <1>10, <1>29, <1>30, <2>1, <2>2 DEF ReturnToCommentRest
<1> QED
  BY <1>13, <1>14, <1>15, <1>16, <1>17, <1>18, <1>19, <1>20, <1>21, <1>26, <1>27,
     <1>28, <1>30 DEF ReturnToCaller

-----------------------------------------------------------------------------
(* The parsers that read the input.                                         *)

(* What take_while takes is the stretch from its cursor to where it stops.  *)
LEMMA RunIsInterval ==
  ASSUME input \in Seq(Nat), NEW accepts, NEW idx \in 0..Len(input)
  PROVE  /\ EndOfRun(accepts, idx) \in idx..Len(input)
         /\ Run(accepts, idx) = (idx + 1)..EndOfRun(accepts, idx)
<1> DEFINE R == Run(accepts, idx)
           S == {k \in Nat : idx + k <= Len(input) =>
                   \/ (idx + 1)..(idx + k) \subseteq R
                   \/ \E m \in 0..k : R = (idx + 1)..(idx + m)}
<1>1. Len(input) \in Nat /\ idx \in Nat
  BY LenProperties
<1>2. /\ R \subseteq (idx + 1)..Len(input)
      /\ \A i \in R : (idx + 1)..i \subseteq R
  BY <1>1 DEF Run
<1> HIDE DEF R
<1>3. 0 \in S
  BY <1>1
<1>4. ASSUME NEW k \in Nat, k \in S PROVE k + 1 \in S
  <2> SUFFICES ASSUME idx + (k + 1) <= Len(input)
               PROVE  \/ (idx + 1)..(idx + (k + 1)) \subseteq R
                      \/ \E m \in 0..(k + 1) : R = (idx + 1)..(idx + m)
    OBVIOUS
  <2>1. CASE \E m \in 0..k : R = (idx + 1)..(idx + m)
    BY <2>1
  <2>2. CASE (idx + 1)..(idx + k) \subseteq R /\ idx + (k + 1) \in R
    BY <1>2, <2>2
  <2>3. CASE (idx + 1)..(idx + k) \subseteq R /\ idx + (k + 1) \notin R
    <3>1. \A i \in R : i <= idx + k
      BY <1>1, <1>2, <2>3
    <3>2. ASSUME NEW i \in R PROVE i \in (idx + 1)..(idx + k)
      <4>1. i \in (idx + 1)..Len(input)
        BY <1>2
      <4> QED
        BY <1>1, <3>1, <4>1
    <3>3. R = (idx + 1)..(idx + k)
      BY <2>3, <3>2
    <3> QED
      BY <3>3
  <2>4. idx + k <= Len(input)
    BY <1>1
  <2> QED
    BY <1>4, <2>1, <2>2, <2>3, <2>4
<1>5. Nat \subseteq S
  <2> HIDE DEF S
  <2> QED
    BY <1>3, <1>4, NatSetInduction
<1>6. PICK m \in 0..(Len(input) - idx) : R = (idx + 1)..(idx + m)
  <2>1. Len(input) - idx \in Nat /\ idx + (Len(input) - idx) = Len(input)
    BY <1>1
  <2>2. \/ (idx + 1)..(idx + (Len(input) - idx)) \subseteq R
        \/ \E m \in 0..(Len(input) - idx) : R = (idx + 1)..(idx + m)
    <3>1. Len(input) - idx \in S
      <4> HIDE DEF S
      <4> QED
        BY <1>5, <2>1
    <3> QED
      BY <2>1, <3>1
  <2>3. CASE (idx + 1)..(idx + (Len(input) - idx)) \subseteq R
    <3>1. R = (idx + 1)..(idx + (Len(input) - idx))
      BY <1>1, <1>2, <2>1, <2>3
    <3>2. Len(input) - idx \in 0..(Len(input) - idx)
      BY <2>1
    <3> QED
      BY <3>1, <3>2
  <2> QED
    BY <2>2, <2>3
<1>7. Cardinality(R) = m
  <2>1. idx + 1 \in Int /\ idx + m \in Int
    BY <1>1
  <2>2. Cardinality((idx + 1)..(idx + m)) =
          IF idx + 1 > idx + m THEN 0 ELSE (idx + m) - (idx + 1) + 1
    BY <2>1, FS_Interval
  <2> QED
    BY <1>1, <1>6, <2>2
<1> QED
  BY <1>1, <1>6, <1>7 DEF EndOfRun, R

(* The indices of the characters that the parser about to run will take.    *)
Takes ==
  {i \in 1..Len(input) :
     \/ /\ node.op \in {"token_prim", "client_token"}
        /\ i = st.index + 1 /\ input[i] \in node.accepts
     \/ /\ node.op \in {"take_while", "take_while1"}
        /\ i \in Run(node.accepts, st.index)
     \/ /\ node.op = "tokens" /\ Matches(node.str, st.index)
        /\ i \in (st.index + 1)..(st.index + Len(node.str))}

(* The text of a tokens parser is a std::string.                            *)
TextsAreStrings == mode = "call" /\ node.op = "tokens" => node.str \in Seq(Nat)

(* A State, and one made of another.                                        *)
IsRecord(s) == s \in [index : {s.index}, pos : {s.pos}, user : {s.user}]

LEMMA RecordMoves ==
  ASSUME NEW s, IsRecord(s), NEW i, NEW p
  PROVE  LET t == [s EXCEPT !.index = i, !.pos = p]
         IN  IsRecord(t) /\ t.index = i /\ t.pos = p /\ t.user = s.user
BY DEF IsRecord

(* A State inside the text, with the position of its cursor there.          *)

Placed(text, s) ==
  /\ IsRecord(s)
  /\ s.index \in 0..Len(text)
  /\ s.pos = PosAt(text, s.index)

(* What a tokens parser that matches takes is its text.                     *)
LEMMA MatchTakes ==
  ASSUME input \in Seq(Nat), NEW str \in Seq(Nat), NEW idx \in 0..Len(input),
         Matches(str, idx)
  PROVE  /\ idx + Len(str) \in 0..Len(input)
         /\ \A k \in 1..Len(str) : str[k] = input[idx + k]
<1> DEFINE to == SmallerOf(idx + Len(str), Len(input))
<1>1. /\ Len(input) \in Nat /\ idx \in Nat /\ Len(str) \in Nat
      /\ DOMAIN str = 1..Len(str)
  BY LenProperties
<1>2. to \in Nat /\ idx <= to /\ to <= Len(input)
  BY <1>1 DEF SmallerOf
<1>3. \A k \in (idx + 1)..to : input[k] \in Nat
  BY <1>1, <1>2, ElementOfSeq
<1>4. SubSeq(input, idx + 1, to) = str
  BY DEF Matches, substr
<1>5. idx + 1 \in Int /\ to \in Int
  BY <1>1, <1>2
<1> HIDE DEF to
<1>6. /\ Len(str) = IF idx + 1 <= to THEN to - (idx + 1) + 1 ELSE 0
      /\ \A k \in 1..(to - (idx + 1) + 1) : str[k] = input[(idx + 1) + k - 1]
  <2> DEFINE m == idx + 1
  <2>1. m \in Int /\ \A k \in m..to : input[k] \in Nat
    BY <1>3, <1>5
  <2> HIDE DEF m
  <2>2. /\ Len(SubSeq(input, m, to)) = IF m <= to THEN to - m + 1 ELSE 0
        /\ \A k \in 1..(to - m + 1) : SubSeq(input, m, to)[k] = input[m + k - 1]
    BY <1>5, <2>1, SubSeqProperties
  <2>3. SubSeq(input, m, to) = str
    BY <1>4 DEF m
  <2> QED
    BY <2>2, <2>3 DEF m
<1>7. Len(str) = to - idx
  BY <1>1, <1>2, <1>6
<1>8. ASSUME NEW k \in 1..Len(str) PROVE str[k] = input[idx + k]
  <2>1. k \in 1..(to - (idx + 1) + 1) /\ (idx + 1) + k - 1 = idx + k
    BY <1>1, <1>2, <1>7
  <2> QED
    BY <1>6, <2>1
<1> QED
  BY <1>1, <1>2, <1>7, <1>8

(* A parser that reads the input moves the State it was called on over what *)
(* it takes: the cursor, the position with it, and the user state by one    *)
(* where it is a client's.                                                  *)
Moved(s) ==
  /\ Placed(input, s)
  /\ (st.index + 1)..s.index = Takes /\ st.index <= s.index
  /\ node.op = "client_token" => s.index = st.index + 1
  /\ s.user = st.user + IF node.op = "client_token" THEN 1 ELSE 0

LEMMA LeafTakes ==
  ASSUME input \in Seq(Nat), Placed(input, st), st.user \in Nat,
         TextsAreStrings, CallLeaf
  PROVE  /\ input' = input /\ st' = st /\ stack' = stack
         /\ res'.ok => res'.st = st \/ Moved(res'.st)
<1>1. /\ Len(input) \in Nat /\ st.index \in 0..Len(input) /\ st.index \in Nat
      /\ IsRecord(st) /\ DOMAIN st = {"index", "pos", "user"}
      /\ st.pos = PosAt(input, st.index)
      /\ mode = "call"
  <2>1. mode = "call"
    BY DEF CallLeaf, CallPure, CallFail, CallTokenPrim, CallClientToken, CallTokens,
           CallTakeWhile, CallTakeWhile1, Calling
  <2> QED
    BY <2>1, LenProperties DEF Placed, IsRecord
<1> DEFINE Goal == /\ input' = input /\ st' = st /\ stack' = stack
                   /\ res'.ok => res'.st = st \/ Moved(res'.st)
<1>2. ASSUME NEW c, NEW e, Return(Err(c, e)) PROVE Goal
  BY <1>2 DEF Return, Err
<1>3. ASSUME NEW c, NEW v, NEW e, Return(Ok(c, v, st, e)) PROVE Goal
  BY <1>3 DEF Return, Ok
<1>4. ASSUME NEW c, NEW v, NEW s, Moved(s), NEW e, Return(Ok(c, v, s, e)) PROVE Goal
  BY <1>4 DEF Return, Ok
<1> HIDE DEF Goal
<1> SUFFICES Goal
  BY DEF Goal
<1>5. CASE CallPure
  BY <1>3, <1>5 DEF CallPure
<1>6. CASE CallFail
  BY <1>2, <1>6 DEF CallFail
(* token_prim and a client's token: one character.                          *)
<1>7. ASSUME node.op \in {"token_prim", "client_token"}, st.index < Len(input),
             input[st.index + 1] \in node.accepts,
             NEW s, IsRecord(s),
             s.index = st.index + 1,
             s.pos = update_pos_char(st.pos, input[st.index + 1]),
             s.user = st.user + IF node.op = "client_token" THEN 1 ELSE 0
      PROVE  Moved(s)
  <2>1. s.index \in 0..Len(input) /\ st.index <= s.index
    BY <1>1, <1>7
  <2>2. s.pos = PosAt(input, s.index)
    BY <1>1, <1>7, PosAtNext
  <2>3. Takes = {st.index + 1}
    BY <1>1, <1>7 DEF Takes
  <2>4. (st.index + 1)..s.index = {st.index + 1}
    BY <1>1, <1>7
  <2> QED
    BY <1>7, <2>1, <2>2, <2>3, <2>4 DEF Moved, Placed
<1>8. CASE CallTokenPrim
  <2> DEFINE s == [st EXCEPT !.index = @ + 1,
                             !.pos = update_pos_char(st.pos, input[st.index + 1])]
  <2>1. node.op = "token_prim"
    BY <1>8 DEF CallTokenPrim, Calling
  <2>2. /\ IsRecord(s) /\ s.index = st.index + 1
        /\ s.pos = update_pos_char(st.pos, input[st.index + 1])
        /\ s.user = st.user
    BY <1>1, RecordMoves, Zenon
  <2>3. ASSUME st.index < Len(input), input[st.index + 1] \in node.accepts
        PROVE  Moved(s)
    <3> HIDE DEF s
    <3> QED
      BY <1>7, <2>1, <2>2, <2>3
  <2> QED
    BY <1>2, <1>4, <1>8, <2>3 DEF CallTokenPrim
<1>9. CASE CallClientToken
  <2> DEFINE s == [index |-> st.index + 1,
                   pos |-> update_pos_char(st.pos, input[st.index + 1]),
                   user |-> st.user + 1]
  <2>1. node.op = "client_token"
    BY <1>9 DEF CallClientToken, Calling
  <2>2. ASSUME st.index < Len(input), input[st.index + 1] \in node.accepts
        PROVE  Moved(s)
    <3>1. /\ IsRecord(s) /\ s.index = st.index + 1
          /\ s.pos = update_pos_char(st.pos, input[st.index + 1])
          /\ s.user = st.user + 1
      BY DEF IsRecord
    <3> HIDE DEF s
    <3> QED
      BY <1>7, <2>1, <2>2, <3>1
  <2> QED
    BY <1>2, <1>4, <1>9, <2>2 DEF CallClientToken
(* tokens: its text.                                                        *)
<1>10. CASE CallTokens
  <2> DEFINE s == [st EXCEPT !.index = @ + Len(node.str),
                             !.pos = update_pos_string(st.pos, node.str)]
  <2>1. node.op = "tokens" /\ node.str \in Seq(Nat) /\ Len(node.str) \in Nat
    BY <1>1, <1>10, LenProperties DEF CallTokens, Calling, TextsAreStrings
  <2>2. ASSUME Matches(node.str, st.index) PROVE Moved(s)
    <3>1. /\ st.index + Len(node.str) \in 0..Len(input)
          /\ \A k \in 1..Len(node.str) : node.str[k] = input[st.index + k]
      BY <1>1, <2>1, <2>2, MatchTakes
    <3>2. /\ IsRecord(s) /\ s.index = st.index + Len(node.str)
          /\ s.pos = update_pos_string(st.pos, node.str) /\ s.user = st.user
      BY <1>1, RecordMoves, Zenon
    <3> HIDE DEF s
    <3>3. s.pos = PosAt(input, s.index)
      <4>1. PICK str \in Seq(Nat) : str = node.str
        BY <2>1
      <4>2. \A k \in 1..Len(str) : str[k] = input[st.index + k]
        BY <3>1, <4>1
      <4>3. update_pos_string(PosAt(input, st.index), str) = PosAt(input, st.index + Len(str))
        BY <1>1, <4>2, UpdatePosStringFollows
      <4> QED
        BY <1>1, <3>2, <4>1, <4>3
    <3>4. (st.index + 1)..s.index = Takes /\ st.index <= s.index
      BY <1>1, <2>1, <2>2, <3>1, <3>2 DEF Takes
    <3> QED
      BY <2>1, <3>1, <3>2, <3>3, <3>4 DEF Moved, Placed
  <2> QED
    BY <1>2, <1>4, <1>10, <2>2 DEF CallTokens
(* take_while and take_while1: the run.                                     *)
<1>11. ASSUME node.op \in {"take_while", "take_while1"},
              Return(Took(EndOfRun(node.accepts, st.index)))
       PROVE  Goal
  <2> DEFINE end == EndOfRun(node.accepts, st.index)
             s == [st EXCEPT !.index = end, !.pos = scan_pos(st.pos, input, st.index, end)]
  <2>1. /\ end \in st.index..Len(input)
        /\ Run(node.accepts, st.index) = (st.index + 1)..end
    BY <1>1, RunIsInterval
  <2> HIDE DEF end
  <2>2. /\ IsRecord(s) /\ s.index = end
        /\ s.pos = scan_pos(st.pos, input, st.index, end) /\ s.user = st.user
    BY <1>1, RecordMoves, Zenon
  <2>3. Return(Ok(TRUE, SubSeq(input, st.index + 1, end), s, unknown(s.pos)))
    BY <1>11, <2>2 DEF Took, end
  <2> HIDE DEF s
  <2>4. end \in Nat /\ st.index <= end /\ end \in 0..Len(input)
    BY <1>1, <2>1
  <2>5. s.pos = PosAt(input, s.index)
    BY <1>1, <2>2, <2>4, ScanPosFollows
  <2>6. (st.index + 1)..s.index = Takes
    BY <1>1, <1>11, <2>1, <2>2, <2>4 DEF Takes
  <2>7. Moved(s)
    BY <1>11, <2>2, <2>4, <2>5, <2>6 DEF Moved, Placed
  <2> QED
    BY <1>4, <2>3, <2>7
<1>12. CASE CallTakeWhile
  BY <1>3, <1>11, <1>12 DEF CallTakeWhile, Calling
<1>13. CASE CallTakeWhile1
  BY <1>2, <1>11, <1>13 DEF CallTakeWhile1, Calling
<1> QED
  BY <1>5, <1>6, <1>8, <1>9, <1>10, <1>12, <1>13 DEF CallLeaf

-----------------------------------------------------------------------------
(* A step makes no State, or one from the State that it reads from.         *)
LEMMA StepStates ==
  ASSUME Consumption(FALSE), [Next]_vars,
         Placed(input, st), st.user \in Nat, TextsAreStrings
  PROVE  /\ input' = input
         /\ \/ LiveStates' \subseteq LiveStates
            \/ mode = "call" /\ \E s : Moved(s) /\ LiveStates' \subseteq LiveStates \cup {s}
<1>1. CASE CallLeaf
  <2>1. /\ input' = input /\ st' = st /\ stack' = stack
        /\ res'.ok => res'.st = st \/ Moved(res'.st)
    BY <1>1, LeafTakes DEF Consumption
  <2>2. mode = "call"
    BY <1>1 DEF CallLeaf, CallPure, CallFail, CallTokenPrim, CallClientToken, CallTokens,
                CallTakeWhile, CallTakeWhile1, Calling
  <2>3. \A s : IsLive(s)' => IsLive(s) \/ (res'.ok /\ s = res'.st)
    BY <2>1 DEF IsLive
  <2>4. CASE res'.ok => res'.st = st
    <3>1. \A s : IsLive(s)' => IsLive(s)
      BY <2>3, <2>4 DEF IsLive
    <3> QED
      BY <2>1, <3>1, LiveUnfold
  <2>5. CASE res'.ok /\ Moved(res'.st)
    <3>1. LiveStates' \subseteq LiveStates \cup {res'.st}
      BY <2>3, LiveUnfold
    <3> QED
      BY <2>1, <2>2, <2>5, <3>1
  <2> QED
    BY <2>1, <2>4, <2>5
<1>2. CASE CallLazy \/ UNCHANGED vars
  <2>1. st' = st /\ res' = res /\ stack' = stack /\ input' = input
    BY <1>2 DEF CallLazy, vars
  <2>2. \A s : IsLive(s)' => IsLive(s)
    BY <2>1 DEF IsLive
  <2> QED
    BY <2>1, <2>2, LiveUnfold
<1>3. CASE CallComposite
  BY <1>3, CallKeepsStates DEF CallComposite
<1>4. CASE ReturnToCaller
  <2>1. input' = input
    BY <1>4, ReturnKeepsInput
  <2> QED
    BY <1>4, <2>1, CallerKeepsStates
<1> QED
  BY <1>1, <1>2, <1>3, <1>4 DEF Next, Step

-----------------------------------------------------------------------------
(* Every live State is inside the text, at the position of its cursor.      *)
AllPlaced == \A s \in LiveStates : Placed(input, s) /\ s.user \in Nat

LEMMA StartLive ==
  ASSUME NEW root, InitOn(root)
  PROVE  LiveStates = {Initial} /\ st = Initial
<1>1. st = Initial /\ res.st = Initial /\ DOMAIN stack = {}
  BY DEF InitOn, Ok
<1>2. \A s : IsLive(s) <=> s = Initial
  BY <1>1 DEF IsLive
<1> QED
  BY <1>1, <1>2, LiveUnfold

LEMMA InitLive ==
  ASSUME Init
  PROVE  LiveStates = {Initial} /\ st = Initial
BY StartLive DEF Init

LEMMA InitialPlaced ==
  ASSUME NEW text \in Seq(Nat)
  PROVE  Placed(text, Initial) /\ Initial.user = 0
<1>1. Len(text) \in Nat
  BY LenProperties
<1> QED
  BY <1>1, PosAtStart DEF Placed, IsRecord, Initial

LEMMA AllPlacedStep ==
  ASSUME Consumption(FALSE), [Next]_vars, AllPlaced, TextsAreStrings
  PROVE  AllPlaced'
<1>1. Placed(input, st) /\ st.user \in Nat
  BY LiveUnfold DEF AllPlaced, IsLive
<1>2. /\ input' = input
      /\ \/ LiveStates' \subseteq LiveStates
         \/ \E s : Moved(s) /\ LiveStates' \subseteq LiveStates \cup {s}
  BY <1>1, StepStates
<1>3. ASSUME NEW s, Moved(s) PROVE Placed(input, s) /\ s.user \in Nat
  BY <1>1, <1>3 DEF Moved
<1> QED
  BY <1>2, <1>3 DEF AllPlaced

(* Every State alive on the stack of a run has the position of its cursor,  *)
(* for every grammar, text and client, where texts are strings.             *)
THEOREM PositionsFollow == Spec /\ []TextsAreStrings => []PositionsFollowInput
<1>1. Init => Consumption(FALSE) /\ AllPlaced
  <2> SUFFICES ASSUME Init PROVE Consumption(FALSE) /\ AllPlaced
    OBVIOUS
  <2>1. Consumption(FALSE)
    BY ConsumptionInit
  <2>2. AllPlaced
    BY <2>1, InitLive, InitialPlaced DEF AllPlaced, Consumption
  <2> QED
    BY <2>1, <2>2
<1>2. Consumption(FALSE) /\ AllPlaced /\ TextsAreStrings /\ [Next]_vars
        => Consumption(FALSE)' /\ AllPlaced'
  BY ConsumptionStep, AllPlacedStep
<1>3. AllPlaced => PositionsFollowInput
  BY DEF AllPlaced, Placed, PositionsFollowInput
<1> QED
  BY <1>1, <1>2, <1>3, PTL DEF Spec

-----------------------------------------------------------------------------
(* The premise on clients: the characters counted are those that only a     *)
(* client's token parser takes.                                             *)
CountedByClients ==
  mode = "call" => \A i \in Takes : input[i] \in Counted <=> node.op = "client_token"

CountIn(text, s) == {i \in 1..s.index : text[i] \in Counted}

(* A State inside the text whose user state is the count up to its cursor.  *)
Counts(text, s) == Placed(text, s) /\ s.user = Cardinality(CountIn(text, s))

LEMMA CountsNat ==
  ASSUME NEW text, Len(text) \in Nat, NEW s, Counts(text, s)
  PROVE  IsFiniteSet(CountIn(text, s)) /\ s.user \in Nat
<1>1. s.index \in Nat
  BY DEF Counts, Placed
<1>2. IsFiniteSet(1..s.index)
  BY <1>1, FS_Interval
<1>3. CountIn(text, s) \subseteq 1..s.index
  BY DEF CountIn
<1> QED
  BY <1>2, <1>3, FS_Subset, FS_CardinalityType DEF Counts

LEMMA MovedCounts ==
  ASSUME input \in Seq(Nat), mode = "call", CountedByClients,
         Counts(input, st), NEW s, Moved(s)
  PROVE  Counts(input, s)
<1>1. /\ Len(input) \in Nat /\ st.index \in Nat /\ s.index \in Nat
      /\ st.index <= s.index
  BY LenProperties DEF Counts, Moved, Placed
<1>2. /\ IsFiniteSet(CountIn(input, st)) /\ st.user \in Nat
      /\ st.user = Cardinality(CountIn(input, st))
  BY <1>1, CountsNat DEF Counts
<1>3. \A i \in (st.index + 1)..s.index :
         input[i] \in Counted <=> node.op = "client_token"
  BY DEF Moved, CountedByClients
<1>4. CASE node.op = "client_token"
  <2>1. s.index = st.index + 1 /\ s.user = st.user + 1
    BY <1>4 DEF Moved
  <2>2. input[st.index + 1] \in Counted
    BY <1>1, <1>3, <1>4, <2>1
  <2>3. CountIn(input, s) = CountIn(input, st) \cup {st.index + 1}
    BY <1>1, <2>1, <2>2 DEF CountIn
  <2>4. st.index + 1 \notin CountIn(input, st)
    BY <1>1 DEF CountIn
  <2>5. Cardinality(CountIn(input, s)) = Cardinality(CountIn(input, st)) + 1
    BY <1>2, <2>3, <2>4, FS_AddElement
  <2> QED
    BY <1>2, <2>1, <2>5 DEF Counts, Moved
<1>5. CASE node.op # "client_token"
  <2>1. s.user = st.user + 0
    BY <1>5 DEF Moved
  <2>2. CountIn(input, s) = CountIn(input, st)
    BY <1>1, <1>3, <1>5 DEF CountIn
  <2> QED
    BY <1>2, <2>1, <2>2 DEF Counts, Moved
<1> QED
  BY <1>4, <1>5

AllCount == \A s \in LiveStates : Counts(input, s)

LEMMA AllCountStep ==
  ASSUME Consumption(FALSE), [Next]_vars, AllCount, TextsAreStrings, CountedByClients
  PROVE  AllCount'
<1>1. Counts(input, st) /\ input \in Seq(Nat) /\ Len(input) \in Nat
  BY LiveUnfold, LenProperties DEF AllCount, IsLive, Consumption
<1>2. Placed(input, st) /\ st.user \in Nat
  BY <1>1, CountsNat DEF Counts
<1>3. /\ input' = input
      /\ \/ LiveStates' \subseteq LiveStates
         \/ mode = "call" /\ \E s : Moved(s) /\ LiveStates' \subseteq LiveStates \cup {s}
  BY <1>2, StepStates
<1>4. ASSUME NEW s, mode = "call", Moved(s) PROVE Counts(input, s)
  BY <1>1, <1>4, MovedCounts
<1> QED
  BY <1>3, <1>4 DEF AllCount

(* The user state of every State alive on the stack of a run is what the    *)
(* client's parsers made of the text before its cursor: backtracking,       *)
(* look_ahead and not_followed_by leave no trace in it, for every grammar,  *)
(* text and client that counts characters no other parser takes.            *)
THEOREM UserStateFollows ==
  Spec /\ []TextsAreStrings /\ []CountedByClients => []UserStateFollowsInput
<1>1. Init => Consumption(FALSE) /\ AllCount
  <2> SUFFICES ASSUME Init PROVE Consumption(FALSE) /\ AllCount
    OBVIOUS
  <2>1. Consumption(FALSE)
    BY ConsumptionInit
  <2>2. Placed(input, Initial) /\ Initial.user = 0 /\ Initial.index = 0
    BY <2>1, InitialPlaced DEF Consumption, Initial
  <2>3. CountIn(input, Initial) = {}
    BY <2>2 DEF CountIn
  <2>4. Counts(input, Initial)
    BY <2>2, <2>3, FS_EmptySet DEF Counts
  <2> QED
    BY <2>1, <2>4, InitLive DEF AllCount
<1>2. Consumption(FALSE) /\ AllCount /\ TextsAreStrings /\ CountedByClients /\ [Next]_vars
        => Consumption(FALSE)' /\ AllCount'
  BY ConsumptionStep, AllCountStep
<1>3. AllCount => UserStateFollowsInput
  BY DEF AllCount, Counts, CountIn, UserStateFollowsInput
<1> QED
  BY <1>1, <1>2, <1>3, PTL DEF Spec
=============================================================================
