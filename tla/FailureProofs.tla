----------------------------- MODULE FailureProofs -----------------------------
(***************************************************************************)
(* Failures, for every grammar, input and client.                          *)
(*                                                                         *)
(* Every error, ghost errors included, points between where its parser was *)
(* called and the end of the input, and no failure is silent; operator|    *)
(* and choice keep the furthest one whole.  With it, the whole type        *)
(* invariant.  A failure that consumed input says so and ends everything   *)
(* that called its parser, up to a try_parse.                              *)
(***************************************************************************)
EXTENDS LiveStateProofs

-----------------------------------------------------------------------------
(* The texts of fail and label are std::strings, as those of tokens are.    *)
MessagesAreStrings ==
  mode = "call" /\ node.op \in {"fail", "label"} => node.msg \in Seq(Nat)

(* An error of a parser called on State s of a text.                        *)
Points(text, s, e) ==
  /\ IsError(e)
  /\ PosAtMost(s.pos, e.pos)
  /\ PosAtMost(e.pos, PosAt(text, Len(text)))

ResultSound(text, s, r) ==
  /\ Points(text, s, r.err)
  /\ r.ok => s.index <= r.st.index
  /\ ~r.ok => ~is_unknown(r.err)

(* A suspended parser: what it has gathered is no worse than a result of    *)
(* its own, and it is in one of its phases.                                 *)
FrameSound(text, f) ==
  /\ ResultSound(text, f.entry, f.sofar)
  /\ ResultSound(text, f.entry, f.held)
  /\ f.node.op = "alt" /\ f.phase = "first" => is_unknown(f.sofar.err)
  /\ f.node.op = "label" => f.node.msg \in Seq(Nat)
  /\ f.node.op \in Composite
  /\ f.phase \in Phases(f.node.op)
  /\ f.i \in Nat \ {0}

Sound ==
  /\ IsError(res.err)
  /\ ~res.ok => ~is_unknown(res.err)
  /\ mode = "return" => ResultSound(input, st, res)
  /\ \A k \in DOMAIN stack : FrameSound(input, stack[k])

-----------------------------------------------------------------------------
(* Errors at the position of a State.                                       *)
LEMMA PlacedInOrder ==
  ASSUME NEW text \in Seq(Nat), NEW s, NEW t, Placed(text, s), Placed(text, t),
         s.index <= t.index
  PROVE  /\ s.pos \in Position /\ t.pos \in Position
         /\ PosAt(text, Len(text)) \in Position
         /\ PosAtMost(s.pos, t.pos)
         /\ PosAtMost(t.pos, PosAt(text, Len(text)))
<1>1. /\ s.index \in Nat /\ t.index \in Nat /\ Len(text) \in Nat
      /\ t.index <= Len(text)
      /\ s.pos = PosAt(text, s.index) /\ t.pos = PosAt(text, t.index)
  BY LenProperties DEF Placed
<1> QED
  BY <1>1, PosAtType, PosAtMonotone

LEMMA UnknownPoints ==
  ASSUME NEW text \in Seq(Nat), NEW s, NEW t, Placed(text, s), Placed(text, t),
         s.index <= t.index
  PROVE  Points(text, s, unknown(t.pos))
<1>1. /\ unknown(t.pos).pos = t.pos /\ unknown(t.pos).messages = << >>
      /\ DOMAIN unknown(t.pos) = {"pos", "messages"}
  BY DEF unknown
<1>2. << >> \in Seq(AllMessages)
  BY EmptySeq
<1> QED
  BY <1>1, <1>2, PlacedInOrder DEF Points, IsError

LEMMA MessagesPoint ==
  ASSUME NEW text \in Seq(Nat), NEW s, NEW t, Placed(text, s), Placed(text, t),
         s.index <= t.index, NEW msgs \in Seq(AllMessages), msgs # << >>
  PROVE  LET e == [pos |-> t.pos, messages |-> msgs]
         IN  Points(text, s, e) /\ ~is_unknown(e)
BY PlacedInOrder DEF Points, IsError, is_unknown

LEMMA MessagePoints ==
  ASSUME NEW text \in Seq(Nat), NEW s, NEW t, Placed(text, s), Placed(text, t),
         s.index <= t.index, NEW type \in SysUnExpect..Msg, NEW msg \in Seq(Nat)
  PROVE  /\ Points(text, s, with_message(t.pos, type, msg))
         /\ ~is_unknown(with_message(t.pos, type, msg))
<1>1. Message(type, msg) \in AllMessages
  BY DEF Message, AllMessages
<1>2. << Message(type, msg) >> \in Seq(AllMessages) /\ << Message(type, msg) >> # << >>
  BY <1>1
<1> QED
  BY <1>2, MessagesPoint DEF with_message

LEMMA MergePoints ==
  ASSUME NEW text, NEW s, NEW e1, NEW e2, Points(text, s, e1), Points(text, s, e2)
  PROVE  /\ Points(text, s, merge(e1, e2))
         /\ is_unknown(merge(e1, e2)) <=> is_unknown(e1) /\ is_unknown(e2)
BY MergeKeepsFurthest DEF Points

(* An error of a part is one of its caller, which was called no later.      *)
LEMMA SoundFromEarlier ==
  ASSUME NEW text \in Seq(Nat), NEW s, NEW t, Placed(text, s), Placed(text, t),
         s.index <= t.index,
         NEW r, r.ok => r.st.index \in Nat, ResultSound(text, t, r)
  PROVE  ResultSound(text, s, r)
<1>1. /\ s.pos \in Position /\ t.pos \in Position /\ PosAtMost(s.pos, t.pos)
      /\ r.err.pos \in Position
  BY PlacedInOrder DEF ResultSound, Points, IsError
<1>2. PosAtMost(s.pos, r.err.pos)
  BY <1>1, PositionsInLine DEF ResultSound, Points
<1>3. s.index \in Nat /\ t.index \in Nat
  BY LenProperties DEF Placed
<1> QED
  BY <1>2, <1>3 DEF ResultSound, Points

(* What a caller knows of itself and of its part's result.                  *)
LEMMA CallerSound ==
  ASSUME Consumption(FALSE), AllPlaced, Sound, mode = "return", stack # << >>
  PROVE  /\ FrameSound(input, Top)
         /\ ResultSound(input, Top.entry, res)
         /\ Placed(input, Top.entry)
         /\ Placed(input, Top.sofar.st) /\ Placed(input, Top.held.st)
         /\ res.ok => Placed(input, res.st)
         /\ \A k \in DOMAIN Below : FrameSound(input, Below[k])
<1>1. /\ Placed(input, st) /\ Placed(input, Top.entry)
      /\ Placed(input, Top.sofar.st) /\ Placed(input, Top.held.st)
      /\ res.ok => Placed(input, res.st)
  BY TopLive DEF AllPlaced
<1>2. FrameSound(input, Top) /\ \A k \in DOMAIN Below : FrameSound(input, Below[k])
  <2>1. DOMAIN Below \subseteq DOMAIN stack
    BY StackShape
  <2> QED
    BY <2>1, StackShape DEF Sound, Top
<1>3. Top.entry.index <= st.index
  <2>1. Top.sofar.ok /\ Top.held.ok
    BY StackShape DEF FrameOK, IsOk
  <2>2. Top.entry.index <= Top.sofar.st.index /\ Top.entry.index <= Top.held.st.index
    BY <1>2, <2>1 DEF FrameSound, ResultSound
  <2>3. st = CalledOn(Top)
    BY CallerOK
  <2> QED
    BY <2>2, <2>3 DEF CalledOn
<1>4. ResultSound(input, Top.entry, res)
  <2>1. ResultSound(input, st, res) /\ input \in Seq(Nat)
    BY DEF Sound, Consumption
  <2>2. res.ok => res.st.index \in Nat
    BY <1>1 DEF Placed
  <2> QED
    BY <1>1, <1>3, <2>1, <2>2, SoundFromEarlier
<1> QED
  BY <1>1, <1>2, <1>4

-----------------------------------------------------------------------------
(* The ways the machine steps.                                              *)
LEMMA FinishSound ==
  ASSUME Consumption(FALSE), AllPlaced, Sound, mode = "return", stack # << >>,
         NEW r, Finish(r), ResultSound(input, Top.entry, r)
  PROVE  Sound'
<1>1. /\ mode' = "return" /\ res' = r /\ st' = Top.entry /\ stack' = Below
      /\ input' = input
  BY DEF Finish
<1>2. \A k \in DOMAIN Below : FrameSound(input, Below[k])
  BY CallerSound
<1>3. IsError(r.err) /\ (~r.ok => ~is_unknown(r.err))
  BY DEF ResultSound, Points
<1> QED
  BY <1>1, <1>2, <1>3 DEF Sound

(* A stack with a frame more.                                               *)
LEMMA FramesSoundPush ==
  ASSUME NEW S, NEW frames \in Seq(S), NEW text, NEW f, FrameSound(text, f),
         \A k \in DOMAIN frames : FrameSound(text, frames[k])
  PROVE  \A k \in DOMAIN Append(frames, f) : FrameSound(text, Append(frames, f)[k])
<1>1. frames \in Seq(S \cup {f}) /\ f \in S \cup {f}
  BY SeqMonotonic
<1>2. /\ Append(frames, f) \in Seq(S \cup {f})
      /\ Len(Append(frames, f)) = Len(frames) + 1
      /\ \A k \in 1..Len(frames) : Append(frames, f)[k] = frames[k]
      /\ Append(frames, f)[Len(frames) + 1] = f
  BY <1>1, AppendProperties
<1>3. /\ DOMAIN frames = 1..Len(frames) /\ Len(frames) \in Nat
      /\ DOMAIN Append(frames, f) = 1..(Len(frames) + 1)
  BY <1>2, LenProperties
<1> SUFFICES ASSUME NEW k \in 1..(Len(frames) + 1)
             PROVE  FrameSound(text, Append(frames, f)[k])
  BY <1>3
<1>4. CASE k = Len(frames) + 1
  BY <1>2, <1>4
<1>5. CASE k # Len(frames) + 1
  <2>1. k \in 1..Len(frames)
    BY <1>3, <1>5
  <2> QED
    BY <1>2, <1>3, <2>1
<1> QED
  BY <1>4, <1>5

LEMMA ResumeSound ==
  ASSUME Consumption(FALSE), AllPlaced, Sound, mode = "return", stack # << >>,
         NEW f, NEW part, NEW s, Resume(f, part, s), FrameSound(input, f)
  PROVE  Sound'
<1>1. /\ mode' = "call" /\ res' = res /\ stack' = Append(Below, f) /\ input' = input
  BY DEF Resume
<1>2. \A k \in DOMAIN Below : FrameSound(input, Below[k])
  BY CallerSound
<1>3. PICK S : Below \in Seq(S)
  BY FramesPop DEF Consumption, FramesOK, Below
<1>4. \A k \in DOMAIN Append(Below, f) : FrameSound(input, Append(Below, f)[k])
  BY <1>2, <1>3, FramesSoundPush
<1> QED
  BY <1>1, <1>4 DEF Sound

LEMMA ThrowSound ==
  ASSUME Sound, Throw
  PROVE  Sound'
<1>1. mode' = "threw" /\ res' = res /\ DOMAIN stack' = {} /\ input' = input
  BY DEF Throw
<1> QED
  BY <1>1 DEF Sound

LEMMA CallSound ==
  ASSUME Consumption(FALSE), AllPlaced, Sound, MessagesAreStrings, CallComposite
  PROVE  Sound'
<1> DEFINE f == NewFrame(node, st)
<1>1. /\ mode = "call" /\ mode' = "call" /\ res' = res /\ stack' = Append(stack, f)
      /\ input' = input /\ node.op \in Composite
  BY DEF CallComposite
<1>2. FrameSound(input, f)
  <2>1. Placed(input, st) /\ input \in Seq(Nat) /\ st.index <= st.index
    BY LiveUnfold DEF AllPlaced, IsLive, Placed, Consumption
  <2>2. Points(input, st, unknown(st.pos))
    BY <2>1, UnknownPoints
  <2>3. /\ f.entry = st /\ f.node = node /\ f.phase = "first" /\ f.i = 1
        /\ f.sofar.ok /\ f.sofar.st = st /\ f.sofar.err = unknown(st.pos)
        /\ f.held = f.sofar
    BY DEF NewFrame, Ok
  <2> HIDE DEF f
  <2>4. ResultSound(input, f.entry, f.sofar) /\ ResultSound(input, f.entry, f.held)
    BY <2>1, <2>2, <2>3 DEF ResultSound
  <2>5. "first" \in Phases(node.op)
    BY DEF Phases
  <2>6. is_unknown(unknown(st.pos))
    BY DEF unknown, is_unknown
  <2> QED
    BY <1>1, <2>3, <2>4, <2>5, <2>6 DEF FrameSound, MessagesAreStrings
<1> HIDE DEF f
<1>3. PICK S : stack \in Seq(S)
  BY DEF Consumption, FramesOK
<1>4. \A k \in DOMAIN Append(stack, f) : FrameSound(input, Append(stack, f)[k])
  BY <1>2, <1>3, FramesSoundPush DEF Sound
<1> QED
  BY <1>1, <1>4 DEF Sound

-----------------------------------------------------------------------------
(* The parsers that read the input.                                         *)
LEMMA ReturnSound ==
  ASSUME Sound, NEW r, Return(r), ResultSound(input, st, r)
  PROVE  Sound'
<1>1. mode' = "return" /\ res' = r /\ st' = st /\ stack' = stack /\ input' = input
  BY DEF Return
<1>2. IsError(r.err) /\ (~r.ok => ~is_unknown(r.err))
  BY DEF ResultSound, Points
<1> QED
  BY <1>1, <1>2 DEF Sound

LEMMA TextIsString ==
  ASSUME input \in Seq(Nat), NEW from \in Nat, from <= Len(input), NEW len \in Nat
  PROVE  substr(from, len) \in Seq(Nat)
<1> DEFINE m == from + 1
           to == SmallerOf(from + len, Len(input))
<1>1. Len(input) \in Nat /\ m \in Int /\ m >= 1 /\ to \in Int /\ to <= Len(input)
  BY LenProperties DEF SmallerOf
<1>2. \A k \in m..to : input[k] \in Nat
  BY <1>1, ElementOfSeq
<1>3. substr(from, len) = SubSeq(input, m, to)
  BY DEF substr
<1> HIDE DEF m, to
<1>4. SubSeq(input, m, to) \in Seq(Nat)
  BY <1>1, <1>2, SubSeqProperties
<1> QED
  BY <1>3, <1>4

LEMMA QuoteIsString ==
  ASSUME NEW s \in Seq(Nat)
  PROVE  Quote(s) \in Seq(Nat)
<1> DEFINE mark == << 39 >>
<1>1. mark \in Seq(Nat)
  OBVIOUS
<1>2. Quote(s) = mark \o s \o mark
  BY DEF Quote
<1> HIDE DEF mark
<1> QED
  BY <1>1, <1>2, ConcatProperties

LEMMA LeafSound ==
  ASSUME Consumption(FALSE), AllPlaced, Sound, TextsAreStrings, MessagesAreStrings,
         CallLeaf
  PROVE  Sound'
<1>1. /\ input \in Seq(Nat) /\ Len(input) \in Nat
      /\ Placed(input, st) /\ st.user \in Nat /\ st.index \in Nat
      /\ st.index <= Len(input) /\ st.index <= st.index
      /\ DOMAIN st = {"index", "pos", "user"}
      /\ \A k \in 1..Len(input) : input[k] \in Nat
  <2>1. input \in Seq(Nat) /\ Placed(input, st) /\ st.user \in Nat
    BY LiveUnfold DEF AllPlaced, IsLive, Consumption
  <2> QED
    BY <2>1, LenProperties, ElementOfSeq DEF Placed, IsRecord
<1>2. /\ mode = "call"
      /\ res'.ok => res'.st = st \/ Moved(res'.st)
  BY <1>1, LeafTakes DEF CallLeaf, CallPure, CallFail, CallTokenPrim, CallClientToken,
                         CallTokens, CallTakeWhile, CallTakeWhile1, Calling
<1> DEFINE Goal == Sound'
<1>3. ASSUME NEW c, NEW v, NEW s, Return(Ok(c, v, s, unknown(s.pos))) PROVE Goal
  <2> DEFINE r == Ok(c, v, s, unknown(s.pos))
  <2>1. res' = r /\ r.ok /\ r.st = s /\ r.err = unknown(s.pos)
    BY <1>3 DEF Return, Ok
  <2> HIDE DEF r
  <2>2. Placed(input, s) /\ st.index <= s.index
    BY <1>1, <1>2, <2>1 DEF Moved
  <2>3. ResultSound(input, st, r)
    BY <1>1, <2>1, <2>2, UnknownPoints DEF ResultSound
  <2> QED
    BY <1>3, <2>3, ReturnSound DEF r
<1>4. ASSUME NEW msgs \in Seq(AllMessages), msgs # << >>,
             Return(Err(FALSE, [pos |-> st.pos, messages |-> msgs]))
      PROVE  Goal
  <2> DEFINE e == [pos |-> st.pos, messages |-> msgs]
  <2>1. Points(input, st, e) /\ ~is_unknown(e)
    BY <1>1, <1>4, MessagesPoint
  <2> HIDE DEF e
  <2>2. ResultSound(input, st, Err(FALSE, e))
    BY <2>1 DEF ResultSound, Err
  <2> QED
    BY <1>4, <2>2, ReturnSound DEF e
<1>5. ASSUME NEW type \in SysUnExpect..Msg, NEW msg \in Seq(Nat),
             Return(Err(FALSE, with_message(st.pos, type, msg)))
      PROVE  Goal
  <2>1. Message(type, msg) \in AllMessages
    BY DEF Message, AllMessages
  <2> DEFINE msgs == << Message(type, msg) >>
  <2>2. msgs \in Seq(AllMessages) /\ msgs # << >>
    BY <2>1
  <2> HIDE DEF msgs
  <2>3. Return(Err(FALSE, [pos |-> st.pos, messages |-> msgs]))
    BY <1>5 DEF with_message, msgs
  <2> QED
    BY <1>4, <2>2, <2>3
<1> HIDE DEF Goal
<1> SUFFICES Goal
  BY DEF Goal
<1>6. /\ SysUnExpect \in SysUnExpect..Msg /\ Msg \in SysUnExpect..Msg
      /\ Expect \in SysUnExpect..Msg
      /\ EndOfInput \in Seq(Nat)
  BY EmptySeq DEF SysUnExpect, Expect, Msg, EndOfInput
<1>7. CASE CallPure
  BY <1>3, <1>7 DEF CallPure
<1>8. CASE CallFail
  <2>1. node.msg \in Seq(Nat)
    BY <1>2, <1>8 DEF CallFail, Calling, MessagesAreStrings
  <2> QED
    BY <1>5, <1>6, <1>8, <2>1 DEF CallFail
<1>9. ASSUME st.index < Len(input)
      PROVE  input[st.index + 1] \in Nat /\ << input[st.index + 1] >> \in Seq(Nat)
  BY <1>1, <1>9
<1>10. CASE CallTokenPrim
  <2> DEFINE tok == input[st.index + 1]
             s == [st EXCEPT !.index = @ + 1, !.pos = update_pos_char(st.pos, tok)]
  <2>1. s.pos = update_pos_char(st.pos, tok)
    BY <1>1
  <2> QED
    BY <1>3, <1>5, <1>6, <1>9, <1>10, <2>1 DEF CallTokenPrim
<1>11. CASE CallClientToken
  <2> DEFINE new_pos == update_pos_char(st.pos, input[st.index + 1])
             s == [index |-> st.index + 1, pos |-> new_pos, user |-> st.user + 1]
  <2>1. s.pos = new_pos
    OBVIOUS
  <2> QED
    BY <1>3, <1>5, <1>6, <1>11, <2>1 DEF CallClientToken
<1>12. CASE CallTokens
  <2> DEFINE actual == substr(st.index, Len(node.str))
             text == IF actual = << >> THEN EndOfInput ELSE Quote(actual)
             s == [st EXCEPT !.index = @ + Len(node.str),
                             !.pos = update_pos_string(st.pos, node.str)]
             msgs == << Message(Expect, Quote(node.str)), Message(SysUnExpect, text) >>
  <2>1. node.str \in Seq(Nat) /\ Len(node.str) \in Nat
    BY <1>2, <1>12, LenProperties DEF CallTokens, Calling, TextsAreStrings
  <2>2. text \in Seq(Nat) /\ Quote(node.str) \in Seq(Nat)
    <3>1. actual \in Seq(Nat)
      BY <1>1, <2>1, TextIsString
    <3> HIDE DEF actual
    <3> QED
      BY <1>6, <2>1, <3>1, QuoteIsString
  <2>3. s.pos = update_pos_string(st.pos, node.str)
    BY <1>1
  <2>4. msgs \in Seq(AllMessages) /\ msgs # << >>
    <3> HIDE DEF text
    <3>1. /\ Message(Expect, Quote(node.str)) \in AllMessages
          /\ Message(SysUnExpect, text) \in AllMessages
      BY <1>6, <2>2 DEF Message, AllMessages
    <3> QED
      BY <3>1
  <2>5. \/ Return(Ok(TRUE, node.str, s, unknown(s.pos)))
        \/ Return(Err(FALSE, [pos |-> st.pos, messages |-> msgs]))
    BY <1>12, <2>3 DEF CallTokens
  <2> HIDE DEF s, msgs
  <2> QED
    BY <1>3, <1>4, <2>4, <2>5
<1>13. ASSUME NEW end, Return(Took(end)) PROVE Goal
  <2> DEFINE s == [st EXCEPT !.index = end, !.pos = scan_pos(st.pos, input, st.index, end)]
  <2>1. s.pos = scan_pos(st.pos, input, st.index, end)
    BY <1>1
  <2>2. Return(Ok(TRUE, SubSeq(input, st.index + 1, end), s, unknown(s.pos)))
    BY <1>13, <2>1 DEF Took
  <2> HIDE DEF s
  <2> QED
    BY <1>3, <2>2
<1>14. CASE CallTakeWhile
  BY <1>3, <1>13, <1>14 DEF CallTakeWhile
<1>15. CASE CallTakeWhile1
  <2> DEFINE text == IF st.index < Len(input) THEN Quote(<< input[st.index + 1] >>)
                     ELSE EndOfInput
  <2>1. text \in Seq(Nat)
    BY <1>6, <1>9, QuoteIsString
  <2>2. \/ Return(Err(FALSE, with_message(st.pos, SysUnExpect, text)))
        \/ Return(Took(EndOfRun(node.accepts, st.index)))
    BY <1>15 DEF CallTakeWhile1
  <2> HIDE DEF text
  <2> QED
    BY <1>5, <1>6, <1>13, <2>1, <2>2
<1> QED
  BY <1>7, <1>8, <1>10, <1>11, <1>12, <1>14, <1>15 DEF CallLeaf

-----------------------------------------------------------------------------
(* What label keeps of the messages, with its own.                          *)
NonExpect(messages, g) ==
  g = [n \in 0..Len(messages) |->
         IF n = 0 THEN << >>
         ELSE IF messages[n].type = Expect THEN g[n - 1]
         ELSE Append(g[n - 1], messages[n])]

LEMMA NonExpectExists ==
  ASSUME NEW messages \in Seq(AllMessages)
  PROVE  \E g : NonExpect(messages, g)
<1> DEFINE T == Seq(AllMessages)
           Next1(x) == IF x[2] \notin 1..Len(messages) \/ messages[x[2]].type = Expect THEN x[1]
                      ELSE Append(x[1], messages[x[2]])
           step == [x \in T \X Int |-> Next1(x)]
<1>1. Len(messages) \in Nat /\ \A n \in 1..Len(messages) : messages[n] \in AllMessages
  BY LenProperties, ElementOfSeq
<1>2. step \in [T \X Int -> T]
  <2>1. ASSUME NEW x \in T \X Int PROVE Next1(x) \in T
    <3>1. x[1] \in T
      BY <2>1
    <3> QED
      BY <1>1, <3>1, AppendProperties
  <2> HIDE DEF Next1, T
  <2> QED
    BY <2>1
<1>3. \A x \in T \X Int : step[x] = Next1(x)
  <2> HIDE DEF Next1, T
  <2> QED
    OBVIOUS
<1>4. << >> \in T /\ 0 \in Int /\ Len(messages) \in Int
  BY <1>1, EmptySeq
<1> HIDE DEF step
<1>5. PICK g : Solves(g, T, 0, Len(messages), << >>, step)
  <2> HIDE DEF T
  <2> QED
    BY <1>2, <1>4, RecursionExists
<1>6. ASSUME NEW n \in 0..Len(messages)
      PROVE  g[n] = IF n = 0 THEN << >>
                    ELSE IF messages[n].type = Expect THEN g[n - 1]
                    ELSE Append(g[n - 1], messages[n])
  <2>1. g[n] = IF n = 0 THEN << >> ELSE step[<< g[n - 1], n >>]
    BY <1>5 DEF Solves
  <2>2. CASE n # 0
    <3>1. n - 1 \in 0..Len(messages) /\ n \in 1..Len(messages) /\ n \in Int
      BY <1>1, <2>2
    <3>2. g[n - 1] \in T
      BY <1>5, <3>1 DEF Solves
    <3>3. << g[n - 1], n >> \in T \X Int
      BY <3>1, <3>2
    <3>4. step[<< g[n - 1], n >>] = Next1(<< g[n - 1], n >>)
      <4> HIDE DEF Next1, T
      <4> QED
        BY <1>3, <3>3
    <3> QED
      BY <2>1, <2>2, <3>1, <3>4
  <2> QED
    BY <2>1, <2>2
<1>7. g \in [0..Len(messages) -> T]
  BY <1>5 DEF Solves
<1>8. NonExpect(messages, g)
  <2> HIDE DEF T
  <2> QED
    BY <1>6, <1>7, Zenon DEF NonExpect
<1> QED
  BY <1>8

LEMMA NonExpectType ==
  ASSUME NEW messages \in Seq(AllMessages), NEW g, NonExpect(messages, g)
  PROVE  g[Len(messages)] \in Seq(AllMessages)
<1> DEFINE S == {n \in Nat : n <= Len(messages) => g[n] \in Seq(AllMessages)}
<1>1. Len(messages) \in Nat /\ \A n \in 1..Len(messages) : messages[n] \in AllMessages
  BY LenProperties, ElementOfSeq
<1>2. \A n \in 0..Len(messages) :
         g[n] = IF n = 0 THEN << >>
                ELSE IF messages[n].type = Expect THEN g[n - 1]
                ELSE Append(g[n - 1], messages[n])
  BY Zenon DEF NonExpect
<1>3. 0 \in S
  <2>1. << >> \in Seq(AllMessages) /\ 0 \in 0..Len(messages)
    BY <1>1, EmptySeq
  <2>2. g[0] = << >>
    BY <1>2, <2>1
  <2> QED
    BY <2>1, <2>2
<1>4. ASSUME NEW n \in Nat, n \in S PROVE n + 1 \in S
  <2> SUFFICES ASSUME n + 1 <= Len(messages) PROVE g[n + 1] \in Seq(AllMessages)
    OBVIOUS
  <2>1. g[n] \in Seq(AllMessages)
    BY <1>1, <1>4
  <2>2. n + 1 \in 0..Len(messages) /\ n + 1 # 0 /\ (n + 1) - 1 = n
        /\ messages[n + 1] \in AllMessages
    BY <1>1
  <2>3. g[n + 1] = g[n] \/ g[n + 1] = Append(g[n], messages[n + 1])
    BY <1>2, <2>2
  <2> QED
    BY <2>1, <2>2, <2>3, AppendProperties
<1>5. Nat \subseteq S
  <2> HIDE DEF S
  <2> QED
    BY <1>3, <1>4, NatSetInduction
<1> QED
  BY <1>1, <1>5

LEMMA RelabelledType ==
  ASSUME NEW messages \in Seq(AllMessages), NEW msg \in Seq(Nat)
  PROVE  Relabelled(messages, msg) \in Seq(AllMessages) /\ Relabelled(messages, msg) # << >>
<1> DEFINE g == CHOOSE h : NonExpect(messages, h)
<1>1. NonExpect(messages, g)
  <2>1. \E h : NonExpect(messages, h)
    BY NonExpectExists
  <2> QED
    BY <2>1, Zenon
<1>2. Relabelled(messages, msg) = Append(g[Len(messages)], Message(Expect, msg))
  BY Zenon DEF Relabelled, NonExpect
<1> HIDE DEF g
<1>3. g[Len(messages)] \in Seq(AllMessages)
  BY <1>1, NonExpectType
<1>4. Message(Expect, msg) \in AllMessages
  BY DEF Message, AllMessages, SysUnExpect, Expect, Msg
<1> QED
  BY <1>2, <1>3, <1>4, AppendProperties

-----------------------------------------------------------------------------
(* The combinators, one case each.                                          *)
LEMMA ReturnKeepsSound ==
  ASSUME Consumption(FALSE), AllPlaced, Sound, ReturnToCaller
  PROVE  Sound'
<1>1. mode = "return" /\ stack # << >>
  BY DEF ReturnToCaller, ReturnToBind, ReturnToThen, ReturnToSkip, ReturnToMap,
         ReturnToLabel, ReturnToAlt, ReturnToTryParse, ReturnToLookAhead,
         ReturnToManyAccum, ReturnToChoice, ReturnToCount, ReturnToSepEndBy1,
         ReturnToChainl1, ReturnToScanOpChain, ReturnToNotFollowedBy,
         ReturnToManyTill, ReturnToCommentRest, ReturningTo
<1>2. /\ FrameSound(input, Top)
      /\ ResultSound(input, Top.entry, res)
      /\ Placed(input, Top.entry)
      /\ Placed(input, Top.sofar.st) /\ Placed(input, Top.held.st)
      /\ res.ok => Placed(input, res.st)
  BY <1>1, CallerSound
<1>3. /\ IsResult(FALSE, input, res) /\ input \in Seq(Nat)
      /\ DOMAIN Top = {"node", "entry", "phase", "i", "sofar", "held"}
      /\ DOMAIN Top.sofar = {"ok", "consumed", "val", "st", "err"}
      /\ Top.sofar.ok /\ Top.held.ok
      /\ Top.entry.index <= Top.entry.index
  <2>1. FrameOK(FALSE, input, Top)
    BY <1>1, StackShape
  <2>2. IsResult(FALSE, input, res) /\ input \in Seq(Nat)
    BY DEF Consumption
  <2>3. Top.entry.index \in Nat
    BY <1>2, <2>2, LenProperties DEF Placed
  <2>4. /\ DOMAIN Top = {"node", "entry", "phase", "i", "sofar", "held"}
        /\ DOMAIN Top.sofar = {"ok", "consumed", "val", "st", "err"}
        /\ Top.sofar.ok /\ Top.held.ok
    BY <2>1 DEF FrameOK, IsOk
  <2>5. Top.entry.index <= Top.entry.index
    BY <2>3
  <2> QED
    BY <2>2, <2>4, <2>5, Zenon
<1>4. /\ Top.entry.index <= Top.sofar.st.index /\ Top.entry.index <= Top.held.st.index
      /\ res.ok => Top.entry.index <= res.st.index
      /\ Points(input, Top.entry, Top.sofar.err) /\ Points(input, Top.entry, Top.held.err)
      /\ Points(input, Top.entry, res.err)
      /\ ~res.ok => ~is_unknown(res.err)
  BY <1>2, <1>3 DEF FrameSound, ResultSound
<1> DEFINE merged == merge(Top.sofar.err, res.err)
           merged2 == merge(Top.held.err, res.err)
<1>5. /\ Points(input, Top.entry, merged) /\ Points(input, Top.entry, merged2)
      /\ ~res.ok => ~is_unknown(merged) /\ ~is_unknown(merged2)
  BY <1>4, MergePoints
<1> HIDE DEF merged, merged2
<1> DEFINE Goal == Sound'
(* What a caller does next.                                                 *)
<1>6. ASSUME Finish(res) PROVE Goal
  BY <1>1, <1>2, <1>6, FinishSound
<1>7. ASSUME NEW c, NEW e, Points(input, Top.entry, e), ~is_unknown(e), Finish(Err(c, e))
      PROVE  Goal
  <2>1. ResultSound(input, Top.entry, Err(c, e))
    BY <1>7 DEF ResultSound, Err
  <2> QED
    BY <1>1, <1>7, <2>1, FinishSound
<1>8. ASSUME NEW c, NEW v, NEW s, Top.entry.index <= s.index,
             NEW e, Points(input, Top.entry, e), Finish(Ok(c, v, s, e))
      PROVE  Goal
  <2>1. ResultSound(input, Top.entry, Ok(c, v, s, e))
    BY <1>8 DEF ResultSound, Ok
  <2> QED
    BY <1>1, <1>8, <2>1, FinishSound
<1>9. ASSUME NEW e, Points(input, Top.entry, e), ~res.ok => ~is_unknown(e),
             Finish([res EXCEPT !.err = e])
      PROVE  Goal
  <2> DEFINE r == [res EXCEPT !.err = e]
  <2>1. /\ r.ok = res.ok /\ r.err = e
        /\ res.ok => r.st = res.st
    BY <1>3 DEF IsResult, IsOk, IsErr
  <2> HIDE DEF r
  <2>2. ResultSound(input, Top.entry, r)
    BY <1>4, <1>9, <2>1 DEF ResultSound
  <2> QED
    BY <1>1, <1>9, <2>2, FinishSound DEF r
<1>10. ASSUME ~res.ok, Finish([Top.sofar EXCEPT !.err = merge(@, res.err)]) PROVE Goal
  <2> DEFINE r == [Top.sofar EXCEPT !.err = merge(@, res.err)]
  <2>1. r.ok /\ r.err = merged /\ r.st = Top.sofar.st
    BY <1>3 DEF merged
  <2> HIDE DEF r
  <2>2. ResultSound(input, Top.entry, r)
    BY <1>4, <1>5, <2>1 DEF ResultSound
  <2> QED
    BY <1>1, <1>10, <2>2, FinishSound DEF r
<1>11. ASSUME NEW f, NEW part, NEW s, Resume(f, part, s),
              f.node = Top.node, f.entry = Top.entry,
              f.phase \in Phases(Top.node.op), f.i \in Nat \ {0},
              ResultSound(input, Top.entry, f.sofar), ResultSound(input, Top.entry, f.held),
              Top.node.op = "alt" /\ f.phase = "first" => is_unknown(f.sofar.err)
       PROVE  Goal
  <2>1. FrameSound(input, f)
    BY <1>2, <1>11 DEF FrameSound
  <2> QED
    BY <1>1, <1>11, <2>1, ResumeSound
<1>12. /\ ResultSound(input, Top.entry, Top.sofar) /\ ResultSound(input, Top.entry, Top.held)
       /\ Top.i \in Nat \ {0} /\ Top.i + 1 \in Nat \ {0}
       /\ Top.phase \in Phases(Top.node.op)
       /\ Top.node.op = "alt" /\ Top.phase = "first" => is_unknown(Top.sofar.err)
  BY <1>2 DEF FrameSound
<1>13. ASSUME res.ok, NEW c, NEW v
       PROVE  ResultSound(input, Top.entry, Ok(c, v, res.st, res.err))
  BY <1>4, <1>13 DEF ResultSound, Ok
<1> HIDE DEF Goal
<1> SUFFICES Goal
  BY DEF Goal
<1>14. ASSUME NEW part, SequenceOn(part), Top.node.op \in {"bind", "then", "skip"}
       PROVE  Goal
  <2> DEFINE f == [Top EXCEPT !.phase = "second", !.sofar = res]
  <2>1. /\ f.node = Top.node /\ f.entry = Top.entry /\ f.phase = "second"
        /\ f.i = Top.i /\ f.sofar = res /\ f.held = Top.held
    BY <1>3
  <2>2. "second" \in Phases(Top.node.op)
    BY <1>14 DEF Phases
  <2> HIDE DEF f
  <2>3. ASSUME Resume(f, part, res.st) PROVE Goal
    BY <1>2, <1>11, <1>12, <1>14, <2>1, <2>2, <2>3
  <2> QED
    BY <1>6, <1>14, <2>3 DEF SequenceOn, f
<1>15. ASSUME NEW val, SequenceEnd(val) PROVE Goal
  BY <1>4, <1>5, <1>7, <1>8, <1>15 DEF SequenceEnd, merged
<1>16. CASE ReturnToBind \/ ReturnToThen \/ ReturnToSkip
  BY <1>14, <1>15, <1>16 DEF ReturnToBind, ReturnToThen, ReturnToSkip, ReturningTo
<1>17. CASE ReturnToMap
  <2>1. ASSUME res.ok, NEW v, Finish([res EXCEPT !.val = v]) PROVE Goal
    <3> DEFINE r == [res EXCEPT !.val = v]
    <3>1. r.ok /\ r.st = res.st /\ r.err = res.err
      BY <1>3, <2>1 DEF IsResult, IsOk, IsErr
    <3> HIDE DEF r
    <3>2. ResultSound(input, Top.entry, r)
      BY <1>4, <2>1, <3>1 DEF ResultSound
    <3> QED
      BY <1>1, <2>1, <3>2, FinishSound DEF Goal, r
  <2>2. Throw => Goal
    BY ThrowSound DEF Goal
  <2> QED
    BY <1>6, <1>17, <2>1, <2>2 DEF ReturnToMap
<1>18. CASE ReturnToLabel
  <2> DEFINE msgs == Relabelled(res.err.messages, Top.node.msg)
             e == [pos |-> Top.entry.pos, messages |-> msgs]
  <2>1. Top.node.msg \in Seq(Nat) /\ res.err.messages \in Seq(AllMessages)
    BY <1>2, <1>4, <1>18 DEF ReturnToLabel, ReturningTo, FrameSound, Points, IsError
  <2>2. msgs \in Seq(AllMessages) /\ msgs # << >>
    BY <2>1, RelabelledType
  <2> HIDE DEF msgs
  <2>3. Points(input, Top.entry, e) /\ ~is_unknown(e)
    BY <1>2, <1>3, <2>2, MessagesPoint
  <2>4. Finish(res) \/ Finish(Err(FALSE, e))
    BY <1>18 DEF ReturnToLabel, msgs
  <2> HIDE DEF e
  <2> QED
    BY <1>6, <1>7, <2>3, <2>4
<1>19. CASE ReturnToAlt
  <2> DEFINE f == [Top EXCEPT !.phase = "second", !.sofar.err = res.err]
  <2>1. /\ f.node = Top.node /\ f.entry = Top.entry /\ f.phase = "second"
        /\ f.i = Top.i /\ f.held = Top.held
        /\ f.sofar.ok = Top.sofar.ok /\ f.sofar.st = Top.sofar.st /\ f.sofar.err = res.err
    BY <1>3
  <2>2. "second" \in Phases(Top.node.op)
    BY <1>19 DEF ReturnToAlt, ReturningTo, Phases
  <2> HIDE DEF f
  <2>3. ResultSound(input, Top.entry, f.sofar)
    BY <1>3, <1>4, <2>1 DEF ResultSound
  <2>4. ASSUME Resume(f, Top.node.q, Top.entry) PROVE Goal
    BY <1>11, <1>12, <2>1, <2>2, <2>3, <2>4
  <2>5. ASSUME Finish([res EXCEPT !.err = merge(Top.sofar.err, @)]) PROVE Goal
    <3>1. [res EXCEPT !.err = merge(Top.sofar.err, @)] = [res EXCEPT !.err = merged]
      BY DEF merged
    <3> QED
      BY <1>5, <1>9, <2>5, <3>1
  <2> QED
    BY <1>6, <1>19, <2>4, <2>5 DEF ReturnToAlt, f
<1>20. CASE ReturnToTryParse
  BY <1>4, <1>6, <1>7, <1>20 DEF ReturnToTryParse, FailedConsumed
<1>21. Points(input, Top.entry, unknown(Top.entry.pos))
  BY <1>2, <1>3, UnknownPoints
<1>22. CASE ReturnToLookAhead
  BY <1>3, <1>6, <1>8, <1>21, <1>22 DEF ReturnToLookAhead
<1>23. ASSUME NEW s, Placed(input, s), Top.entry.index <= s.index,
              NEW type \in SysUnExpect..Msg, NEW msg \in Seq(Nat),
              NEW c, Finish(Err(c, with_message(s.pos, type, msg)))
       PROVE  Goal
  <2>1. /\ Points(input, Top.entry, with_message(s.pos, type, msg))
        /\ ~is_unknown(with_message(s.pos, type, msg))
    BY <1>2, <1>3, <1>23, MessagePoints
  <2> QED
    BY <1>7, <1>23, <2>1
<1>24. /\ TextEmptyMany \in Seq(Nat) /\ TextToken \in Seq(Nat) /\ TextEndInComment \in Seq(Nat)
       /\ UnExpect \in SysUnExpect..Msg /\ Msg \in SysUnExpect..Msg
  BY DEF TextEmptyMany, TextToken, TextEndInComment, SysUnExpect, UnExpect, Msg
<1>25. CASE ReturnToManyAccum
  <2>1. ASSUME NEW acc, res.ok, Resume([Top EXCEPT !.sofar = Ok(TRUE, acc, res.st, res.err)],
                                       Top.node.p, res.st)
        PROVE  Goal
    <3> DEFINE g == Ok(TRUE, acc, res.st, res.err)
               f == [Top EXCEPT !.sofar = g]
    <3>1. ResultSound(input, Top.entry, g)
      BY <1>13, <2>1
    <3> HIDE DEF g
    <3>2. /\ f.node = Top.node /\ f.entry = Top.entry /\ f.phase = Top.phase
          /\ f.i = Top.i /\ f.sofar = g /\ f.held = Top.held
      BY <1>3
    <3>3. Top.node.op = "many_accum" /\ Resume(f, Top.node.p, res.st)
      BY <1>25, <2>1 DEF ReturnToManyAccum, ReturningTo, g
    <3> HIDE DEF f
    <3> QED
      BY <1>11, <1>12, <3>1, <3>2, <3>3
  <2> QED
    BY <1>2, <1>4, <1>6, <1>10, <1>23, <1>24, <1>25, <2>1
       DEF ReturnToManyAccum, FailedEmpty, FailedConsumed
<1>26. CASE ReturnToChoice
  <2> DEFINE f == [Top EXCEPT !.i = @ + 1, !.sofar.err = merged]
  <2>1. /\ f.node = Top.node /\ f.entry = Top.entry /\ f.phase = Top.phase
        /\ f.i = Top.i + 1 /\ f.held = Top.held
        /\ f.sofar.ok = Top.sofar.ok /\ f.sofar.st = Top.sofar.st /\ f.sofar.err = merged
    BY <1>3
  <2>2. Top.node.op = "choice"
    BY <1>26 DEF ReturnToChoice, ReturningTo
  <2> HIDE DEF f
  <2>3. ResultSound(input, Top.entry, f.sofar)
    BY <1>3, <1>4, <1>5, <2>1 DEF ResultSound
  <2>4. ASSUME NEW part, Resume(f, part, Top.entry) PROVE Goal
    BY <1>11, <1>12, <2>1, <2>2, <2>3, <2>4
  <2>5. \/ Finish(res)
        \/ Finish([res EXCEPT !.err = merged])
        \/ ~res.ok /\ Finish(Err(FALSE, merged))
        \/ Resume(f, Top.node.ps[Top.i + 1], Top.entry)
    BY <1>26 DEF ReturnToChoice, f, merged, FailedEmpty
  <2> QED
    BY <1>5, <1>6, <1>7, <1>9, <2>4, <2>5
<1>27. CASE ReturnToCount
  <2> DEFINE c == Top.sofar.consumed \/ res.consumed
             v == Top.sofar.val \o res.val
             g == Ok(c, v, res.st, res.err)
             f == [Top EXCEPT !.i = @ + 1, !.sofar = g]
  <2>1. res.ok => ResultSound(input, Top.entry, g)
    BY <1>13
  <2>2. \/ Finish(res)
        \/ ~res.ok /\ Finish(Err(c, merged))
        \/ res.ok /\ Finish(Ok(c, v, res.st, res.err))
        \/ res.ok /\ Resume(f, Top.node.p, res.st)
    BY <1>27 DEF ReturnToCount, merged, FailedEmpty
  <2> HIDE DEF g
  <2>3. /\ f.node = Top.node /\ f.entry = Top.entry /\ f.phase = Top.phase
        /\ f.i = Top.i + 1 /\ f.sofar = g /\ f.held = Top.held
    BY <1>3
  <2>4. Top.node.op = "count"
    BY <1>27 DEF ReturnToCount, ReturningTo
  <2> HIDE DEF f, c, v
  <2>5. ASSUME res.ok, Resume(f, Top.node.p, res.st) PROVE Goal
    BY <1>11, <1>12, <2>1, <2>3, <2>4, <2>5
  <2> QED
    BY <1>4, <1>5, <1>6, <1>7, <1>8, <2>2, <2>5
<1>28. ASSUME NEW separator, NEW seed, FirstItem(separator, seed), Top.node.op \in ItemLoops
       PROVE  Goal
  <2> DEFINE g == [res EXCEPT !.val = seed]
             f == [Top EXCEPT !.phase = "sep", !.sofar = g]
  <2>1. ASSUME res.ok PROVE ResultSound(input, Top.entry, g)
    <3>1. g.ok /\ g.st = res.st /\ g.err = res.err
      BY <1>3, <2>1 DEF IsResult, IsOk, IsErr
    <3> QED
      BY <1>4, <3>1 DEF ResultSound
  <2>2. \/ ~res.ok /\ Finish(res)
        \/ res.ok /\ Resume(f, separator, res.st)
    BY <1>28 DEF FirstItem
  <2> HIDE DEF g
  <2>3. /\ f.node = Top.node /\ f.entry = Top.entry /\ f.phase = "sep"
        /\ f.i = Top.i /\ f.sofar = g /\ f.held = Top.held
    BY <1>3
  <2>4. "sep" \in Phases(Top.node.op) /\ Top.node.op # "alt"
    BY <1>28 DEF Phases, ItemLoops
  <2> HIDE DEF f
  <2>5. ASSUME res.ok, Resume(f, separator, res.st) PROVE Goal
    BY <1>11, <1>12, <2>1, <2>3, <2>4, <2>5
  <2> QED
    BY <1>6, <2>2, <2>5
<1>29. ASSUME Separator, Top.node.op \in ItemLoops PROVE Goal
  <2> DEFINE f == [Top EXCEPT !.phase = "item", !.held = res]
  <2>1. /\ f.node = Top.node /\ f.entry = Top.entry /\ f.phase = "item"
        /\ f.i = Top.i /\ f.sofar = Top.sofar /\ f.held = res
    BY <1>3
  <2>2. "item" \in Phases(Top.node.op) /\ Top.node.op # "alt"
    BY <1>29 DEF Phases, ItemLoops
  <2>3. \/ Finish(res)
        \/ ~res.ok /\ Finish([Top.sofar EXCEPT !.err = merge(@, res.err)])
        \/ res.ok /\ Resume(f, Top.node.p, res.st)
    BY <1>29 DEF Separator, FailedEmpty
  <2> HIDE DEF f
  <2>4. ASSUME res.ok, Resume(f, Top.node.p, res.st) PROVE Goal
    BY <1>2, <1>11, <1>12, <2>1, <2>2, <2>4
  <2> QED
    BY <1>6, <1>10, <2>3, <2>4
<1>30. ASSUME NEW separator, NEW acc, NextItem(separator, acc), Top.node.op \in ItemLoops
       PROVE  Goal
  <2> DEFINE c == Top.sofar.consumed \/ Top.held.consumed \/ res.consumed
             g == Ok(c, acc, res.st, res.err)
             f == [Top EXCEPT !.phase = "sep", !.sofar = g]
  <2>1. res.ok /\ Resume(f, separator, res.st)
    BY <1>30 DEF NextItem
  <2>2. ResultSound(input, Top.entry, g)
    BY <1>13, <2>1
  <2> HIDE DEF g
  <2>3. /\ f.node = Top.node /\ f.entry = Top.entry /\ f.phase = "sep"
        /\ f.i = Top.i /\ f.sofar = g /\ f.held = Top.held
    BY <1>3
  <2>4. "sep" \in Phases(Top.node.op) /\ Top.node.op # "alt"
    BY <1>30 DEF Phases, ItemLoops
  <2> HIDE DEF f
  <2> QED
    BY <1>11, <1>12, <2>1, <2>2, <2>3, <2>4
<1>31. CASE MissingOperand \/ NoMoreItems
  BY <1>4, <1>5, <1>6, <1>7, <1>8, <1>31
     DEF MissingOperand, NoMoreItems, FailedEmpty, FailedConsumed, merged2
<1>32. CASE ReturnToSepEndBy1 \/ ReturnToChainl1 \/ ReturnToScanOpChain
  <2>1. Top.node.op \in ItemLoops
    BY <1>32 DEF ReturnToSepEndBy1, ReturnToChainl1, ReturnToScanOpChain, ReturningTo,
                 ItemLoops
  <2> QED
    BY <1>28, <1>29, <1>30, <1>31, <1>32, <2>1
       DEF ReturnToSepEndBy1, ReturnToChainl1, ReturnToScanOpChain
<1>33. CASE ReturnToNotFollowedBy
  BY <1>2, <1>3, <1>8, <1>21, <1>23, <1>24, <1>33 DEF ReturnToNotFollowedBy
<1>34. CASE ReturnToManyTill
  <2> DEFINE c == Top.sofar.consumed \/ res.consumed
             v == Top.sofar.val \o res.val
             g == Ok(c, v, res.st, res.err)
             f == [Top EXCEPT !.phase = "body", !.sofar.err = merged]
             h == [Top EXCEPT !.phase = "first", !.sofar = g]
  <2>1. \/ Finish(res)
        \/ res.ok /\ Finish(Ok(c, Top.sofar.val, res.st, merged))
        \/ Resume(f, Top.node.p, Top.sofar.st)
        \/ ~res.ok /\ Finish(Err(Top.sofar.consumed, merged))
        \/ res.ok /\ Resume(h, Top.node.end, res.st)
    BY <1>34 DEF ReturnToManyTill, merged, FailedEmpty
  <2>2. /\ "body" \in Phases(Top.node.op) /\ "first" \in Phases(Top.node.op)
        /\ Top.node.op # "alt"
    BY <1>34 DEF ReturnToManyTill, ReturningTo, Phases
  <2>3. /\ f.node = Top.node /\ f.entry = Top.entry /\ f.phase = "body"
        /\ f.i = Top.i /\ f.held = Top.held
        /\ f.sofar.ok = Top.sofar.ok /\ f.sofar.st = Top.sofar.st /\ f.sofar.err = merged
    BY <1>3
  <2>4. res.ok => ResultSound(input, Top.entry, g)
    BY <1>13
  <2> HIDE DEF f, g
  <2>5. /\ h.node = Top.node /\ h.entry = Top.entry /\ h.phase = "first"
        /\ h.i = Top.i /\ h.sofar = g /\ h.held = Top.held
    BY <1>3
  <2> HIDE DEF h, c
  <2>6. ASSUME Resume(f, Top.node.p, Top.sofar.st) PROVE Goal
    <3>1. ResultSound(input, Top.entry, f.sofar)
      BY <1>3, <1>4, <1>5, <2>3 DEF ResultSound
    <3> QED
      BY <1>11, <1>12, <2>2, <2>3, <2>6, <3>1
  <2>7. ASSUME res.ok, Resume(h, Top.node.end, res.st) PROVE Goal
    BY <1>11, <1>12, <2>2, <2>4, <2>5, <2>7
  <2> QED
    BY <1>4, <1>5, <1>6, <1>7, <1>8, <2>1, <2>6, <2>7
<1>35. ASSUME NEW phase, NEW part, ScanOn(phase, part), Top.node.op = "comment_rest",
              phase \in Phases("comment_rest")
       PROVE  Goal
  <2> DEFINE f == [Top EXCEPT !.phase = phase]
  <2>1. /\ f.node = Top.node /\ f.entry = Top.entry /\ f.phase = phase
        /\ f.i = Top.i /\ f.sofar = Top.sofar /\ f.held = Top.held
    BY <1>3
  <2>2. Resume(f, part, Top.sofar.st)
    BY <1>35 DEF ScanOn
  <2> HIDE DEF f
  <2> QED
    BY <1>11, <1>12, <1>35, <2>1, <2>2
<1>36. CASE ReturnToCommentRest
  <2>1. Top.node.op = "comment_rest"
    BY <1>36 DEF ReturnToCommentRest, ReturningTo
  <2>2. {"first", "start", "skip", "marker"} \subseteq Phases("comment_rest")
    BY DEF Phases
  <2>3. ASSUME SkipInComment PROVE Goal
    BY <1>2, <1>4, <1>23, <1>24, <1>35, <2>1, <2>2, <2>3 DEF SkipInComment
  <2> DEFINE c == Top.sofar.consumed \/ res.consumed
             g == Ok(c, << >>, res.st, unknown(res.st.pos))
             f == [Top EXCEPT !.phase = "first", !.i = Nesting, !.sofar = g]
  <2>4. \/ res.ok /\ Finish(Ok(c, << >>, res.st, unknown(res.st.pos)))
        \/ res.ok /\ Nesting > 0 /\ Resume(f, Top.node.end_p, res.st)
        \/ ScanOn("start", Top.node.start_p)
        \/ SkipInComment
        \/ ScanOn("marker", Top.node.scan_one_marker)
    BY <1>36 DEF ReturnToCommentRest
  <2>5. res.ok => Points(input, Top.entry, unknown(res.st.pos))
    BY <1>2, <1>3, <1>4, UnknownPoints
  <2>6. g.ok /\ g.st = res.st /\ g.err = unknown(res.st.pos)
    BY DEF Ok
  <2> HIDE DEF g
  <2>7. /\ f.node = Top.node /\ f.entry = Top.entry /\ f.phase = "first"
        /\ f.i = Nesting /\ f.sofar = g /\ f.held = Top.held
    BY <1>3
  <2> HIDE DEF f, c
  <2>8. ASSUME res.ok, Nesting > 0, Resume(f, Top.node.end_p, res.st) PROVE Goal
    <3>1. ResultSound(input, Top.entry, g)
      BY <1>4, <2>5, <2>6, <2>8 DEF ResultSound
    <3>2. Nesting \in Int
      BY <1>12 DEF Nesting
    <3>3. Nesting \in Nat \ {0}
      BY <2>8, <3>2
    <3> QED
      BY <1>11, <1>12, <2>1, <2>2, <2>7, <2>8, <3>1, <3>3
  <2> QED
    BY <1>4, <1>8, <1>35, <2>1, <2>2, <2>3, <2>4, <2>5, <2>8
<1> QED
  BY <1>16, <1>17, <1>18, <1>19, <1>20, <1>22, <1>25, <1>26, <1>27, <1>32, <1>33, <1>34,
     <1>36 DEF ReturnToCaller

-----------------------------------------------------------------------------
(* The inductive invariant.                                                 *)
SoundRun == Consumption(FALSE) /\ AllPlaced /\ Sound /\ input \in Inputs

LEMMA SoundInit ==
  ASSUME Init
  PROVE  SoundRun
<1>1. Consumption(FALSE) /\ input \in Seq(Nat)
  BY ConsumptionInit DEF Consumption
<1>2. Placed(input, Initial) /\ Initial.user = 0
  BY <1>1, InitialPlaced
<1>3. AllPlaced
  BY <1>2, InitLive DEF AllPlaced
<1>4. mode = "call" /\ DOMAIN stack = {} /\ res.ok /\ res.err = unknown(StartPos)
  BY DEF Init, InitOn, Ok
<1>5. IsError(unknown(StartPos))
  <2>1. << >> \in Seq(AllMessages)
    BY EmptySeq
  <2> QED
    BY <2>1, StartIsPosition DEF IsError, unknown
<1> QED
  BY <1>1, <1>3, <1>4, <1>5 DEF Sound, SoundRun, Init, InitOn

LEMMA SoundStep ==
  ASSUME SoundRun, TextsAreStrings, MessagesAreStrings, [Next]_vars
  PROVE  SoundRun'
<1> USE DEF SoundRun
<1>1. Consumption(FALSE)' /\ AllPlaced'
  BY ConsumptionStep, AllPlacedStep
<1>2. ASSUME CallLazy \/ UNCHANGED vars PROVE Sound'
  <2>1. /\ input' = input /\ st' = st /\ res' = res /\ stack' = stack
        /\ mode' = "return" => mode = "return"
    BY <1>2 DEF CallLazy, Calling, vars
  <2> QED
    BY <2>1 DEF Sound
<1>3. CallLeaf => Sound'
  BY LeafSound
<1>4. CallComposite => Sound'
  BY CallSound
<1>5. ReturnToCaller => Sound'
  BY ReturnKeepsSound
<1>6. Sound'
  BY <1>2, <1>3, <1>4, <1>5 DEF Next, Step
<1>7. input' \in Inputs
  <2>1. Placed(input, st) /\ st.user \in Nat
    BY LiveUnfold DEF AllPlaced, IsLive
  <2> QED
    BY <2>1, StepStates
<1> QED
  BY <1>1, <1>6, <1>7

LEMMA SoundAlways == Spec /\ []TextsAreStrings /\ []MessagesAreStrings => []SoundRun
<1>1. Init => SoundRun
  BY SoundInit
<1>2. SoundRun /\ TextsAreStrings /\ MessagesAreStrings /\ [Next]_vars => SoundRun'
  BY SoundStep
<1> QED
  BY <1>1, <1>2, PTL DEF Spec

(* What OperatorLemmas calls a position and a message is                    *)
(* what the type invariant does.                                            *)
LEMMA ErrorsTyped ==
  ASSUME NEW e, IsError(e)
  PROVE  ErrorType(e)
<1>1. /\ DOMAIN e.messages = 1..Len(e.messages)
      /\ \A i \in 1..Len(e.messages) : e.messages[i] \in AllMessages
  BY LenProperties, ElementOfSeq DEF IsError
<1> QED
  BY <1>1 DEF IsError, ErrorType, Position, AllMessages, MessageType

LEMMA StatesTyped ==
  ASSUME NEW s, Placed(input, s), s.user \in Nat
  PROVE  s \in StateType
<1>1. IsRecord(s) /\ s.index \in 0..Len(input) /\ s.pos \in Position
  <2>1. s.index \in Nat
    BY DEF Placed
  <2> QED
    BY <2>1, PosAtType DEF Placed
<1> QED
  BY <1>1 DEF IsRecord, StateType, Position

(* The type invariant, for grammars whose texts are strings: every cursor   *)
(* stays inside the input, every error and every position is one, and every *)
(* suspended combinator is in one of its phases, its locals successes.      *)
THEOREM TypesOK == Spec /\ []TextsAreStrings /\ []MessagesAreStrings => []TypeOK
<1>1. SoundRun => TypeOK
  <2> SUFFICES ASSUME Consumption(FALSE), AllPlaced, Sound, input \in Inputs PROVE TypeOK
    BY DEF SoundRun
  <2>1. \A s \in LiveStates : s \in StateType
    BY StatesTyped DEF AllPlaced
  <2>2. st \in StateType /\ (res.ok => res.st \in StateType)
    BY <2>1, LiveUnfold DEF IsLive
  <2>3. ResultType(res)
    <3>1. IsOk(FALSE, input, res) \/ IsErr(res)
      BY DEF Consumption, IsResult
    <3>2. ErrorType(res.err)
      BY ErrorsTyped DEF Sound
    <3>3. CASE IsOk(FALSE, input, res)
      BY <2>2, <3>2, <3>3 DEF IsOk, ResultType
    <3>4. CASE IsErr(res)
      BY <3>2, <3>4 DEF IsErr, ResultType
    <3> QED
      BY <3>1, <3>3, <3>4
  <2>4. ASSUME NEW k \in DOMAIN stack
        PROVE  LET f == stack[k]
               IN  /\ f.node.op \in Composite
                   /\ f.phase \in Phases(f.node.op)
                   /\ f.entry \in StateType
                   /\ f.i \in Nat \ {0}
                   /\ ResultType(f.sofar) /\ f.sofar.ok
                   /\ ResultType(f.held) /\ f.held.ok
    <3> DEFINE f == stack[k]
    <3>1. f.entry \in StateType /\ f.sofar.st \in StateType /\ f.held.st \in StateType
      BY <2>1, LiveUnfold DEF IsLive
    <3>2. FrameSound(input, f)
      BY DEF Sound
    <3>3. FrameOK(FALSE, input, f)
      <4>1. PICK S : stack \in Seq(S)
        BY DEF Consumption, FramesOK
      <4>2. k \in 1..Len(stack)
        BY <4>1, LenProperties
      <4> QED
        BY <4>2 DEF Consumption, FramesOK
    <3> HIDE DEF f
    <3>4. IsError(f.sofar.err) /\ IsError(f.held.err)
      BY <3>2 DEF FrameSound, ResultSound, Points
    <3>5. ResultType(f.sofar) /\ ResultType(f.held) /\ f.sofar.ok /\ f.held.ok
      BY <3>1, <3>3, <3>4, ErrorsTyped DEF FrameOK, IsOk, ResultType
    <3> QED
      BY <3>1, <3>2, <3>5 DEF FrameSound, f
  <2> QED
    BY <2>2, <2>3, <2>4 DEF TypeOK, Consumption
<1> QED
  BY <1>1, SoundAlways, PTL

(* No error points at input already behind the parser that reports it, nor  *)
(* beyond the end of the input.                                             *)
THEOREM ErrorsAhead == Spec /\ []TextsAreStrings /\ []MessagesAreStrings => []ErrorsPointAhead
<1>1. SoundRun => ErrorsPointAhead
  BY DEF SoundRun, Sound, ResultSound, Points, ErrorsPointAhead
<1> QED
  BY <1>1, SoundAlways, PTL

(* No failure is silent, however many parsers it came through: a failure    *)
(* has a message from where it arose, merge drops no message unless another *)
(* error that speaks points farther, and label and many's guard write one.  *)
THEOREM FailuresAreTold == Spec /\ []TextsAreStrings /\ []MessagesAreStrings => []FailuresSpeak
<1>1. SoundRun => FailuresSpeak
  BY DEF SoundRun, Sound, FailuresSpeak
<1> QED
  BY <1>1, SoundAlways, PTL
-----------------------------------------------------------------------------
LEMMA KeptWhole ==
  ASSUME NEW m, NEW e, IsError(m), IsError(e), KeptIn(m, e)
  PROVE  \/ is_unknown(e)
         \/ PosBefore(e.pos, m.pos)
         \/ /\ e.pos = m.pos
            /\ \A i \in DOMAIN e.messages :
                  \E j \in DOMAIN m.messages : m.messages[j] = e.messages[i]
<1>1. /\ DOMAIN e.messages = 1..Len(e.messages)
      /\ DOMAIN m.messages = 1..Len(m.messages)
  BY LenProperties DEF IsError
<1> QED
  BY <1>1 DEF KeptIn, Says

(* What operator| or choice ends with when it has not consumed input.       *)
LEMMA AlternativesMerge ==
  ASSUME SoundRun, [Next]_vars, vars' # vars, stack # << >>, mode = "return",
         mode' = "return", Top.node.op \in {"alt", "choice"}, ~res'.consumed
  PROVE  \/ res'.err = merge(Top.sofar.err, res.err)
         \/ res'.err = res.err /\ is_unknown(Top.sofar.err)
<1>1. FrameSound(input, Top) /\ IsResult(FALSE, input, res)
  BY CallerSound DEF SoundRun, Consumption
<1>2. ReturnToAlt \/ ReturnToChoice
  BY DEF Next, Step, Finished, CallLeaf, CallPure, CallFail, CallTokenPrim,
         CallClientToken, CallTokens, CallTakeWhile, CallTakeWhile1, CallLazy,
         CallComposite, Calling, ReturnToCaller, ReturnToBind, ReturnToThen,
         ReturnToSkip, ReturnToMap, ReturnToLabel, ReturnToTryParse,
         ReturnToLookAhead, ReturnToManyAccum, ReturnToCount, ReturnToSepEndBy1,
         ReturnToChainl1, ReturnToScanOpChain, ReturnToNotFollowedBy,
         ReturnToManyTill, ReturnToCommentRest, ReturningTo
<1>3. \A e : [res EXCEPT !.err = e].err = e
  BY <1>1 DEF IsResult, IsOk, IsErr
<1>4. CASE ReturnToAlt
  BY <1>1, <1>3, <1>4 DEF ReturnToAlt, Finish, Resume, ReturningTo, FrameSound
<1>5. CASE ReturnToChoice
  <2> DEFINE e == merge(Top.sofar.err, res.err)
             f == [Top EXCEPT !.i = @ + 1, !.sofar.err = e]
  <2>1. Err(FALSE, e).err = e
    BY DEF Err
  <2>2. ~Resume(f, Top.node.ps[Top.i + 1], Top.entry)
    BY DEF Resume
  <2> HIDE DEF f
  <2>3. Finish(res) => ~res.consumed
    BY DEF Finish
  <2>4. \A r : Finish(r) => res' = r
    BY DEF Finish
  <2> HIDE DEF e
  <2> QED
    BY <1>3, <1>5, <2>1, <2>2, <2>3, <2>4 DEF ReturnToChoice, FailedConsumed, e, f
<1> QED
  BY <1>2, <1>4, <1>5

(* For every grammar, input and client: operator| and choice return the     *)
(* furthest of their alternatives' errors, and all that those that failed   *)
(* there say.                                                               *)
THEOREM FurthestSurvives ==
  Spec /\ []TextsAreStrings /\ []MessagesAreStrings => FurthestErrorSurvives
<1>1. ASSUME SoundRun, [Next]_vars
      PROVE  [ /\ stack # << >> /\ mode = "return" /\ mode' = "return"
               /\ Top.node.op \in {"alt", "choice"} /\ ~res'.consumed
               => \A e \in {Top.sofar.err, res.err} :
                     \/ is_unknown(e)
                     \/ PosBefore(e.pos, res'.err.pos)
                     \/ /\ e.pos = res'.err.pos
                        /\ \A i \in DOMAIN e.messages :
                              \E j \in DOMAIN res'.err.messages :
                                 res'.err.messages[j] = e.messages[i] ]_vars
  <2> SUFFICES ASSUME vars' # vars, stack # << >>, mode = "return", mode' = "return",
                      Top.node.op \in {"alt", "choice"}, ~res'.consumed,
                      NEW e \in {Top.sofar.err, res.err}
               PROVE  \/ is_unknown(e)
                      \/ PosBefore(e.pos, res'.err.pos)
                      \/ /\ e.pos = res'.err.pos
                         /\ \A i \in DOMAIN e.messages :
                               \E j \in DOMAIN res'.err.messages :
                                  res'.err.messages[j] = e.messages[i]
    OBVIOUS
  <2>1. IsError(Top.sofar.err) /\ IsError(res.err)
    BY <1>1, CallerSound DEF SoundRun, FrameSound, ResultSound, Points
  <2>2. \/ res'.err = merge(Top.sofar.err, res.err)
        \/ res'.err = res.err /\ is_unknown(Top.sofar.err)
    BY <1>1, AlternativesMerge
  <2>3. IsError(res'.err) /\ (is_unknown(e) \/ KeptIn(res'.err, e))
    <3>1. CASE res'.err = merge(Top.sofar.err, res.err)
      BY <2>1, <3>1, MergeKeepsFurthest
    <3>2. CASE res'.err = res.err /\ is_unknown(Top.sofar.err)
      BY <2>1, <3>2 DEF KeptIn
    <3> QED
      BY <2>2, <3>1, <3>2
  <2>4. IsError(e)
    BY <2>1
  <2> QED
    BY <2>3, <2>4, KeptWhole
<1> QED
  BY <1>1, SoundAlways, PTL DEF Spec, FurthestErrorSurvives

-----------------------------------------------------------------------------
(* What `consumed' means for a failure.                                     *)
(*                                                                          *)
(* Two combinators do read a part's failure without looking at its flag:    *)
(* not_followed_by and the loop of a block comment.  They are safe only     *)
(* since the parts they make for themselves never fail that way, so the     *)
(* invariant follows, from caller to part, which parser is running.         *)

(* The parsers such parts are made of: a character, a loop over one, which  *)
(* ends when the character is not there, and one followed by that loop.     *)
One(n)        == n.op = "token_prim" \/ (n.op = "label" /\ n.p.op = "token_prim")
Loop(n)       == n.op = "many_accum" /\ One(n.p)
OneAndLoop(n) == n.op = "then" /\ One(n.p) /\ Loop(n.q)
Scans(n)      == n.op = "map" /\ OneAndLoop(n.p)

NeverCommits(n) ==
  n.op = "try_parse" \/ One(n) \/ Loop(n) \/ OneAndLoop(n) \/ Scans(n)

ReturnsWell(n, r) ==
  /\ NeverCommits(n) /\ ~r.ok => ~r.consumed
  /\ One(n) /\ r.ok => r.consumed
  /\ Loop(n) => r.ok

(* The part that a suspended parser is waiting for.  A lazy part gives its  *)
(* place to the parser it produces.                                         *)
Followed == {"then", "map", "label", "try_parse", "many_accum", "choice",
             "not_followed_by", "comment_rest"}

PartOf(f) ==
  IF f.node.op = "then" /\ f.phase = "second" THEN f.node.q
  ELSE IF f.node.op = "choice" THEN f.node.ps[f.i]
  ELSE IF f.node.op = "comment_rest" /\ f.phase = "start" THEN f.node.start_p
  ELSE IF f.node.op = "comment_rest" /\ f.phase = "skip" THEN f.node.scan_non_markers
  ELSE IF f.node.op = "comment_rest" /\ f.phase = "marker" THEN f.node.scan_one_marker
  ELSE FirstPart(f.node)

WaitsFor(f, n) == f.node.op \in Followed /\ PartOf(f).op # "lazy" => n = PartOf(f)

CommentParts(n) == {n.start_p, n.end_p, n.scan_non_markers, n.scan_one_marker}

FrameFollowed(f, n) ==
  /\ WaitsFor(f, n)
  /\ f.node.op = "comment_rest" => \A p \in CommentParts(f.node) : NeverCommits(p)

(* The parser that runs for frame k.                                        *)
RunsFor(k) == IF k = Len(stack) THEN node ELSE stack[k + 1].node

Tracks ==
  /\ \A k \in 1..Len(stack) : FrameFollowed(stack[k], RunsFor(k))
  /\ mode = "return" => ReturnsWell(node, res)

(* The lambda of a block comment is made by block_comment alone.            *)
CommentsAreComments ==
  mode = "call" /\ node.op = "comment_rest" =>
     \E start, end, nested : node = comment_rest(start, end, nested)

-----------------------------------------------------------------------------
(* The stack after the innermost caller was called, went on or returned.    *)
LEMMA Shapes ==
  ASSUME Consumption(FALSE)
  PROVE  /\ Len(stack) \in Nat
         /\ stack # << >> => Len(stack) \in Nat \ {0} /\ Top = stack[Len(stack)]
         /\ CallComposite =>
              /\ Len(stack') = Len(stack) + 1
              /\ \A k \in 1..Len(stack) : stack'[k] = stack[k]
              /\ stack'[Len(stack) + 1] = NewFrame(node, st)
         /\ stack # << >> => \A f, part, s : Resume(f, part, s) =>
              /\ Len(stack') = Len(stack)
              /\ \A k \in 1..(Len(stack) - 1) : stack'[k] = stack[k]
              /\ stack'[Len(stack)] = f
         /\ stack # << >> => \A r : Finish(r) =>
              /\ Len(stack') = Len(stack) - 1
              /\ \A k \in 1..(Len(stack) - 1) : stack'[k] = stack[k]
<1>1. PICK S : stack \in Seq(S)
  BY DEF Consumption, FramesOK
<1>2. Len(stack) \in Nat /\ DOMAIN stack = 1..Len(stack)
  BY <1>1, LenProperties
<1>3. CallComposite =>
        /\ Len(stack') = Len(stack) + 1
        /\ \A k \in 1..Len(stack) : stack'[k] = stack[k]
        /\ stack'[Len(stack) + 1] = NewFrame(node, st)
  <2> DEFINE f == NewFrame(node, st)
  <2> HIDE DEF f
  <2>1. stack \in Seq(S \cup {f}) /\ f \in S \cup {f}
    BY <1>1, SeqMonotonic
  <2>2. /\ Len(Append(stack, f)) = Len(stack) + 1
        /\ \A k \in 1..Len(stack) : Append(stack, f)[k] = stack[k]
        /\ Append(stack, f)[Len(stack) + 1] = f
    BY <2>1, AppendProperties
  <2> QED
    BY <2>2 DEF CallComposite, f
<1>4. ASSUME stack # << >>
      PROVE  /\ Len(stack) \in Nat \ {0} /\ Top = stack[Len(stack)]
             /\ DOMAIN Below = 1..(Len(stack) - 1)
             /\ \A k \in 1..(Len(stack) - 1) : Below[k] = stack[k]
             /\ \E T : Below \in Seq(T)
             /\ Len(Below) = Len(stack) - 1
  <2>1. /\ Len(stack) \in Nat \ {0} /\ DOMAIN Below = 1..(Len(stack) - 1)
        /\ \A k \in DOMAIN Below : Below[k] = stack[k]
    BY <1>4, StackShape
  <2>2. PICK T : Below \in Seq(T)
    BY <1>4, FramesPop DEF Consumption, FramesOK, Below
  <2>3. Len(Below) \in Nat /\ DOMAIN Below = 1..Len(Below)
    BY <2>2, LenProperties
  <2>4. Len(Below) = Len(stack) - 1
    BY <2>1, <2>3
  <2> QED
    BY <2>1, <2>2, <2>4 DEF Top
<1>5. ASSUME stack # << >>, NEW f, NEW part, NEW s, Resume(f, part, s)
      PROVE  /\ Len(stack') = Len(stack)
             /\ \A k \in 1..(Len(stack) - 1) : stack'[k] = stack[k]
             /\ stack'[Len(stack)] = f
  <2>1. PICK T : Below \in Seq(T)
    BY <1>4, <1>5
  <2>2. Below \in Seq(T \cup {f}) /\ f \in T \cup {f}
    BY <2>1, SeqMonotonic
  <2>3. /\ Len(Append(Below, f)) = Len(Below) + 1
        /\ \A k \in 1..Len(Below) : Append(Below, f)[k] = Below[k]
        /\ Append(Below, f)[Len(Below) + 1] = f
    BY <2>2, AppendProperties
  <2>4. Len(Below) = Len(stack) - 1 /\ Len(stack) \in Nat \ {0}
    BY <1>4, <1>5
  <2>5. Len(Below) + 1 = Len(stack)
    BY <2>4
  <2>6. stack' = Append(Below, f)
    BY <1>5 DEF Resume
  <2> QED
    BY <1>4, <1>5, <2>3, <2>4, <2>5, <2>6
<1>6. ASSUME stack # << >>, NEW r, Finish(r)
      PROVE  /\ Len(stack') = Len(stack) - 1
             /\ \A k \in 1..(Len(stack) - 1) : stack'[k] = stack[k]
  BY <1>4, <1>6 DEF Finish
<1> QED
  BY <1>2, <1>3, <1>4, <1>5, <1>6

-----------------------------------------------------------------------------
(* What one step does to the chain of callers and parts.                    *)
LEMMA TracksResume ==
  ASSUME Consumption(FALSE), Tracks, stack # << >>,
         NEW f, NEW part, NEW s, Resume(f, part, s), f.node = Top.node,
         WaitsFor(f, part)
  PROVE  Tracks'
<1>1. /\ Len(stack') = Len(stack) /\ Len(stack) \in Nat \ {0}
      /\ \A k \in 1..(Len(stack) - 1) : stack'[k] = stack[k]
      /\ stack'[Len(stack)] = f /\ Top = stack[Len(stack)]
  BY Shapes
<1>2. node' = part /\ mode' = "call"
  BY DEF Resume
<1>3. FrameFollowed(f, part)
  <2>1. FrameFollowed(Top, RunsFor(Len(stack)))
    BY <1>1 DEF Tracks
  <2> QED
    BY <2>1 DEF FrameFollowed
<1>4. ASSUME NEW k \in 1..Len(stack')
      PROVE  FrameFollowed(stack'[k], RunsFor(k)')
  <2>1. CASE k = Len(stack)
    BY <1>1, <1>2, <1>3, <2>1 DEF RunsFor
  <2>2. CASE k # Len(stack)
    <3>1. k \in 1..(Len(stack) - 1) /\ k \in 1..Len(stack) /\ k + 1 \in 1..Len(stack)
          /\ k # Len(stack)
      BY <1>1, <2>2
    <3>2. stack'[k] = stack[k] /\ FrameFollowed(stack[k], RunsFor(k))
      BY <1>1, <3>1 DEF Tracks
    <3>3. stack'[k + 1].node = stack[k + 1].node
      BY <1>1, <3>1
    <3>4. RunsFor(k)' = RunsFor(k)
      BY <1>1, <2>2, <3>3 DEF RunsFor
    <3> QED
      BY <3>2, <3>4
  <2> QED
    BY <2>1, <2>2
<1> QED
  BY <1>2, <1>4 DEF Tracks

LEMMA TracksFinish ==
  ASSUME Consumption(FALSE), Tracks, stack # << >>,
         NEW r, Finish(r), ReturnsWell(Top.node, r)
  PROVE  Tracks'
<1>1. /\ Len(stack') = Len(stack) - 1 /\ Len(stack) \in Nat \ {0}
      /\ \A k \in 1..(Len(stack) - 1) : stack'[k] = stack[k]
      /\ Top = stack[Len(stack)]
  BY Shapes
<1>2. node' = Top.node /\ res' = r
  BY DEF Finish
<1>3. ASSUME NEW k \in 1..Len(stack')
      PROVE  FrameFollowed(stack'[k], RunsFor(k)')
  <2>1. k \in 1..(Len(stack) - 1) /\ k \in 1..Len(stack) /\ k # Len(stack)
    BY <1>1
  <2>2. stack'[k] = stack[k] /\ FrameFollowed(stack[k], RunsFor(k))
    BY <1>1, <2>1 DEF Tracks
  <2>3. CASE k = Len(stack')
    <3>1. k + 1 = Len(stack)
      BY <1>1, <2>3
    <3>2. RunsFor(k) = Top.node
      BY <1>1, <2>1, <3>1 DEF RunsFor
    <3>3. RunsFor(k)' = Top.node
      BY <1>2, <2>3 DEF RunsFor
    <3> QED
      BY <2>2, <3>2, <3>3
  <2>4. CASE k # Len(stack')
    <3>1. k + 1 \in 1..(Len(stack) - 1)
      BY <1>1, <2>1, <2>4
    <3>2. RunsFor(k)' = RunsFor(k)
      BY <1>1, <2>1, <2>4, <3>1 DEF RunsFor
    <3> QED
      BY <2>2, <3>2
  <2> QED
    BY <2>3, <2>4
<1> QED
  BY <1>2, <1>3 DEF Tracks

LEMMA CommentPartsNeverCommit ==
  ASSUME NEW start, NEW end, NEW nested
  PROVE  \A p \in CommentParts(comment_rest(start, end, nested)) : NeverCommits(p)
<1> DEFINE n == comment_rest(start, end, nested)
           chars == {start[1], end[1]}
<1>1. n.start_p.op = "try_parse" /\ n.end_p.op = "try_parse"
  BY DEF comment_rest, try_parse
<1>2. n.scan_one_marker = one_of(chars)
  BY DEF comment_rest
<1>3. n.scan_non_markers = skip_many1(none_of(chars))
  BY DEF comment_rest
<1> HIDE DEF n, chars
<1>4. One(one_of(chars)) /\ One(none_of(chars))
  BY DEF One, one_of, none_of, label, satisfy, token_prim
<1> DEFINE p == none_of(chars)
<1> HIDE DEF p
<1>5. One(p) => Scans(skip_many1(p))
  BY DEF Scans, OneAndLoop, Loop, skip_many1, map, then, skip_many, many_accum
<1>6. Scans(skip_many1(none_of(chars)))
  BY <1>4, <1>5 DEF p
<1>7. \A q \in CommentParts(n) : NeverCommits(q)
  BY <1>1, <1>2, <1>3, <1>4, <1>6 DEF CommentParts, NeverCommits
<1> QED
  BY <1>7 DEF n

LEMMA TracksCall ==
  ASSUME Consumption(FALSE), Tracks, CommentsAreComments, CallComposite
  PROVE  Tracks'
<1> DEFINE f == NewFrame(node, st)
<1>1. /\ Len(stack') = Len(stack) + 1 /\ Len(stack) \in Nat
      /\ \A k \in 1..Len(stack) : stack'[k] = stack[k]
      /\ stack'[Len(stack) + 1] = f
  BY Shapes
<1>2. node' = FirstPart(node) /\ mode = "call" /\ mode' = "call"
  BY DEF CallComposite
<1>3. f.node = node /\ f.phase = "first" /\ f.i = 1
  BY DEF NewFrame
<1> HIDE DEF f
<1>4. FrameFollowed(f, FirstPart(node))
  <2>1. PartOf(f) = FirstPart(node)
    BY <1>3 DEF PartOf, FirstPart
  <2>2. node.op = "comment_rest" => \A p \in CommentParts(node) : NeverCommits(p)
    BY <1>2, CommentPartsNeverCommit DEF CommentsAreComments
  <2> QED
    BY <1>3, <2>1, <2>2 DEF FrameFollowed, WaitsFor
<1>5. ASSUME NEW k \in 1..Len(stack')
      PROVE  FrameFollowed(stack'[k], RunsFor(k)')
  <2>1. CASE k = Len(stack')
    <3>1. stack'[k] = f /\ RunsFor(k)' = FirstPart(node)
      BY <1>1, <1>2, <2>1 DEF RunsFor
    <3> QED
      BY <1>4, <3>1
  <2>2. CASE k # Len(stack')
    <3>1. k \in 1..Len(stack)
      BY <1>1, <2>2
    <3>2. stack'[k] = stack[k] /\ FrameFollowed(stack[k], RunsFor(k))
      BY <1>1, <3>1 DEF Tracks
    <3>3. RunsFor(k)' = RunsFor(k)
      <4>1. RunsFor(k)' = stack'[k + 1].node
        BY <2>2 DEF RunsFor
      <4>2. CASE k = Len(stack)
        BY <1>1, <1>3, <4>1, <4>2 DEF RunsFor
      <4>3. CASE k # Len(stack)
        <5>1. k + 1 \in 1..Len(stack)
          BY <1>1, <3>1, <4>3
        <5> QED
          BY <1>1, <4>1, <4>3, <5>1 DEF RunsFor
      <4> QED
        BY <4>2, <4>3
    <3> QED
      BY <3>2, <3>3
  <2> QED
    BY <2>1, <2>2
<1> QED
  BY <1>2, <1>5 DEF Tracks

(* A step that leaves the stack and the parser alone.                       *)
LEMMA TracksSame ==
  ASSUME Tracks, stack' = stack, node' = node,
         mode' = "return" => ReturnsWell(node, res')
  PROVE  Tracks'
<1>1. \A k \in 1..Len(stack) : RunsFor(k)' = RunsFor(k)
  BY DEF RunsFor
<1> QED
  BY <1>1 DEF Tracks

LEMMA TracksLeaf ==
  ASSUME Tracks, CallLeaf
  PROVE  Tracks'
<1>1. ASSUME NEW r, Return(r) PROVE stack' = stack /\ node' = node /\ res' = r
  BY <1>1 DEF Return
<1>2. ASSUME NEW r, Return(r), ReturnsWell(node, r) PROVE Tracks'
  BY <1>1, <1>2, TracksSame
<1>3. ASSUME NEW r, Return(r), node.op \in {"pure", "fail", "client_token", "tokens",
                                           "take_while", "take_while1"}
      PROVE  Tracks'
  <2>1. ~NeverCommits(node) /\ ~One(node) /\ ~Loop(node)
    BY <1>3 DEF NeverCommits, One, Loop, OneAndLoop, Scans
  <2>2. ReturnsWell(node, r)
    BY <2>1 DEF ReturnsWell
  <2> QED
    BY <1>2, <1>3, <2>2
<1>4. ASSUME node.op = "token_prim", NEW r,
             (r.ok /\ r.consumed) \/ (~r.ok /\ ~r.consumed)
      PROVE  ReturnsWell(node, r)
  <2>1. ~Loop(node)
    BY <1>4 DEF Loop
  <2> QED
    BY <1>4, <2>1 DEF ReturnsWell
<1>5. CASE CallTokenPrim
  <2>1. \A e : ~Err(FALSE, e).ok /\ ~Err(FALSE, e).consumed
    BY DEF Err
  <2>2. \A v, s, e : Ok(TRUE, v, s, e).ok /\ Ok(TRUE, v, s, e).consumed
    BY DEF Ok
  <2>3. node.op = "token_prim"
    BY <1>5 DEF CallTokenPrim, Calling
  <2> QED
    BY <1>2, <1>4, <1>5, <2>1, <2>2, <2>3 DEF CallTokenPrim
<1> QED
  BY <1>3, <1>5 DEF CallLeaf, CallPure, CallFail, CallClientToken, CallTokens,
                    CallTakeWhile, CallTakeWhile1, Calling

LEMMA TracksLazy ==
  ASSUME Consumption(FALSE), Tracks, CallLazy
  PROVE  Tracks'
<1>1. mode = "call" /\ mode' = "call" /\ stack' = stack /\ node.op = "lazy"
  BY DEF CallLazy, Calling
<1>2. Len(stack) \in Nat
  BY Shapes
<1>3. ASSUME NEW k \in 1..Len(stack) PROVE FrameFollowed(stack[k], RunsFor(k)')
  <2>1. FrameFollowed(stack[k], RunsFor(k))
    BY DEF Tracks
  <2>2. CASE k = Len(stack)
    <3>1. RunsFor(k) = node
      BY <2>2 DEF RunsFor
    <3> QED
      BY <1>1, <2>1, <3>1 DEF FrameFollowed, WaitsFor
  <2>3. CASE k # Len(stack)
    <3>1. RunsFor(k)' = RunsFor(k)
      BY <1>1, <2>3 DEF RunsFor
    <3> QED
      BY <2>1, <3>1
  <2> QED
    BY <2>2, <2>3
<1> QED
  BY <1>1, <1>3 DEF Tracks

-----------------------------------------------------------------------------
(* What a parser's result says of it only where the invariant says so.      *)
LEMMA OthersReturnWell ==
  ASSUME NEW n, NEW r,
         n.op \notin {"token_prim", "label", "many_accum", "then", "map", "try_parse"}
  PROVE  ReturnsWell(n, r)
BY DEF ReturnsWell, NeverCommits, One, Loop, OneAndLoop, Scans

(* The part that returned is the one its caller was waiting for.            *)
LEMMA PartReturned ==
  ASSUME Consumption(FALSE), Tracks, mode = "return", stack # << >>
  PROVE  FrameFollowed(Top, node) /\ ReturnsWell(node, res)
<1>1. Len(stack) \in 1..Len(stack) /\ Top = stack[Len(stack)]
  BY Shapes
<1>2. RunsFor(Len(stack)) = node
  BY DEF RunsFor
<1> QED
  BY <1>1, <1>2 DEF Tracks

(* not_followed_by and the loop of a block comment never see a part fail    *)
(* after consuming input.                                                   *)
LEMMA UnreadFailures ==
  ASSUME Consumption(FALSE), Tracks, mode = "return", stack # << >>, ~res.ok,
         \/ Top.node.op = "not_followed_by"
         \/ Top.node.op = "comment_rest" /\ Top.phase \in Phases("comment_rest")
  PROVE  ~res.consumed
<1>1. FrameFollowed(Top, node) /\ ReturnsWell(node, res)
  BY PartReturned
<1>2. CASE Top.node.op = "not_followed_by"
  <2>1. FirstPart(Top.node) = try_parse(look_ahead(Top.node.p))
    BY <1>2 DEF FirstPart
  <2>2. PartOf(Top) = FirstPart(Top.node) /\ PartOf(Top).op = "try_parse"
    BY <1>2, <2>1 DEF PartOf, try_parse
  <2>3. node.op = "try_parse"
    BY <1>1, <1>2, <2>2 DEF FrameFollowed, WaitsFor, Followed
  <2> QED
    BY <1>1, <2>3 DEF ReturnsWell, NeverCommits
<1>3. CASE Top.node.op = "comment_rest" /\ Top.phase \in Phases("comment_rest")
  <2>1. Top.phase \in {"first", "start", "skip", "marker"}
    BY <1>3 DEF Phases
  <2>2. FirstPart(Top.node) = Top.node.end_p
    BY <1>3 DEF FirstPart
  <2>3. PartOf(Top) \in CommentParts(Top.node)
    BY <1>3, <2>1, <2>2 DEF PartOf, CommentParts
  <2>4. NeverCommits(PartOf(Top))
    BY <1>1, <1>3, <2>3 DEF FrameFollowed
  <2>5. PartOf(Top).op # "lazy"
    BY <2>4 DEF NeverCommits, One, Loop, OneAndLoop, Scans
  <2>6. node = PartOf(Top)
    BY <1>1, <1>3, <2>5 DEF FrameFollowed, WaitsFor, Followed
  <2> QED
    BY <1>1, <2>4, <2>6 DEF ReturnsWell
<1> QED
  BY <1>2, <1>3

(* The combinators, one case each.                                          *)
LEMMA ReturnKeepsTracks ==
  ASSUME Consumption(FALSE), Tracks, ReturnToCaller
  PROVE  Tracks'
<1>1. mode = "return" /\ stack # << >>
  BY DEF ReturnToCaller, ReturnToBind, ReturnToThen, ReturnToSkip, ReturnToMap,
         ReturnToLabel, ReturnToAlt, ReturnToTryParse, ReturnToLookAhead,
         ReturnToManyAccum, ReturnToChoice, ReturnToCount, ReturnToSepEndBy1,
         ReturnToChainl1, ReturnToScanOpChain, ReturnToNotFollowedBy,
         ReturnToManyTill, ReturnToCommentRest, ReturningTo
<1>2. FrameFollowed(Top, node) /\ ReturnsWell(node, res)
  BY <1>1, PartReturned
<1>3. /\ DOMAIN Top = {"node", "entry", "phase", "i", "sofar", "held"}
      /\ DOMAIN Top.sofar = {"ok", "consumed", "val", "st", "err"}
      /\ Top.sofar.ok
  BY <1>1, StackShape DEF FrameOK, IsOk
<1> DEFINE Goal == Tracks'
<1>4. ASSUME NEW r, Finish(r), ReturnsWell(Top.node, r) PROVE Goal
  BY <1>1, <1>4, TracksFinish
<1>5. ASSUME NEW f, NEW part, NEW s, Resume(f, part, s), f.node = Top.node,
             WaitsFor(f, part)
      PROVE  Goal
  BY <1>1, <1>5, TracksResume
<1>6. ASSUME NEW r, Finish(r),
             Top.node.op \notin {"token_prim", "label", "many_accum", "then", "map",
                                 "try_parse"}
      PROVE  Goal
  BY <1>4, <1>6, OthersReturnWell
<1>7. ASSUME NEW f, NEW part, NEW s, Resume(f, part, s), f.node = Top.node,
             Top.node.op \notin Followed
      PROVE  Goal
  BY <1>5, <1>7 DEF WaitsFor
<1> HIDE DEF Goal
<1> SUFFICES Goal
  BY DEF Goal
<1>8. CASE ReturnToTryParse
  <2>1. Top.node.op = "try_parse" /\ ~One(Top.node) /\ ~Loop(Top.node)
    BY <1>8 DEF ReturnToTryParse, ReturningTo, One, Loop
  <2>2. \A r : (~r.ok => ~r.consumed) => ReturnsWell(Top.node, r)
    BY <2>1 DEF ReturnsWell
  <2>3. ReturnsWell(Top.node, Err(FALSE, res.err))
    BY <2>2 DEF Err
  <2> QED
    BY <1>4, <1>8, <2>2, <2>3 DEF ReturnToTryParse, FailedConsumed
<1>9. CASE ReturnToLabel
  <2>1. Top.node.op = "label" /\ ~Loop(Top.node)
    BY <1>9 DEF ReturnToLabel, ReturningTo, Loop
  <2>2. NeverCommits(Top.node) <=> One(Top.node)
    BY <2>1 DEF NeverCommits, OneAndLoop, Scans
  <2>3. One(Top.node) => ReturnsWell(Top.node, res)
    <3>1. SUFFICES ASSUME One(Top.node) PROVE ReturnsWell(Top.node, res)
      OBVIOUS
    <3>2. Top.node.p.op = "token_prim"
      BY <2>1, <3>1 DEF One
    <3>3. PartOf(Top) = Top.node.p
      BY <2>1 DEF PartOf, FirstPart
    <3>4. node.op = "token_prim"
      BY <1>2, <2>1, <3>2, <3>3 DEF FrameFollowed, WaitsFor, Followed
    <3>5. One(node) /\ NeverCommits(node)
      BY <3>4 DEF One, NeverCommits
    <3> QED
      BY <1>2, <2>1, <3>5 DEF ReturnsWell
  <2>4. ~One(Top.node) => \A r : ReturnsWell(Top.node, r)
    BY <2>1, <2>2 DEF ReturnsWell
  <2>5. \A e : ReturnsWell(Top.node, Err(FALSE, e))
    BY <2>1 DEF ReturnsWell, Err
  <2>6. Finish(res) => Goal
    BY <1>4, <2>3, <2>4
  <2> QED
    BY <1>4, <1>9, <2>5, <2>6 DEF ReturnToLabel
<1>10. CASE ReturnToManyAccum
  <2>1. Top.node.op = "many_accum" /\ ~One(Top.node)
    BY <1>10 DEF ReturnToManyAccum, ReturningTo, One
  <2>2. NeverCommits(Top.node) <=> Loop(Top.node)
    BY <2>1 DEF NeverCommits, OneAndLoop, Scans
  <2>3. \A r : ~Loop(Top.node) \/ r.ok => ReturnsWell(Top.node, r)
    BY <2>1, <2>2 DEF ReturnsWell
  <2>4. Loop(Top.node) => (res.ok <=> res.consumed)
    <3>1. SUFFICES ASSUME Loop(Top.node) PROVE res.ok <=> res.consumed
      OBVIOUS
    <3>2. One(Top.node.p)
      BY <3>1 DEF Loop
    <3>3. PartOf(Top) = Top.node.p /\ Top.node.p.op # "lazy"
      BY <2>1, <3>2 DEF PartOf, FirstPart, One
    <3>4. One(node) /\ NeverCommits(node)
      BY <1>2, <2>1, <3>2, <3>3 DEF FrameFollowed, WaitsFor, Followed, NeverCommits
    <3> QED
      BY <1>2, <3>4 DEF ReturnsWell
  <2>5. \A e : [Top.sofar EXCEPT !.err = e].ok
    BY <1>3
  <2> DEFINE acc == IF Top.node.keep THEN Top.sofar.val \o res.val ELSE Top.sofar.val
             f == [Top EXCEPT !.sofar = Ok(TRUE, acc, res.st, res.err)]
  <2> HIDE DEF acc
  <2>6. f.node = Top.node /\ PartOf(f) = Top.node.p
    BY <1>3, <2>1 DEF PartOf, FirstPart
  <2> HIDE DEF f
  <2>7. Resume(f, Top.node.p, res.st) => Goal
    BY <1>5, <2>6 DEF WaitsFor
  <2>8. FailedConsumed /\ Finish(res) => Goal
    BY <1>4, <2>3, <2>4 DEF FailedConsumed
  <2>9. \A e : Finish([Top.sofar EXCEPT !.err = e]) => Goal
    BY <1>4, <2>3, <2>5
  <2>10. \A e : res.ok /\ ~res.consumed /\ Finish(Err(TRUE, e)) => Goal
    BY <1>4, <2>3, <2>4
  <2> QED
    BY <1>10, <2>7, <2>8, <2>9, <2>10 DEF ReturnToManyAccum, acc, f
<1>11. CASE ReturnToThen
  <2>1. Top.node.op = "then" /\ ~One(Top.node) /\ ~Loop(Top.node)
    BY <1>11 DEF ReturnToThen, ReturningTo, One, Loop
  <2>2. NeverCommits(Top.node) <=> OneAndLoop(Top.node)
    BY <2>1 DEF NeverCommits, Scans
  <2>3. \A r : (OneAndLoop(Top.node) /\ ~r.ok => ~r.consumed) => ReturnsWell(Top.node, r)
    BY <2>1, <2>2 DEF ReturnsWell
  <2>4. Top.phase = "first" /\ OneAndLoop(Top.node) /\ ~res.ok => ~res.consumed
    <3>1. SUFFICES ASSUME Top.phase = "first", OneAndLoop(Top.node), ~res.ok
                   PROVE  ~res.consumed
      OBVIOUS
    <3>2. One(Top.node.p)
      BY <3>1 DEF OneAndLoop
    <3>3. PartOf(Top) = Top.node.p /\ Top.node.p.op # "lazy"
      BY <2>1, <3>1, <3>2 DEF PartOf, FirstPart, One
    <3>4. One(node) /\ NeverCommits(node)
      BY <1>2, <2>1, <3>2, <3>3 DEF FrameFollowed, WaitsFor, Followed, NeverCommits
    <3> QED
      BY <1>2, <3>1, <3>4 DEF ReturnsWell
  <2>5. Top.phase = "second" /\ OneAndLoop(Top.node) => res.ok
    <3>1. SUFFICES ASSUME Top.phase = "second", OneAndLoop(Top.node) PROVE res.ok
      OBVIOUS
    <3>2. Loop(Top.node.q)
      BY <3>1 DEF OneAndLoop
    <3>3. PartOf(Top) = Top.node.q /\ Top.node.q.op # "lazy"
      BY <2>1, <3>1, <3>2 DEF PartOf, Loop
    <3>4. Loop(node)
      BY <1>2, <2>1, <3>2, <3>3 DEF FrameFollowed, WaitsFor, Followed
    <3> QED
      BY <1>2, <3>4 DEF ReturnsWell
  <2> DEFINE f == [Top EXCEPT !.phase = "second", !.sofar = res]
  <2>6. f.node = Top.node /\ f.phase = "second"
    BY <1>3
  <2> HIDE DEF f
  <2>7. Resume(f, Top.node.q, res.st) => Goal
    BY <1>5, <2>1, <2>6 DEF WaitsFor, PartOf
  <2>8. SequenceOn(Top.node.q) => Goal
    BY <1>4, <2>3, <2>4, <2>7 DEF SequenceOn, f
  <2>9. \A c, v, s, e : Finish(Ok(c, v, s, e)) => Goal
    <3>1. \A c, v, s, e : Ok(c, v, s, e).ok
      BY DEF Ok
    <3> QED
      BY <1>4, <2>3, <3>1
  <2>10. \A c, e : ~OneAndLoop(Top.node) /\ Finish(Err(c, e)) => Goal
    BY <1>4, <2>3
  <2>11. SequenceEnd(res.val) => Goal
    BY <2>5, <2>9, <2>10 DEF SequenceEnd
  <2> QED
    BY <1>11, <2>8, <2>11 DEF ReturnToThen
<1>12. CASE ReturnToMap
  <2>1. Top.node.op = "map" /\ ~One(Top.node) /\ ~Loop(Top.node)
    BY <1>12 DEF ReturnToMap, ReturningTo, One, Loop
  <2>2. NeverCommits(Top.node) <=> Scans(Top.node)
    BY <2>1 DEF NeverCommits, OneAndLoop
  <2>3. \A r : (Scans(Top.node) /\ ~r.ok => ~r.consumed) => ReturnsWell(Top.node, r)
    BY <2>1, <2>2 DEF ReturnsWell
  <2>4. Scans(Top.node) /\ ~res.ok => ~res.consumed
    <3>1. SUFFICES ASSUME Scans(Top.node), ~res.ok PROVE ~res.consumed
      OBVIOUS
    <3>2. OneAndLoop(Top.node.p)
      BY <3>1 DEF Scans
    <3>3. PartOf(Top) = Top.node.p /\ Top.node.p.op # "lazy"
      BY <2>1, <3>2 DEF PartOf, FirstPart, OneAndLoop
    <3>4. NeverCommits(node)
      BY <1>2, <2>1, <3>2, <3>3 DEF FrameFollowed, WaitsFor, Followed, NeverCommits
    <3> QED
      BY <1>2, <3>1, <3>4 DEF ReturnsWell
  <2>5. \A v : res.ok => [res EXCEPT !.val = v].ok
    BY DEF Consumption, IsResult, IsOk, IsErr
  <2>6. Throw => Goal
    <3>1. Throw => Len(stack') = 0 /\ mode' = "threw"
      BY DEF Throw
    <3> QED
      BY <3>1 DEF Goal, Tracks
  <2>7. \A v : res.ok /\ Finish([res EXCEPT !.val = v]) => Goal
    BY <1>4, <2>3, <2>5
  <2>8. ~res.ok /\ Finish(res) => Goal
    BY <1>4, <2>3, <2>4
  <2> QED
    BY <1>12, <2>6, <2>7, <2>8 DEF ReturnToMap
<1>13. ASSUME NEW phase, NEW part, ScanOn(phase, part), Top.node.op = "comment_rest",
              \/ phase = "first" /\ part = Top.node.end_p
              \/ phase = "start" /\ part = Top.node.start_p
              \/ phase = "skip" /\ part = Top.node.scan_non_markers
              \/ phase = "marker" /\ part = Top.node.scan_one_marker
       PROVE  Goal
  <2> DEFINE f == [Top EXCEPT !.phase = phase]
  <2>1. f.node = Top.node /\ f.phase = phase
    BY <1>3
  <2> HIDE DEF f
  <2>2. PartOf(f) = part
    BY <1>13, <2>1 DEF PartOf, FirstPart
  <2>3. Resume(f, part, Top.sofar.st)
    BY <1>13 DEF ScanOn, f
  <2> QED
    BY <1>5, <2>1, <2>2, <2>3 DEF WaitsFor
<1>14. CASE ReturnToCommentRest
  <2>1. Top.node.op = "comment_rest"
    BY <1>14 DEF ReturnToCommentRest, ReturningTo
  <2>2. \A r : Finish(r) => Goal
    BY <1>6, <2>1
  <2>3. SkipInComment => Goal
    BY <1>13, <2>1, <2>2 DEF SkipInComment
  <2> DEFINE moved == Ok(Top.sofar.consumed \/ res.consumed, << >>, res.st,
                         unknown(res.st.pos))
             f == [Top EXCEPT !.phase = "first", !.i = Nesting, !.sofar = moved]
  <2> HIDE DEF moved
  <2>4. f.node = Top.node /\ f.phase = "first"
    BY <1>3
  <2> HIDE DEF f
  <2>5. PartOf(f) = Top.node.end_p
    BY <2>1, <2>4 DEF PartOf, FirstPart
  <2>6. Resume(f, Top.node.end_p, res.st) => Goal
    BY <1>5, <2>4, <2>5 DEF WaitsFor
  <2>7. ScanOn("start", Top.node.start_p) => Goal
    BY <1>13, <2>1
  <2>8. ScanOn("marker", Top.node.scan_one_marker) => Goal
    BY <1>13, <2>1
  <2> QED
    BY <1>14, <2>2, <2>3, <2>6, <2>7, <2>8 DEF ReturnToCommentRest, moved, f
(* The combinators whose parts the invariant does not follow.               *)
<1> DEFINE Free == Top.node.op \in {"bind", "skip", "alt", "look_ahead", "count",
                                    "sep_end_by1", "chainl1", "scan_op_chain", "many_till"}
<1>15. ASSUME NEW r, Finish(r), Free PROVE Goal
  BY <1>6, <1>15
<1>16. ASSUME NEW f, NEW part, NEW s, Resume(f, part, s), f.node = Top.node, Free
       PROVE  Goal
  BY <1>7, <1>16 DEF Followed
<1> HIDE DEF Free
<1>17. ASSUME NEW phase, NEW g, NEW part, NEW s,
              Resume([Top EXCEPT !.phase = phase, !.sofar = g], part, s), Free
       PROVE  Goal
  BY <1>3, <1>16, <1>17
<1>18. ASSUME NEW phase, NEW e, NEW part, NEW s,
              Resume([Top EXCEPT !.phase = phase, !.sofar.err = e], part, s), Free
       PROVE  Goal
  BY <1>3, <1>16, <1>18
<1>19. CASE ReturnToBind \/ ReturnToSkip
  BY <1>15, <1>17, <1>19 DEF ReturnToBind, ReturnToSkip, ReturningTo, SequenceOn,
                             SequenceEnd, Free
<1>20. CASE ReturnToAlt
  BY <1>15, <1>18, <1>20 DEF ReturnToAlt, ReturningTo, Free
<1>21. CASE ReturnToLookAhead
  BY <1>15, <1>21 DEF ReturnToLookAhead, ReturningTo, Free
<1>22. CASE ReturnToChoice
  <2>1. Top.node.op = "choice"
    BY <1>22 DEF ReturnToChoice, ReturningTo
  <2>2. ASSUME NEW i, NEW e, NEW s,
               Resume([Top EXCEPT !.i = i, !.sofar.err = e], Top.node.ps[i], s)
        PROVE  Goal
    <3> DEFINE f == [Top EXCEPT !.i = i, !.sofar.err = e]
    <3>1. f.node = Top.node /\ f.i = i
      BY <1>3
    <3> HIDE DEF f
    <3>2. WaitsFor(f, Top.node.ps[i])
      BY <2>1, <3>1 DEF WaitsFor, PartOf
    <3> QED
      BY <1>5, <2>2, <3>1, <3>2 DEF f
  <2>3. \A r : Finish(r) => Goal
    BY <1>6, <2>1
  <2> QED
    BY <1>22, <2>2, <2>3 DEF ReturnToChoice
<1>23. CASE ReturnToCount
  <2>1. Free
    BY <1>23 DEF ReturnToCount, ReturningTo, Free
  <2>2. ASSUME NEW i, NEW g, NEW part, NEW s,
               Resume([Top EXCEPT !.i = i, !.sofar = g], part, s)
        PROVE  Goal
    BY <1>3, <1>16, <2>1, <2>2
  <2> QED
    BY <1>15, <1>23, <2>1, <2>2 DEF ReturnToCount
<1>24. CASE ReturnToSepEndBy1 \/ ReturnToChainl1 \/ ReturnToScanOpChain
  <2>1. Free
    BY <1>24 DEF ReturnToSepEndBy1, ReturnToChainl1, ReturnToScanOpChain, ReturningTo, Free
  <2>2. ASSUME NEW separator, NEW seed, FirstItem(separator, seed) PROVE Goal
    BY <1>15, <1>17, <2>1, <2>2 DEF FirstItem
  <2>3. Separator => Goal
    <3>1. ASSUME NEW r, NEW part, NEW s, Resume([Top EXCEPT !.phase = "item", !.held = r],
                                                part, s)
          PROVE  Goal
      BY <1>3, <1>16, <2>1, <3>1
    <3> QED
      BY <1>15, <2>1, <3>1 DEF Separator
  <2>4. ASSUME NEW separator, NEW acc, NextItem(separator, acc) PROVE Goal
    BY <1>17, <2>1, <2>4 DEF NextItem
  <2>5. MissingOperand \/ NoMoreItems => Goal
    BY <1>15, <2>1 DEF MissingOperand, NoMoreItems
  <2> QED
    BY <1>24, <2>2, <2>3, <2>4, <2>5 DEF ReturnToSepEndBy1, ReturnToChainl1, ReturnToScanOpChain
<1>25. CASE ReturnToNotFollowedBy
  BY <1>6, <1>25 DEF ReturnToNotFollowedBy, ReturningTo
<1>26. CASE ReturnToManyTill
  BY <1>15, <1>17, <1>18, <1>26 DEF ReturnToManyTill, ReturningTo, Free
<1> QED
  BY <1>8, <1>9, <1>10, <1>11, <1>12, <1>14, <1>19, <1>20, <1>21, <1>22, <1>23, <1>24,
     <1>25, <1>26 DEF ReturnToCaller

LEMMA TracksStep ==
  ASSUME Consumption(FALSE), Tracks, CommentsAreComments, [Next]_vars
  PROVE  Tracks'
<1>1. CallLeaf => Tracks'
  BY TracksLeaf
<1>2. CallLazy => Tracks'
  BY TracksLazy
<1>3. CallComposite => Tracks'
  BY TracksCall
<1>4. ReturnToCaller => Tracks'
  BY ReturnKeepsTracks
<1>5. UNCHANGED vars => Tracks'
  <2>1. UNCHANGED vars => /\ stack' = stack /\ node' = node
                          /\ mode' = "return" => ReturnsWell(node, res')
    BY DEF vars, Tracks
  <2> QED
    BY <2>1, TracksSame
<1> QED
  BY <1>1, <1>2, <1>3, <1>4, <1>5 DEF Next, Step

LEMMA TracksStart ==
  ASSUME NEW root, InitOn(root)
  PROVE  Tracks
<1>1. stack = << >> /\ mode = "call"
  BY DEF InitOn
<1> QED
  BY <1>1 DEF Tracks

LEMMA TracksInit ==
  ASSUME Init
  PROVE  Tracks
BY TracksStart DEF Init

-----------------------------------------------------------------------------
(* With a caller waiting, the only step is its own.                         *)
LEMMA CallerSteps ==
  ASSUME [Next]_vars, ~UNCHANGED vars, mode = "return", stack # << >>
  PROVE  ReturnToCaller
BY DEF Next, Step, Finished, CallLeaf, CallPure, CallFail, CallTokenPrim, CallClientToken,
       CallTokens, CallTakeWhile, CallTakeWhile1, CallLazy, CallComposite, Calling

(* The flags of a caller's locals say where it has got.                     *)
LEMMA FlagsTell ==
  ASSUME Consumption(TRUE), mode = "return", stack # << >>
  PROVE  LET left == st.index > Top.entry.index
         IN  /\ Top.phase # "item" => (left <=> Top.sofar.consumed)
             /\ Top.phase = "item" => (left <=> Top.sofar.consumed \/ Top.held.consumed)
             /\ AtEntry(Top) /\ Top.phase # "item" => ~left
             /\ Top.node.op \in Stays => ~left
             /\ Top.sofar.consumed \in BOOLEAN /\ Top.held.consumed \in BOOLEAN
             /\ res.consumed \in BOOLEAN /\ Top.sofar.ok
             /\ DOMAIN Top.sofar = {"ok", "consumed", "val", "st", "err"}
             /\ IsOk(TRUE, input, res) \/ IsErr(res)
<1>1. /\ FrameOK(TRUE, input, Top) /\ st = CalledOn(Top)
      /\ input \in Seq(Nat) /\ Len(input) \in Nat
      /\ IsOk(TRUE, input, res) \/ IsErr(res)
  BY CallerOK, LenProperties DEF Consumption, IsResult
<1>2. /\ Top.entry.index \in Nat /\ Top.sofar.st.index \in Nat /\ Top.held.st.index \in Nat
      /\ Top.sofar.consumed \in BOOLEAN /\ Top.held.consumed \in BOOLEAN
  BY <1>1 DEF FrameOK, IsOk, IsState
<1>3. /\ Top.sofar.ok
      /\ DOMAIN Top.sofar = {"ok", "consumed", "val", "st", "err"}
      /\ res.consumed \in BOOLEAN
  BY <1>1 DEF FrameOK, IsOk, IsErr
<1>4. /\ ~Top.sofar.consumed => Top.sofar.st.index = Top.entry.index
      /\ Top.sofar.consumed => Top.entry.index < Top.sofar.st.index
  BY <1>1 DEF FrameOK, Moves
<1>5. Top.phase = "item" =>
        /\ Top.node.op \in ItemLoops
        /\ ~Top.held.consumed => Top.held.st.index = Top.sofar.st.index
        /\ Top.held.consumed => Top.sofar.st.index < Top.held.st.index
  BY <1>1 DEF FrameOK, Moves
<1>6. st = IF Top.phase = "item" THEN Top.held.st ELSE Top.sofar.st
  BY <1>1 DEF CalledOn
<1> DEFINE left == st.index > Top.entry.index
<1>7. Top.phase # "item" => (left <=> Top.sofar.consumed)
  BY <1>2, <1>4, <1>6
<1>8. Top.phase = "item" => (left <=> Top.sofar.consumed \/ Top.held.consumed)
  BY <1>2, <1>4, <1>5, <1>6
<1>9. AtEntry(Top) /\ Top.phase # "item" => ~left
  <2>1. AtEntry(Top) => Top.sofar.st = Top.entry
    BY <1>1 DEF FrameOK
  <2> QED
    BY <1>2, <1>6, <2>1
<1>10. Top.node.op \in Stays => ~left
  BY <1>5, <1>9 DEF AtEntry, Stays, ItemLoops
<1> QED
  BY <1>1, <1>2, <1>3, <1>7, <1>8, <1>9, <1>10

(* What the failure of a part makes of its caller: one case per combinator. *)
LEMMA ReturnReports ==
  ASSUME Consumption(TRUE), Consumption(FALSE), Tracks, ReturnToCaller,
         mode = "return", stack # << >>, mode' = "return",
         ~res.ok, ~res'.ok, Top.node.op # "try_parse"
  PROVE  res'.consumed <=> res.consumed \/ st.index > Top.entry.index
<1> DEFINE left == st.index > Top.entry.index
           Goal == res'.consumed <=> res.consumed \/ left
<1>1. /\ Top.phase # "item" => (left <=> Top.sofar.consumed)
      /\ Top.phase = "item" => (left <=> Top.sofar.consumed \/ Top.held.consumed)
      /\ AtEntry(Top) /\ Top.phase # "item" => ~left
      /\ Top.node.op \in Stays => ~left
      /\ Top.sofar.consumed \in BOOLEAN /\ Top.held.consumed \in BOOLEAN
      /\ res.consumed \in BOOLEAN /\ Top.sofar.ok
      /\ DOMAIN Top.sofar = {"ok", "consumed", "val", "st", "err"}
      /\ IsErr(res)
  BY FlagsTell DEF IsOk
<1> HIDE DEF left
<1>2. ASSUME Finish(res), ~left PROVE Goal
  BY <1>2 DEF Finish
<1>3. ASSUME Finish(res), res.consumed PROVE Goal
  BY <1>3 DEF Finish
<1>4. ASSUME NEW c, NEW e, Finish(Err(c, e)), c <=> res.consumed \/ left PROVE Goal
  BY <1>4 DEF Finish, Err
<1>5. ASSUME NEW c, NEW v, NEW s, NEW e, Finish(Ok(c, v, s, e)) PROVE FALSE
  BY <1>5 DEF Finish, Ok
<1>6. ASSUME NEW f, NEW part, NEW s, Resume(f, part, s) PROVE FALSE
  BY <1>6 DEF Resume
<1>7. ASSUME NEW e, Finish([Top.sofar EXCEPT !.err = e]) PROVE FALSE
  BY <1>1, <1>7 DEF Finish
<1>8. ASSUME NEW e, Finish([res EXCEPT !.err = e]), ~left PROVE Goal
  BY <1>1, <1>8 DEF Finish, IsErr
<1> HIDE DEF Goal
<1> SUFFICES Goal
  BY DEF Goal, left
<1>9. ASSUME NEW part, SequenceOn(part), Top.node.op \notin Repeats PROVE Goal
  BY <1>1, <1>2, <1>9 DEF SequenceOn, AtEntry
<1>10. ASSUME NEW val, SequenceEnd(val) PROVE Goal
  BY <1>1, <1>4, <1>10 DEF SequenceEnd
<1>11. CASE ReturnToBind \/ ReturnToThen \/ ReturnToSkip
  BY <1>9, <1>10, <1>11 DEF ReturnToBind, ReturnToThen, ReturnToSkip, ReturningTo, Repeats
<1>12. CASE ReturnToMap
  BY <1>1, <1>2, <1>12 DEF ReturnToMap, ReturningTo, Stays
<1>13. CASE ReturnToLabel
  BY <1>1, <1>2, <1>4, <1>13 DEF ReturnToLabel, ReturningTo, Stays, FailedEmpty
<1>14. CASE ReturnToAlt
  BY <1>1, <1>2, <1>6, <1>8, <1>14 DEF ReturnToAlt, ReturningTo, Stays
<1>15. CASE ReturnToLookAhead
  BY <1>1, <1>2, <1>15 DEF ReturnToLookAhead, ReturningTo, Stays
<1>16. CASE ReturnToManyAccum
  BY <1>3, <1>7, <1>16 DEF ReturnToManyAccum, FailedConsumed
<1>17. CASE ReturnToChoice
  BY <1>1, <1>3, <1>4, <1>6, <1>17
     DEF ReturnToChoice, ReturningTo, Stays, FailedConsumed, FailedEmpty
<1>18. CASE ReturnToCount
  <2>1. Top.phase # "item"
    BY <1>18, CallerOK DEF ReturnToCount, ReturningTo, FrameOK, ItemLoops
  <2> QED
    BY <1>1, <1>3, <1>4, <1>18, <2>1 DEF ReturnToCount, FailedConsumed
<1>19. ASSUME NEW separator, NEW seed, FirstItem(separator, seed),
              Top.node.op \notin Repeats
       PROVE  Goal
  BY <1>1, <1>2, <1>19 DEF FirstItem, AtEntry
<1>20. CASE Separator
  BY <1>3, <1>7, <1>20 DEF Separator, FailedConsumed
<1>21. CASE MissingOperand \/ NoMoreItems
  BY <1>1, <1>3, <1>4, <1>5, <1>21
     DEF MissingOperand, NoMoreItems, FailedConsumed, FailedEmpty
<1>22. CASE ReturnToSepEndBy1 \/ ReturnToChainl1 \/ ReturnToScanOpChain
  BY <1>19, <1>20, <1>21, <1>22
     DEF ReturnToSepEndBy1, ReturnToChainl1, ReturnToScanOpChain, NextItem, ReturningTo,
         Repeats
<1>23. CASE ReturnToNotFollowedBy
  BY <1>5, <1>23 DEF ReturnToNotFollowedBy
<1>24. CASE ReturnToManyTill
  BY <1>1, <1>3, <1>4, <1>6, <1>24 DEF ReturnToManyTill, FailedConsumed, FailedEmpty
<1>25. CASE ReturnToCommentRest
  <2>1. /\ Top.phase \in {"first", "start", "skip"} /\ Top.node.op = "comment_rest"
        /\ SkipInComment \/ \E phase, part : ScanOn(phase, part)
    BY <1>25 DEF ReturnToCommentRest, ReturningTo
  <2>2. ~res.consumed
    BY <2>1, UnreadFailures DEF Phases
  <2> QED
    BY <1>1, <1>4, <1>6, <2>1, <2>2 DEF SkipInComment, ScanOn
<1> QED
  BY <1>11, <1>12, <1>13, <1>14, <1>15, <1>16, <1>17, <1>18, <1>22, <1>23, <1>24, <1>25
     DEF ReturnToCaller, ReturnToTryParse, ReturningTo

(* A failure that consumed input: one case per combinator.                  *)
LEMMA ReturnPropagates ==
  ASSUME SoundRun, Tracks, ReturnToCaller, mode = "return", stack # << >>,
         ~res.ok, res.consumed, Top.node.op # "try_parse"
  PROVE  /\ mode' = "return" /\ ~res'.ok /\ res'.consumed
         /\ PosAtMost(res.err.pos, res'.err.pos)
<1> DEFINE Goal == /\ mode' = "return" /\ ~res'.ok /\ res'.consumed
                   /\ PosAtMost(res.err.pos, res'.err.pos)
<1>1. /\ IsError(Top.sofar.err) /\ IsError(res.err) /\ ~is_unknown(res.err)
      /\ Top.phase \in Phases(Top.node.op)
  BY CallerSound DEF SoundRun, Sound, FrameSound, ResultSound, Points
<1>2. ~FailedEmpty
  BY DEF FailedEmpty
<1>3. ASSUME Finish(res) PROVE Goal
  BY <1>1, <1>3 DEF Finish, PosAtMost
<1>4. ASSUME NEW c, c, NEW e, Finish(Err(c, merge(e, res.err))), e = Top.sofar.err
      PROVE  Goal
  <2>1. KeptIn(merge(e, res.err), res.err)
    BY <1>1, <1>4, MergeKeepsFurthest
  <2> DEFINE m == merge(e, res.err)
  <2>2. PosAtMost(res.err.pos, m.pos)
    BY <1>1, <2>1 DEF KeptIn, PosAtMost
  <2> HIDE DEF m
  <2>3. res' = Err(c, m) /\ mode' = "return"
    BY <1>4 DEF Finish, m
  <2> QED
    BY <1>4, <2>2, <2>3 DEF Err
<1> HIDE DEF Goal
<1> SUFFICES Goal
  BY DEF Goal
<1>5. ASSUME NEW part, SequenceOn(part) PROVE Goal
  BY <1>3, <1>5 DEF SequenceOn
<1>6. ASSUME NEW val, SequenceEnd(val) PROVE Goal
  BY <1>4, <1>6 DEF SequenceEnd
<1>7. CASE ReturnToBind \/ ReturnToThen \/ ReturnToSkip
  BY <1>5, <1>6, <1>7 DEF ReturnToBind, ReturnToThen, ReturnToSkip
<1>8. CASE ReturnToMap \/ ReturnToLabel \/ ReturnToLookAhead \/ ReturnToAlt
  BY <1>2, <1>3, <1>8 DEF ReturnToMap, ReturnToLabel, ReturnToLookAhead, ReturnToAlt
<1>9. CASE ReturnToManyAccum \/ ReturnToChoice \/ ReturnToCount \/ ReturnToManyTill
  BY <1>2, <1>3, <1>9 DEF ReturnToManyAccum, ReturnToChoice, ReturnToCount, ReturnToManyTill
<1>10. CASE ReturnToSepEndBy1 \/ ReturnToChainl1 \/ ReturnToScanOpChain
  BY <1>2, <1>3, <1>10 DEF ReturnToSepEndBy1, ReturnToChainl1, ReturnToScanOpChain,
       FirstItem, Separator, NextItem, MissingOperand, NoMoreItems
<1>11. ~ReturnToNotFollowedBy /\ ~ReturnToCommentRest
  BY <1>1, UnreadFailures DEF SoundRun, ReturnToNotFollowedBy, ReturnToCommentRest,
                              ReturningTo
<1> QED
  BY <1>7, <1>8, <1>9, <1>10, <1>11 DEF ReturnToCaller, ReturnToTryParse, ReturningTo

-----------------------------------------------------------------------------
(* A failing combinator reports consumed input exactly when its part did or *)
(* had started past it, for every grammar, input and client in which no     *)
(* tokens parser has an empty string.                                       *)
THEOREM FailureReports ==
  Spec /\ []TextsNotEmpty /\ []CommentsAreComments => FailureReportsConsumption
<1> DEFINE Inv == Consumption(TRUE) /\ Consumption(FALSE) /\ Tracks
<1>1. Init => Inv
  BY ConsumptionInit, TracksInit
<1>2. Inv /\ TextsNotEmpty /\ CommentsAreComments /\ [Next]_vars => Inv'
  <2> SUFFICES ASSUME Consumption(TRUE), Consumption(FALSE), Tracks, TextsNotEmpty,
                      CommentsAreComments, [Next]_vars
               PROVE  Consumption(TRUE)' /\ Consumption(FALSE)' /\ Tracks'
    OBVIOUS
  <2> QED
    BY ConsumptionStep, TracksStep
<1>3. Inv /\ [Next]_vars
        => [ /\ stack # << >> /\ mode = "return" /\ mode' = "return"
             /\ ~res.ok /\ ~res'.ok /\ Top.node.op # "try_parse"
             => (res'.consumed <=> res.consumed \/ st.index > Top.entry.index) ]_vars
  BY CallerSteps, ReturnReports
<1> QED
  BY <1>1, <1>2, <1>3, PTL DEF Spec, FailureReportsConsumption

(* A failure that consumed input ends every enclosing alternative, loop and *)
(* option unread, up to a try_parse, and where it points is never lost, for *)
(* every grammar, input and client.                                         *)
THEOREM CommittedPropagates ==
  Spec /\ []TextsAreStrings /\ []MessagesAreStrings /\ []CommentsAreComments
    => CommittedFailurePropagates
<1>1. Init => Tracks
  BY TracksInit
<1>2. SoundRun /\ Tracks /\ CommentsAreComments /\ [Next]_vars => Tracks'
  BY TracksStep DEF SoundRun
<1>3. SoundRun /\ Tracks /\ [Next]_vars
        => [ /\ mode = "return" /\ stack # << >>
             /\ ~res.ok /\ res.consumed /\ Top.node.op # "try_parse"
             => /\ mode' = "return" /\ ~res'.ok /\ res'.consumed
                /\ PosAtMost(res.err.pos, res'.err.pos) ]_vars
  BY CallerSteps, ReturnPropagates
<1> QED
  BY <1>1, <1>2, <1>3, SoundAlways, PTL DEF Spec, CommittedFailurePropagates

-----------------------------------------------------------------------------
(* Predictive parsing.  Before anything licenses looking back, a parser is  *)
(* called where the last one left off, and a failure that consumed input    *)
(* calls nothing any more.                                                  *)
MayLookBack == LooksBack \cup {"not_followed_by", "comment_rest"}

Predicts ==
  ~licensed =>
     /\ \A k \in 1..Len(stack) : stack[k].node.op \notin MayLookBack
     /\ mode = "call" => st.index = furthest /\ node.op \notin LooksBack
     /\ mode = "return" /\ res.ok => res.st.index = furthest
     /\ mode = "return" /\ ~res.ok /\ ~res.consumed => st.index = furthest

Reached == IF mode = "return" /\ res.ok THEN res.st.index ELSE st.index

LEMMA FurthestStays ==
  ASSUME ObservedNext
  PROVE  /\ Reached' = furthest => furthest' = furthest
         /\ ~licensed' => ~licensed
         /\ ~licensed' /\ mode' = "call" => node'.op \notin LooksBack
<1>1. furthest' = IF Reached' > furthest THEN Reached' ELSE furthest
  BY DEF ObservedNext, Reached
<1> QED
  BY <1>1 DEF ObservedNext

LEMMA PredictsResume ==
  ASSUME Consumption(FALSE), Predicts, ObservedNext, stack # << >>,
         NEW f, NEW part, NEW s, Resume(f, part, s), f.node = Top.node,
         ~licensed => s.index = furthest
  PROVE  Predicts'
<1> SUFFICES ASSUME ~licensed'
             PROVE  /\ \A k \in 1..Len(stack') : stack'[k].node.op \notin MayLookBack
                    /\ st'.index = furthest' /\ node'.op \notin LooksBack
                    /\ mode' = "call"
  BY DEF Predicts
<1>1. mode' = "call" /\ st' = s
  BY DEF Resume
<1>2. ~licensed /\ node'.op \notin LooksBack
  BY <1>1, FurthestStays
<1>3. furthest' = furthest
  BY <1>1, <1>2, FurthestStays DEF Reached
<1>4. ASSUME NEW k \in 1..Len(stack') PROVE stack'[k].node.op \notin MayLookBack
  <2>1. /\ Len(stack') = Len(stack) /\ Len(stack) \in Nat \ {0}
        /\ \A l \in 1..(Len(stack) - 1) : stack'[l] = stack[l]
        /\ stack'[Len(stack)] = f /\ Top = stack[Len(stack)]
    BY Shapes
  <2>2. k \in 1..Len(stack) /\ (k = Len(stack) \/ k \in 1..(Len(stack) - 1))
    BY <2>1
  <2>3. stack'[k].node = stack[k].node
    BY <2>1, <2>2
  <2> QED
    BY <1>2, <2>2, <2>3 DEF Predicts
<1> QED
  BY <1>1, <1>2, <1>3, <1>4

LEMMA PredictsFinish ==
  ASSUME Consumption(FALSE), Predicts, ObservedNext, stack # << >>, mode = "return",
         NEW r, Finish(r),
         ~licensed /\ r.ok => r.st.index = furthest,
         ~licensed /\ ~r.ok /\ ~r.consumed => Top.entry.index = furthest
  PROVE  Predicts'
<1> SUFFICES ASSUME ~licensed'
             PROVE  /\ \A k \in 1..Len(stack') : stack'[k].node.op \notin MayLookBack
                    /\ mode' = "return"
                    /\ res'.ok => res'.st.index = furthest'
                    /\ ~res'.ok /\ ~res'.consumed => st'.index = furthest'
  BY DEF Predicts
<1>1. mode' = "return" /\ st' = Top.entry /\ res' = r
  BY DEF Finish
<1>2. ~licensed
  BY FurthestStays
<1>3. r.ok => furthest' = furthest
  BY <1>1, <1>2, FurthestStays DEF Reached
<1>4. ~r.ok /\ ~r.consumed => furthest' = furthest
  BY <1>1, <1>2, FurthestStays DEF Reached
<1>5. ASSUME NEW k \in 1..Len(stack') PROVE stack'[k].node.op \notin MayLookBack
  <2>1. /\ Len(stack') = Len(stack) - 1 /\ Len(stack) \in Nat \ {0}
        /\ \A l \in 1..(Len(stack) - 1) : stack'[l] = stack[l]
    BY Shapes
  <2>2. k \in 1..Len(stack) /\ k \in 1..(Len(stack) - 1)
    BY <2>1
  <2>3. stack'[k].node = stack[k].node
    BY <2>1, <2>2
  <2> QED
    BY <1>2, <2>2, <2>3 DEF Predicts
<1> QED
  BY <1>1, <1>2, <1>3, <1>4, <1>5

(* The parsers that call no other, and calls.                               *)
LEMMA PredictsCall ==
  ASSUME Consumption(FALSE), AllPlaced, Predicts, ObservedNext, TextsAreStrings,
         CommentsAreComments, mode = "call"
  PROVE  Predicts'
<1> SUFFICES ASSUME ~licensed'
             PROVE  Predicts'
  BY DEF Predicts
<1>1. /\ ~licensed /\ st.index = furthest /\ node.op \notin LooksBack
      /\ \A k \in 1..Len(stack) : stack[k].node.op \notin MayLookBack
      /\ mode' = "call" => node'.op \notin LooksBack
  BY FurthestStays DEF Predicts
<1>2. Placed(input, st) /\ st.user \in Nat /\ st.index \in Nat /\ input \in Seq(Nat)
  BY LiveUnfold DEF AllPlaced, IsLive, Placed, Consumption
<1>3. furthest' = IF Reached' > furthest THEN Reached' ELSE furthest
  BY DEF ObservedNext, Reached
<1>4. CASE CallLeaf
  <2>1. /\ st' = st /\ stack' = stack /\ mode' = "return"
        /\ res'.ok => res'.st = st \/ Moved(res'.st)
    BY <1>2, <1>4, LeafTakes DEF CallLeaf, CallPure, CallFail, CallTokenPrim,
       CallClientToken, CallTokens, CallTakeWhile, CallTakeWhile1, Return
  <2>2. res'.ok => res'.st.index \in Nat /\ furthest <= res'.st.index
    BY <1>1, <1>2, <2>1 DEF Moved, Placed
  <2>3. res'.ok => res'.st.index = furthest'
    BY <1>1, <1>2, <1>3, <2>1, <2>2 DEF Reached
  <2>4. ~res'.ok => st'.index = furthest'
    BY <1>1, <1>3, <2>1 DEF Reached
  <2> QED
    BY <1>1, <2>1, <2>3, <2>4 DEF Predicts
<1>5. CASE CallLazy
  <2>1. mode' = "call" /\ st' = st /\ stack' = stack
    BY <1>5 DEF CallLazy, Calling
  <2>2. furthest' = furthest
    BY <1>1, <1>3, <2>1 DEF Reached
  <2> QED
    BY <1>1, <2>1, <2>2 DEF Predicts
<1>6. CASE CallComposite
  <2>1. mode' = "call" /\ st' = st /\ node' = FirstPart(node)
    BY <1>6 DEF CallComposite
  <2>2. furthest' = furthest
    BY <1>1, <1>3, <2>1 DEF Reached
  <2>3. node.op # "not_followed_by"
    BY <1>1, <2>1 DEF FirstPart, try_parse, LooksBack
  <2>4. node.op # "comment_rest"
    <3>1. SUFFICES ASSUME node.op = "comment_rest" PROVE FALSE
      OBVIOUS
    <3>2. node.end_p.op = "try_parse"
      <4>1. PICK start, end, nested : node = comment_rest(start, end, nested)
        BY <3>1 DEF CommentsAreComments
      <4>2. comment_rest(start, end, nested).end_p = try_parse(string_(end))
        BY DEF comment_rest
      <4> QED
        BY <4>1, <4>2 DEF try_parse
    <3>3. FirstPart(node) = node.end_p
      BY <3>1 DEF FirstPart
    <3> QED
      BY <1>1, <2>1, <3>2, <3>3 DEF LooksBack
  <2>5. node.op \notin MayLookBack
    BY <1>1, <2>3, <2>4 DEF MayLookBack
  <2>6. /\ Len(stack') = Len(stack) + 1 /\ Len(stack) \in Nat
        /\ \A k \in 1..Len(stack) : stack'[k] = stack[k]
        /\ stack'[Len(stack) + 1] = NewFrame(node, st)
    BY <1>6, Shapes
  <2>7. NewFrame(node, st).node = node
    BY DEF NewFrame
  <2>8. ASSUME NEW k \in 1..Len(stack') PROVE stack'[k].node.op \notin MayLookBack
    <3>1. k \in 1..Len(stack) \/ k = Len(stack) + 1
      BY <2>6
    <3> QED
      BY <1>1, <2>5, <2>6, <2>7, <3>1
  <2> QED
    BY <1>1, <2>1, <2>2, <2>8 DEF Predicts
<1>7. ~ReturnToCaller /\ ~Finished
  BY DEF ReturnToCaller, ReturnToBind, ReturnToThen, ReturnToSkip, ReturnToMap,
         ReturnToLabel, ReturnToAlt, ReturnToTryParse, ReturnToLookAhead,
         ReturnToManyAccum, ReturnToChoice, ReturnToCount, ReturnToSepEndBy1,
         ReturnToChainl1, ReturnToScanOpChain, ReturnToNotFollowedBy,
         ReturnToManyTill, ReturnToCommentRest, ReturningTo, Finished
<1> QED
  BY <1>4, <1>5, <1>6, <1>7 DEF ObservedNext, Next, Step

(* The combinators, one case each.                                          *)
LEMMA PredictsReturn ==
  ASSUME Consumption(FALSE), Predicts, ObservedNext, ReturnToCaller,
         mode = "return", stack # << >>
  PROVE  Predicts'
<1> SUFFICES ASSUME ~licensed, ~licensed'
             PROVE  Predicts'
  BY FurthestStays DEF Predicts
<1> DEFINE Goal == Predicts'
           here(s) == s.index = furthest
<1>1. /\ res.ok => here(res.st)
      /\ FailedEmpty => here(st)
      /\ Top.node.op \notin MayLookBack
  <2>1. Len(stack) \in 1..Len(stack) /\ Top = stack[Len(stack)]
    BY Shapes
  <2> QED
    BY <2>1 DEF Predicts, FailedEmpty
<1>2. /\ FrameOK(FALSE, input, Top) /\ st = CalledOn(Top)
      /\ DOMAIN Top = {"node", "entry", "phase", "i", "sofar", "held"}
      /\ DOMAIN Top.sofar = {"ok", "consumed", "val", "st", "err"}
      /\ Top.sofar.ok
      /\ IsOk(FALSE, input, res) \/ IsErr(res)
  BY CallerOK DEF Consumption, FrameOK, IsOk, IsResult
(* Where the caller is, when its part failed at once.                       *)
<1>3. /\ Top.phase # "item" /\ FailedEmpty => here(Top.sofar.st)
      /\ Top.phase # "item" /\ FailedEmpty /\ ~Top.sofar.consumed => here(Top.entry)
      /\ Top.phase = "item" /\ FailedEmpty => here(Top.held.st)
      /\ Top.phase = "item" /\ FailedEmpty /\ ~(Top.sofar.consumed \/ Top.held.consumed)
           => here(Top.entry)
      /\ Top.phase # "item" /\ AtEntry(Top) /\ FailedEmpty => here(Top.entry)
      /\ Top.phase = "item" => Top.node.op \in ItemLoops
  BY <1>1, <1>2 DEF FrameOK, Moves, CalledOn
<1>4. Top.node.op \in Stays /\ FailedEmpty => here(Top.entry)
  BY <1>3 DEF AtEntry, Stays, ItemLoops
<1>5. ASSUME NEW f, NEW part, NEW s, Resume(f, part, s), f.node = Top.node, here(s)
      PROVE  Goal
  BY <1>5, PredictsResume
<1>6. ASSUME NEW r, Finish(r), r.ok => here(r.st),
             ~r.ok /\ ~r.consumed => here(Top.entry)
      PROVE  Goal
  BY <1>6, PredictsFinish
<1>7. ASSUME NEW c, NEW e, Finish(Err(c, e)), c \/ here(Top.entry) PROVE Goal
  BY <1>6, <1>7 DEF Err
<1>8. ASSUME NEW c, NEW v, NEW s, NEW e, Finish(Ok(c, v, s, e)), here(s) PROVE Goal
  BY <1>6, <1>8 DEF Ok
<1>9. ASSUME Finish(res), FailedEmpty => here(Top.entry) PROVE Goal
  BY <1>1, <1>6, <1>9 DEF FailedEmpty
<1>10. ASSUME NEW e, Finish([Top.sofar EXCEPT !.err = e]), here(Top.sofar.st) PROVE Goal
  <2>1. [Top.sofar EXCEPT !.err = e].ok /\ [Top.sofar EXCEPT !.err = e].st = Top.sofar.st
    BY <1>2
  <2> QED
    BY <1>6, <1>10, <2>1
<1>11. ASSUME NEW e, Finish([res EXCEPT !.err = e]), FailedEmpty => here(Top.entry)
       PROVE  Goal
  <2> DEFINE r == [res EXCEPT !.err = e]
  <2>1. /\ r.ok <=> res.ok
        /\ r.consumed = res.consumed
        /\ res.ok => r.st = res.st
    BY <1>2 DEF IsOk, IsErr
  <2> HIDE DEF r
  <2>2. Finish(r)
    BY <1>11 DEF r
  <2> QED
    BY <1>1, <1>6, <1>11, <2>1, <2>2 DEF FailedEmpty
<1>12. ASSUME NEW phase, NEW g, NEW part, NEW s,
              Resume([Top EXCEPT !.phase = phase, !.sofar = g], part, s), here(s)
       PROVE  Goal
  BY <1>2, <1>5, <1>12
<1>13. ASSUME NEW phase, NEW e, NEW part, NEW s,
              Resume([Top EXCEPT !.phase = phase, !.sofar.err = e], part, s), here(s)
       PROVE  Goal
  BY <1>2, <1>5, <1>13
<1> HIDE DEF Goal, here
<1> SUFFICES Goal
  BY DEF Goal
<1>14. ASSUME NEW part, SequenceOn(part), Top.node.op \notin Repeats PROVE Goal
  BY <1>1, <1>3, <1>9, <1>12, <1>14 DEF SequenceOn, AtEntry
<1>15. ASSUME NEW val, SequenceEnd(val) PROVE Goal
  BY <1>1, <1>3, <1>7, <1>8, <1>15 DEF SequenceEnd, FailedEmpty
<1>16. CASE ReturnToBind \/ ReturnToThen \/ ReturnToSkip
  BY <1>14, <1>15, <1>16 DEF ReturnToBind, ReturnToThen, ReturnToSkip, ReturningTo, Repeats
<1>17. CASE ReturnToMap
  <2>1. FailedEmpty => here(Top.entry)
    BY <1>4, <1>17 DEF ReturnToMap, ReturningTo, Stays
  <2>2. ASSUME res.ok, NEW v, Finish([res EXCEPT !.val = v]) PROVE Goal
    <3>1. [res EXCEPT !.val = v].ok /\ [res EXCEPT !.val = v].st = res.st
      BY <1>2, <2>2 DEF IsOk, IsErr
    <3> QED
      BY <1>1, <1>6, <2>2, <3>1
  <2>3. Throw => Goal
    <3>1. Throw => Len(stack') = 0 /\ mode' = "threw"
      BY DEF Throw
    <3> QED
      BY <3>1 DEF Goal, Predicts
  <2> QED
    BY <1>9, <1>17, <2>1, <2>2, <2>3 DEF ReturnToMap
<1>18. CASE ReturnToLabel
  BY <1>4, <1>7, <1>9, <1>18 DEF ReturnToLabel, ReturningTo, Stays
<1>19. CASE ReturnToAlt
  <2>1. FailedEmpty => here(Top.entry)
    BY <1>4, <1>19 DEF ReturnToAlt, ReturningTo, Stays
  <2> QED
    BY <1>9, <1>11, <1>13, <1>19, <2>1 DEF ReturnToAlt
<1>20. CASE ReturnToManyAccum
  <2>1. Top.phase # "item"
    BY <1>3, <1>20 DEF ReturnToManyAccum, ReturningTo, ItemLoops
  <2>2. ASSUME NEW g, Resume([Top EXCEPT !.sofar = g], Top.node.p, res.st), res.ok
        PROVE  Goal
    BY <1>1, <1>2, <1>5, <2>2
  <2>3. FailedConsumed => ~FailedEmpty
    BY DEF FailedConsumed, FailedEmpty
  <2> QED
    BY <1>3, <1>7, <1>9, <1>10, <1>20, <2>1, <2>2, <2>3 DEF ReturnToManyAccum
<1>21. CASE ReturnToChoice
  <2>1. FailedEmpty => here(Top.entry)
    BY <1>4, <1>21 DEF ReturnToChoice, ReturningTo, Stays
  <2>2. ASSUME NEW i, NEW e, NEW part, here(Top.entry),
               Resume([Top EXCEPT !.i = i, !.sofar.err = e], part, Top.entry)
        PROVE  Goal
    BY <1>2, <1>5, <2>2
  <2> QED
    BY <1>7, <1>9, <1>11, <1>21, <2>1, <2>2 DEF ReturnToChoice
<1>22. CASE ReturnToCount
  <2>1. Top.phase # "item"
    BY <1>3, <1>22 DEF ReturnToCount, ReturningTo, ItemLoops
  <2>2. ASSUME NEW i, NEW g, Resume([Top EXCEPT !.i = i, !.sofar = g], Top.node.p, res.st),
               res.ok
        PROVE  Goal
    BY <1>1, <1>2, <1>5, <2>2
  <2>3. FailedConsumed => ~FailedEmpty
    BY DEF FailedConsumed, FailedEmpty
  <2> QED
    BY <1>1, <1>3, <1>7, <1>8, <1>9, <1>22, <2>1, <2>2, <2>3 DEF ReturnToCount
<1>23. CASE ReturnToSepEndBy1 \/ ReturnToChainl1 \/ ReturnToScanOpChain
  <2>1. Top.node.op \notin Repeats
    BY <1>23 DEF ReturnToSepEndBy1, ReturnToChainl1, ReturnToScanOpChain, ReturningTo, Repeats
  <2>2. FailedConsumed => ~FailedEmpty
    BY DEF FailedConsumed, FailedEmpty
  <2>3. ASSUME NEW separator, NEW seed, FirstItem(separator, seed) PROVE Goal
    BY <1>1, <1>3, <1>9, <1>12, <2>1, <2>3 DEF FirstItem, AtEntry
  <2>4. Separator => Goal
    <3>1. ASSUME NEW part, Resume([Top EXCEPT !.phase = "item", !.held = res], part, res.st),
                 res.ok
          PROVE  Goal
      BY <1>1, <1>2, <1>5, <3>1
    <3> QED
      BY <1>3, <1>9, <1>10, <2>2, <3>1 DEF Separator
  <2>5. ASSUME NEW separator, NEW acc, NextItem(separator, acc) PROVE Goal
    BY <1>1, <1>12, <2>5 DEF NextItem
  <2>6. MissingOperand \/ NoMoreItems => Goal
    BY <1>3, <1>7, <1>8, <1>9, <2>2 DEF MissingOperand, NoMoreItems
  <2> QED
    BY <1>23, <2>3, <2>4, <2>5, <2>6 DEF ReturnToSepEndBy1, ReturnToChainl1, ReturnToScanOpChain
<1>24. CASE ReturnToManyTill
  <2>1. Top.phase # "item"
    BY <1>3, <1>24 DEF ReturnToManyTill, ReturningTo, ItemLoops
  <2>2. FailedConsumed => ~FailedEmpty
    BY DEF FailedConsumed, FailedEmpty
  <2> QED
    BY <1>1, <1>3, <1>7, <1>8, <1>9, <1>12, <1>13, <1>24, <2>1, <2>2 DEF ReturnToManyTill
<1> QED
  BY <1>1, <1>16, <1>17, <1>18, <1>19, <1>20, <1>21, <1>22, <1>23, <1>24
     DEF ReturnToCaller, ReturnToTryParse, ReturnToLookAhead, ReturnToNotFollowedBy,
         ReturnToCommentRest, ReturningTo, MayLookBack, LooksBack

(* "predictive parsing with single-token lookahead": until a try_parse or a *)
(* look_ahead is called every parser runs at the furthest cursor reached so *)
(* far, for every grammar, input and client whose texts are strings.        *)
THEOREM ParsesPredictively ==
  ObservedSpec /\ []TextsAreStrings /\ []CommentsAreComments => []PredictiveParsing
<1> DEFINE Inv == Consumption(FALSE) /\ AllPlaced /\ Predicts
<1>1. ObservedInit => Inv
  <2> SUFFICES ASSUME ObservedInit PROVE Inv
    OBVIOUS
  <2>1. Consumption(FALSE) /\ AllPlaced
    <3>1. Init
      BY DEF ObservedInit
    <3>2. Consumption(FALSE)
      BY <3>1, ConsumptionInit
    <3>3. Placed(input, Initial) /\ Initial.user = 0
      BY <3>2, InitialPlaced DEF Consumption
    <3>4. AllPlaced
      BY <3>1, <3>3, InitLive DEF AllPlaced
    <3> QED
      BY <3>2, <3>4
  <2>2. Predicts
    <3>1. mode = "call" /\ stack = << >> /\ st = Initial /\ furthest = 0
      BY DEF ObservedInit, Init, InitOn
    <3>2. st.index = furthest /\ Len(stack) = 0
      BY <3>1 DEF Initial
    <3>3. ~licensed => node.op \notin LooksBack
      BY Zenon DEF ObservedInit
    <3> QED
      BY <3>1, <3>2, <3>3 DEF Predicts
  <2> QED
    BY <2>1, <2>2
<1>2. Inv /\ TextsAreStrings /\ CommentsAreComments /\ [ObservedNext]_observed => Inv'
  <2> SUFFICES ASSUME Consumption(FALSE), AllPlaced, Predicts, TextsAreStrings,
                      CommentsAreComments, [ObservedNext]_observed
               PROVE  Consumption(FALSE)' /\ AllPlaced' /\ Predicts'
    OBVIOUS
  <2>1. [Next]_vars
    BY DEF ObservedNext, observed
  <2>2. Consumption(FALSE)' /\ AllPlaced'
    BY <2>1, ConsumptionStep, AllPlacedStep
  <2>3. UNCHANGED observed => Predicts'
    BY DEF observed, vars, Predicts
  <2>4. ASSUME ObservedNext, UNCHANGED vars PROVE Predicts'
    <3>1. ~licensed' => ~licensed /\ (Reached' = furthest => furthest' = furthest)
      BY <2>4, FurthestStays
    <3>2. Reached' = Reached
      BY <2>4 DEF vars, Reached
    <3> QED
      BY <2>4, <3>1, <3>2 DEF vars, Predicts, Reached
  <2>5. ASSUME ObservedNext, ~UNCHANGED vars PROVE Predicts'
    <3>1. mode = "call" => Predicts'
      BY <2>5, PredictsCall
    <3>2. mode = "return" /\ stack # << >> => Predicts'
      BY <2>1, <2>5, CallerSteps, PredictsReturn
    <3>3. mode = "call" \/ (mode = "return" /\ stack # << >>)
      BY <2>5 DEF ObservedNext, Next, Step, CallLeaf, CallPure, CallFail, CallTokenPrim,
         CallClientToken, CallTokens, CallTakeWhile, CallTakeWhile1, CallLazy,
         CallComposite, Calling, ReturnToCaller, ReturnToBind, ReturnToThen,
         ReturnToSkip, ReturnToMap, ReturnToLabel, ReturnToAlt, ReturnToTryParse,
         ReturnToLookAhead, ReturnToManyAccum, ReturnToChoice, ReturnToCount,
         ReturnToSepEndBy1, ReturnToChainl1, ReturnToScanOpChain,
         ReturnToNotFollowedBy, ReturnToManyTill, ReturnToCommentRest, ReturningTo
    <3> QED
      BY <3>1, <3>2, <3>3
  <2> QED
    BY <2>2, <2>3, <2>4, <2>5
<1>3. Inv => PredictiveParsing
  BY DEF Predicts, PredictiveParsing
<1> QED
  BY <1>1, <1>2, <1>3, PTL DEF ObservedSpec
=============================================================================
