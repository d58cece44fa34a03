--------------------------- MODULE WhiteSpaceProofs ---------------------------
(***************************************************************************)
(* White space ends at the next token, for every language, text and task.  *)
(*                                                                         *)
(* The property says what white_space returns; the invariant says it of    *)
(* every parser that white_space is made of, in the terms of WhiteSpace,   *)
(* and of each of their frames what it has found out so far.  For a block  *)
(* comment these are the ends of all the comments it is inside of.         *)
(***************************************************************************)
EXTENDS FailureProofs, WhiteSpace

-----------------------------------------------------------------------------
(* Stretches of characters.                                                 *)
LEMMA StretchEndIs ==
  ASSUME NEW text \in Seq(Nat), NEW S, NEW i \in 0..Len(text), NEW j \in i..Len(text),
         \A k \in i..(j - 1) : HasAt(text, S, k), ~HasAt(text, S, j)
  PROVE  StretchEnd(text, S, i) = j
<1> DEFINE P(m) == (\A k \in i..(m - 1) : HasAt(text, S, k)) /\ ~HasAt(text, S, m)
           e == StretchEnd(text, S, i)
<1>1. e \in i..Len(text) /\ P(e)
  <2>1. e = CHOOSE m \in i..Len(text) : P(m)
    BY Zenon DEF StretchEnd
  <2>2. P(j)
    OBVIOUS
  <2> HIDE DEF P, e
  <2> QED
    BY <2>1, <2>2, Zenon
<1> HIDE DEF e
<1>2. Len(text) \in Nat
  BY LenProperties
<1>3. ~(e < j)
  BY <1>1, <1>2
<1>4. ~(j < e)
  BY <1>1, <1>2
<1> QED
  BY <1>1, <1>2, <1>3, <1>4 DEF e

LEMMA StretchEndSays ==
  ASSUME NEW text \in Seq(Nat), NEW S, NEW i \in 0..Len(text)
  PROVE  LET j == StretchEnd(text, S, i)
         IN  /\ j \in i..Len(text)
             /\ \A k \in i..(j - 1) : HasAt(text, S, k)
             /\ ~HasAt(text, S, j)
<1> DEFINE P(m) == (\A k \in i..(m - 1) : HasAt(text, S, k)) /\ ~HasAt(text, S, m)
           ends == {k \in Nat : i + k <= Len(text) =>
                      \/ \A m \in i..(i + k) : HasAt(text, S, m)
                      \/ \E m \in i..Len(text) : P(m)}
<1>1. Len(text) \in Nat
  BY LenProperties
<1>2. 0 \in ends
  <2>1. CASE HasAt(text, S, i)
    BY <1>1, <2>1
  <2>2. CASE ~HasAt(text, S, i)
    <3>1. i \in i..Len(text) /\ P(i)
      BY <1>1, <2>2
    <3> QED
      BY <3>1
  <2> QED
    BY <2>1, <2>2
<1>3. ASSUME NEW k \in Nat, k \in ends PROVE k + 1 \in ends
  <2> SUFFICES ASSUME i + (k + 1) <= Len(text),
                      \A m \in i..(i + k) : HasAt(text, S, m)
               PROVE  \/ \A m \in i..(i + (k + 1)) : HasAt(text, S, m)
                      \/ \E m \in i..Len(text) : P(m)
    BY <1>1, <1>3
  <2>1. CASE HasAt(text, S, i + (k + 1))
    <3>1. \A m \in i..(i + (k + 1)) : m \in i..(i + k) \/ m = i + (k + 1)
      BY <1>1
    <3> QED
      BY <2>1, <3>1
  <2>2. CASE ~HasAt(text, S, i + (k + 1))
    <3>1. i + (k + 1) \in i..Len(text) /\ (i + (k + 1)) - 1 = i + k
      BY <1>1
    <3>2. P(i + (k + 1))
      BY <2>2, <3>1
    <3> QED
      BY <3>1, <3>2
  <2> QED
    BY <2>1, <2>2
<1>4. Nat \subseteq ends
  <2> HIDE DEF ends
  <2> QED
    BY <1>2, <1>3, NatSetInduction
<1>5. \E m \in i..Len(text) : P(m)
  <2>1. Len(text) - i \in Nat /\ i + (Len(text) - i) = Len(text)
    BY <1>1
  <2>2. ~HasAt(text, S, Len(text)) /\ Len(text) \in i..Len(text)
    BY <1>1 DEF HasAt
  <2>3. Len(text) - i \in ends
    BY <1>4, <2>1
  <2> QED
    BY <2>1, <2>2, <2>3
<1>6. PICK j \in i..Len(text) : P(j)
  BY <1>5
<1>7. StretchEnd(text, S, i) = j
  BY <1>6, StretchEndIs
<1> QED
  BY <1>6, <1>7

(* What does not change over a stretch is the same at both its ends.        *)
LEMMA SameAlong ==
  ASSUME NEW g, NEW a \in Int, NEW b \in Int, a <= b,
         \A k \in a..(b - 1) : g[k] = g[k + 1]
  PROVE  g[a] = g[b]
<1> DEFINE S == {k \in Nat : a + k <= b => g[a] = g[a + k]}
<1>1. 0 \in S
  OBVIOUS
<1>2. ASSUME NEW k \in Nat, k \in S PROVE k + 1 \in S
  <2> SUFFICES ASSUME a + (k + 1) <= b PROVE g[a] = g[a + (k + 1)]
    OBVIOUS
  <2>1. a + k \in a..(b - 1) /\ a + k <= b /\ (a + k) + 1 = a + (k + 1)
    OBVIOUS
  <2> QED
    BY <1>2, <2>1
<1>3. Nat \subseteq S
  <2> HIDE DEF S
  <2> QED
    BY <1>1, <1>2, NatSetInduction
<1>4. b - a \in Nat /\ a + (b - a) = b
  OBVIOUS
<1> QED
  BY <1>3, <1>4

-----------------------------------------------------------------------------
(* Recursion towards the end of a text: the rule of each place i is to stop *)
(* with a value, or to go on at a later place, once or twice.               *)
Rules(U) == [0..U -> [stop : BOOLEAN, to : 0..U, twice : BOOLEAN]]

Onward(U, rule) ==
  \A i \in 0..U : i <= rule[i].to /\ (~rule[i].stop => i < rule[i].to)

Climb(rule, f, i) ==
  IF rule[i].stop THEN rule[i].to
  ELSE IF rule[i].twice THEN f[f[rule[i].to]]
  ELSE f[rule[i].to]

LEMMA ClimbOnce ==
  ASSUME NEW U \in Nat, NEW rule \in Rules(U), Onward(U, rule),
         NEW from \in 0..U, NEW f, \A i \in (from + 1)..U : f[i] \in i..U
  PROVE  Climb(rule, f, from) \in from..U
<1> DEFINE to == rule[from].to
<1>1. rule[from] \in [stop : BOOLEAN, to : 0..U, twice : BOOLEAN]
  BY DEF Rules
<1>2. to \in from..U /\ (~rule[from].stop => to \in (from + 1)..U)
  BY <1>1 DEF Onward
<1> HIDE DEF to
<1>3. CASE rule[from].stop
  BY <1>2, <1>3 DEF Climb, to
<1>4. CASE ~rule[from].stop
  <2>1. f[to] \in to..U
    BY <1>2, <1>4
  <2>2. f[to] \in (from + 1)..U
    BY <1>2, <1>4, <2>1
  <2>3. f[f[to]] \in f[to]..U
    BY <2>2
  <2> QED
    BY <1>2, <1>4, <2>1, <2>2, <2>3 DEF Climb, to
<1> QED
  BY <1>3, <1>4

(* What satisfies the rules never goes back.                                *)
LEMMA ClimbUp ==
  ASSUME NEW U \in Nat, NEW rule \in Rules(U), Onward(U, rule), NEW f,
         \A i \in 0..U : f[i] = Climb(rule, f, i)
  PROVE  \A i \in 0..U : f[i] \in i..U
<1> DEFINE S == {k \in Nat : \A i \in 0..U : U - k < i => f[i] \in i..U}
<1>1. 0 \in S
  OBVIOUS
<1>2. ASSUME NEW k \in Nat, k \in S PROVE k + 1 \in S
  <2> SUFFICES ASSUME NEW i \in 0..U, U - (k + 1) < i PROVE f[i] \in i..U
    OBVIOUS
  <2>1. \A j \in (i + 1)..U : j \in 0..U /\ U - k < j
    OBVIOUS
  <2>2. \A j \in (i + 1)..U : f[j] \in j..U
    BY <1>2, <2>1
  <2> QED
    BY <2>2, ClimbOnce
<1>3. Nat \subseteq S
  <2> HIDE DEF S
  <2> QED
    BY <1>1, <1>2, NatSetInduction
<1>4. U + 1 \in S
  BY <1>3
<1> QED
  BY <1>4

(* There is a solution.                                                     *)
LEMMA ClimbExists ==
  ASSUME NEW U \in Nat, NEW rule \in Rules(U), Onward(U, rule)
  PROVE  \E f : f = [i \in 0..U |-> Climb(rule, f, i)]
<1> DEFINE Part(f, from) ==
             /\ f = [i \in from..U |-> f[i]]
             /\ \A i \in from..U : f[i] = Climb(rule, f, i) /\ f[i] \in i..U
           S == {k \in Nat : k <= U => \E f : Part(f, U - k)}
<1>1. \A i \in 0..U : rule[i] \in [stop : BOOLEAN, to : 0..U, twice : BOOLEAN]
  BY DEF Rules
<1>2. 0 \in S
  <2> DEFINE f == [i \in U..U |-> U]
  <2>1. rule[U].to = U /\ rule[U].stop
    BY <1>1 DEF Onward
  <2>2. Climb(rule, f, U) = U
    BY <2>1, Zenon DEF Climb
  <2>3. \A i \in U..U : i = U /\ i \in i..U
    OBVIOUS
  <2>4. f = [i \in U..U |-> f[i]] /\ \A i \in U..U : f[i] = U
    OBVIOUS
  <2> HIDE DEF f
  <2>5. Part(f, U)
    BY <2>2, <2>3, <2>4
  <2>6. U - 0 = U
    OBVIOUS
  <2> HIDE DEF Part
  <2> QED
    BY <2>5, <2>6
<1>3. ASSUME NEW k \in Nat, k \in S PROVE k + 1 \in S
  <2> SUFFICES ASSUME k + 1 <= U PROVE \E h : Part(h, U - (k + 1))
    OBVIOUS
  <2> DEFINE from == U - (k + 1)
  <2>1. from \in 0..U /\ from + 1 = U - k /\ k <= U
    OBVIOUS
  <2>2. PICK f : Part(f, from + 1)
    BY <1>3, <2>1
  <2> DEFINE v == Climb(rule, f, from)
             h == [i \in from..U |-> IF i = from THEN v ELSE f[i]]
  <2>3. v \in from..U
    <3> HIDE DEF from
    <3> QED
      BY <2>1, <2>2, ClimbOnce
  <2> HIDE DEF from, v
  <2>4. /\ h = [i \in from..U |-> h[i]]
        /\ h[from] = v
        /\ \A i \in (from + 1)..U : h[i] = f[i]
    BY <2>1
  <2> HIDE DEF h
  <2>5. \A i \in (from + 1)..U : f[i] \in i..U
    BY <2>2
  <2>6. ASSUME NEW i \in from..U PROVE Climb(rule, h, i) = Climb(rule, f, i)
    <3>1. i \in 0..U /\ rule[i].to \in i..U
          /\ (~rule[i].stop => rule[i].to \in (from + 1)..U)
      BY <1>1, <2>1 DEF Onward
    <3>2. ~rule[i].stop => /\ f[rule[i].to] \in (from + 1)..U
                           /\ h[rule[i].to] = f[rule[i].to]
      <4> DEFINE to == rule[i].to
      <4> HIDE DEF to
      <4>1. to \in (from + 1)..U => /\ f[to] \in to..U
                                    /\ h[to] = f[to]
        BY <2>4, <2>5
      <4>2. to \in (from + 1)..U /\ f[to] \in to..U => f[to] \in (from + 1)..U
        BY <2>1
      <4> QED
        BY <3>1, <4>1, <4>2 DEF to
    <3>3. ~rule[i].stop => h[f[rule[i].to]] = f[f[rule[i].to]]
      BY <2>4, <3>2
    <3> QED
      BY <3>2, <3>3, Zenon DEF Climb
  <2>7. ASSUME NEW i \in from..U PROVE h[i] = Climb(rule, h, i) /\ h[i] \in i..U
    <3>1. CASE i = from
      BY <2>3, <2>4, <2>6, <3>1 DEF v
    <3>2. CASE i # from
      <4>1. i \in (from + 1)..U
        BY <2>1, <3>2
      <4> QED
        BY <2>2, <2>4, <2>6, <4>1
    <3> QED
      BY <3>1, <3>2
  <2>8. Part(h, from)
    BY <2>4, <2>7
  <2> HIDE DEF Part
  <2> QED
    BY <2>8 DEF from
<1>4. Nat \subseteq S
  <2> HIDE DEF S
  <2> QED
    BY <1>2, <1>3, NatSetInduction
<1>5. \E f : Part(f, 0)
  <2> HIDE DEF Part
  <2>1. U \in S /\ U - U = 0
    <3> HIDE DEF S
    <3> QED
      BY <1>4
  <2> QED
    BY <2>1
<1>6. PICK f : Part(f, 0)
  BY <1>5
<1>7. f = [i \in 0..U |-> f[i]] /\ \A i \in 0..U : f[i] = Climb(rule, f, i)
  BY <1>6
<1> QED
  BY <1>7, Zenon

(* A function defined by the rules satisfies them.                          *)
LEMMA ClimbSays ==
  ASSUME NEW U \in Nat, NEW rule \in Rules(U), Onward(U, rule), NEW f,
         f = CHOOSE g : g = [i \in 0..U |-> Climb(rule, g, i)]
  PROVE  \A i \in 0..U : f[i] = Climb(rule, f, i) /\ f[i] \in i..U
<1>1. f = [i \in 0..U |-> Climb(rule, f, i)]
  BY ClimbExists, Zenon
<1>2. \A i \in 0..U : f[i] = Climb(rule, f, i)
  BY <1>1, Zenon
<1> QED
  BY <1>2, ClimbUp

-----------------------------------------------------------------------------
LEMMA OccursInside ==
  ASSUME NEW text \in Seq(Nat), NEW marker \in Seq(Nat), NEW i \in Nat,
         Occurs(text, marker, i)
  PROVE  /\ i < Len(text) /\ i + Len(marker) \in (i + 1)..Len(text)
         /\ text[i + 1] = marker[1]
<1>1. Len(text) \in Nat /\ Len(marker) \in Nat
  BY LenProperties
<1>2. Len(marker) # 0
  BY EmptySeq DEF Occurs
<1>3. i + Len(marker) <= Len(text) /\ SubSeq(text, i + 1, i + Len(marker)) = marker
  BY DEF Occurs
<1>4. text[i + 1] = marker[1]
  <2> DEFINE m == i + 1
             to == i + Len(marker)
  <2>1. m \in Int /\ to \in Int /\ 1 \in 1..(to - m + 1) /\ m + 1 - 1 = m
    BY <1>1, <1>2
  <2>2. \A k \in m..to : text[k] \in Nat
    BY <1>1, <1>3, ElementOfSeq
  <2>3. SubSeq(text, m, to) = marker
    BY <1>3
  <2> HIDE DEF m, to
  <2>4. \A k \in 1..(to - m + 1) : SubSeq(text, m, to)[k] = text[m + k - 1]
    BY <2>1, <2>2, SubSeqProperties
  <2>5. SubSeq(text, m, to)[1] = text[m]
    BY <2>1, <2>4
  <2> QED
    BY <2>3, <2>5 DEF m
<1> QED
  BY <1>1, <1>2, <1>3, <1>4

(* CommentEnd and NextToken never go back, and are what they are defined as.*)
LEMMA CommentEndSays ==
  ASSUME NEW text \in Seq(Nat), NEW l, IsLanguage(l)
  PROVE  LET ends == CommentEnd(text, l)
         IN  \A i \in 0..Unclosed(text) :
               /\ ends[i] \in i..Unclosed(text)
               /\ ends[i] = IF i >= Len(text) THEN Unclosed(text)
                            ELSE IF Occurs(text, l.comment_end, i)
                                 THEN i + Len(l.comment_end)
                            ELSE IF l.nested_comments /\ Occurs(text, l.comment_start, i)
                                 THEN ends[ends[i + Len(l.comment_start)]]
                            ELSE ends[i + 1]
<1> DEFINE U == Unclosed(text)
           over(i) == i >= Len(text)
           close(i) == Occurs(text, l.comment_end, i)
           open(i) == l.nested_comments /\ Occurs(text, l.comment_start, i)
           to(i) == IF over(i) THEN U
                    ELSE IF close(i) THEN i + Len(l.comment_end)
                    ELSE IF open(i) THEN i + Len(l.comment_start)
                    ELSE i + 1
           rule == [i \in 0..U |-> [stop |-> over(i) \/ close(i), to |-> to(i),
                                    twice |-> open(i)]]
           Body(f, i) == IF over(i) THEN U
                         ELSE IF close(i) THEN i + Len(l.comment_end)
                         ELSE IF open(i) THEN f[f[i + Len(l.comment_start)]]
                         ELSE f[i + 1]
           ends == CommentEnd(text, l)
<1>1. /\ Len(text) \in Nat /\ U \in Nat /\ U = Len(text) + 1
      /\ l.comment_end \in Seq(Nat) /\ l.comment_start \in Seq(Nat)
      /\ l.nested_comments \in BOOLEAN
  BY LenProperties DEF IsLanguage, Unclosed
<1>2. ends = CHOOSE f : f = [i \in 0..U |-> Body(f, i)]
  BY Zenon DEF CommentEnd
<1> HIDE DEF U, ends
<1>3. ASSUME NEW i \in 0..U PROVE to(i) \in i..U /\ (~(over(i) \/ close(i)) => i < to(i))
  <2>1. close(i) => i + Len(l.comment_end) \in (i + 1)..Len(text)
    BY <1>1, OccursInside
  <2>2. open(i) => i + Len(l.comment_start) \in (i + 1)..Len(text)
    BY <1>1, OccursInside
  <2> QED
    BY <1>1, <2>1, <2>2
<1> HIDE DEF over, close
<1>4. open(0) \in BOOLEAN /\ \A i : open(i) \in BOOLEAN
  BY <1>1
<1> HIDE DEF open
<1>5. \A i \in 0..U : /\ rule[i].stop = (over(i) \/ close(i))
                      /\ rule[i].to = to(i)
                      /\ rule[i].twice = open(i)
  BY Zenon
<1>6. rule \in Rules(U)
  <2>1. \A i \in 0..U : to(i) \in 0..U
    BY <1>1, <1>3
  <2> HIDE DEF to
  <2> QED
    BY <1>4, <2>1 DEF Rules
<1>7. Onward(U, rule)
  <2>1. \A i \in 0..U : i <= to(i) /\ (~(over(i) \/ close(i)) => i < to(i))
    BY <1>1, <1>3
  <2> HIDE DEF to, rule
  <2> QED
    BY <1>5, <2>1 DEF Onward
<1>8. ASSUME NEW f, NEW i \in 0..U PROVE Climb(rule, f, i) = Body(f, i)
  <2> HIDE DEF rule
  <2> QED
    BY <1>5, Zenon DEF Climb
<1> HIDE DEF rule
<1>9. \A f : [i \in 0..U |-> Body(f, i)] = [i \in 0..U |-> Climb(rule, f, i)]
  <2> HIDE DEF Body
  <2> QED
    BY <1>8
<1>10. ends = CHOOSE f : f = [i \in 0..U |-> Climb(rule, f, i)]
  <2> HIDE DEF Body
  <2> QED
    BY <1>2, <1>9, Zenon
<1>11. \A i \in 0..U : ends[i] = Climb(rule, ends, i) /\ ends[i] \in i..U
  BY <1>1, <1>6, <1>7, <1>10, ClimbSays
<1>12. \A i \in 0..U : ends[i] \in i..U /\ ends[i] = Body(ends, i)
  <2> HIDE DEF Body
  <2> QED
    BY <1>8, <1>11
<1> QED
  BY <1>12, Zenon DEF over, close, open, U, ends

LEMMA GapEndInside ==
  ASSUME NEW text \in Seq(Nat), NEW l, IsLanguage(l), NEW i \in 0..Unclosed(text)
  PROVE  GapEnd(text, l, i) \in i..Unclosed(text)
<1>1. /\ Len(text) \in Nat /\ Unclosed(text) = Len(text) + 1
      /\ l.comment_line \in Seq(Nat) /\ l.comment_start \in Seq(Nat)
  BY LenProperties DEF IsLanguage, Unclosed
<1>2. HasAt(text, WhiteChars, i) => i + 1 \in i..Unclosed(text)
  BY <1>1 DEF HasAt
<1>3. Occurs(text, l.comment_line, i) =>
        StretchEnd(text, AnyChar \ {NL}, i + Len(l.comment_line)) \in i..Unclosed(text)
  <2> DEFINE j == i + Len(l.comment_line)
  <2> SUFFICES ASSUME Occurs(text, l.comment_line, i)
               PROVE  StretchEnd(text, AnyChar \ {NL}, j) \in i..Unclosed(text)
    OBVIOUS
  <2>1. j \in (i + 1)..Len(text) /\ j \in 0..Len(text)
    BY <1>1, OccursInside
  <2>2. StretchEnd(text, AnyChar \ {NL}, j) \in j..Len(text)
    BY <2>1, StretchEndSays
  <2> HIDE DEF j
  <2> QED
    BY <1>1, <2>1, <2>2
<1>4. Occurs(text, l.comment_start, i) =>
        CommentEnd(text, l)[i + Len(l.comment_start)] \in i..Unclosed(text)
  <2> DEFINE j == i + Len(l.comment_start)
  <2> SUFFICES ASSUME Occurs(text, l.comment_start, i)
               PROVE  CommentEnd(text, l)[j] \in i..Unclosed(text)
    OBVIOUS
  <2>1. j \in (i + 1)..Len(text) /\ j \in 0..Unclosed(text)
    BY <1>1, OccursInside
  <2>2. CommentEnd(text, l)[j] \in j..Unclosed(text)
    BY <2>1, CommentEndSays
  <2> HIDE DEF j
  <2> QED
    BY <1>1, <2>1, <2>2
<1> QED
  BY <1>1, <1>2, <1>3, <1>4 DEF GapEnd

LEMMA NextTokenSays ==
  ASSUME NEW text \in Seq(Nat), NEW l, IsLanguage(l)
  PROVE  LET next == NextToken(text, l)
         IN  \A i \in 0..Unclosed(text) :
               /\ next[i] \in i..Unclosed(text)
               /\ next[i] = IF GapEnd(text, l, i) = i THEN i ELSE next[GapEnd(text, l, i)]
<1> DEFINE U == Unclosed(text)
           to(i) == GapEnd(text, l, i)
           rule == [i \in 0..U |-> [stop |-> to(i) = i, to |-> to(i), twice |-> FALSE]]
           Body(f, i) == IF to(i) = i THEN i ELSE f[to(i)]
           next == NextToken(text, l)
<1>1. U \in Nat
  BY LenProperties DEF Unclosed
<1>2. next = CHOOSE f : f = [i \in 0..U |-> Body(f, i)]
  BY Zenon DEF NextToken
<1> HIDE DEF next
<1>3. \A i \in 0..U : to(i) \in i..U
  BY GapEndInside
<1> HIDE DEF U, to
<1>4. \A i \in 0..U : /\ rule[i].stop = (to(i) = i)
                      /\ rule[i].to = to(i)
                      /\ rule[i].twice = FALSE
  BY Zenon
<1>5. rule \in Rules(U)
  <2>1. \A i \in 0..U : to(i) \in 0..U
    BY <1>1, <1>3
  <2> QED
    BY <2>1 DEF Rules
<1>6. Onward(U, rule)
  <2>1. \A i \in 0..U : i <= to(i) /\ (~(to(i) = i) => i < to(i))
    BY <1>1, <1>3
  <2> HIDE DEF rule
  <2> QED
    BY <1>4, <2>1 DEF Onward
<1>7. ASSUME NEW f, NEW i \in 0..U PROVE Climb(rule, f, i) = Body(f, i)
  <2> HIDE DEF rule
  <2> QED
    BY <1>4, Zenon DEF Climb
<1> HIDE DEF rule
<1>8. \A f : [i \in 0..U |-> Body(f, i)] = [i \in 0..U |-> Climb(rule, f, i)]
  <2> HIDE DEF Body
  <2> QED
    BY <1>7
<1>9. next = CHOOSE f : f = [i \in 0..U |-> Climb(rule, f, i)]
  <2> HIDE DEF Body
  <2> QED
    BY <1>2, <1>8, Zenon
<1>10. \A i \in 0..U : next[i] = Climb(rule, next, i) /\ next[i] \in i..U
  BY <1>1, <1>5, <1>6, <1>9, ClimbSays
<1>11. \A i \in 0..U : next[i] \in i..U /\ next[i] = Body(next, i)
  <2> HIDE DEF Body
  <2> QED
    BY <1>7, <1>10
<1> QED
  BY <1>11, Zenon DEF to, U, next

(* What tokens compares is what occurs in the text.                         *)
LEMMA MatchesWhatOccurs ==
  ASSUME input \in Seq(Nat), NEW str \in Seq(Nat), str # << >>, NEW i \in 0..Len(input)
  PROVE  Matches(str, i) <=> Occurs(input, str, i)
<1>1. Len(input) \in Nat /\ Len(str) \in Nat /\ i \in Nat
  BY LenProperties
<1>2. Matches(str, i) => i + Len(str) <= Len(input)
  BY <1>1, MatchTakes
<1>3. i + Len(str) <= Len(input) => SmallerOf(i + Len(str), Len(input)) = i + Len(str)
  BY DEF SmallerOf
<1> QED
  BY <1>2, <1>3 DEF Matches, substr, Occurs

(* A stretch that goes on ends where its rest does.                         *)
LEMMA StretchGoesOn ==
  ASSUME NEW text \in Seq(Nat), NEW S, NEW i \in Nat, HasAt(text, S, i)
  PROVE  /\ i + 1 \in 0..Len(text)
         /\ StretchEnd(text, S, i) = StretchEnd(text, S, i + 1)
<1> DEFINE j == StretchEnd(text, S, i + 1)
<1>1. Len(text) \in Nat /\ i + 1 \in 0..Len(text) /\ i \in 0..Len(text)
  BY LenProperties DEF HasAt
<1>2. /\ j \in (i + 1)..Len(text)
      /\ \A k \in (i + 1)..(j - 1) : HasAt(text, S, k)
      /\ ~HasAt(text, S, j)
  BY <1>1, StretchEndSays
<1> HIDE DEF j
<1>3. j \in i..Len(text) /\ \A k \in i..(j - 1) : HasAt(text, S, k)
  <2>1. \A k \in i..(j - 1) : k = i \/ k \in (i + 1)..(j - 1)
    BY <1>1, <1>2
  <2> QED
    BY <1>1, <1>2, <2>1
<1>4. StretchEnd(text, S, i) = j
  BY <1>1, <1>2, <1>3, StretchEndIs
<1> QED
  BY <1>1, <1>4 DEF j

(* The same next token follows all blanks of a stretch.                     *)
LEMMA BlanksPass ==
  ASSUME NEW text \in Seq(Nat), NEW l, IsLanguage(l), NEW i \in Nat,
         HasAt(text, WhiteChars, i)
  PROVE  LET next == NextToken(text, l)
         IN  /\ next[i] = next[i + 1]
             /\ next[i] = next[StretchEnd(text, WhiteChars, i + 1)]
<1> DEFINE next == NextToken(text, l)
           j == StretchEnd(text, WhiteChars, i + 1)
<1>1. Len(text) \in Nat /\ Unclosed(text) = Len(text) + 1 /\ i < Len(text)
  BY LenProperties DEF Unclosed, HasAt
<1>2. ASSUME NEW k \in Nat, HasAt(text, WhiteChars, k) PROVE next[k] = next[k + 1]
  <2>1. k \in 0..Unclosed(text)
    BY <1>1, <1>2 DEF HasAt
  <2>2. GapEnd(text, l, k) = k + 1
    BY <1>2 DEF GapEnd
  <2> QED
    BY <2>1, <2>2, NextTokenSays
<1>3. i + 1 \in 0..Len(text)
  BY <1>1
<1>4. j \in (i + 1)..Len(text) /\ \A k \in (i + 1)..(j - 1) : HasAt(text, WhiteChars, k)
  BY <1>3, StretchEndSays
<1> HIDE DEF j, next
<1>5. \A k \in (i + 1)..(j - 1) : next[k] = next[k + 1]
  BY <1>1, <1>2, <1>4
<1>6. next[i + 1] = next[j]
  <2> DEFINE a == i + 1
  <2>1. a \in Int /\ j \in Int /\ a <= j
    BY <1>4
  <2>2. \A k \in a..(j - 1) : next[k] = next[k + 1]
    BY <1>5
  <2> HIDE DEF a
  <2>3. next[a] = next[j]
    BY <2>1, <2>2, SameAlong
  <2> QED
    BY <2>3 DEF a
<1> QED
  BY <1>2, <1>6 DEF j, next

-----------------------------------------------------------------------------
(* The parsers that white space is made of, by their shape.  A string that  *)
(* is matched whole, and one with a loop over characters behind it.         *)
IsText(n) ==
  \/ n.op = "tokens"
  \/ n.op = "label" /\ n.p.op = "tokens"
  \/ n.op = "try_parse" /\ n.p.op = "label" /\ n.p.p.op = "tokens"

TextIn(n) ==
  CASE n.op = "tokens"    -> n.str
    [] n.op = "label"     -> n.p.str
    [] n.op = "try_parse" -> n.p.p.str

CharsIn(n) == IF n.op = "token_prim" THEN n.accepts ELSE n.p.accepts

TextAndLoop(n) == n.op = "then" /\ IsText(n.p) /\ Loop(n.q)
DropsRest(n)   == n.op = "map" /\ TextAndLoop(n.p)

InComment(l) == comment_rest(l.comment_start, l.comment_end, l.nested_comments)
Comment(l)   == block_comment(l.comment_start, l.comment_end, l.nested_comments)
Gap(l)       == white_space(l).p

(* What such a parser does at i: it takes all up to j where c holds, and    *)
(* else nothing.                                                            *)
TookIf(c, j, r) ==
  IF c THEN r.ok /\ r.consumed /\ r.st.index = j ELSE ~r.ok /\ ~r.consumed

(* It takes all up to j, unless that is the end of a comment without one.   *)
PassesTo(text, j, r) ==
  IF j = Unclosed(text)
  THEN /\ ~r.ok
       /\ r.err = with_message(PosAt(text, Len(text)), UnExpect, TextEndInComment)
  ELSE r.ok /\ r.st.index = j

IsString(s) == s \in Seq(Nat) /\ s # << >>

CharShown(text, n, i, r) == One(n) => TookIf(HasAt(text, CharsIn(n), i), i + 1, r)

LoopShown(text, n, i, r) ==
  Loop(n) => r.ok /\ r.st.index = StretchEnd(text, CharsIn(n.p), i)

StretchShown(text, n, i, r) ==
  /\ OneAndLoop(n) =>
       TookIf(HasAt(text, CharsIn(n.p), i), StretchEnd(text, CharsIn(n.q.p), i + 1), r)
  /\ Scans(n) =>
       TookIf(HasAt(text, CharsIn(n.p.p), i), StretchEnd(text, CharsIn(n.p.q.p), i + 1), r)

TextShown(text, n, i, r) ==
  IsText(n) /\ IsString(TextIn(n)) =>
    /\ TookIf(Occurs(text, TextIn(n), i), i + Len(TextIn(n)), r)
    /\ r.ok => r.err.messages = << >>

LineShown(text, n, i, r) ==
  /\ TextAndLoop(n) /\ IsString(TextIn(n.p)) =>
       TookIf(Occurs(text, TextIn(n.p), i),
              StretchEnd(text, CharsIn(n.q.p), i + Len(TextIn(n.p))), r)
  /\ DropsRest(n) /\ IsString(TextIn(n.p.p)) =>
       TookIf(Occurs(text, TextIn(n.p.p), i),
              StretchEnd(text, CharsIn(n.p.q.p), i + Len(TextIn(n.p.p))), r)

CommentShown(text, l, n, i, r) ==
  /\ l.comment_start # << >> /\ n = InComment(l) => PassesTo(text, CommentEnd(text, l)[i], r)
  /\ l.comment_start # << >> /\ n = Comment(l) =>
       IF Occurs(text, l.comment_start, i)
       THEN r.consumed /\ PassesTo(text, CommentEnd(text, l)[i + Len(l.comment_start)], r)
       ELSE ~r.ok /\ ~r.consumed

(* Where the choice took something, the next token is not before it.        *)
GapShown(text, l, n, i, r) ==
  n = Gap(l) =>
    LET next == NextToken(text, l)
    IN  \/ ~r.ok /\ ~r.consumed /\ next[i] = i
        \/ ~r.ok /\ r.consumed /\ PassesTo(text, next[i], r)
        \/ r.ok /\ r.consumed /\ next[r.st.index] = next[i]

SpaceShown(text, l, n, i, r) ==
  n = white_space(l) => /\ PassesTo(text, NextToken(text, l)[i], r)
                        /\ ~r.ok => r.consumed

Shown(text, l, n, i, r) ==
  /\ CharShown(text, n, i, r)
  /\ LoopShown(text, n, i, r)
  /\ StretchShown(text, n, i, r)
  /\ TextShown(text, n, i, r)
  /\ LineShown(text, n, i, r)
  /\ CommentShown(text, l, n, i, r)
  /\ GapShown(text, l, n, i, r)
  /\ SpaceShown(text, l, n, i, r)

-----------------------------------------------------------------------------
(* What the frame of such a parser, suspended, has found out so far.        *)

(* The ends of the comments that its text is inside of, the innermost last. *)
Nested(text, l, i, j, depth) ==
  \E ends \in [0..depth -> 0..Unclosed(text)] :
     /\ ends[depth] = j
     /\ ends[0] = CommentEnd(text, l)[i]
     /\ \A k \in 1..depth : ends[k - 1] = CommentEnd(text, l)[ends[k]]

CommentFound(text, l, f) ==
  LET here == f.sofar.st.index
  IN  /\ f.i \in Nat \ {0}
      /\ f.phase \in {"first", "start", "skip", "marker"}
      /\ Nested(text, l, f.entry.index, here, f.i)
      /\ f.phase # "first" => ~Occurs(text, l.comment_end, here)
      /\ f.phase = "start" => l.nested_comments
      /\ f.phase \in {"skip", "marker"} =>
           /\ here < Len(text)
           /\ l.nested_comments => ~Occurs(text, l.comment_start, here)

(* The alternative of the choice finds nothing at i.                        *)
Absent(text, l, p, i) ==
  /\ p = skip_many1(space) => ~HasAt(text, WhiteChars, i)
  /\ p = line_comment(l.comment_line) => ~Occurs(text, l.comment_line, i)
  /\ l.comment_start # << >> /\ p = Comment(l) => ~Occurs(text, l.comment_start, i)

Found(text, l, f) ==
  LET i    == f.entry.index
      here == f.sofar.st.index
      next == NextToken(text, l)
  IN  /\ f.node.op = "then" /\ f.phase = "second" /\ f.node.p.op # "lazy" =>
           Shown(text, l, f.node.p, i, f.sofar)
      /\ Loop(f.node) => /\ here \in i..Len(text)
                         /\ \A k \in i..(here - 1) : HasAt(text, CharsIn(f.node.p), k)
      /\ f.node.op = "choice" /\ f.node = Gap(l) =>
           /\ f.i \in 1..Len(f.node.ps)
           /\ \A k \in 1..(f.i - 1) : Absent(text, l, f.node.ps[k], i)
      /\ l.comment_start # << >> /\ f.node = InComment(l) => CommentFound(text, l, f)
      /\ f.node = white_space(l) => next[here] = next[i]

AllFound ==
  /\ \A k \in 1..Len(stack) : Found(input, lang, stack[k])
  /\ mode = "return" => Shown(input, lang, node, st.index, res)

-----------------------------------------------------------------------------
(* What those parsers are made of.                                          *)
LEMMA TextShapes ==
  ASSUME NEW str
  PROVE  /\ IsText(tokens(str)) /\ TextIn(tokens(str)) = str
         /\ IsText(string_(str)) /\ TextIn(string_(str)) = str
         /\ IsText(try_parse(string_(str))) /\ TextIn(try_parse(string_(str))) = str
<1>1. /\ tokens(str).op = "tokens" /\ tokens(str).str = str
      /\ string_(str).op = "label" /\ string_(str).p = tokens(str)
      /\ try_parse(string_(str)).op = "try_parse"
      /\ try_parse(string_(str)).p = string_(str)
  BY DEF tokens, string_, label, try_parse
<1> QED
  BY <1>1 DEF IsText, TextIn

LEMMA CharShapes ==
  /\ \A S : One(one_of(S)) /\ CharsIn(one_of(S)) = AnyChar \cap S
  /\ \A S : One(none_of(S)) /\ CharsIn(none_of(S)) = AnyChar \ S
  /\ One(space) /\ CharsIn(space) = WhiteChars /\ space.op = "label"
  /\ \A S : One(satisfy(S)) /\ CharsIn(satisfy(S)) = S
<1>1. \A S, m : One(label(satisfy(S), m)) /\ CharsIn(label(satisfy(S), m)) = S
  BY DEF One, CharsIn, label, satisfy, token_prim
<1>2. \A S : One(satisfy(S)) /\ CharsIn(satisfy(S)) = S
  BY DEF One, CharsIn, satisfy, token_prim
<1>3. space.op = "label"
  BY DEF space, label
<1> QED
  BY <1>1, <1>2, <1>3 DEF one_of, none_of, space

LEMMA LoopShapes ==
  ASSUME NEW p, One(p)
  PROVE  /\ Loop(skip_many(p)) /\ skip_many(p).p = p
         /\ LET n == skip_many1(p)
            IN  Scans(n) /\ n.op = "map" /\ n.p.p = p /\ n.p.q.p = p
<1>1. Loop(skip_many(p)) /\ skip_many(p).p = p
  BY DEF Loop, skip_many, many_accum
<1>2. /\ skip_many1(p).op = "map" /\ skip_many1(p).p = then(p, skip_many(p))
      /\ then(p, skip_many(p)).op = "then" /\ then(p, skip_many(p)).p = p
      /\ then(p, skip_many(p)).q = skip_many(p)
  BY DEF skip_many1, map, then
<1> QED
  BY <1>1, <1>2 DEF Scans, OneAndLoop

LEMMA LineShape ==
  ASSUME NEW marker
  PROVE  LET n == line_comment(marker)
         IN  /\ DropsRest(n) /\ TextIn(n.p.p) = marker
             /\ CharsIn(n.p.q.p) = AnyChar \ {NL}
             /\ n.op = "map" /\ n.p.p.op = "try_parse"
<1> DEFINE t == try_parse(string_(marker))
           s == satisfy(AnyChar \ {NL})
<1>1. IsText(t) /\ TextIn(t) = marker /\ t.op = "try_parse"
  BY TextShapes DEF try_parse
<1>2. One(s) /\ CharsIn(s) = AnyChar \ {NL}
  BY CharShapes
<1>3. line_comment(marker) = map(then(t, skip_many(s)), [fn |-> "unit"])
  BY DEF line_comment
<1> HIDE DEF t, s
<1>4. Loop(skip_many(s)) /\ skip_many(s).p = s
  BY <1>2, LoopShapes
<1>5. /\ line_comment(marker).op = "map"
      /\ line_comment(marker).p = then(t, skip_many(s))
      /\ then(t, skip_many(s)).op = "then" /\ then(t, skip_many(s)).p = t
      /\ then(t, skip_many(s)).q = skip_many(s)
  BY <1>3 DEF map, then
<1> QED
  BY <1>1, <1>2, <1>4, <1>5 DEF DropsRest, TextAndLoop

(* The first characters of the markers: where the scan of a comment stops.  *)
Marks(l) == {l.comment_start[1], l.comment_end[1]}

LEMMA CommentShapes ==
  ASSUME NEW l
  PROVE  /\ LET n == Comment(l)
            IN  n.op = "then" /\ IsText(n.p) /\ TextIn(n.p) = l.comment_start
                /\ n.p.op = "try_parse" /\ n.q = InComment(l)
         /\ LET n == InComment(l)
            IN  /\ n.op = "comment_rest" /\ n.nested = l.nested_comments
                /\ IsText(n.start_p) /\ TextIn(n.start_p) = l.comment_start
                /\ IsText(n.end_p) /\ TextIn(n.end_p) = l.comment_end
                /\ n.start_p.op = "try_parse" /\ n.end_p.op = "try_parse"
                /\ Scans(n.scan_non_markers) /\ n.scan_non_markers.op = "map"
                /\ CharsIn(n.scan_non_markers.p.p) = AnyChar \ Marks(l)
                /\ CharsIn(n.scan_non_markers.p.q.p) = AnyChar \ Marks(l)
                /\ One(n.scan_one_marker) /\ n.scan_one_marker.op = "label"
                /\ CharsIn(n.scan_one_marker) = AnyChar \cap Marks(l)
<1>1. /\ Comment(l).op = "then" /\ Comment(l).p = try_parse(string_(l.comment_start))
      /\ Comment(l).q = InComment(l)
  BY DEF Comment, InComment, block_comment, then
<1>2. /\ InComment(l).op = "comment_rest" /\ InComment(l).nested = l.nested_comments
      /\ InComment(l).start_p = try_parse(string_(l.comment_start))
      /\ InComment(l).end_p = try_parse(string_(l.comment_end))
      /\ InComment(l).scan_non_markers = skip_many1(none_of(Marks(l)))
      /\ InComment(l).scan_one_marker = one_of(Marks(l))
  BY DEF InComment, comment_rest, Marks
<1>3. \A str : try_parse(string_(str)).op = "try_parse"
  BY DEF try_parse
<1>4. /\ Scans(skip_many1(none_of(Marks(l)))) /\ skip_many1(none_of(Marks(l))).op = "map"
      /\ CharsIn(skip_many1(none_of(Marks(l))).p.p) = AnyChar \ Marks(l)
      /\ CharsIn(skip_many1(none_of(Marks(l))).p.q.p) = AnyChar \ Marks(l)
  <2> DEFINE p == none_of(Marks(l))
  <2>1. One(p) /\ CharsIn(p) = AnyChar \ Marks(l)
    BY CharShapes
  <2> HIDE DEF p
  <2>2. Scans(skip_many1(p)) /\ skip_many1(p).op = "map"
        /\ skip_many1(p).p.p = p /\ skip_many1(p).p.q.p = p
    BY <2>1, LoopShapes
  <2> QED
    BY <2>1, <2>2 DEF p
<1>5. one_of(Marks(l)).op = "label"
  BY DEF one_of, label
<1> QED
  BY <1>1, <1>2, <1>3, <1>4, <1>5, TextShapes, CharShapes

LEMMA SeqOfOnes ==
  ASSUME NEW a, NEW b, NEW c
  PROVE  /\ << a >> \o << b >> = << a, b >> /\ << a, b >> \o << c >> = << a, b, c >>
         /\ << a >> \o << >> = << a >> /\ << a, b >> \o << >> = << a, b >>
<1>1. /\ << a >> \in Seq({a, b, c}) /\ << b >> \in Seq({a, b, c})
      /\ << c >> \in Seq({a, b, c}) /\ << a, b >> \in Seq({a, b, c})
      /\ << a, b, c >> \in Seq({a, b, c})
  OBVIOUS
<1>2. << a >> \o << b >> = << a, b >>
  <2> DEFINE s == << a >> \o << b >>
  <2>1. s \in Seq({a, b, c}) /\ Len(s) = 2 /\ s[1] = a /\ s[2] = b
    BY <1>1, ConcatProperties
  <2> HIDE DEF s
  <2>2. s = << a, b >>
    BY <1>1, <2>1
  <2> QED
    BY <2>2 DEF s
<1>3. << a, b >> \o << c >> = << a, b, c >>
  <2> DEFINE s == << a, b >> \o << c >>
  <2>1. s \in Seq({a, b, c}) /\ Len(s) = 3 /\ s[1] = a /\ s[2] = b /\ s[3] = c
    BY <1>1, ConcatProperties
  <2> HIDE DEF s
  <2>2. s = << a, b, c >>
    BY <1>1, <2>1
  <2> QED
    BY <2>2 DEF s
<1>4. << a >> \o << >> = << a >> /\ << a, b >> \o << >> = << a, b >>
  OBVIOUS
<1> QED
  BY <1>2, <1>3, <1>4

(* White space is a loop over blanks, or over the choice of what is not a   *)
(* token: blanks, a line comment, a block comment.                          *)
Plain(l) == l.comment_start = << >> /\ l.comment_line = << >>

LEMMA SpaceShapes ==
  ASSUME NEW l
  PROVE  /\ white_space(l) = skip_many(Gap(l))
         /\ white_space(l).op = "many_accum" /\ white_space(l).p = Gap(l)
         /\ Plain(l) => Gap(l) = space
         /\ ~Plain(l) =>
              LET ps == Gap(l).ps
              IN  /\ Gap(l).op = "choice" /\ Len(ps) \in {2, 3}
                  /\ ps[1] = skip_many1(space)
                  /\ l.comment_line # << >> => ps[2] = line_comment(l.comment_line)
                  /\ l.comment_start # << >> => ps[Len(ps)] = Comment(l)
                  /\ Len(ps) = 3 <=> l.comment_line # << >> /\ l.comment_start # << >>
<1> DEFINE a == skip_many1(space)
           b == line_comment(l.comment_line)
           c == Comment(l)
           ps == << a >> \o (IF l.comment_line = << >> THEN << >> ELSE << b >>)
                         \o (IF l.comment_start = << >> THEN << >> ELSE << c >>)
<1>1. white_space(l) = IF Plain(l) THEN skip_many(space) ELSE skip_many(choice(ps))
  BY DEF white_space, Plain, Comment
<1> HIDE DEF a, b, c
<1>2. \A p : skip_many(p).op = "many_accum" /\ skip_many(p).p = p
  BY DEF skip_many, many_accum
<1>3. ASSUME ~Plain(l)
      PROVE  /\ Len(ps) \in {2, 3}
             /\ ps[1] = a
             /\ l.comment_line # << >> => ps[2] = b
             /\ l.comment_start # << >> => ps[Len(ps)] = c
             /\ Len(ps) = 3 <=> l.comment_line # << >> /\ l.comment_start # << >>
  <2>1. CASE l.comment_line # << >> /\ l.comment_start # << >>
    <3>1. ps = << a, b, c >>
      BY <2>1, SeqOfOnes
    <3> QED
      BY <2>1, <3>1
  <2>2. CASE l.comment_line = << >> /\ l.comment_start # << >>
    <3>1. ps = << a, c >>
      BY <2>2, SeqOfOnes
    <3> QED
      BY <2>2, <3>1
  <2>3. CASE l.comment_line # << >> /\ l.comment_start = << >>
    <3>1. ps = << a, b >>
      BY <2>3, SeqOfOnes
    <3> QED
      BY <2>3, <3>1
  <2> QED
    BY <1>3, <2>1, <2>2, <2>3 DEF Plain
<1> HIDE DEF ps
<1>4. ~Plain(l) => choice(ps) = [op |-> "choice", ps |-> ps]
  BY <1>3 DEF choice
<1>5. ~Plain(l) => choice(ps).op = "choice" /\ choice(ps).ps = ps
  BY <1>4
<1> HIDE DEF Plain
<1>6. Plain(l) => white_space(l) = skip_many(space) /\ Gap(l) = space
  BY <1>1, <1>2 DEF Gap
<1>7. ~Plain(l) => white_space(l) = skip_many(choice(ps)) /\ Gap(l) = choice(ps)
  BY <1>1, <1>2 DEF Gap
<1>8. white_space(l) = skip_many(Gap(l))
  BY <1>6, <1>7
<1> QED
  BY <1>2, <1>3, <1>5, <1>6, <1>7, <1>8 DEF a, b, c

-----------------------------------------------------------------------------
(* Comments in comments: what each step of the scan leaves of the ends.     *)

LEMMA NestedStart ==
  ASSUME NEW text \in Seq(Nat), NEW l, IsLanguage(l), NEW i \in 0..Len(text)
  PROVE  Nested(text, l, i, i, 1)
<1> DEFINE e == CommentEnd(text, l)
           ends == [k \in 0..1 |-> IF k = 1 THEN i ELSE e[i]]
<1>1. Len(text) \in Nat /\ Unclosed(text) = Len(text) + 1
  BY LenProperties DEF Unclosed
<1>2. e[i] \in 0..Unclosed(text) /\ i \in 0..Unclosed(text)
  BY <1>1, CommentEndSays
<1> HIDE DEF e
<1>3. ends \in [0..1 -> 0..Unclosed(text)]
  BY <1>2
<1>4. ends[1] = i /\ ends[0] = e[i] /\ \A k \in 1..1 : ends[k - 1] = e[ends[k]]
  OBVIOUS
<1> HIDE DEF ends
<1> QED
  BY <1>3, <1>4, Zenon DEF Nested, e

(* The scan passes over text that is in the same comments as what follows.  *)
LEMMA NestedOn ==
  ASSUME NEW text \in Seq(Nat), NEW l, NEW i, NEW here, NEW depth \in Nat \ {0},
         Nested(text, l, i, here, depth), NEW j \in 0..Unclosed(text),
         CommentEnd(text, l)[here] = CommentEnd(text, l)[j]
  PROVE  Nested(text, l, i, j, depth)
<1> DEFINE e == CommentEnd(text, l)
<1>1. PICK ends \in [0..depth -> 0..Unclosed(text)] :
         /\ ends[depth] = here
         /\ ends[0] = e[i]
         /\ \A k \in 1..depth : ends[k - 1] = e[ends[k]]
  BY Zenon DEF Nested
<1>2. e[here] = e[j]
  OBVIOUS
<1> HIDE DEF e
<1> DEFINE ends2 == [ends EXCEPT ![depth] = j]
<1>3. ends2 \in [0..depth -> 0..Unclosed(text)]
  OBVIOUS
<1>4. ends2[depth] = j /\ ends2[0] = e[i]
  BY <1>1
<1>5. ASSUME NEW k \in 1..depth PROVE ends2[k - 1] = e[ends2[k]]
  <2>1. ends2[k - 1] = ends[k - 1] /\ ends[k - 1] = e[ends[k]]
    BY <1>1
  <2>2. k # depth => ends2[k] = ends[k]
    OBVIOUS
  <2>3. k = depth => ends2[k] = j
    OBVIOUS
  <2> HIDE DEF ends2
  <2> QED
    BY <1>1, <1>2, <2>1, <2>2, <2>3
<1> HIDE DEF ends2
<1> QED
  BY <1>3, <1>4, <1>5, Zenon DEF Nested, e

(* A start marker adds a comment, whose end is found first.                 *)
LEMMA NestedDeeper ==
  ASSUME NEW text \in Seq(Nat), NEW l, NEW i, NEW here, NEW depth \in Nat \ {0},
         Nested(text, l, i, here, depth), NEW j \in 0..Unclosed(text),
         CommentEnd(text, l)[j] \in 0..Unclosed(text),
         CommentEnd(text, l)[here] = CommentEnd(text, l)[CommentEnd(text, l)[j]]
  PROVE  Nested(text, l, i, j, depth + 1)
<1> DEFINE e == CommentEnd(text, l)
<1>1. Nested(text, l, i, e[j], depth)
  BY NestedOn
<1>2. PICK ends \in [0..depth -> 0..Unclosed(text)] :
         /\ ends[depth] = e[j]
         /\ ends[0] = e[i]
         /\ \A k \in 1..depth : ends[k - 1] = e[ends[k]]
  BY <1>1, Zenon DEF Nested
<1> HIDE DEF e
<1> DEFINE ends2 == [k \in 0..(depth + 1) |-> IF k = depth + 1 THEN j ELSE ends[k]]
<1>3. ends2 \in [0..(depth + 1) -> 0..Unclosed(text)]
  OBVIOUS
<1>4. ends2[depth + 1] = j /\ \A k \in 0..depth : ends2[k] = ends[k]
  OBVIOUS
<1>5. ASSUME NEW k \in 1..(depth + 1) PROVE ends2[k - 1] = e[ends2[k]]
  <2>1. k - 1 \in 0..depth /\ (k # depth + 1 => k \in 1..depth)
    OBVIOUS
  <2> HIDE DEF ends2
  <2> QED
    BY <1>2, <1>4, <2>1
<1> HIDE DEF ends2
<1>6. ends2[0] = e[i]
  BY <1>2, <1>4
<1> QED
  BY <1>3, <1>4, <1>5, <1>6, Zenon DEF Nested, e

(* An end marker ends the innermost one.                                    *)
LEMMA NestedLess ==
  ASSUME NEW text \in Seq(Nat), NEW l, NEW i, NEW here, NEW depth \in Nat \ {0},
         Nested(text, l, i, here, depth)
  PROVE  /\ depth = 1 => CommentEnd(text, l)[i] = CommentEnd(text, l)[here]
         /\ depth # 1 => Nested(text, l, i, CommentEnd(text, l)[here], depth - 1)
<1> DEFINE e == CommentEnd(text, l)
<1>1. PICK ends \in [0..depth -> 0..Unclosed(text)] :
         /\ ends[depth] = here
         /\ ends[0] = e[i]
         /\ \A k \in 1..depth : ends[k - 1] = e[ends[k]]
  BY Zenon DEF Nested
<1> HIDE DEF e
<1>2. depth = 1 => e[i] = e[here]
  BY <1>1
<1>3. ASSUME depth # 1 PROVE Nested(text, l, i, e[here], depth - 1)
  <2> DEFINE ends2 == [k \in 0..(depth - 1) |-> ends[k]]
  <2>1. ends2 \in [0..(depth - 1) -> 0..Unclosed(text)]
    OBVIOUS
  <2>2. \A k \in 0..(depth - 1) : ends2[k] = ends[k]
    OBVIOUS
  <2> HIDE DEF ends2
  <2>3. ends2[depth - 1] = e[here] /\ ends2[0] = e[i]
    BY <1>1, <1>3, <2>2
  <2>4. \A k \in 1..(depth - 1) : ends2[k - 1] = e[ends2[k]]
    BY <1>1, <2>2
  <2> QED
    BY <2>1, <2>3, <2>4, Zenon DEF Nested, e
<1> QED
  BY <1>2, <1>3 DEF e

(* At the end of the text none of the comments has an end.                  *)
LEMMA NestedUnclosed ==
  ASSUME NEW text \in Seq(Nat), NEW l, IsLanguage(l), NEW i, NEW depth \in Nat \ {0},
         Nested(text, l, i, Len(text), depth)
  PROVE  CommentEnd(text, l)[i] = Unclosed(text)
<1> DEFINE e == CommentEnd(text, l)
<1>1. PICK ends \in [0..depth -> 0..Unclosed(text)] :
         /\ ends[depth] = Len(text)
         /\ ends[0] = e[i]
         /\ \A k \in 1..depth : ends[k - 1] = e[ends[k]]
  BY Zenon DEF Nested
<1>2. e[Len(text)] = Unclosed(text) /\ e[Unclosed(text)] = Unclosed(text)
  <2>1. /\ Len(text) \in 0..Unclosed(text) /\ Unclosed(text) \in 0..Unclosed(text)
        /\ Len(text) >= Len(text) /\ Unclosed(text) >= Len(text)
    BY LenProperties DEF Unclosed
  <2> QED
    BY <2>1, CommentEndSays, Zenon
<1> HIDE DEF e
<1> DEFINE S == {n \in Nat : n < depth => ends[(depth - 1) - n] = Unclosed(text)}
<1>3. 0 \in S
  BY <1>1, <1>2
<1>4. ASSUME NEW n \in Nat, n \in S PROVE n + 1 \in S
  <2> SUFFICES ASSUME n + 1 < depth PROVE ends[(depth - 1) - (n + 1)] = Unclosed(text)
    OBVIOUS
  <2>1. ends[(depth - 1) - n] = Unclosed(text)
    BY <1>4
  <2>2. /\ (depth - 1) - n \in 1..depth
        /\ ((depth - 1) - n) - 1 = (depth - 1) - (n + 1)
    OBVIOUS
  <2> QED
    BY <1>1, <1>2, <2>1, <2>2
<1>5. Nat \subseteq S
  <2> HIDE DEF S
  <2> QED
    BY <1>3, <1>4, NatSetInduction
<1>6. ends[0] = Unclosed(text)
  <2>1. depth - 1 \in S /\ (depth - 1) - (depth - 1) = 0
    <3>1. depth - 1 \in Nat
      OBVIOUS
    <3> HIDE DEF S
    <3> QED
      BY <1>5, <3>1
  <2> QED
    BY <2>1
<1> QED
  BY <1>1, <1>6 DEF e

(* What is neither marker, and no first character of one, is in the same    *)
(* comments as what follows it.                                             *)
LEMMA CommentGoesOn ==
  ASSUME NEW text \in Seq(Nat), NEW l, IsLanguage(l), NEW i \in Nat, i < Len(text),
         ~Occurs(text, l.comment_end, i),
         l.nested_comments => ~Occurs(text, l.comment_start, i)
  PROVE  CommentEnd(text, l)[i] = CommentEnd(text, l)[i + 1]
<1>1. i \in 0..Unclosed(text) /\ ~(i >= Len(text))
  BY LenProperties DEF Unclosed
<1> QED
  BY <1>1, CommentEndSays, Zenon

LEMMA CommentSkips ==
  ASSUME NEW text \in Seq(Nat), NEW l, IsLanguage(l), NEW i \in Nat,
         HasAt(text, AnyChar \ Marks(l), i)
  PROVE  LET e == CommentEnd(text, l)
             j == StretchEnd(text, AnyChar \ Marks(l), i + 1)
         IN  j \in 0..Len(text) /\ e[i] = e[j]
<1> DEFINE e == CommentEnd(text, l)
           S == AnyChar \ Marks(l)
           j == StretchEnd(text, S, i + 1)
<1>1. Len(text) \in Nat /\ i < Len(text) /\ i + 1 \in 0..Len(text)
      /\ l.comment_end \in Seq(Nat) /\ l.comment_start \in Seq(Nat)
  BY LenProperties DEF HasAt, IsLanguage
<1>2. ASSUME NEW k \in Nat, HasAt(text, S, k) PROVE e[k] = e[k + 1]
  <2>1. k < Len(text) /\ text[k + 1] \notin Marks(l)
    BY <1>2 DEF HasAt
  <2>2. ~Occurs(text, l.comment_end, k) /\ ~Occurs(text, l.comment_start, k)
    BY <1>1, <2>1, OccursInside DEF Marks
  <2> QED
    BY <2>1, <2>2, CommentGoesOn
<1>3. j \in (i + 1)..Len(text) /\ \A k \in (i + 1)..(j - 1) : HasAt(text, S, k)
  BY <1>1, StretchEndSays
<1>4. e[i] = e[i + 1]
  BY <1>2
<1> HIDE DEF j, e, S
<1>5. e[i + 1] = e[j]
  <2> DEFINE a == i + 1
  <2>1. a \in Int /\ j \in Int /\ a <= j /\ a \in Nat
    BY <1>3
  <2>2. \A k \in a..(j - 1) : k \in Nat /\ HasAt(text, S, k)
    BY <1>3, <2>1
  <2>3. \A k \in a..(j - 1) : e[k] = e[k + 1]
    BY <1>2, <2>2
  <2> HIDE DEF a
  <2>4. e[a] = e[j]
    BY <2>1, <2>3, SameAlong
  <2> QED
    BY <2>4 DEF a
<1>6. j \in 0..Len(text)
  BY <1>1, <1>3
<1> QED
  BY <1>4, <1>5, <1>6 DEF e, j, S

-----------------------------------------------------------------------------
(* What one step does to what is known of the frames.                       *)
LEMMA FoundResume ==
  ASSUME Consumption(FALSE), AllFound, UNCHANGED goal, stack # << >>,
         NEW f, NEW part, NEW s, Resume(f, part, s), Found(input, lang, f)
  PROVE  AllFound'
<1>1. /\ Len(stack') = Len(stack) /\ Len(stack) \in Nat \ {0}
      /\ \A k \in 1..(Len(stack) - 1) : stack'[k] = stack[k]
      /\ stack'[Len(stack)] = f
  BY Shapes
<1>2. mode' = "call" /\ input' = input /\ lang' = lang
  BY DEF Resume, lang
<1>3. ASSUME NEW k \in 1..Len(stack') PROVE Found(input, lang, stack'[k])
  <2>1. k = Len(stack) \/ k \in 1..(Len(stack) - 1)
    BY <1>1
  <2>2. k \in 1..Len(stack)
    BY <1>1
  <2> QED
    BY <1>1, <2>1, <2>2 DEF AllFound
<1> QED
  BY <1>2, <1>3 DEF AllFound

LEMMA FoundFinish ==
  ASSUME Consumption(FALSE), AllFound, UNCHANGED goal, stack # << >>,
         NEW r, Finish(r), Shown(input, lang, Top.node, Top.entry.index, r)
  PROVE  AllFound'
<1>1. /\ Len(stack') = Len(stack) - 1 /\ Len(stack) \in Nat \ {0}
      /\ \A k \in 1..(Len(stack) - 1) : stack'[k] = stack[k]
  BY Shapes
<1>2. /\ node' = Top.node /\ st' = Top.entry /\ res' = r
      /\ input' = input /\ lang' = lang
  BY DEF Finish, lang
<1>3. ASSUME NEW k \in 1..Len(stack') PROVE Found(input, lang, stack'[k])
  <2>1. k \in 1..Len(stack) /\ k \in 1..(Len(stack) - 1)
    BY <1>1
  <2> QED
    BY <1>1, <2>1 DEF AllFound
<1> QED
  BY <1>2, <1>3 DEF AllFound

LEMMA FoundReturn ==
  ASSUME AllFound, UNCHANGED goal, NEW r, Return(r), Shown(input, lang, node, st.index, r)
  PROVE  AllFound'
<1>1. /\ stack' = stack /\ node' = node /\ st' = st /\ res' = r
      /\ input' = input /\ lang' = lang
  BY DEF Return, lang
<1> QED
  BY <1>1 DEF AllFound

LEMMA FoundSame ==
  ASSUME AllFound, UNCHANGED goal, stack' = stack, input' = input,
         \/ mode' # "return"
         \/ mode' = mode /\ node' = node /\ st' = st /\ res' = res
  PROVE  AllFound'
<1>1. lang' = lang
  BY DEF lang
<1> QED
  BY <1>1 DEF AllFound

LEMMA FoundThrow ==
  ASSUME Throw
  PROVE  AllFound'
<1>1. mode' = "threw" /\ Len(stack') = 0
  BY DEF Throw
<1> QED
  BY <1>1 DEF AllFound

(* The parsers and the frames that nothing is said of.                      *)
SpokenOf == {"tokens", "token_prim", "then", "map", "label", "try_parse", "many_accum",
             "choice", "comment_rest"}

LEMMA GapOp ==
  ASSUME NEW l
  PROVE  Gap(l).op \in {"label", "choice"}
<1>1. space.op = "label"
  BY CharShapes
<1> QED
  BY <1>1, SpaceShapes

LEMMA NothingShown ==
  ASSUME NEW text, NEW l, NEW n, NEW i, NEW r, n.op \notin SpokenOf
  PROVE  Shown(text, l, n, i, r)
<1>1. Comment(l).op = "then" /\ InComment(l).op = "comment_rest"
  BY CommentShapes
<1>2. white_space(l).op = "many_accum" /\ Gap(l).op \in {"label", "choice"}
  BY SpaceShapes, GapOp
<1> QED
  BY <1>1, <1>2 DEF Shown, CharShown, LoopShown, StretchShown, TextShown, LineShown,
     CommentShown, GapShown, SpaceShown, One, Loop, OneAndLoop, Scans, IsText,
     TextAndLoop, DropsRest, SpokenOf

LEMMA NothingFound ==
  ASSUME NEW text, NEW l, NEW f,
         f.node.op \notin {"then", "many_accum", "choice", "comment_rest"}
  PROVE  Found(text, l, f)
<1>1. InComment(l).op = "comment_rest"
  BY CommentShapes
<1>2. white_space(l).op = "many_accum"
  BY SpaceShapes
<1> QED
  BY <1>1, <1>2 DEF Found, Loop

-----------------------------------------------------------------------------
(* The invariant.                                                           *)
SpaceRun ==
  Consumption(FALSE) /\ AllPlaced /\ Tracks /\ IsLanguage(lang) /\ AllFound

LEMMA SpaceCaller ==
  ASSUME SpaceRun, mode = "return", stack # << >>
  PROVE  /\ input \in Seq(Nat) /\ Len(input) \in Nat
         /\ Found(input, lang, Top) /\ Shown(input, lang, node, st.index, res)
         /\ Placed(input, st) /\ Placed(input, Top.entry) /\ Placed(input, Top.sofar.st)
         /\ res.ok => Placed(input, res.st)
         /\ WaitsFor(Top, node)
         /\ st = CalledOn(Top) /\ FrameOK(FALSE, input, Top)
         /\ IsOk(FALSE, input, res) \/ IsErr(res)
<1>1. input \in Seq(Nat) /\ Len(input) \in Nat
  BY LenProperties DEF SpaceRun, Consumption
<1>2. Len(stack) \in 1..Len(stack) /\ Top = stack[Len(stack)]
  BY Shapes DEF SpaceRun
<1>3. Found(input, lang, Top) /\ Shown(input, lang, node, st.index, res)
  BY <1>2 DEF SpaceRun, AllFound
<1>4. /\ Placed(input, st) /\ Placed(input, Top.entry) /\ Placed(input, Top.sofar.st)
      /\ res.ok => Placed(input, res.st)
  BY TopLive DEF SpaceRun, AllPlaced
<1>5. WaitsFor(Top, node)
  BY PartReturned DEF SpaceRun, FrameFollowed
<1>6. st = CalledOn(Top) /\ FrameOK(FALSE, input, Top)
  BY CallerOK DEF SpaceRun
<1>7. IsOk(FALSE, input, res) \/ IsErr(res)
  BY DEF SpaceRun, Consumption, IsResult
<1> QED
  BY <1>1, <1>3, <1>4, <1>5, <1>6, <1>7

(* Calls.                                                                   *)
LEMMA SpaceCall ==
  ASSUME SpaceRun, UNCHANGED goal, CallComposite
  PROVE  AllFound'
<1> DEFINE f == NewFrame(node, st)
<1>1. /\ Len(stack') = Len(stack) + 1 /\ Len(stack) \in Nat
      /\ \A k \in 1..Len(stack) : stack'[k] = stack[k]
      /\ stack'[Len(stack) + 1] = f
  BY Shapes DEF SpaceRun
<1>2. mode' = "call" /\ input' = input /\ lang' = lang
  BY DEF CallComposite, lang
<1>3. /\ f.node = node /\ f.phase = "first" /\ f.i = 1 /\ f.entry = st
      /\ f.sofar.st = st
  BY DEF NewFrame, Ok
<1>4. /\ input \in Seq(Nat) /\ Len(input) \in Nat /\ IsLanguage(lang)
      /\ st.index \in 0..Len(input)
  BY LiveUnfold, LenProperties DEF SpaceRun, Consumption, AllPlaced, IsLive, Placed
<1> HIDE DEF f
<1>5. Found(input, lang, f)
  <2>1. /\ st.index \in st.index..Len(input)
        /\ \A k \in st.index..(st.index - 1) : FALSE
        /\ \A k \in 1..(f.i - 1) : FALSE
    BY <1>3, <1>4
  <2>2. f.node.op = "choice" /\ f.node = Gap(lang) => f.i \in 1..Len(f.node.ps)
    <3>1. space.op = "label"
      BY CharShapes
    <3>2. f.node.op = "choice" /\ f.node = Gap(lang) => Len(f.node.ps) \in {2, 3}
      BY <3>1, SpaceShapes
    <3>3. \A n \in {2, 3} : 1 \in 1..n
      OBVIOUS
    <3> QED
      BY <1>3, <3>2, <3>3, Zenon
  <2>3. CommentFound(input, lang, f)
    <3>1. Nested(input, lang, st.index, st.index, 1)
      BY <1>4, NestedStart
    <3> QED
      BY <1>3, <3>1 DEF CommentFound
  <2> QED
    BY <1>3, <2>1, <2>2, <2>3 DEF Found
<1>6. ASSUME NEW k \in 1..Len(stack') PROVE Found(input, lang, stack'[k])
  <2>1. k \in 1..Len(stack) \/ k = Len(stack) + 1
    BY <1>1
  <2> QED
    BY <1>1, <1>5, <2>1 DEF SpaceRun, AllFound
<1> QED
  BY <1>2, <1>6 DEF AllFound

-----------------------------------------------------------------------------
(* The parsers that read the input.                                         *)
LEMMA CharLeafShown ==
  ASSUME SpaceRun, CallTokenPrim, UNCHANGED goal
  PROVE  AllFound'
<1>1. /\ node.op = "token_prim" /\ Placed(input, st) /\ st.index \in Nat
      /\ DOMAIN st = {"index", "pos", "user"}
      /\ input \in Seq(Nat) /\ Len(input) \in Nat
  BY LiveUnfold, LenProperties DEF SpaceRun, Consumption, AllPlaced, IsLive, Placed,
     CallTokenPrim, Calling, IsRecord
<1>2. ASSUME NEW r, CharShown(input, node, st.index, r)
      PROVE  Shown(input, lang, node, st.index, r)
  <2>1. /\ Comment(lang).op = "then" /\ InComment(lang).op = "comment_rest"
        /\ white_space(lang).op = "many_accum" /\ Gap(lang).op \in {"label", "choice"}
    BY CommentShapes, SpaceShapes, GapOp
  <2> QED
    BY <1>1, <1>2, <2>1 DEF Shown, LoopShown, StretchShown, TextShown, LineShown,
       CommentShown, GapShown, SpaceShown, Loop, OneAndLoop, Scans, IsText, TextAndLoop,
       DropsRest
<1>3. ASSUME NEW r, Return(r),
             TookIf(HasAt(input, node.accepts, st.index), st.index + 1, r)
      PROVE  AllFound'
  <2>1. CharsIn(node) = node.accepts
    BY <1>1 DEF CharsIn
  <2>2. CharShown(input, node, st.index, r)
    BY <1>3, <2>1 DEF CharShown
  <2> QED
    BY <1>2, <1>3, <2>2, FoundReturn DEF SpaceRun
<1>4. ASSUME NEW e, Return(Err(FALSE, e)), ~HasAt(input, node.accepts, st.index)
      PROVE  AllFound'
  BY <1>3, <1>4 DEF TookIf, Err
<1>5. ASSUME NEW v, NEW p, NEW e,
             Return(Ok(TRUE, v, [st EXCEPT !.index = @ + 1, !.pos = p], e)),
             HasAt(input, node.accepts, st.index)
      PROVE  AllFound'
  <2> DEFINE s == [st EXCEPT !.index = @ + 1, !.pos = p]
  <2>1. s.index = st.index + 1
    BY <1>1
  <2> HIDE DEF s
  <2>2. LET r == Ok(TRUE, v, s, e)
        IN  r.ok /\ r.consumed /\ r.st.index = st.index + 1
    BY <2>1 DEF Ok
  <2>3. Return(Ok(TRUE, v, s, e))
    BY <1>5 DEF s
  <2> QED
    BY <1>3, <1>5, <2>2, <2>3 DEF TookIf
<1>6. /\ st.index >= Len(input) => ~HasAt(input, node.accepts, st.index)
      /\ st.index < Len(input) =>
           (HasAt(input, node.accepts, st.index) <=> input[st.index + 1] \in node.accepts)
  BY <1>1 DEF HasAt
<1> QED
  BY <1>4, <1>5, <1>6 DEF CallTokenPrim

LEMMA TextLeafShown ==
  ASSUME SpaceRun, CallTokens, UNCHANGED goal
  PROVE  AllFound'
<1>1. /\ node.op = "tokens" /\ Placed(input, st) /\ st.index \in 0..Len(input)
      /\ DOMAIN st = {"index", "pos", "user"}
      /\ input \in Seq(Nat)
  BY LiveUnfold, LenProperties DEF SpaceRun, Consumption, AllPlaced, IsLive, Placed,
     CallTokens, Calling, IsRecord
<1>2. ASSUME NEW r, TextShown(input, node, st.index, r)
      PROVE  Shown(input, lang, node, st.index, r)
  <2>1. /\ Comment(lang).op = "then" /\ InComment(lang).op = "comment_rest"
        /\ white_space(lang).op = "many_accum" /\ Gap(lang).op \in {"label", "choice"}
    BY CommentShapes, SpaceShapes, GapOp
  <2> QED
    BY <1>1, <1>2, <2>1 DEF Shown, LoopShown, StretchShown, CharShown, LineShown,
       CommentShown, GapShown, SpaceShown, One, Loop, OneAndLoop, Scans, TextAndLoop,
       DropsRest
<1>3. ASSUME NEW r, Return(r),
             /\ TookIf(Matches(node.str, st.index), st.index + Len(node.str), r)
             /\ r.ok => r.err.messages = << >>
      PROVE  AllFound'
  <2>1. TextIn(node) = node.str
    BY <1>1 DEF TextIn
  <2>2. IsString(node.str) =>
          (Matches(node.str, st.index) <=> Occurs(input, node.str, st.index))
    BY <1>1, MatchesWhatOccurs DEF IsString
  <2>3. TextShown(input, node, st.index, r)
    BY <1>3, <2>1, <2>2 DEF TextShown, TookIf
  <2> QED
    BY <1>2, <1>3, <2>3, FoundReturn DEF SpaceRun
<1>4. ASSUME NEW e, Return(Err(FALSE, e)), ~Matches(node.str, st.index)
      PROVE  AllFound'
  BY <1>3, <1>4 DEF TookIf, Err
<1>5. ASSUME NEW v, NEW p, NEW q,
             Return(Ok(TRUE, v, [st EXCEPT !.index = @ + Len(node.str), !.pos = p],
                       unknown(q))),
             Matches(node.str, st.index)
      PROVE  AllFound'
  <2> DEFINE s == [st EXCEPT !.index = @ + Len(node.str), !.pos = p]
  <2>1. s.index = st.index + Len(node.str)
    BY <1>1
  <2> HIDE DEF s
  <2>2. LET r == Ok(TRUE, v, s, unknown(q))
        IN  /\ r.ok /\ r.consumed /\ r.st.index = st.index + Len(node.str)
            /\ r.err.messages = << >>
    BY <2>1 DEF Ok, unknown
  <2>3. Return(Ok(TRUE, v, s, unknown(q)))
    BY <1>5 DEF s
  <2> QED
    BY <1>3, <1>5, <2>2, <2>3 DEF TookIf
<1> QED
  BY <1>4, <1>5 DEF CallTokens

LEMMA SpaceLeaf ==
  ASSUME SpaceRun, CallLeaf, UNCHANGED goal
  PROVE  AllFound'
<1>1. ASSUME NEW r, Return(r),
             node.op \in {"pure", "fail", "client_token", "take_while", "take_while1"}
      PROVE  AllFound'
  <2>1. Shown(input, lang, node, st.index, r)
    BY <1>1, NothingShown DEF SpokenOf
  <2> QED
    BY <1>1, <2>1, FoundReturn DEF SpaceRun
<1>2. CallPure \/ CallFail => AllFound'
  BY <1>1 DEF CallPure, CallFail, Calling
<1>3. CallClientToken => AllFound'
  BY <1>1 DEF CallClientToken, Calling
<1>4. CallTakeWhile \/ CallTakeWhile1 => AllFound'
  BY <1>1 DEF CallTakeWhile, CallTakeWhile1, Calling
<1> QED
  BY <1>2, <1>3, <1>4, CharLeafShown, TextLeafShown DEF CallLeaf

-----------------------------------------------------------------------------
(* The combinators: first a part and what follows it.                       *)
LEMMA ThenShown ==
  ASSUME NEW text, NEW l, NEW n, NEW i, NEW r, n.op = "then",
         OneAndLoop(n) =>
           TookIf(HasAt(text, CharsIn(n.p), i), StretchEnd(text, CharsIn(n.q.p), i + 1), r),
         TextAndLoop(n) /\ IsString(TextIn(n.p)) =>
           TookIf(Occurs(text, TextIn(n.p), i),
                  StretchEnd(text, CharsIn(n.q.p), i + Len(TextIn(n.p))), r),
         l.comment_start # << >> /\ n = Comment(l) =>
           IF Occurs(text, l.comment_start, i)
           THEN r.consumed /\ PassesTo(text, CommentEnd(text, l)[i + Len(l.comment_start)], r)
           ELSE ~r.ok /\ ~r.consumed
  PROVE  Shown(text, l, n, i, r)
<1>1. InComment(l).op = "comment_rest"
  BY CommentShapes
<1>2. white_space(l).op = "many_accum" /\ Gap(l).op \in {"label", "choice"}
  BY SpaceShapes, GapOp
<1>3. CharShown(text, n, i, r) /\ LoopShown(text, n, i, r) /\ TextShown(text, n, i, r)
  BY DEF CharShown, LoopShown, TextShown, One, Loop, IsText
<1>4. StretchShown(text, n, i, r) /\ LineShown(text, n, i, r)
  BY DEF StretchShown, LineShown, Scans, DropsRest
<1>5. CommentShown(text, l, n, i, r) /\ GapShown(text, l, n, i, r)
      /\ SpaceShown(text, l, n, i, r)
  BY <1>1, <1>2 DEF CommentShown, GapShown, SpaceShown
<1> QED
  BY <1>3, <1>4, <1>5 DEF Shown

LEMMA SpaceThen ==
  ASSUME SpaceRun, ReturnToThen, UNCHANGED goal
  PROVE  AllFound'
<1> DEFINE n == Top.node
           i == Top.entry.index
<1>1. n.op = "then" /\ mode = "return" /\ stack # << >>
  BY DEF ReturnToThen, ReturningTo
<1>2. /\ input \in Seq(Nat) /\ Len(input) \in Nat
      /\ Found(input, lang, Top) /\ Shown(input, lang, node, st.index, res)
      /\ WaitsFor(Top, node)
      /\ st = CalledOn(Top) /\ FrameOK(FALSE, input, Top)
      /\ IsOk(FALSE, input, res) \/ IsErr(res)
  BY <1>1, SpaceCaller
<1>3. /\ DOMAIN Top = {"node", "entry", "phase", "i", "sofar", "held"}
      /\ Top.sofar.ok /\ Top.sofar.consumed \in BOOLEAN /\ res.consumed \in BOOLEAN
      /\ res.ok \in BOOLEAN
  BY <1>2 DEF FrameOK, IsOk, IsErr
<1>4. st = Top.sofar.st
  BY <1>1, <1>2 DEF CalledOn, FrameOK, ItemLoops
<1>5. ASSUME NEW r, Finish(r), Shown(input, lang, n, i, r) PROVE AllFound'
  BY <1>1, <1>5, FoundFinish DEF SpaceRun
<1>6. CASE Top.phase = "first"
  <2>1. st.index = i
    BY <1>1, <1>2, <1>4, <1>6 DEF FrameOK, AtEntry, Repeats
  <2>2. n.p.op # "lazy" => Shown(input, lang, n.p, i, res)
    <3>1. PartOf(Top) = n.p
      BY <1>1, <1>6 DEF PartOf, FirstPart
    <3> QED
      BY <1>1, <1>2, <2>1, <3>1 DEF WaitsFor, Followed
  <2>3. ASSUME ~res.ok, Finish(res) PROVE AllFound'
    <3>1. OneAndLoop(n) => ~HasAt(input, CharsIn(n.p), i) /\ ~res.consumed
      <4>1. OneAndLoop(n) => One(n.p) /\ n.p.op # "lazy"
        BY DEF OneAndLoop, One
      <4> QED
        BY <2>2, <2>3, <4>1 DEF Shown, CharShown, TookIf
    <3>2. IsText(n.p) /\ IsString(TextIn(n.p)) =>
            ~Occurs(input, TextIn(n.p), i) /\ ~res.consumed
      <4>1. IsText(n.p) => n.p.op # "lazy"
        BY DEF IsText
      <4> QED
        BY <2>2, <2>3, <4>1 DEF Shown, TextShown, TookIf
    <3>3. lang.comment_start # << >> /\ n = Comment(lang) =>
            ~Occurs(input, lang.comment_start, i) /\ ~res.consumed
      BY <3>2, CommentShapes DEF SpaceRun, IsLanguage, IsString
    <3>4. Shown(input, lang, n, i, res)
      <4> HIDE DEF n, i
      <4> QED
        BY <1>1, <2>3, <3>1, <3>2, <3>3, ThenShown DEF TextAndLoop, TookIf, n
    <3> QED
      BY <1>5, <2>3, <3>4
  <2>4. ASSUME res.ok,
               Resume([Top EXCEPT !.phase = "second", !.sofar = res], n.q, res.st)
        PROVE  AllFound'
    <3> DEFINE f == [Top EXCEPT !.phase = "second", !.sofar = res]
    <3>1. f.node = n /\ f.entry = Top.entry /\ f.phase = "second" /\ f.sofar = res
      BY <1>3
    <3> HIDE DEF f
    <3>2. Found(input, lang, f)
      <4>1. InComment(lang).op = "comment_rest" /\ white_space(lang).op = "many_accum"
        BY CommentShapes, SpaceShapes
      <4> QED
        BY <1>1, <2>2, <3>1, <4>1 DEF Found, Loop
    <3>3. Resume(f, n.q, res.st)
      BY <2>4 DEF f
    <3> QED
      BY <1>1, <3>2, <3>3, FoundResume DEF SpaceRun
  <2> QED
    BY <1>6, <2>3, <2>4 DEF ReturnToThen, SequenceOn, SequenceEnd
<1>7. CASE Top.phase = "second"
  <2>1. n.p.op # "lazy" => Shown(input, lang, n.p, i, Top.sofar)
    BY <1>1, <1>2, <1>7 DEF Found
  <2>2. n.q.op # "lazy" => Shown(input, lang, n.q, st.index, res)
    <3>1. PartOf(Top) = n.q
      BY <1>1, <1>7 DEF PartOf
    <3> QED
      BY <1>1, <1>2, <3>1 DEF WaitsFor, Followed
  <2> DEFINE consumed == Top.sofar.consumed \/ res.consumed
             merged   == merge(Top.sofar.err, res.err)
  <2>3. ASSUME NEW r, r.ok = res.ok, r.consumed = consumed, r.err = merged,
               res.ok => r.st = res.st
        PROVE  Shown(input, lang, n, i, r)
    <3>1. OneAndLoop(n) =>
            /\ HasAt(input, CharsIn(n.p), i) /\ r.ok /\ r.consumed
            /\ r.st.index = StretchEnd(input, CharsIn(n.q.p), i + 1)
      <4>1. OneAndLoop(n) => One(n.p) /\ n.p.op # "lazy" /\ Loop(n.q) /\ n.q.op # "lazy"
        BY DEF OneAndLoop, One, Loop
      <4>2. OneAndLoop(n) => /\ HasAt(input, CharsIn(n.p), i) /\ Top.sofar.consumed
                             /\ st.index = i + 1
        BY <1>3, <1>4, <2>1, <4>1 DEF Shown, CharShown, TookIf
      <4>3. OneAndLoop(n) =>
              res.ok /\ res.st.index = StretchEnd(input, CharsIn(n.q.p), st.index)
        BY <2>2, <4>1 DEF Shown, LoopShown
      <4> QED
        BY <2>3, <4>2, <4>3
    <3>2. IsText(n.p) /\ IsString(TextIn(n.p)) =>
            /\ Occurs(input, TextIn(n.p), i) /\ Top.sofar.consumed
            /\ st.index = i + Len(TextIn(n.p)) /\ Top.sofar.err.messages = << >>
      <4>1. IsText(n.p) => n.p.op # "lazy"
        BY DEF IsText
      <4> QED
        BY <1>3, <1>4, <2>1, <4>1 DEF Shown, TextShown, TookIf
    <3>3. TextAndLoop(n) /\ IsString(TextIn(n.p)) =>
            /\ Occurs(input, TextIn(n.p), i) /\ r.ok /\ r.consumed
            /\ r.st.index = StretchEnd(input, CharsIn(n.q.p), i + Len(TextIn(n.p)))
      <4>1. TextAndLoop(n) => IsText(n.p) /\ Loop(n.q) /\ n.q.op # "lazy"
        BY DEF TextAndLoop, Loop
      <4>2. TextAndLoop(n) =>
              res.ok /\ res.st.index = StretchEnd(input, CharsIn(n.q.p), st.index)
        BY <2>2, <4>1 DEF Shown, LoopShown
      <4> QED
        BY <2>3, <3>2, <4>1, <4>2
    <3>4. ASSUME lang.comment_start # << >>, n = Comment(lang)
          PROVE  /\ Occurs(input, lang.comment_start, i) /\ r.consumed
                 /\ PassesTo(input,
                             CommentEnd(input, lang)[i + Len(lang.comment_start)], r)
      <4>1. /\ IsText(n.p) /\ TextIn(n.p) = lang.comment_start /\ n.q = InComment(lang)
            /\ n.q.op # "lazy" /\ IsString(lang.comment_start)
        BY <3>4, CommentShapes DEF SpaceRun, IsLanguage, IsString
      <4>2. PassesTo(input, CommentEnd(input, lang)[st.index], res)
        BY <2>2, <3>4, <4>1 DEF Shown, CommentShown
      <4>3. merged = res.err
        BY <3>2, <4>1 DEF merge, is_unknown
      <4> QED
        BY <2>3, <3>2, <4>1, <4>2, <4>3 DEF PassesTo
    <3> HIDE DEF n, i, consumed, merged
    <3>5. n.op = "then"
      BY <1>1 DEF n
    <3> QED
      BY <3>1, <3>3, <3>4, <3>5, ThenShown DEF TookIf
  <2> HIDE DEF consumed, merged
  <2>4. ASSUME ~res.ok, Finish(Err(consumed, merged)) PROVE AllFound'
    <3>1. LET r == Err(consumed, merged)
          IN  r.ok = res.ok /\ r.consumed = consumed /\ r.err = merged
      BY <1>3, <2>4 DEF Err
    <3> QED
      BY <1>5, <2>3, <2>4, <3>1
  <2>5. ASSUME res.ok, NEW v, Finish(Ok(consumed, v, res.st, merged)) PROVE AllFound'
    <3>1. LET r == Ok(consumed, v, res.st, merged)
          IN  r.ok = res.ok /\ r.consumed = consumed /\ r.err = merged /\ r.st = res.st
      BY <1>3, <2>5 DEF Ok
    <3> QED
      BY <1>5, <2>3, <2>5, <3>1
  <2> QED
    BY <1>7, <2>4, <2>5 DEF ReturnToThen, SequenceOn, SequenceEnd, consumed, merged
<1> QED
  BY <1>6, <1>7 DEF ReturnToThen, SequenceOn, SequenceEnd

(* The combinators that stay where they are: map, label and try_parse.      *)
LEMMA PartAtEntry ==
  ASSUME SpaceRun, mode = "return", stack # << >>, UNCHANGED goal,
         Top.node.op \in {"map", "label", "try_parse"}
  PROVE  /\ st.index = Top.entry.index
         /\ Top.node.p.op # "lazy" =>
              Shown(input, lang, Top.node.p, Top.entry.index, res)
         /\ IsOk(FALSE, input, res) \/ IsErr(res)
         /\ \A r : Finish(r) /\ Shown(input, lang, Top.node, Top.entry.index, r)
                     => AllFound'
<1>1. /\ Shown(input, lang, node, st.index, res) /\ WaitsFor(Top, node)
      /\ st = CalledOn(Top) /\ FrameOK(FALSE, input, Top)
      /\ IsOk(FALSE, input, res) \/ IsErr(res)
  BY SpaceCaller
<1>2. st = Top.entry
  BY <1>1 DEF CalledOn, FrameOK, AtEntry, Stays, ItemLoops
<1>3. PartOf(Top) = Top.node.p
  BY DEF PartOf, FirstPart
<1>4. Top.node.p.op # "lazy" => node = Top.node.p
  BY <1>1, <1>3 DEF WaitsFor, Followed
<1> QED
  BY <1>1, <1>2, <1>4, FoundFinish DEF SpaceRun

LEMMA MapShown ==
  ASSUME NEW text, NEW l, NEW n, NEW i, NEW r, n.op = "map",
         Scans(n) =>
           TookIf(HasAt(text, CharsIn(n.p.p), i),
                  StretchEnd(text, CharsIn(n.p.q.p), i + 1), r),
         DropsRest(n) /\ IsString(TextIn(n.p.p)) =>
           TookIf(Occurs(text, TextIn(n.p.p), i),
                  StretchEnd(text, CharsIn(n.p.q.p), i + Len(TextIn(n.p.p))), r)
  PROVE  Shown(text, l, n, i, r)
<1>1. InComment(l).op = "comment_rest" /\ Comment(l).op = "then"
  BY CommentShapes
<1>2. white_space(l).op = "many_accum" /\ Gap(l).op \in {"label", "choice"}
  BY SpaceShapes, GapOp
<1>3. CharShown(text, n, i, r) /\ LoopShown(text, n, i, r) /\ TextShown(text, n, i, r)
  BY DEF CharShown, LoopShown, TextShown, One, Loop, IsText
<1>4. StretchShown(text, n, i, r) /\ LineShown(text, n, i, r)
  BY DEF StretchShown, LineShown, OneAndLoop, TextAndLoop
<1>5. CommentShown(text, l, n, i, r) /\ GapShown(text, l, n, i, r)
      /\ SpaceShown(text, l, n, i, r)
  BY <1>1, <1>2 DEF CommentShown, GapShown, SpaceShown
<1> QED
  BY <1>3, <1>4, <1>5 DEF Shown

LEMMA SpaceMap ==
  ASSUME SpaceRun, ReturnToMap, UNCHANGED goal
  PROVE  AllFound'
<1> DEFINE n == Top.node
           i == Top.entry.index
<1>1. n.op = "map" /\ mode = "return" /\ stack # << >>
  BY DEF ReturnToMap, ReturningTo
<1>2. /\ n.p.op # "lazy" => Shown(input, lang, n.p, i, res)
      /\ IsOk(FALSE, input, res) \/ IsErr(res)
      /\ \A r : Finish(r) /\ Shown(input, lang, n, i, r) => AllFound'
  BY <1>1, PartAtEntry
<1>3. ASSUME NEW r, r.ok = res.ok, r.consumed = res.consumed, res.ok => r.st = res.st
      PROVE  Shown(input, lang, n, i, r)
  <2>1. Scans(n) =>
          TookIf(HasAt(input, CharsIn(n.p.p), i),
                 StretchEnd(input, CharsIn(n.p.q.p), i + 1), res)
    <3>1. Scans(n) => OneAndLoop(n.p) /\ n.p.op # "lazy"
      BY DEF Scans, OneAndLoop
    <3> QED
      BY <1>2, <3>1 DEF Shown, StretchShown
  <2>2. DropsRest(n) /\ IsString(TextIn(n.p.p)) =>
          TookIf(Occurs(input, TextIn(n.p.p), i),
                 StretchEnd(input, CharsIn(n.p.q.p), i + Len(TextIn(n.p.p))), res)
    <3>1. DropsRest(n) => TextAndLoop(n.p) /\ n.p.op # "lazy"
      BY DEF DropsRest, TextAndLoop
    <3> QED
      BY <1>2, <3>1 DEF Shown, LineShown
  <2>3. \A c, j : TookIf(c, j, res) => TookIf(c, j, r)
    BY <1>3 DEF TookIf
  <2> HIDE DEF n, i
  <2> QED
    BY <1>1, <2>1, <2>2, <2>3, MapShown DEF n
<1>4. ASSUME ~res.ok, Finish(res) PROVE AllFound'
  BY <1>2, <1>3, <1>4
<1>5. ASSUME res.ok, NEW v, Finish([res EXCEPT !.val = v]) PROVE AllFound'
  <2> DEFINE r == [res EXCEPT !.val = v]
  <2>1. r.ok = res.ok /\ r.consumed = res.consumed /\ r.st = res.st
    BY <1>2, <1>5 DEF IsOk, IsErr
  <2> HIDE DEF r
  <2>2. Finish(r)
    BY <1>5 DEF r
  <2> QED
    BY <1>2, <1>3, <2>1, <2>2
<1> QED
  BY <1>4, <1>5, FoundThrow DEF ReturnToMap

(* A label, around a character or a text, or the blank of plain white space.*)
LEMMA SpaceLabel ==
  ASSUME SpaceRun, ReturnToLabel, UNCHANGED goal
  PROVE  AllFound'
<1> DEFINE n == Top.node
           i == Top.entry.index
<1>1. n.op = "label" /\ mode = "return" /\ stack # << >>
  BY DEF ReturnToLabel, ReturningTo
<1>2. /\ n.p.op # "lazy" => Shown(input, lang, n.p, i, res)
      /\ IsOk(FALSE, input, res) \/ IsErr(res)
      /\ \A r : Finish(r) /\ Shown(input, lang, n, i, r) => AllFound'
  BY <1>1, PartAtEntry
<1>3. /\ input \in Seq(Nat) /\ Len(input) \in Nat /\ Placed(input, Top.entry)
      /\ IsLanguage(lang)
  BY <1>1, SpaceCaller DEF SpaceRun
<1>4. ASSUME NEW r, One(n) => TookIf(HasAt(input, CharsIn(n), i), i + 1, r),
             IsText(n) /\ IsString(TextIn(n)) =>
               /\ TookIf(Occurs(input, TextIn(n), i), i + Len(TextIn(n)), r)
               /\ r.ok => r.err.messages = << >>
      PROVE  Shown(input, lang, n, i, r)
  <2>1. /\ Comment(lang).op = "then" /\ InComment(lang).op = "comment_rest"
        /\ white_space(lang).op = "many_accum"
    BY CommentShapes, SpaceShapes
  <2>2. CharShown(input, n, i, r) /\ TextShown(input, n, i, r)
    BY <1>4 DEF CharShown, TextShown
  <2>3. /\ LoopShown(input, n, i, r) /\ StretchShown(input, n, i, r)
        /\ LineShown(input, n, i, r) /\ CommentShown(input, lang, n, i, r)
        /\ SpaceShown(input, lang, n, i, r)
    BY <1>1, <2>1 DEF LoopShown, StretchShown, LineShown, CommentShown, SpaceShown, Loop,
       OneAndLoop, Scans, TextAndLoop, DropsRest
  <2>4. GapShown(input, lang, n, i, r)
    <3> DEFINE next == NextToken(input, lang)
    <3> SUFFICES ASSUME n = Gap(lang)
                 PROVE  \/ ~r.ok /\ ~r.consumed /\ next[i] = i
                        \/ r.ok /\ r.consumed /\ next[r.st.index] = next[i]
      BY DEF GapShown
    <3>1. Plain(lang) /\ One(n) /\ CharsIn(n) = WhiteChars
      <4>1. Gap(lang) = space
        BY <1>1, SpaceShapes
      <4>2. Plain(lang)
        BY <1>1, SpaceShapes
      <4> QED
        BY <4>1, <4>2, CharShapes
    <3>2. CASE HasAt(input, WhiteChars, i)
      <4>1. i \in Nat
        BY <1>3 DEF Placed
      <4>2. next[i] = next[i + 1]
        BY <1>3, <3>2, <4>1, BlanksPass
      <4> QED
        BY <1>4, <3>1, <3>2, <4>2 DEF TookIf
    <3>3. CASE ~HasAt(input, WhiteChars, i)
      <4>1. GapEnd(input, lang, i) = i
        BY <3>1, <3>3 DEF GapEnd, Occurs, Plain
      <4>2. i \in 0..Unclosed(input)
        BY <1>3 DEF Placed, Unclosed
      <4>3. next[i] = i
        BY <1>3, <4>1, <4>2, NextTokenSays
      <4> QED
        BY <1>4, <3>1, <3>3, <4>3 DEF TookIf
    <3> QED
      BY <3>2, <3>3
  <2> QED
    BY <2>2, <2>3, <2>4 DEF Shown
<1>5. One(n) => TookIf(HasAt(input, CharsIn(n), i), i + 1, res)
  <2>1. One(n) => One(n.p) /\ n.p.op # "lazy" /\ CharsIn(n) = CharsIn(n.p)
    BY <1>1 DEF One, CharsIn
  <2> QED
    BY <1>2, <2>1 DEF Shown, CharShown
<1>6. IsText(n) /\ IsString(TextIn(n)) =>
        /\ TookIf(Occurs(input, TextIn(n), i), i + Len(TextIn(n)), res)
        /\ res.ok => res.err.messages = << >>
  <2>1. IsText(n) => IsText(n.p) /\ n.p.op # "lazy" /\ TextIn(n) = TextIn(n.p)
    BY <1>1 DEF IsText, TextIn
  <2> QED
    BY <1>2, <2>1 DEF Shown, TextShown
<1>7. ASSUME ~FailedEmpty, Finish(res) PROVE AllFound'
  <2>1. Shown(input, lang, n, i, res)
    BY <1>4, <1>5, <1>6
  <2> QED
    BY <1>2, <1>7, <2>1
<1>8. ASSUME FailedEmpty, NEW e, Finish(Err(FALSE, e)) PROVE AllFound'
  <2>1. ~Err(FALSE, e).ok /\ ~Err(FALSE, e).consumed
    BY DEF Err
  <2>2. \A c, j : TookIf(c, j, res) => TookIf(c, j, Err(FALSE, e))
    BY <1>8, <2>1 DEF TookIf, FailedEmpty
  <2>3. Shown(input, lang, n, i, Err(FALSE, e))
    BY <1>4, <1>5, <1>6, <2>1, <2>2
  <2> QED
    BY <1>2, <1>8, <2>3
<1> QED
  BY <1>7, <1>8 DEF ReturnToLabel

LEMMA SpaceTry ==
  ASSUME SpaceRun, ReturnToTryParse, UNCHANGED goal
  PROVE  AllFound'
<1> DEFINE n == Top.node
           i == Top.entry.index
<1>1. n.op = "try_parse" /\ mode = "return" /\ stack # << >>
  BY DEF ReturnToTryParse, ReturningTo
<1>2. /\ n.p.op # "lazy" => Shown(input, lang, n.p, i, res)
      /\ IsOk(FALSE, input, res) \/ IsErr(res)
      /\ \A r : Finish(r) /\ Shown(input, lang, n, i, r) => AllFound'
  BY <1>1, PartAtEntry
<1>3. ASSUME NEW r, IsText(n) /\ IsString(TextIn(n)) =>
               /\ TookIf(Occurs(input, TextIn(n), i), i + Len(TextIn(n)), r)
               /\ r.ok => r.err.messages = << >>
      PROVE  Shown(input, lang, n, i, r)
  <2>1. /\ Comment(lang).op = "then" /\ InComment(lang).op = "comment_rest"
        /\ white_space(lang).op = "many_accum" /\ Gap(lang).op \in {"label", "choice"}
    BY CommentShapes, SpaceShapes, GapOp
  <2> QED
    BY <1>1, <1>3, <2>1 DEF Shown, LoopShown, StretchShown, CharShown, LineShown,
       CommentShown, GapShown, SpaceShown, TextShown, One, Loop, OneAndLoop, Scans,
       TextAndLoop, DropsRest
<1>4. IsText(n) /\ IsString(TextIn(n)) =>
        /\ TookIf(Occurs(input, TextIn(n), i), i + Len(TextIn(n)), res)
        /\ res.ok => res.err.messages = << >>
  <2>1. IsText(n) => IsText(n.p) /\ n.p.op # "lazy" /\ TextIn(n) = TextIn(n.p)
    BY <1>1 DEF IsText, TextIn
  <2> QED
    BY <1>2, <2>1 DEF Shown, TextShown
<1>5. ASSUME Finish(res) PROVE AllFound'
  <2>1. Shown(input, lang, n, i, res)
    BY <1>3, <1>4
  <2> QED
    BY <1>2, <1>5, <2>1
<1>6. ASSUME FailedConsumed, NEW e, Finish(Err(FALSE, e)) PROVE AllFound'
  <2>1. ~(IsText(n) /\ IsString(TextIn(n)))
    BY <1>4, <1>6 DEF TookIf, FailedConsumed
  <2>2. Shown(input, lang, n, i, Err(FALSE, e))
    BY <1>3, <2>1
  <2> QED
    BY <1>2, <1>6, <2>2
<1> QED
  BY <1>5, <1>6 DEF ReturnToTryParse

(* The loops: over a character, and white space itself.                     *)
LEMMA ManyShown ==
  ASSUME NEW text, NEW l, NEW n, NEW i, NEW r, n.op = "many_accum",
         LoopShown(text, n, i, r), SpaceShown(text, l, n, i, r)
  PROVE  Shown(text, l, n, i, r)
<1>1. /\ InComment(l).op = "comment_rest" /\ Comment(l).op = "then"
      /\ Gap(l).op \in {"label", "choice"}
  BY CommentShapes, GapOp
<1> QED
  BY <1>1 DEF Shown, StretchShown, CharShown, LineShown, CommentShown, GapShown, TextShown,
     One, OneAndLoop, Scans, IsText, TextAndLoop, DropsRest

LEMMA SpaceMany ==
  ASSUME SpaceRun, ReturnToManyAccum, UNCHANGED goal
  PROVE  AllFound'
<1> DEFINE n == Top.node
           i == Top.entry.index
           here == Top.sofar.st.index
           next == NextToken(input, lang)
<1>1. n.op = "many_accum" /\ mode = "return" /\ stack # << >>
  BY DEF ReturnToManyAccum, ReturningTo
<1>2. /\ input \in Seq(Nat) /\ Len(input) \in Nat
      /\ Found(input, lang, Top) /\ Shown(input, lang, node, st.index, res)
      /\ Placed(input, st) /\ Placed(input, Top.entry)
      /\ WaitsFor(Top, node)
      /\ st = CalledOn(Top) /\ FrameOK(FALSE, input, Top)
      /\ IsOk(FALSE, input, res) \/ IsErr(res)
      /\ res.ok => Placed(input, res.st)
  BY <1>1, SpaceCaller
<1>3. /\ DOMAIN Top = {"node", "entry", "phase", "i", "sofar", "held"}
      /\ DOMAIN Top.sofar = {"ok", "consumed", "val", "st", "err"}
      /\ Top.sofar.ok /\ res.consumed \in BOOLEAN
      /\ st.index = here /\ here \in 0..Len(input) /\ i \in 0..Len(input)
  BY <1>1, <1>2 DEF FrameOK, IsOk, IsErr, CalledOn, ItemLoops, Placed
<1>4. n.p.op # "lazy" => Shown(input, lang, n.p, here, res)
  <2>1. PartOf(Top) = n.p
    BY <1>1 DEF PartOf, FirstPart
  <2> QED
    BY <1>1, <1>2, <1>3, <2>1 DEF WaitsFor, Followed
<1>5. Loop(n) => /\ TookIf(HasAt(input, CharsIn(n.p), here), here + 1, res)
                 /\ here \in i..Len(input)
                 /\ \A k \in i..(here - 1) : HasAt(input, CharsIn(n.p), k)
  <2>1. Loop(n) => One(n.p) /\ n.p.op # "lazy"
    BY DEF Loop, One
  <2> QED
    BY <1>2, <1>4, <2>1 DEF Shown, CharShown, Found
<1>6. n = white_space(lang) =>
        /\ next[here] = next[i]
        /\ \/ ~res.ok /\ ~res.consumed /\ next[here] = here
           \/ ~res.ok /\ res.consumed /\ PassesTo(input, next[here], res)
           \/ res.ok /\ res.consumed /\ next[res.st.index] = next[here]
  <2>1. n = white_space(lang) => n.p = Gap(lang) /\ n.p.op # "lazy"
    BY SpaceShapes, GapOp
  <2> QED
    BY <1>2, <1>4, <2>1 DEF Shown, GapShown, Found
<1>7. ASSUME NEW r, Finish(r), LoopShown(input, n, i, r), SpaceShown(input, lang, n, i, r)
      PROVE  AllFound'
  <2>1. Shown(input, lang, n, i, r)
    BY <1>1, <1>7, ManyShown
  <2> QED
    BY <1>1, <1>7, <2>1, FoundFinish DEF SpaceRun
<1>8. ASSUME FailedConsumed, Finish(res) PROVE AllFound'
  <2>1. LoopShown(input, n, i, res)
    BY <1>5, <1>8 DEF LoopShown, TookIf, FailedConsumed
  <2>2. SpaceShown(input, lang, n, i, res)
    BY <1>6, <1>8 DEF SpaceShown, FailedConsumed
  <2> QED
    BY <1>7, <1>8, <2>1, <2>2
<1>9. ASSUME FailedEmpty, NEW e, Finish([Top.sofar EXCEPT !.err = e]) PROVE AllFound'
  <2> DEFINE r == [Top.sofar EXCEPT !.err = e]
  <2>1. r.ok /\ r.st.index = here
    BY <1>3
  <2>2. Finish(r)
    BY <1>9
  <2> HIDE DEF r
  <2>3. LoopShown(input, n, i, r)
    <3> SUFFICES ASSUME Loop(n) PROVE here = StretchEnd(input, CharsIn(n.p), i)
      BY <2>1 DEF LoopShown
    <3>1. ~HasAt(input, CharsIn(n.p), here)
      BY <1>5, <1>9 DEF TookIf, FailedEmpty
    <3> QED
      BY <1>2, <1>3, <1>5, <3>1, StretchEndIs
  <2>4. SpaceShown(input, lang, n, i, r)
    <3>1. here # Unclosed(input)
      BY <1>2, <1>3 DEF Unclosed
    <3>2. n = white_space(lang) => next[i] = here
      BY <1>6, <1>9 DEF FailedEmpty
    <3> QED
      BY <2>1, <3>1, <3>2 DEF SpaceShown, PassesTo
  <2> QED
    BY <1>7, <2>2, <2>3, <2>4
<1>10. ASSUME res.ok, ~res.consumed, NEW r, Finish(r) PROVE AllFound'
  <2>1. ~Loop(n) /\ n # white_space(lang)
    BY <1>5, <1>6, <1>10 DEF TookIf
  <2>2. LoopShown(input, n, i, r) /\ SpaceShown(input, lang, n, i, r)
    BY <2>1 DEF LoopShown, SpaceShown
  <2> QED
    BY <1>7, <1>10, <2>2
<1>11. ASSUME res.ok, res.consumed, NEW v, NEW e, NEW part, NEW s,
              Resume([Top EXCEPT !.sofar = Ok(TRUE, v, res.st, e)], part, s)
       PROVE  AllFound'
  <2> DEFINE g == Ok(TRUE, v, res.st, e)
             f == [Top EXCEPT !.sofar = g]
  <2>1. f.node = n /\ f.entry.index = i /\ f.sofar.st = res.st
    BY <1>3 DEF Ok
  <2>2. Resume(f, part, s)
    BY <1>11
  <2> HIDE DEF f, g
  <2>3. Loop(n) => /\ res.st.index \in i..Len(input)
                   /\ \A k \in i..(res.st.index - 1) : HasAt(input, CharsIn(n.p), k)
    <3> SUFFICES ASSUME Loop(n)
                 PROVE  /\ res.st.index \in i..Len(input)
                        /\ \A k \in i..(res.st.index - 1) : HasAt(input, CharsIn(n.p), k)
      OBVIOUS
    <3>1. HasAt(input, CharsIn(n.p), here) /\ res.st.index = here + 1
      BY <1>5, <1>11 DEF TookIf
    <3>2. res.st.index \in 0..Len(input)
      BY <1>2, <1>11 DEF Placed
    <3>3. \A k \in i..((here + 1) - 1) : k \in i..(here - 1) \/ k = here
      BY <1>3, <1>5
    <3>4. \A k \in i..((here + 1) - 1) : HasAt(input, CharsIn(n.p), k)
      BY <1>5, <3>1, <3>3, Zenon
    <3>5. res.st.index \in i..Len(input)
      BY <1>3, <1>5, <3>1, <3>2
    <3> QED
      BY <3>1, <3>4, <3>5, Zenon
  <2>4. n = white_space(lang) => next[res.st.index] = next[i]
    BY <1>6, <1>11
  <2>5. Found(input, lang, f)
    <3>1. InComment(lang).op = "comment_rest"
      BY CommentShapes
    <3> QED
      BY <1>1, <2>1, <2>3, <2>4, <3>1 DEF Found
  <2> QED
    BY <1>1, <2>2, <2>5, FoundResume DEF SpaceRun
<1> QED
  BY <1>8, <1>9, <1>10, <1>11 DEF ReturnToManyAccum

(* The choice of what is not a token.                                       *)
LEMMA ChoiceShown ==
  ASSUME NEW text, NEW l, NEW n, NEW i, NEW r, n.op = "choice", GapShown(text, l, n, i, r)
  PROVE  Shown(text, l, n, i, r)
<1>1. /\ InComment(l).op = "comment_rest" /\ Comment(l).op = "then"
      /\ white_space(l).op = "many_accum"
  BY CommentShapes, SpaceShapes
<1> QED
  BY <1>1 DEF Shown, StretchShown, CharShown, LineShown, CommentShown, LoopShown, SpaceShown,
     TextShown, One, Loop, OneAndLoop, Scans, IsText, TextAndLoop, DropsRest

LEMMA AlternativeOp ==
  ASSUME NEW l, ~Plain(l), NEW k \in 1..Len(Gap(l).ps)
  PROVE  Gap(l).ps[k].op \in {"map", "then"}
<1> DEFINE ps == Gap(l).ps
           n == Len(ps)
<1>1. /\ n \in {2, 3} /\ ps[1] = skip_many1(space)
      /\ l.comment_line # << >> => ps[2] = line_comment(l.comment_line)
      /\ l.comment_start # << >> => ps[n] = Comment(l)
      /\ n = 3 <=> l.comment_line # << >> /\ l.comment_start # << >>
  BY SpaceShapes
<1>2. /\ skip_many1(space).op = "map" /\ line_comment(l.comment_line).op = "map"
      /\ Comment(l).op = "then"
  BY CharShapes, LoopShapes, LineShape, CommentShapes
<1> HIDE DEF ps, n
<1>3. k = 1 \/ (k = 2 /\ l.comment_line # << >>) \/ (k = n /\ l.comment_start # << >>)
  <2>1. k \in 1..n /\ (l.comment_line # << >> \/ l.comment_start # << >>)
    BY DEF n, ps, Plain
  <2>2. k = 1 \/ k = 2 \/ (k = 3 /\ n = 3)
    BY <1>1, <2>1
  <2> QED
    BY <1>1, <2>1, <2>2
<1>4. ps[k].op \in {"map", "then"}
  BY <1>1, <1>2, <1>3
<1> QED
  BY <1>4 DEF ps

(* What an alternative shows where those before it found nothing: what it   *)
(* took is a gap, or there is none for it.                                  *)
LEMMA AlternativeShows ==
  ASSUME NEW text \in Seq(Nat), NEW l, IsLanguage(l), ~Plain(l), NEW i \in 0..Len(text),
         NEW k \in 1..Len(Gap(l).ps),
         \A m \in 1..(k - 1) : Absent(text, l, Gap(l).ps[m], i),
         NEW r, Shown(text, l, Gap(l).ps[k], i, r)
  PROVE  LET next == NextToken(text, l)
         IN  \/ ~r.ok /\ ~r.consumed /\ Absent(text, l, Gap(l).ps[k], i)
             \/ ~r.ok /\ r.consumed /\ PassesTo(text, next[i], r)
             \/ r.ok /\ r.consumed /\ next[r.st.index] = next[i]
<1> DEFINE ps == Gap(l).ps
           p == ps[k]
           next == NextToken(text, l)
           a == skip_many1(space)
           b == line_comment(l.comment_line)
           c == Comment(l)
<1>1. /\ Len(ps) \in {2, 3} /\ ps[1] = a
      /\ l.comment_line # << >> => ps[2] = b
      /\ l.comment_start # << >> => ps[Len(ps)] = c
      /\ Len(ps) = 3 <=> l.comment_line # << >> /\ l.comment_start # << >>
  BY SpaceShapes
<1>2. /\ l.comment_start \in Seq(Nat) /\ l.comment_line \in Seq(Nat)
      /\ Len(text) \in Nat /\ i \in Nat /\ i \in 0..Unclosed(text)
      /\ Unclosed(text) = Len(text) + 1
  BY LenProperties DEF IsLanguage, Unclosed
<1>3. l.comment_line # << >> \/ l.comment_start # << >>
  BY DEF Plain
<1> HIDE DEF ps, next
<1>4. \/ k = 1 /\ p = a
      \/ k = 2 /\ p = b /\ l.comment_line # << >>
      \/ /\ k # 1 /\ p = c /\ l.comment_start # << >>
         /\ l.comment_line # << >> => k = 3 /\ ps[2] = b
  <2> HIDE DEF a, b, c
  <2> DEFINE n == Len(ps)
  <2>1. n \in {2, 3} /\ k \in 1..n
    BY <1>1 DEF ps
  <2> HIDE DEF n
  <2>2. k = 1 \/ k = 2 \/ (k = 3 /\ n = 3)
    BY <2>1
  <2>3. k = 2 /\ n = 2 => (l.comment_line # << >> \/ ps[2] = c) 
    BY <1>1, <1>3 DEF n
  <2> QED
    BY <1>1, <1>3, <2>1, <2>2, <2>3 DEF n
(* The alternatives before this one.                                        *)
<1>5. k # 1 => ~HasAt(text, WhiteChars, i)
  <2>1. k # 1 => 1 \in 1..(k - 1)
    BY <1>4
  <2>2. k # 1 => Absent(text, l, a, i)
    BY <1>1, <2>1 DEF ps
  <2> QED
    BY <2>2 DEF Absent
<1>6. k # 1 /\ p = c /\ ~(k = 2 /\ p = b /\ l.comment_line # << >>)
        => ~Occurs(text, l.comment_line, i)
  <2> SUFFICES ASSUME k # 1, p = c, ~(k = 2 /\ p = b /\ l.comment_line # << >>)
               PROVE  ~Occurs(text, l.comment_line, i)
    OBVIOUS
  <2>1. CASE l.comment_line = << >>
    BY <2>1 DEF Occurs
  <2>2. CASE l.comment_line # << >>
    <3>1. k = 3 /\ ps[2] = b /\ 2 \in 1..(k - 1)
      BY <1>4, <2>2
    <3>2. Absent(text, l, b, i)
      BY <3>1 DEF ps
    <3> QED
      BY <3>2 DEF Absent
  <2> QED
    BY <2>1, <2>2
(* The alternatives are three different parsers.                            *)
<1>7. /\ a.op = "map" /\ Scans(a) /\ a.p.p = space /\ a.p.q.p = space
      /\ b.op = "map" /\ DropsRest(b) /\ b.p.p.op = "try_parse"
      /\ TextIn(b.p.p) = l.comment_line /\ CharsIn(b.p.q.p) = AnyChar \ {NL}
      /\ c.op = "then"
      /\ space.op = "label" /\ CharsIn(space) = WhiteChars
  BY CharShapes, LoopShapes, LineShape, CommentShapes
<1>8. a # b /\ a # c /\ b # c
  BY <1>7
<1>9. next[GapEnd(text, l, i)] = next[i] /\ next[Unclosed(text)] = Unclosed(text)
  <2>1. Unclosed(text) \in 0..Unclosed(text)
    BY <1>2
  <2>2. next[Unclosed(text)] \in Unclosed(text)..Unclosed(text)
    BY <2>1, NextTokenSays DEF next
  <2>3. next[i] = IF GapEnd(text, l, i) = i THEN i ELSE next[GapEnd(text, l, i)]
    BY <1>2, NextTokenSays DEF next
  <2> QED
    BY <1>2, <2>2, <2>3
<1>10. Shown(text, l, p, i, r)
  BY DEF ps
<1> HIDE DEF p
<1> SUFFICES \/ ~r.ok /\ ~r.consumed /\ Absent(text, l, p, i)
             \/ ~r.ok /\ r.consumed /\ PassesTo(text, next[i], r)
             \/ r.ok /\ r.consumed /\ next[r.st.index] = next[i]
  BY DEF p, ps, next
<1>11. CASE k = 1 /\ p = a
  <2>1. TookIf(HasAt(text, WhiteChars, i), StretchEnd(text, WhiteChars, i + 1), r)
    BY <1>7, <1>10, <1>11 DEF Shown, StretchShown
  <2>2. HasAt(text, WhiteChars, i) =>
          next[StretchEnd(text, WhiteChars, i + 1)] = next[i]
    BY <1>2, BlanksPass DEF next
  <2>3. ~HasAt(text, WhiteChars, i) => Absent(text, l, p, i)
    BY <1>8, <1>11 DEF Absent
  <2> HIDE DEF a, b, c
  <2> QED
    BY <1>7, <1>11, <2>1, <2>2, <2>3 DEF TookIf
<1>12. CASE k = 2 /\ p = b /\ l.comment_line # << >>
  <2> DEFINE j == StretchEnd(text, AnyChar \ {NL}, i + Len(l.comment_line))
  <2>1. TookIf(Occurs(text, l.comment_line, i), j, r)
    BY <1>2, <1>7, <1>10, <1>12 DEF Shown, LineShown, IsString
  <2>2. Occurs(text, l.comment_line, i) => GapEnd(text, l, i) = j
    BY <1>5, <1>12 DEF GapEnd
  <2>3. ~Occurs(text, l.comment_line, i) => Absent(text, l, p, i)
    BY <1>8, <1>12 DEF Absent
  <2> HIDE DEF a, b, c, j
  <2> QED
    BY <1>7, <1>9, <1>12, <2>1, <2>2, <2>3 DEF TookIf
<1>13. CASE /\ k # 1 /\ p = c /\ l.comment_start # << >>
            /\ l.comment_line # << >> => k = 3 /\ ps[2] = b
  <2> DEFINE j == CommentEnd(text, l)[i + Len(l.comment_start)]
  <2>1. IF Occurs(text, l.comment_start, i) THEN r.consumed /\ PassesTo(text, j, r)
        ELSE ~r.ok /\ ~r.consumed
    BY <1>10, <1>13 DEF Shown, CommentShown
  <2>2. Occurs(text, l.comment_start, i) => GapEnd(text, l, i) = j
    BY <1>5, <1>6, <1>13 DEF GapEnd
  <2>3. ~Occurs(text, l.comment_start, i) => Absent(text, l, p, i)
    BY <1>8, <1>13 DEF Absent
  <2>4. Occurs(text, l.comment_start, i) =>
          \/ ~r.ok /\ r.consumed /\ PassesTo(text, next[i], r)
          \/ r.ok /\ r.consumed /\ next[r.st.index] = next[i]
    <3> HIDE DEF a, b, c, j
    <3> QED
      BY <1>9, <2>1, <2>2 DEF PassesTo
  <2> HIDE DEF a, b, c, j
  <2> QED
    BY <1>7, <1>13, <2>1, <2>3, <2>4
<1> QED
  BY <1>4, <1>11, <1>12, <1>13

(* Where none of them finds anything the next token starts.                 *)
LEMMA NoGap ==
  ASSUME NEW text \in Seq(Nat), NEW l, IsLanguage(l), ~Plain(l), NEW i \in 0..Len(text),
         \A k \in 1..Len(Gap(l).ps) : Absent(text, l, Gap(l).ps[k], i)
  PROVE  NextToken(text, l)[i] = i
<1> DEFINE ps == Gap(l).ps
           n == Len(ps)
<1>1. /\ n \in {2, 3} /\ ps[1] = skip_many1(space)
      /\ l.comment_line # << >> => ps[2] = line_comment(l.comment_line)
      /\ l.comment_start # << >> => ps[n] = Comment(l)
  BY SpaceShapes
<1> HIDE DEF n
<1>2. 1 \in 1..n /\ 2 \in 1..n /\ n \in 1..n
  BY <1>1
<1>3. /\ Absent(text, l, ps[1], i) /\ Absent(text, l, ps[2], i) /\ Absent(text, l, ps[n], i)
  BY <1>2 DEF n
<1> HIDE DEF ps
<1>4. ~HasAt(text, WhiteChars, i)
  BY <1>1, <1>3 DEF Absent
<1>5. ~Occurs(text, l.comment_line, i)
  BY <1>1, <1>3 DEF Absent, Occurs
<1>6. ~Occurs(text, l.comment_start, i)
  BY <1>1, <1>3 DEF Absent, Occurs
<1>7. GapEnd(text, l, i) = i
  BY <1>4, <1>5, <1>6 DEF GapEnd
<1>8. i \in 0..Unclosed(text)
  BY LenProperties DEF Unclosed
<1> QED
  BY <1>7, <1>8, NextTokenSays

LEMMA SpaceChoice ==
  ASSUME SpaceRun, ReturnToChoice, UNCHANGED goal
  PROVE  AllFound'
<1> DEFINE n == Top.node
           i == Top.entry.index
           next == NextToken(input, lang)
<1>1. n.op = "choice" /\ mode = "return" /\ stack # << >>
  BY DEF ReturnToChoice, ReturningTo
<1>2. /\ input \in Seq(Nat) /\ Len(input) \in Nat
      /\ Found(input, lang, Top) /\ Shown(input, lang, node, st.index, res)
      /\ Placed(input, Top.entry) /\ WaitsFor(Top, node)
      /\ st = CalledOn(Top) /\ FrameOK(FALSE, input, Top)
      /\ IsOk(FALSE, input, res) \/ IsErr(res)
  BY <1>1, SpaceCaller
<1>3. /\ DOMAIN Top = {"node", "entry", "phase", "i", "sofar", "held"}
      /\ DOMAIN Top.sofar = {"ok", "consumed", "val", "st", "err"}
      /\ st = Top.entry /\ i \in 0..Len(input)
  BY <1>1, <1>2 DEF FrameOK, IsOk, CalledOn, ItemLoops, AtEntry, Stays, Placed
<1>4. n.ps[Top.i].op # "lazy" => Shown(input, lang, n.ps[Top.i], i, res)
  <2>1. PartOf(Top) = n.ps[Top.i]
    BY <1>1 DEF PartOf
  <2> QED
    BY <1>1, <1>2, <1>3, <2>1 DEF WaitsFor, Followed
<1>5. n = Gap(lang) => /\ ~Plain(lang) /\ IsLanguage(lang) /\ Len(n.ps) \in Nat
                       /\ Top.i \in 1..Len(n.ps)
                       /\ \A k \in 1..(Top.i - 1) : Absent(input, lang, n.ps[k], i)
  <2>1. Plain(lang) => Gap(lang).op = "label"
    BY SpaceShapes, CharShapes
  <2>2. n = Gap(lang) => ~Plain(lang) /\ Len(n.ps) \in {2, 3}
    BY <1>1, <2>1, SpaceShapes
  <2> QED
    BY <1>1, <1>2, <2>2 DEF Found, SpaceRun
<1>6. n = Gap(lang) =>
        \/ ~res.ok /\ ~res.consumed /\ Absent(input, lang, n.ps[Top.i], i)
        \/ ~res.ok /\ res.consumed /\ PassesTo(input, next[i], res)
        \/ res.ok /\ res.consumed /\ next[res.st.index] = next[i]
  <2> SUFFICES ASSUME n = Gap(lang)
               PROVE  \/ ~res.ok /\ ~res.consumed /\ Absent(input, lang, n.ps[Top.i], i)
                      \/ ~res.ok /\ res.consumed /\ PassesTo(input, next[i], res)
                      \/ res.ok /\ res.consumed /\ next[res.st.index] = next[i]
    OBVIOUS
  <2> DEFINE k == Top.i
  <2>1. /\ k \in 1..Len(Gap(lang).ps) /\ ~Plain(lang) /\ IsLanguage(lang)
        /\ \A m \in 1..(k - 1) : Absent(input, lang, Gap(lang).ps[m], i)
    BY <1>5
  <2>2. Gap(lang).ps[k].op # "lazy"
    BY <2>1, AlternativeOp
  <2>3. Shown(input, lang, Gap(lang).ps[k], i, res)
    BY <1>4, <2>2
  <2> HIDE DEF k, i
  <2>4. \/ ~res.ok /\ ~res.consumed /\ Absent(input, lang, Gap(lang).ps[k], i)
        \/ ~res.ok /\ res.consumed /\ PassesTo(input, next[i], res)
        \/ res.ok /\ res.consumed /\ next[res.st.index] = next[i]
    BY <1>2, <1>3, <2>1, <2>3, AlternativeShows
  <2> QED
    BY <2>4 DEF k
<1>7. ASSUME NEW r, Finish(r), GapShown(input, lang, n, i, r) PROVE AllFound'
  <2>1. Shown(input, lang, n, i, r)
    BY <1>1, <1>7, ChoiceShown
  <2> QED
    BY <1>1, <1>7, <2>1, FoundFinish DEF SpaceRun
<1>8. ASSUME res.ok, NEW e, Finish([res EXCEPT !.err = e]) PROVE AllFound'
  <2> DEFINE r == [res EXCEPT !.err = e]
  <2>1. r.ok /\ r.consumed = res.consumed /\ r.st = res.st
    BY <1>2, <1>8 DEF IsOk, IsErr
  <2>2. Finish(r)
    BY <1>8
  <2> HIDE DEF r
  <2>3. GapShown(input, lang, n, i, r)
    BY <1>6, <1>8, <2>1 DEF GapShown
  <2> QED
    BY <1>7, <2>2, <2>3
<1>9. ASSUME FailedConsumed, Finish(res) PROVE AllFound'
  <2>1. GapShown(input, lang, n, i, res)
    BY <1>6, <1>9 DEF GapShown, FailedConsumed
  <2> QED
    BY <1>7, <1>9, <2>1
<1>10. FailedEmpty /\ n = Gap(lang) => Absent(input, lang, n.ps[Top.i], i)
  BY <1>6 DEF FailedEmpty
<1>11. FailedEmpty /\ n = Gap(lang) =>
         \A k \in 1..Top.i : Absent(input, lang, n.ps[k], i)
  <2> SUFFICES ASSUME FailedEmpty, n = Gap(lang), NEW k \in 1..Top.i
               PROVE  Absent(input, lang, n.ps[k], i)
    OBVIOUS
  <2>1. k = Top.i \/ k \in 1..(Top.i - 1)
    BY <1>5
  <2> QED
    BY <1>5, <1>10, <2>1
<1>12. ASSUME FailedEmpty, Top.i = Len(n.ps), NEW e, Finish(Err(FALSE, e)) PROVE AllFound'
  <2>1. ~Err(FALSE, e).ok /\ ~Err(FALSE, e).consumed
    BY DEF Err
  <2>2. n = Gap(lang) => next[i] = i
    BY <1>2, <1>3, <1>5, <1>11, <1>12, NoGap
  <2>3. GapShown(input, lang, n, i, Err(FALSE, e))
    BY <2>1, <2>2 DEF GapShown
  <2> QED
    BY <1>7, <1>12, <2>3
<1>13. ASSUME FailedEmpty, Top.i < Len(n.ps), NEW e, NEW part, NEW s,
              Resume([Top EXCEPT !.i = @ + 1, !.sofar.err = e], part, s)
       PROVE  AllFound'
  <2> DEFINE f == [Top EXCEPT !.i = @ + 1, !.sofar.err = e]
  <2>1. f.node = n /\ f.entry = Top.entry /\ f.i = Top.i + 1
    BY <1>3
  <2>2. Resume(f, part, s)
    BY <1>13
  <2> HIDE DEF f
  <2>3. Found(input, lang, f)
    <3>1. InComment(lang).op = "comment_rest" /\ white_space(lang).op = "many_accum"
      BY CommentShapes, SpaceShapes
    <3>2. n = Gap(lang) => /\ Top.i + 1 \in 1..Len(n.ps) /\ (Top.i + 1) - 1 = Top.i
      BY <1>5, <1>13
    <3> QED
      BY <1>1, <1>11, <1>13, <2>1, <3>1, <3>2 DEF Found, Loop
  <2> QED
    BY <1>1, <2>2, <2>3, FoundResume DEF SpaceRun
<1> QED
  BY <1>8, <1>9, <1>12, <1>13 DEF ReturnToChoice

(* The text of a comment.                                                   *)
LEMMA CommentStep ==
  ASSUME NEW text \in Seq(Nat), NEW l, IsLanguage(l), l.comment_start # << >>,
         NEW f, CommentFound(text, l, f), f.node = InComment(l),
         f.sofar.st.index \in 0..Len(text),
         NEW r, Shown(text, l, PartOf(f), f.sofar.st.index, r)
  PROVE  LET here == f.sofar.st.index
             phase == f.phase
             e == CommentEnd(text, l)
         IN  /\ ~r.ok /\ phase = "first" => ~Occurs(text, l.comment_end, here)
             /\ ~r.ok /\ phase = "start" => ~Occurs(text, l.comment_start, here)
             /\ r.ok /\ phase = "first" => e[here] = r.st.index
             /\ r.ok /\ phase = "start" =>
                  /\ r.st.index \in 0..Unclosed(text)
                  /\ e[here] = e[e[r.st.index]] /\ e[r.st.index] \in 0..Unclosed(text)
             /\ r.ok /\ phase \in {"skip", "marker"} =>
                  /\ r.st.index \in 0..Unclosed(text)
                  /\ e[here] = e[r.st.index]
<1> DEFINE here == f.sofar.st.index
           e == CommentEnd(text, l)
           n == f.node
           S == AnyChar \ Marks(l)
<1>1. /\ Len(text) \in Nat /\ Unclosed(text) = Len(text) + 1 /\ here \in Nat
      /\ here \in 0..Unclosed(text)
      /\ l.comment_end \in Seq(Nat) /\ l.comment_start \in Seq(Nat)
      /\ IsString(l.comment_end) /\ IsString(l.comment_start)
      /\ l.nested_comments \in BOOLEAN
  BY LenProperties DEF IsLanguage, Constructible, Unclosed, IsString
<1>2. /\ n.op = "comment_rest"
      /\ IsText(n.start_p) /\ TextIn(n.start_p) = l.comment_start
      /\ IsText(n.end_p) /\ TextIn(n.end_p) = l.comment_end
      /\ Scans(n.scan_non_markers)
      /\ CharsIn(n.scan_non_markers.p.p) = S /\ CharsIn(n.scan_non_markers.p.q.p) = S
      /\ One(n.scan_one_marker)
      /\ CharsIn(n.scan_one_marker) = AnyChar \cap Marks(l)
  BY CommentShapes
<1>3. PartOf(f) = CASE f.phase = "first"  -> n.end_p
                    [] f.phase = "start"  -> n.start_p
                    [] f.phase = "skip"   -> n.scan_non_markers
                    [] f.phase = "marker" -> n.scan_one_marker
  <2>1. FirstPart(n) = n.end_p
    BY <1>2 DEF FirstPart
  <2>2. f.phase \in {"first", "start", "skip", "marker"}
    BY DEF CommentFound
  <2> QED
    BY <1>2, <2>1, <2>2 DEF PartOf
<1>4. e[here] = IF here >= Len(text) THEN Unclosed(text)
                ELSE IF Occurs(text, l.comment_end, here) THEN here + Len(l.comment_end)
                ELSE IF l.nested_comments /\ Occurs(text, l.comment_start, here)
                     THEN e[e[here + Len(l.comment_start)]]
                ELSE e[here + 1]
  BY <1>1, CommentEndSays, Zenon
<1>5. CASE f.phase = "first"
  <2>1. TookIf(Occurs(text, l.comment_end, here), here + Len(l.comment_end), r)
    BY <1>1, <1>2, <1>3, <1>5 DEF Shown, TextShown
  <2>2. Occurs(text, l.comment_end, here) => ~(here >= Len(text))
    BY <1>1, OccursInside
  <2> HIDE DEF e, here
  <2> QED
    BY <1>4, <1>5, <2>1, <2>2 DEF TookIf, e, here
<1>6. CASE f.phase = "start"
  <2>1. TookIf(Occurs(text, l.comment_start, here), here + Len(l.comment_start), r)
    BY <1>1, <1>2, <1>3, <1>6 DEF Shown, TextShown
  <2>2. l.nested_comments /\ ~Occurs(text, l.comment_end, here)
    BY <1>6 DEF CommentFound
  <2>3. Occurs(text, l.comment_start, here) =>
          /\ ~(here >= Len(text))
          /\ here + Len(l.comment_start) \in 0..Unclosed(text)
    <3> DEFINE h == here
               j == h + Len(l.comment_start)
    <3> SUFFICES ASSUME Occurs(text, l.comment_start, h)
                 PROVE  ~(h >= Len(text)) /\ j \in 0..Unclosed(text)
      OBVIOUS
    <3>1. h \in Nat /\ h \in 0..Unclosed(text)
      BY <1>1
    <3> HIDE DEF here, h
    <3>2. h < Len(text) /\ j \in (h + 1)..Len(text)
      BY <1>1, <3>1, OccursInside
    <3> HIDE DEF j
    <3> QED
      BY <1>1, <3>1, <3>2
  <2>4. r.ok => Occurs(text, l.comment_start, here)
                /\ r.st.index = here + Len(l.comment_start)
    BY <2>1 DEF TookIf
  <2>5. r.ok => r.st.index \in 0..Unclosed(text) /\ e[here] = e[e[r.st.index]]
    BY <1>4, <2>2, <2>3, <2>4
  <2>6. r.ok => e[r.st.index] \in 0..Unclosed(text)
    <3>1. r.ok => e[r.st.index] \in r.st.index..Unclosed(text)
      BY <2>5, CommentEndSays
    <3> HIDE DEF e
    <3> QED
      BY <1>1, <2>5, <3>1
  <2> QED
    BY <1>6, <2>1, <2>5, <2>6 DEF TookIf
<1>7. CASE f.phase = "skip"
  <2>1. TookIf(HasAt(text, S, here), StretchEnd(text, S, here + 1), r)
    BY <1>2, <1>3, <1>7 DEF Shown, StretchShown
  <2>2. HasAt(text, S, here) => /\ StretchEnd(text, S, here + 1) \in 0..Len(text)
                                /\ e[here] = e[StretchEnd(text, S, here + 1)]
    BY <1>1, CommentSkips
  <2>3. \A j \in 0..Len(text) : j \in 0..Unclosed(text)
    BY <1>1
  <2> HIDE DEF e, here, S
  <2> QED
    BY <1>7, <2>1, <2>2, <2>3 DEF TookIf, e, here
<1>8. CASE f.phase = "marker"
  <2>1. TookIf(HasAt(text, AnyChar \cap Marks(l), here), here + 1, r)
    BY <1>2, <1>3, <1>8 DEF Shown, CharShown
  <2>2. /\ here < Len(text) /\ ~Occurs(text, l.comment_end, here)
        /\ l.nested_comments => ~Occurs(text, l.comment_start, here)
    BY <1>8 DEF CommentFound
  <2>3. e[here] = e[here + 1]
    BY <1>1, <2>2, CommentGoesOn
  <2>4. here + 1 \in 0..Unclosed(text)
    BY <1>1, <2>2
  <2> HIDE DEF e, here
  <2> QED
    BY <1>8, <2>1, <2>3, <2>4 DEF TookIf, e, here
<1> QED
  BY <1>5, <1>6, <1>7, <1>8 DEF CommentFound

LEMMA SpaceComment ==
  ASSUME SpaceRun, ReturnToCommentRest, UNCHANGED goal
  PROVE  AllFound'
<1> DEFINE n == Top.node
           i == Top.entry.index
           here == Top.sofar.st.index
           e == CommentEnd(input, lang)
           Ours == lang.comment_start # << >> /\ n = InComment(lang)
<1>1. n.op = "comment_rest" /\ mode = "return" /\ stack # << >>
  BY DEF ReturnToCommentRest, ReturningTo
<1>2. /\ input \in Seq(Nat) /\ Len(input) \in Nat
      /\ Found(input, lang, Top) /\ Shown(input, lang, node, st.index, res)
      /\ Placed(input, Top.sofar.st) /\ WaitsFor(Top, node)
      /\ res.ok => Placed(input, res.st)
      /\ st = CalledOn(Top) /\ FrameOK(FALSE, input, Top)
      /\ IsLanguage(lang)
  BY <1>1, SpaceCaller DEF SpaceRun
<1>3. /\ DOMAIN Top = {"node", "entry", "phase", "i", "sofar", "held"}
      /\ st.index = here /\ here \in 0..Len(input)
      /\ Top.sofar.st.pos = PosAt(input, here)
  BY <1>1, <1>2 DEF FrameOK, CalledOn, ItemLoops, Placed
<1>4. ASSUME NEW r, Finish(r), Ours => PassesTo(input, e[i], r) PROVE AllFound'
  <2>1. /\ Comment(lang).op = "then" /\ white_space(lang).op = "many_accum"
        /\ Gap(lang).op \in {"label", "choice"}
    BY CommentShapes, SpaceShapes, GapOp
  <2>2. Shown(input, lang, n, i, r)
    BY <1>1, <1>4, <2>1 DEF Shown, StretchShown, CharShown, LineShown, CommentShown,
       LoopShown, GapShown, SpaceShown, TextShown, One, Loop, OneAndLoop, Scans, IsText,
       TextAndLoop, DropsRest
  <2> QED
    BY <1>1, <1>4, <2>2, FoundFinish DEF SpaceRun
<1>5. ASSUME NEW f, NEW part, NEW s, Resume(f, part, s), f.node = n, f.entry = Top.entry,
             Ours => CommentFound(input, lang, f)
      PROVE  AllFound'
  <2>1. white_space(lang).op = "many_accum"
    BY SpaceShapes
  <2>2. Found(input, lang, f)
    BY <1>1, <1>5, <2>1 DEF Found, Loop
  <2> QED
    BY <1>1, <1>5, <2>2, FoundResume DEF SpaceRun
<1>6. Ours => /\ CommentFound(input, lang, Top) /\ n.nested = lang.nested_comments
              /\ Top.i \in Nat \ {0}
              /\ Top.phase \in {"first", "start", "skip", "marker"}
              /\ Nested(input, lang, i, here, Top.i)
  BY <1>2, CommentShapes DEF Found, CommentFound
<1>7. Ours => Shown(input, lang, PartOf(Top), here, res)
  <2> SUFFICES ASSUME Ours PROVE PartOf(Top).op # "lazy"
    BY <1>1, <1>2, <1>3 DEF WaitsFor, Followed
  <2>1. FirstPart(n) = n.end_p
    BY <1>1 DEF FirstPart
  <2>2. /\ n.end_p.op # "lazy" /\ n.start_p.op # "lazy" /\ n.scan_non_markers.op # "lazy"
        /\ n.scan_one_marker.op # "lazy"
    BY CommentShapes
  <2> QED
    BY <1>1, <2>1, <2>2 DEF PartOf
<1>8. Ours => /\ ~res.ok /\ Top.phase = "first" => ~Occurs(input, lang.comment_end, here)
              /\ ~res.ok /\ Top.phase = "start" => ~Occurs(input, lang.comment_start, here)
              /\ res.ok /\ Top.phase = "first" => e[here] = res.st.index
              /\ res.ok /\ Top.phase = "start" =>
                   /\ res.st.index \in 0..Unclosed(input)
                   /\ e[here] = e[e[res.st.index]]
                   /\ e[res.st.index] \in 0..Unclosed(input)
              /\ res.ok /\ Top.phase \in {"skip", "marker"} =>
                   /\ res.st.index \in 0..Unclosed(input)
                   /\ e[here] = e[res.st.index]
  <2>1. /\ Ours => lang.comment_start # << >> /\ n = InComment(lang)
        /\ Ours => CommentFound(input, lang, Top)
        /\ Ours => Shown(input, lang, PartOf(Top), here, res)
        /\ here \in 0..Len(input)
    BY <1>3, <1>6, <1>7
  <2> HIDE DEF Ours
  <2> QED
    BY <1>2, <2>1, CommentStep
<1> DEFINE moved == Ok(Top.sofar.consumed \/ res.consumed, << >>, res.st,
                       unknown(res.st.pos))
<1>9. moved.ok /\ moved.st = res.st
  BY DEF Ok
<1> HIDE DEF moved
<1>10. ASSUME res.ok, Nesting = 0, Finish(moved) PROVE AllFound'
  <2> SUFFICES ASSUME Ours PROVE PassesTo(input, e[i], moved)
    BY <1>4, <1>10
  <2>1. Top.phase = "first" /\ Top.i = 1
    BY <1>6, <1>10 DEF Nesting
  <2>2. e[i] = res.st.index
    BY <1>2, <1>6, <1>8, <1>10, <2>1, NestedLess
  <2>3. res.st.index # Unclosed(input)
    BY <1>2, <1>10 DEF Placed, Unclosed
  <2> QED
    BY <1>9, <2>2, <2>3 DEF PassesTo
<1>11. ASSUME res.ok, Nesting > 0, NEW part, NEW s,
              Resume([Top EXCEPT !.phase = "first", !.i = Nesting, !.sofar = moved], part, s)
       PROVE  AllFound'
  <2> DEFINE f == [Top EXCEPT !.phase = "first", !.i = Nesting, !.sofar = moved]
  <2>1. f.node = n /\ f.entry = Top.entry /\ f.phase = "first" /\ f.i = Nesting
        /\ f.sofar = moved
    BY <1>3
  <2>2. Resume(f, part, s)
    BY <1>11
  <2> HIDE DEF f
  <2> SUFFICES ASSUME Ours PROVE CommentFound(input, lang, f)
    BY <1>5, <2>1, <2>2
  <2>3. Nesting \in Nat \ {0} /\ Nested(input, lang, i, res.st.index, Nesting)
    <3>1. CASE Top.phase = "first"
      <4>1. Nesting = Top.i - 1
        BY <3>1 DEF Nesting
      <4>2. Top.i # 1 /\ Nesting \in Nat \ {0}
        BY <1>6, <1>11, <4>1
      <4>3. Nested(input, lang, i, e[here], Top.i - 1)
        BY <1>2, <1>6, <4>2, NestedLess
      <4> QED
        BY <1>8, <1>11, <3>1, <4>1, <4>2, <4>3
    <3>2. CASE Top.phase = "start"
      <4>1. Nesting = Top.i + 1 /\ Nesting \in Nat \ {0}
        BY <1>6, <3>2 DEF Nesting
      <4> DEFINE j == res.st.index
      <4>2. j \in 0..Unclosed(input) /\ e[here] = e[e[j]] /\ e[j] \in 0..Unclosed(input)
        BY <1>8, <1>11, <3>2
      <4> HIDE DEF j, i, here
      <4>3. Nested(input, lang, i, j, Top.i + 1)
        BY <1>2, <1>6, <4>2, NestedDeeper
      <4> QED
        BY <4>1, <4>3 DEF j
    <3>3. CASE Top.phase \in {"skip", "marker"}
      <4>1. Nesting = Top.i
        BY <3>3 DEF Nesting
      <4> DEFINE j == res.st.index
      <4>2. j \in 0..Unclosed(input) /\ e[here] = e[j]
        BY <1>8, <1>11, <3>3
      <4> HIDE DEF j, i, here
      <4>3. Nested(input, lang, i, j, Top.i)
        BY <1>2, <1>6, <4>2, NestedOn
      <4> QED
        BY <1>6, <4>1, <4>3 DEF j
    <3> QED
      BY <1>6, <3>1, <3>2, <3>3
  <2> QED
    BY <1>9, <2>1, <2>3 DEF CommentFound
<1>12. ASSUME NEW phase \in {"start", "skip", "marker"}, NEW part, ScanOn(phase, part),
              Ours => /\ ~Occurs(input, lang.comment_end, here)
                      /\ phase = "start" => lang.nested_comments
                      /\ phase # "start" =>
                           /\ here < Len(input)
                           /\ lang.nested_comments =>
                                ~Occurs(input, lang.comment_start, here)
       PROVE  AllFound'
  <2> DEFINE f == [Top EXCEPT !.phase = phase]
  <2>1. f.node = n /\ f.entry = Top.entry /\ f.phase = phase /\ f.i = Top.i
        /\ f.sofar = Top.sofar
    BY <1>3
  <2>2. Resume(f, part, Top.sofar.st)
    BY <1>12 DEF ScanOn
  <2> HIDE DEF f
  <2>3. Ours => CommentFound(input, lang, f)
    BY <1>6, <1>12, <2>1 DEF CommentFound
  <2> QED
    BY <1>5, <2>1, <2>2, <2>3
<1>13. ASSUME SkipInComment,
              Ours => /\ ~Occurs(input, lang.comment_end, here)
                      /\ lang.nested_comments => ~Occurs(input, lang.comment_start, here)
       PROVE  AllFound'
  <2>1. ASSUME here >= Len(input), NEW c,
               Finish(Err(c, with_message(Top.sofar.st.pos, UnExpect, TextEndInComment)))
        PROVE  AllFound'
    <3> DEFINE r == Err(c, with_message(Top.sofar.st.pos, UnExpect, TextEndInComment))
    <3>1. here = Len(input)
      BY <1>2, <1>3, <2>1
    <3>2. ~r.ok /\ r.err = with_message(PosAt(input, Len(input)), UnExpect, TextEndInComment)
      BY <1>3, <3>1 DEF Err
    <3>3. Finish(r)
      BY <2>1
    <3> HIDE DEF r
    <3>4. Ours => e[i] = Unclosed(input)
      BY <1>2, <1>6, <3>1, NestedUnclosed
    <3>5. Ours => PassesTo(input, e[i], r)
      BY <3>2, <3>4 DEF PassesTo
    <3> QED
      BY <1>4, <3>3, <3>5
  <2>2. ASSUME here < Len(input), NEW part, ScanOn("skip", part) PROVE AllFound'
    BY <1>12, <1>13, <2>2
  <2> QED
    BY <1>13, <2>1, <2>2 DEF SkipInComment
<1>14. ASSUME ~res.ok, Top.phase = "first", n.nested, NEW part, ScanOn("start", part)
       PROVE  AllFound'
  BY <1>6, <1>8, <1>12, <1>14
<1>15. ASSUME ~res.ok, Top.phase = "first", ~n.nested, SkipInComment PROVE AllFound'
  BY <1>6, <1>8, <1>13, <1>15
<1>16. ASSUME ~res.ok, Top.phase = "start", SkipInComment PROVE AllFound'
  <2>1. Ours => ~Occurs(input, lang.comment_end, here)
    BY <1>6, <1>16 DEF CommentFound
  <2> QED
    BY <1>8, <1>13, <1>16, <2>1
<1>17. ASSUME ~res.ok, Top.phase = "skip", NEW part, ScanOn("marker", part)
       PROVE  AllFound'
  <2>1. Ours => /\ ~Occurs(input, lang.comment_end, here) /\ here < Len(input)
                /\ lang.nested_comments => ~Occurs(input, lang.comment_start, here)
    BY <1>6, <1>17 DEF CommentFound
  <2> QED
    BY <1>12, <1>17, <2>1
<1> QED
  BY <1>10, <1>11, <1>14, <1>15, <1>16, <1>17 DEF ReturnToCommentRest, moved

(* The callers that nothing is said of.                                     *)
OthersReturn ==
  \/ ReturnToBind \/ ReturnToSkip \/ ReturnToAlt \/ ReturnToLookAhead \/ ReturnToCount
  \/ ReturnToSepEndBy1 \/ ReturnToChainl1 \/ ReturnToScanOpChain
  \/ ReturnToNotFollowedBy \/ ReturnToManyTill

LEMMA SpaceOthers ==
  ASSUME SpaceRun, OthersReturn, UNCHANGED goal
  PROVE  AllFound'
<1>1. Top.node.op \notin SpokenOf /\ mode = "return" /\ stack # << >>
  BY DEF OthersReturn, ReturnToBind, ReturnToSkip, ReturnToAlt, ReturnToLookAhead,
     ReturnToCount, ReturnToSepEndBy1, ReturnToChainl1, ReturnToScanOpChain,
     ReturnToNotFollowedBy, ReturnToManyTill, ReturningTo, SpokenOf
<1>2. DOMAIN Top = {"node", "entry", "phase", "i", "sofar", "held"}
  BY <1>1, SpaceCaller DEF FrameOK
<1>3. ASSUME NEW r, Finish(r) PROVE AllFound'
  BY <1>1, <1>3, NothingShown, FoundFinish DEF SpaceRun
<1>4. ASSUME NEW f, NEW part, NEW s, Resume(f, part, s), f.node = Top.node PROVE AllFound'
  <2>1. Found(input, lang, f)
    BY <1>1, <1>4, NothingFound DEF SpokenOf
  <2> QED
    BY <1>1, <1>4, <2>1, FoundResume DEF SpaceRun
<1>5. ASSUME NEW phase, NEW g, NEW part, NEW s,
             Resume([Top EXCEPT !.phase = phase, !.sofar = g], part, s)
      PROVE  AllFound'
  BY <1>2, <1>4, <1>5
<1>6. ASSUME NEW phase, NEW e, NEW part, NEW s,
             Resume([Top EXCEPT !.phase = phase, !.sofar.err = e], part, s)
      PROVE  AllFound'
  BY <1>2, <1>4, <1>6
<1>7. ASSUME NEW i, NEW g, NEW part, NEW s,
             Resume([Top EXCEPT !.i = i, !.sofar = g], part, s)
      PROVE  AllFound'
  BY <1>2, <1>4, <1>7
<1>8. ASSUME NEW phase, NEW g, NEW part, NEW s,
             Resume([Top EXCEPT !.phase = phase, !.held = g], part, s)
      PROVE  AllFound'
  BY <1>2, <1>4, <1>8
<1> DEFINE Goal == AllFound'
<1> HIDE DEF Goal
<1> SUFFICES Goal
  BY DEF Goal
<1>9. CASE ReturnToBind \/ ReturnToSkip
  BY <1>3, <1>5, <1>9 DEF ReturnToBind, ReturnToSkip, SequenceOn, SequenceEnd, Goal
<1>10. CASE ReturnToAlt
  BY <1>3, <1>6, <1>10 DEF ReturnToAlt, Goal
<1>11. CASE ReturnToLookAhead \/ ReturnToNotFollowedBy
  BY <1>3, <1>11 DEF ReturnToLookAhead, ReturnToNotFollowedBy, Goal
<1>12. CASE ReturnToCount
  BY <1>3, <1>7, <1>12 DEF ReturnToCount, Goal
<1>13. CASE ReturnToSepEndBy1 \/ ReturnToChainl1 \/ ReturnToScanOpChain
  <2>1. ASSUME NEW separator, NEW seed, FirstItem(separator, seed) PROVE Goal
    BY <1>3, <1>5, <2>1 DEF FirstItem, Goal
  <2>2. Separator => Goal
    BY <1>3, <1>8 DEF Separator, Goal
  <2>3. ASSUME NEW separator, NEW acc, NextItem(separator, acc) PROVE Goal
    BY <1>5, <2>3 DEF NextItem, Goal
  <2>4. MissingOperand \/ NoMoreItems => Goal
    BY <1>3 DEF MissingOperand, NoMoreItems, Goal
  <2> QED
    BY <1>13, <2>1, <2>2, <2>3, <2>4
       DEF ReturnToSepEndBy1, ReturnToChainl1, ReturnToScanOpChain
<1>14. CASE ReturnToManyTill
  BY <1>3, <1>5, <1>6, <1>14 DEF ReturnToManyTill, Goal
<1> QED
  BY <1>9, <1>10, <1>11, <1>12, <1>13, <1>14 DEF OthersReturn

-----------------------------------------------------------------------------
LEMMA SpaceStart ==
  ASSUME TaskInit
  PROVE  SpaceRun
<1>1. PICK task \in Tasks : goal = task.goal /\ InitOn(task.parser)
  BY DEF TaskInit
<1>2. Consumption(FALSE) /\ Tracks
  BY <1>1, ConsumptionStart, TracksStart
<1>3. AllPlaced
  <2>1. LiveStates = {Initial}
    BY <1>1, StartLive
  <2>2. Placed(input, Initial) /\ Initial.user = 0
    BY <1>2, InitialPlaced DEF Consumption
  <2> QED
    BY <2>1, <2>2 DEF AllPlaced
<1>4. IsLanguage(lang)
  BY <1>1, LanguagesAssumption DEF lang
<1>5. AllFound
  <2>1. mode = "call" /\ Len(stack) = 0
    BY <1>1 DEF InitOn
  <2> QED
    BY <2>1 DEF AllFound
<1> QED
  BY <1>2, <1>3, <1>4, <1>5 DEF SpaceRun

LEMMA SpaceStep ==
  ASSUME SpaceRun, TextsAreStrings, CommentsAreComments, [TaskNext]_taskVars
  PROVE  SpaceRun'
<1>1. [Next]_vars /\ UNCHANGED goal
  BY DEF TaskNext, ObservedNext, taskVars, observed
<1>2. Consumption(FALSE)' /\ AllPlaced' /\ Tracks'
  BY <1>1, ConsumptionStep, AllPlacedStep, TracksStep DEF SpaceRun
<1>3. IsLanguage(lang)'
  <2>1. lang' = lang
    BY <1>1 DEF lang
  <2> QED
    BY <2>1 DEF SpaceRun, IsLanguage, Constructible
<1>4. AllFound /\ (UNCHANGED vars => AllFound')
  BY <1>1, FoundSame DEF SpaceRun, vars
<1>5. CallLazy => AllFound'
  <2>1. CallLazy => stack' = stack /\ input' = input /\ mode' # "return"
    BY DEF CallLazy, Calling
  <2> QED
    BY <1>1, <1>4, <2>1, FoundSame
<1>6. ReturnToCaller => AllFound'
  BY <1>1, SpaceThen, SpaceMap, SpaceLabel, SpaceTry, SpaceMany, SpaceChoice,
     SpaceComment, SpaceOthers DEF ReturnToCaller, OthersReturn
<1>7. AllFound'
  BY <1>1, <1>4, <1>5, <1>6, SpaceLeaf, SpaceCall DEF Next, Step
<1> QED
  BY <1>2, <1>3, <1>7 DEF SpaceRun

(* White space is skipped exactly to the next token, in every language and  *)
(* text: however deep comments nest, whatever characters their markers      *)
(* share, and wherever a grammar skips it.  A comment that is not closed is *)
(* a failure that no alternative hides.  Client parsers and functions are   *)
(* arbitrary; only what they call `tokens' and a comment is one.            *)
THEOREM NextTokenFound ==
  TaskSpec /\ []TextsAreStrings /\ []CommentsAreComments => []WhiteSpaceEndsAtNextToken
<1>1. TaskInit => SpaceRun
  BY SpaceStart
<1>2. SpaceRun /\ TextsAreStrings /\ CommentsAreComments /\ [TaskNext]_taskVars => SpaceRun'
  BY SpaceStep
<1>3. SpaceRun => WhiteSpaceEndsAtNextToken
  <2>1. SpaceRun /\ mode = "return" => SpaceShown(input, lang, node, st.index, res)
    BY DEF SpaceRun, AllFound, Shown
  <2> QED
    BY <2>1 DEF WhiteSpaceEndsAtNextToken, SpaceShown, PassesTo
<1> QED
  BY <1>1, <1>2, <1>3, PTL DEF TaskSpec
=============================================================================
