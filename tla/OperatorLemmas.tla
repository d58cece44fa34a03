---------------------------- MODULE OperatorLemmas ----------------------------
(***************************************************************************)
(* Lemmas about the operators that the machines are built from.            *)
(*                                                                         *)
(* Positions: the three ways to move one over text add up to the same,     *)
(* what update_pos_char does one character at a time, update_pos_string    *)
(* for a whole string and scan_pos for a stretch of the input, from        *)
(* whatever index.  For texts of every length: by induction on it.         *)
(*                                                                         *)
(* Errors: what ParseError::merge and std::set_union keep of two errors.   *)
(***************************************************************************)
EXTENDS ParseError, SequenceTheorems, FiniteSetTheorems, WellFoundedInduction, TLAPS

-----------------------------------------------------------------------------
(* Induction on the natural numbers over a set.  The induction theorems of  *)
(* the library take the predicate as an operator; here it is the set of the *)
(* numbers that satisfy it, and the proof takes the least one outside of it.*)

(* A set with 0 and with the successor of each of its numbers has them all. *)
LEMMA NatSetInduction ==
  ASSUME NEW S, 0 \in S, \A n \in Nat : n \in S => n + 1 \in S
  PROVE  Nat \subseteq S
<1> DEFINE T == Nat \ S
           R == OpToRel(<, Nat)
<1>1. IsWellFoundedOn(R, Nat)
  BY NatLessThanWellFounded
<1>2. ASSUME T # {} PROVE FALSE
  <2>1. T \subseteq Nat
    OBVIOUS
  <2> HIDE DEF R, T
  <2>2. PICK x \in T : \A y \in T : ~(<< y, x >> \in R)
    BY <1>1, <1>2, <2>1, WFMin
  <2>3. x \in Nat /\ x \notin S /\ x # 0
    BY <2>2 DEF T
  <2>4. x - 1 \in Nat /\ (x - 1) + 1 = x
    BY <2>3
  <2>5. x - 1 \in T
    BY <2>3, <2>4 DEF T
  <2>6. << x - 1, x >> \in R
    BY <2>3, <2>4 DEF R, OpToRel
  <2> QED
    BY <2>2, <2>5, <2>6
<1> QED
  BY <1>2

(* g solves g[from] = start, g[n] = step[g[n - 1], n] up to `to'.            *)
Solves(g, T, from, to, start, step) ==
  /\ g \in [from..to -> T]
  /\ \A n \in from..to : g[n] = IF n = from THEN start ELSE step[<< g[n - 1], n >>]

(* Such a recursion has a solution on every interval.                       *)
LEMMA RecursionExists ==
  ASSUME NEW T, NEW from \in Int, NEW to \in Int, NEW start \in T,
         NEW step \in [T \X Int -> T]
  PROVE  \E g : Solves(g, T, from, to, start, step)
<1> DEFINE S == {k \in Nat : \E g : Solves(g, T, from, from + k, start, step)}
<1>1. 0 \in S
  <2> DEFINE g == [n \in from..(from + 0) |-> start]
  <2>1. g \in [from..(from + 0) -> T]
    OBVIOUS
  <2>2. \A n \in from..(from + 0) :
           g[n] = IF n = from THEN start ELSE step[<< g[n - 1], n >>]
    <3>1. \A n \in from..(from + 0) : n = from
      OBVIOUS
    <3> QED
      BY <3>1
  <2> HIDE DEF g
  <2>3. Solves(g, T, from, from + 0, start, step)
    BY <2>1, <2>2 DEF Solves
  <2> QED
    BY <2>3
<1>2. ASSUME NEW k \in Nat, k \in S PROVE k + 1 \in S
  <2>1. PICK g : Solves(g, T, from, from + k, start, step)
    BY <1>2
  <2> DEFINE last == step[<< g[from + k], from + (k + 1) >>]
             h == [n \in from..(from + (k + 1)) |->
                     IF n = from + (k + 1) THEN last ELSE g[n]]
  <2>2. from + k \in from..(from + k) /\ from + (k + 1) \in Int
    OBVIOUS
  <2>3. g[from + k] \in T
    BY <2>1, <2>2 DEF Solves
  <2>4. last \in T
    BY <2>2, <2>3
  <2>5. \A n \in from..(from + (k + 1)) :
           n # from + (k + 1) => n \in from..(from + k)
    OBVIOUS
  <2>6. h \in [from..(from + (k + 1)) -> T]
    <3> HIDE DEF last
    <3> QED
      BY <2>1, <2>4, <2>5 DEF Solves
  <2>7. ASSUME NEW n \in from..(from + (k + 1))
        PROVE  h[n] = IF n = from THEN start ELSE step[<< h[n - 1], n >>]
    <3>1. CASE n = from + (k + 1)
      <4>1. n # from /\ n - 1 = from + k /\ n - 1 # from + (k + 1)
            /\ n - 1 \in from..(from + (k + 1))
        BY <3>1
      <4>2. h[n - 1] = g[from + k]
        BY <4>1
      <4> QED
        BY <3>1, <4>1, <4>2
    <3>2. CASE n # from + (k + 1)
      <4>1. n \in from..(from + k) /\ h[n] = g[n]
        BY <3>2, <2>5
      <4>2. g[n] = IF n = from THEN start ELSE step[<< g[n - 1], n >>]
        BY <4>1, <2>1 DEF Solves
      <4>3. n # from => /\ n - 1 \in from..(from + (k + 1))
                        /\ n - 1 # from + (k + 1)
        BY <4>1
      <4>4. n # from => h[n - 1] = g[n - 1]
        BY <4>3
      <4> QED
        BY <4>1, <4>2, <4>4
    <3> QED
      BY <3>1, <3>2
  <2> HIDE DEF h
  <2>8. Solves(h, T, from, from + (k + 1), start, step)
    BY <2>6, <2>7, Zenon DEF Solves
  <2>9. k + 1 \in Nat
    OBVIOUS
  <2> QED
    BY <2>8, <2>9
<1>3. Nat \subseteq S
  <2> HIDE DEF S
  <2> QED
    BY <1>1, <1>2, NatSetInduction
<1>4. CASE from <= to
  <2>1. to - from \in Nat /\ from + (to - from) = to
    BY <1>4
  <2>2. \E g : Solves(g, T, from, from + (to - from), start, step)
    BY <1>3, <2>1
  <2> QED
    BY <2>1, <2>2
<1>5. CASE to < from
  <2>1. from..to = {}
    BY <1>5
  <2> DEFINE g == [n \in from..to |-> start]
  <2>2. g \in [from..to -> T]
    OBVIOUS
  <2>3. \A n \in from..to :
           g[n] = IF n = from THEN start ELSE step[<< g[n - 1], n >>]
    BY <2>1
  <2> HIDE DEF g
  <2>4. Solves(g, T, from, to, start, step)
    BY <2>2, <2>3 DEF Solves
  <2> QED
    BY <2>4
<1> QED
  BY <1>4, <1>5

(* Two solutions, perhaps on different intervals, agree where both are.     *)
LEMMA RecursionUnique ==
  ASSUME NEW from \in Int, NEW g, NEW h, NEW to \in Int, g[from] = h[from],
         \A n \in from..to : n # from /\ g[n - 1] = h[n - 1] => g[n] = h[n]
  PROVE  \A n \in from..to : g[n] = h[n]
<1> DEFINE S == {k \in Nat : from + k <= to => g[from + k] = h[from + k]}
<1>1. 0 \in S
  OBVIOUS
<1>2. ASSUME NEW k \in Nat, k \in S PROVE k + 1 \in S
  <2> SUFFICES ASSUME from + (k + 1) <= to
               PROVE  g[from + (k + 1)] = h[from + (k + 1)]
    OBVIOUS
  <2>1. g[from + k] = h[from + k]
    BY <1>2
  <2>2. /\ from + (k + 1) \in from..to /\ from + (k + 1) # from
        /\ (from + (k + 1)) - 1 = from + k
    OBVIOUS
  <2> QED
    BY <2>1, <2>2
<1>3. Nat \subseteq S
  <2> HIDE DEF S
  <2> QED
    BY <1>1, <1>2, NatSetInduction
<1> SUFFICES ASSUME NEW n \in from..to PROVE g[n] = h[n]
  OBVIOUS
<1>4. n - from \in Nat /\ from + (n - from) = n
  OBVIOUS
<1> QED
  BY <1>3, <1>4

-----------------------------------------------------------------------------
LEMMA StartIsPosition == StartPos \in Position
BY DEF StartPos, Position

(* A step goes from a position to a position, and forward.                  *)
LEMMA UpdatePosType ==
  ASSUME NEW p \in Position, NEW c
  PROVE  /\ update_pos_char(p, c) \in Position
         /\ PosBefore(p, update_pos_char(p, c))
<1>1. /\ p.line \in Nat \ {0} /\ p.column \in Nat \ {0}
      /\ DOMAIN p = {"line", "column"}
      /\ p = [line |-> p.line, column |-> p.column]
  BY DEF Position
<1>2. /\ (p.column - 1) % 8 \in 0..7
      /\ p.column + 8 - ((p.column - 1) % 8) \in Nat \ {0}
      /\ p.column < p.column + 8 - ((p.column - 1) % 8)
  BY <1>1
<1>3. CASE c = NL
  <2>1. update_pos_char(p, c) = [line |-> p.line + 1, column |-> 1]
    BY <1>3 DEF update_pos_char, NL, TAB
  <2> QED
    BY <2>1, <1>1 DEF Position, PosBefore
<1>4. CASE c = TAB
  <2>1. update_pos_char(p, c) =
          [line |-> p.line, column |-> p.column + 8 - ((p.column - 1) % 8)]
    BY <1>1, <1>4 DEF update_pos_char, NL, TAB
  <2> QED
    BY <2>1, <1>1, <1>2 DEF Position, PosBefore
<1>5. CASE c # NL /\ c # TAB
  <2>1. update_pos_char(p, c) = [line |-> p.line, column |-> p.column + 1]
    BY <1>1, <1>5 DEF update_pos_char
  <2> QED
    BY <2>1, <1>1 DEF Position, PosBefore
<1> QED
  BY <1>3, <1>4, <1>5

(* Moving char by char over text[from + 1], .., text[n], ...                 *)
Stepwise(text, from, to, start, at) ==
  at = [n \in from..to |->
          IF n = from THEN start ELSE update_pos_char(at[n - 1], text[n])]

LEMMA StepwiseExists ==
  ASSUME NEW text, NEW from \in Int, NEW to \in Int, NEW start \in Position
  PROVE  \E at \in [from..to -> Position] : Stepwise(text, from, to, start, at)
<1> DEFINE step == [x \in Position \X Int |-> update_pos_char(x[1], text[x[2]])]
<1>1. step \in [Position \X Int -> Position]
  BY UpdatePosType
<1> HIDE DEF step
<1>2. PICK g : Solves(g, Position, from, to, start, step)
  BY <1>1, RecursionExists
<1>3. ASSUME NEW n \in from..to, n # from
      PROVE  step[<< g[n - 1], n >>] = update_pos_char(g[n - 1], text[n])
  <2>1. n - 1 \in from..to /\ n \in Int
    BY <1>3
  <2>2. << g[n - 1], n >> \in Position \X Int
    BY <1>2, <2>1 DEF Solves
  <2> QED
    BY <2>2 DEF step
<1>4. g = [n \in from..to |->
             IF n = from THEN start ELSE update_pos_char(g[n - 1], text[n])]
  <2>1. g = [n \in from..to |-> g[n]]
    BY <1>2 DEF Solves
  <2>2. \A n \in from..to :
           g[n] = IF n = from THEN start ELSE update_pos_char(g[n - 1], text[n])
    BY <1>2, <1>3 DEF Solves
  <2> QED
    BY <2>1, <2>2, Zenon
<1>5. g \in [from..to -> Position]
  BY <1>2 DEF Solves
<1> QED
  BY <1>4, <1>5, Zenon DEF Stepwise

LEMMA PosAtUnfold ==
  ASSUME NEW text, NEW i \in Nat
  PROVE  \E at : Stepwise(text, 0, i, StartPos, at) /\ PosAt(text, i) = at[i]
<1> DEFINE at == CHOOSE at :
                   at = [n \in 0..i |->
                           IF n = 0 THEN StartPos ELSE update_pos_char(at[n - 1], text[n])]
<1>1. PosAt(text, i) = at[i]
  BY Zenon DEF PosAt
<1>2. \E g : g = [n \in 0..i |->
                    IF n = 0 THEN StartPos ELSE update_pos_char(g[n - 1], text[n])]
  <2>1. 0 \in Int /\ i \in Int
    OBVIOUS
  <2>2. \E g \in [0..i -> Position] : Stepwise(text, 0, i, StartPos, g)
    BY <2>1, StepwiseExists, StartIsPosition, Zenon
  <2> QED
    BY <2>2, Zenon DEF Stepwise
<1>3. at = [n \in 0..i |->
              IF n = 0 THEN StartPos ELSE update_pos_char(at[n - 1], text[n])]
  BY <1>2, Zenon
<1> QED
  BY <1>1, <1>3, Zenon DEF Stepwise

LEMMA StepwiseAgree ==
  ASSUME NEW text, NEW from \in Int, NEW to \in Int, NEW to2 \in Int, to <= to2,
         NEW start, NEW g, NEW h,
         Stepwise(text, from, to, start, g), Stepwise(text, from, to2, start, h)
  PROVE  \A n \in from..to : g[n] = h[n]
<1>1. /\ \A n \in from..to :
            g[n] = IF n = from THEN start ELSE update_pos_char(g[n - 1], text[n])
      /\ \A n \in from..to2 :
            h[n] = IF n = from THEN start ELSE update_pos_char(h[n - 1], text[n])
  BY Zenon DEF Stepwise
<1>2. CASE from <= to
  <2>1. g[from] = h[from]
    BY <1>1, <1>2
  <2>2. \A n \in from..to : n # from /\ g[n - 1] = h[n - 1] => g[n] = h[n]
    BY <1>1
  <2> QED
    BY <2>1, <2>2, RecursionUnique
<1>3. CASE ~(from <= to)
  BY <1>3
<1> QED
  BY <1>2, <1>3

LEMMA StepwiseType ==
  ASSUME NEW text, NEW from \in Int, NEW to \in Int, NEW start \in Position,
         NEW at, Stepwise(text, from, to, start, at)
  PROVE  \A n \in from..to : at[n] \in Position
<1>1. PICK g \in [from..to -> Position] : Stepwise(text, from, to, start, g)
  BY StepwiseExists
<1>2. \A n \in from..to : at[n] = g[n]
  BY <1>1, StepwiseAgree
<1> QED
  BY <1>1, <1>2

(* PosAt, as its definition reads.                                          *)
LEMMA PosAtStart ==
  ASSUME NEW text
  PROVE  PosAt(text, 0) = StartPos
<1>1. PICK at : Stepwise(text, 0, 0, StartPos, at) /\ PosAt(text, 0) = at[0]
  BY PosAtUnfold
<1>2. at[0] = IF 0 = 0 THEN StartPos ELSE update_pos_char(at[0 - 1], text[0])
  <2>1. 0 \in 0..0
    OBVIOUS
  <2> QED
    BY <1>1, <2>1, Zenon DEF Stepwise
<1> QED
  BY <1>1, <1>2

LEMMA PosAtType ==
  ASSUME NEW text, NEW i \in Nat
  PROVE  PosAt(text, i) \in Position
<1>1. PICK at : Stepwise(text, 0, i, StartPos, at) /\ PosAt(text, i) = at[i]
  BY PosAtUnfold
<1> QED
  BY <1>1, StepwiseType, StartIsPosition

LEMMA PosAtNext ==
  ASSUME NEW text, NEW i \in Nat
  PROVE  PosAt(text, i + 1) = update_pos_char(PosAt(text, i), text[i + 1])
<1>1. PICK g : Stepwise(text, 0, i, StartPos, g) /\ PosAt(text, i) = g[i]
  BY PosAtUnfold
<1>2. PICK h : Stepwise(text, 0, i + 1, StartPos, h) /\ PosAt(text, i + 1) = h[i + 1]
  BY PosAtUnfold
<1>3. g[i] = h[i]
  <2>1. i \in 0..i /\ 0 \in Int /\ i \in Int /\ i + 1 \in Int /\ i <= i + 1
    OBVIOUS
  <2> QED
    BY <1>1, <1>2, <2>1, StepwiseAgree
<1>4. h[i + 1] = IF i + 1 = 0 THEN StartPos ELSE update_pos_char(h[(i + 1) - 1], text[i + 1])
  <2>1. i + 1 \in 0..(i + 1)
    OBVIOUS
  <2> QED
    BY <1>2, <2>1, Zenon DEF Stepwise
<1>5. i + 1 # 0 /\ (i + 1) - 1 = i
  OBVIOUS
<1> QED
  BY <1>1, <1>2, <1>3, <1>4, <1>5

(* Any stepwise walk that starts where PosAt is stays with it.              *)
LEMMA StepwiseFollows ==
  ASSUME NEW text, NEW str, NEW from \in Nat, NEW start \in Int, NEW to \in Int,
         \A n \in (start + 1)..to : str[n] = text[from + (n - start)],
         NEW at, Stepwise(str, start, to, PosAt(text, from), at)
  PROVE  \A n \in start..to : at[n] = PosAt(text, from + (n - start))
<1>1. \A n \in start..to :
         at[n] = IF n = start THEN PosAt(text, from) ELSE update_pos_char(at[n - 1], str[n])
  BY Zenon DEF Stepwise
<1>0. PICK there : there = [n \in start..to |-> PosAt(text, from + (n - start))]
  OBVIOUS
<1>2. ASSUME NEW n \in start..to, n # start, at[n - 1] = there[n - 1]
      PROVE  at[n] = there[n]
  <2>1. /\ n - 1 \in start..to /\ n \in (start + 1)..to
        /\ from + (n - 1 - start) \in Nat
        /\ from + (n - 1 - start) + 1 = from + (n - start)
    BY <1>2
  <2>2. PosAt(text, from + (n - start)) =
          update_pos_char(PosAt(text, from + (n - 1 - start)), text[from + (n - start)])
    BY <2>1, PosAtNext
  <2>3. at[n] = update_pos_char(at[n - 1], str[n])
    BY <1>1, <1>2
  <2> QED
    BY <1>0, <1>2, <2>1, <2>2, <2>3
<1>3. CASE start <= to
  <2>1. at[start] = there[start]
    BY <1>0, <1>1, <1>3
  <2>2. \A n \in start..to : n # start /\ at[n - 1] = there[n - 1] => at[n] = there[n]
    BY <1>2
  <2>3. \A n \in start..to : at[n] = there[n]
    BY <2>1, <2>2, RecursionUnique
  <2> QED
    BY <1>0, <2>3
<1>4. CASE ~(start <= to)
  BY <1>4
<1> QED
  BY <1>3, <1>4

-----------------------------------------------------------------------------
(* scan_pos's copy of update_pos_char.                                      *)
ScanStep(p, c) ==
  CASE c = NL  -> [line |-> p.line + 1, column |-> 1]
    [] c = TAB -> [p EXCEPT !.column = @ + (8 - ((@ - 1) % 8))]
    [] OTHER   -> [p EXCEPT !.column = @ + 1]

LEMMA ScanStepSame ==
  ASSUME NEW p \in Position, NEW c
  PROVE  ScanStep(p, c) = update_pos_char(p, c)
<1>1. /\ p.column \in Nat /\ (p.column - 1) % 8 \in 0..7
      /\ DOMAIN p = {"line", "column"}
      /\ p = [line |-> p.line, column |-> p.column]
  BY DEF Position
<1>2. p.column + (8 - ((p.column - 1) % 8)) = p.column + 8 - ((p.column - 1) % 8)
  BY <1>1
<1>3. CASE c = NL
  BY <1>3 DEF ScanStep, update_pos_char, NL, TAB
<1>4. CASE c = TAB
  <2>1. ScanStep(p, c) =
          [line |-> p.line, column |-> p.column + (8 - ((p.column - 1) % 8))]
    BY <1>1, <1>4 DEF ScanStep, NL, TAB
  <2>2. update_pos_char(p, c) =
          [line |-> p.line, column |-> p.column + 8 - ((p.column - 1) % 8)]
    BY <1>1, <1>4 DEF update_pos_char, NL, TAB
  <2> QED
    BY <1>2, <2>1, <2>2
<1>5. CASE c # NL /\ c # TAB
  BY <1>5 DEF ScanStep, update_pos_char
<1> QED
  BY <1>3, <1>4, <1>5

(* scan_pos takes the position of one index to that of any later one.       *)
LEMMA ScanPosFollows ==
  ASSUME NEW text, NEW from \in Nat, NEW to \in Nat, from <= to
  PROVE  scan_pos(PosAt(text, from), text, from, to) = PosAt(text, to)
<1> DEFINE pos == PosAt(text, from)
           Scans(g) ==
             g = [i \in from..to |-> IF i = from THEN pos ELSE ScanStep(g[i - 1], text[i])]
           at == CHOOSE g : Scans(g)
<1>1. scan_pos(pos, text, from, to) = at[to]
  BY Zenon DEF scan_pos, ScanStep
<1>2. pos \in Position /\ from \in Int /\ to \in Int
  BY PosAtType
<1>3. PICK g : g \in [from..to -> Position] /\ Stepwise(text, from, to, pos, g)
  BY <1>2, StepwiseExists
<1>4. \A n \in from..to :
         g[n] = IF n = from THEN pos ELSE update_pos_char(g[n - 1], text[n])
  BY <1>3, Zenon DEF Stepwise
<1> HIDE DEF pos
<1>5. Scans(g)
  <2>1. \A n \in from..to : n # from => g[n - 1] \in Position
    BY <1>3
  <2>2. \A n \in from..to :
           g[n] = IF n = from THEN pos ELSE ScanStep(g[n - 1], text[n])
    BY <1>4, <2>1, ScanStepSame
  <2>3. g = [n \in from..to |-> g[n]]
    BY <1>3
  <2> QED
    BY <2>2, <2>3, Zenon
<1>6. Scans(at)
  <2> HIDE DEF Scans
  <2> QED
    BY <1>5, Zenon
<1>7. \A n \in from..to :
         at[n] = IF n = from THEN pos ELSE ScanStep(at[n - 1], text[n])
  BY <1>6, Zenon
<1> HIDE DEF at, Scans
<1>8. \A n \in from..to : n # from /\ g[n - 1] = at[n - 1] => g[n] = at[n]
  <2>1. \A n \in from..to : n # from => g[n - 1] \in Position
    BY <1>3
  <2> QED
    BY <1>4, <1>7, <2>1, ScanStepSame
<1>9. g[from] = at[from]
  BY <1>4, <1>7
<1>10. \A n \in from..to : g[n] = at[n]
  BY <1>8, <1>9, RecursionUnique
<1>11. \A n \in from..to : g[n] = PosAt(text, from + (n - from))
  <2>1. \A n \in (from + 1)..to : text[n] = text[from + (n - from)]
    <3>1. \A n \in (from + 1)..to : from + (n - from) = n
      OBVIOUS
    <3> QED
      BY <3>1
  <2>2. Stepwise(text, from, to, PosAt(text, from), g)
    BY <1>3 DEF pos
  <2> QED
    BY <2>1, <2>2, StepwiseFollows
<1>12. to \in from..to /\ from + (to - from) = to
  OBVIOUS
<1> QED
  BY <1>1, <1>10, <1>11, <1>12 DEF pos

-----------------------------------------------------------------------------
(* The newlines among the first k characters of str, and what counting them *)
(* says of the position there.                                              *)
NewlinesIn(str, k) == {i \in 1..k : str[i] = NL}

LEMMA NewlinesType ==
  ASSUME NEW str, NEW k \in Nat
  PROVE  /\ IsFiniteSet(NewlinesIn(str, k))
         /\ Cardinality(NewlinesIn(str, k)) \in Nat
<1>1. IsFiniteSet(1..k)
  BY FS_Interval
<1>2. NewlinesIn(str, k) \subseteq 1..k
  BY DEF NewlinesIn
<1>3. IsFiniteSet(NewlinesIn(str, k))
  BY <1>1, <1>2, FS_Subset
<1> QED
  BY <1>3, FS_CardinalityType

CountedTo(pos, str, k, p) ==
  /\ p.line = pos.line + Cardinality(NewlinesIn(str, k))
  /\ NewlinesIn(str, k) = {} => p.column = pos.column + k
  /\ NewlinesIn(str, k) # {} =>
        \E l \in NewlinesIn(str, k) : /\ \A j \in NewlinesIn(str, k) : j <= l
                                      /\ p.column = k - (l - 1)

LEMMA CountedNext ==
  ASSUME NEW pos \in Position, NEW str, NEW k \in Nat, NEW p \in Position,
         CountedTo(pos, str, k, p), str[k + 1] # TAB
  PROVE  CountedTo(pos, str, k + 1, update_pos_char(p, str[k + 1]))
<1> DEFINE old == NewlinesIn(str, k)
           new == NewlinesIn(str, k + 1)
           q   == update_pos_char(p, str[k + 1])
<1>1. /\ p.line \in Nat /\ p.column \in Nat /\ pos.line \in Nat /\ pos.column \in Nat
      /\ DOMAIN p = {"line", "column"}
      /\ IsFiniteSet(old) /\ Cardinality(old) \in Nat
      /\ \A i \in old : i \in 1..k
  BY NewlinesType DEF Position, NewlinesIn
<1>2. CASE str[k + 1] = NL
  <2>1. new = old \cup {k + 1} /\ k + 1 \notin old
    BY <1>2 DEF NewlinesIn
  <2>2. Cardinality(new) = Cardinality(old) + 1
    <3> HIDE DEF old, new
    <3> QED
      BY <1>1, <2>1, FS_AddElement
  <2>3. q.line = p.line + 1 /\ q.column = 1
    BY <1>2 DEF update_pos_char, NL, TAB
  <2>4. k + 1 \in new /\ \A j \in new : j <= k + 1
    BY <1>1, <2>1
  <2>5. q.column = (k + 1) - ((k + 1) - 1)
    BY <2>3
  <2> HIDE DEF old, new, q
  <2>6. p.line = pos.line + Cardinality(old)
    BY DEF CountedTo, old
  <2>7. q.line = pos.line + Cardinality(new)
    BY <1>1, <2>2, <2>3, <2>6
  <2> QED
    BY <2>4, <2>5, <2>7 DEF CountedTo, new, q
<1>3. CASE str[k + 1] # NL
  <2>1. new = old
    BY <1>3 DEF NewlinesIn
  <2>2. q.line = p.line /\ q.column = p.column + 1
    BY <1>1, <1>3 DEF update_pos_char
  <2> HIDE DEF old, new, q
  <2>3. old = {} => q.column = pos.column + (k + 1)
    BY <1>1, <2>2 DEF CountedTo, old
  <2>4. ASSUME old # {}
        PROVE  \E l \in old : /\ \A j \in old : j <= l
                              /\ q.column = (k + 1) - (l - 1)
    <3>1. PICK l \in old : (\A j \in old : j <= l) /\ p.column = k - (l - 1)
      BY <2>4 DEF CountedTo, old
    <3>2. q.column = (k + 1) - (l - 1)
      BY <1>1, <2>2, <3>1
    <3> QED
      BY <3>1, <3>2
  <2>5. q.line = pos.line + Cardinality(old)
    BY <2>2 DEF CountedTo, old
  <2> QED
    BY <2>1, <2>3, <2>4, <2>5 DEF CountedTo, new, q
<1> QED
  BY <1>2, <1>3

LEMMA CountedAlong ==
  ASSUME NEW text, NEW str, NEW from \in Nat, NEW len \in Nat,
         \A k \in 1..len : str[k] = text[from + k] /\ str[k] # TAB
  PROVE  CountedTo(PosAt(text, from), str, len, PosAt(text, from + len))
<1> DEFINE pos == PosAt(text, from)
           S == {k \in Nat : k <= len => CountedTo(pos, str, k, PosAt(text, from + k))}
<1>1. pos \in Position
  BY PosAtType
<1>2. 0 \in S
  <2>1. NewlinesIn(str, 0) = {} /\ Cardinality(NewlinesIn(str, 0)) = 0
    <3>1. NewlinesIn(str, 0) = {}
      BY DEF NewlinesIn
    <3> QED
      BY <3>1, FS_EmptySet
  <2>2. pos.line = pos.line + 0 /\ pos.column = pos.column + 0 /\ from + 0 = from
    BY <1>1 DEF Position
  <2> HIDE DEF pos
  <2>3. CountedTo(pos, str, 0, pos)
    BY <2>1, <2>2 DEF CountedTo
  <2> QED
    BY <2>2, <2>3 DEF pos
<1>3. ASSUME NEW k \in Nat, k \in S PROVE k + 1 \in S
  <2> SUFFICES ASSUME k + 1 <= len
               PROVE  CountedTo(pos, str, k + 1, PosAt(text, from + (k + 1)))
    OBVIOUS
  <2>1. k + 1 \in 1..len /\ from + k \in Nat /\ from + (k + 1) = (from + k) + 1
    OBVIOUS
  <2>2. CountedTo(pos, str, k, PosAt(text, from + k))
    BY <1>3
  <2>3. PosAt(text, from + k) \in Position
    BY <2>1, PosAtType
  <2>4. PosAt(text, (from + k) + 1) =
          update_pos_char(PosAt(text, from + k), text[(from + k) + 1])
    BY <2>1, PosAtNext
  <2> HIDE DEF pos
  <2>5. CountedTo(pos, str, k + 1, update_pos_char(PosAt(text, from + k), str[k + 1]))
    BY <1>1, <2>1, <2>2, <2>3, CountedNext
  <2> QED
    BY <2>1, <2>4, <2>5
<1>4. Nat \subseteq S
  <2> HIDE DEF S
  <2> QED
    BY <1>2, <1>3, NatSetInduction
<1> QED
  BY <1>4

(* update_pos_string moves a position over a string as its characters would,*)
(* one at a time.                                                           *)
LEMMA UpdatePosStringFollows ==
  ASSUME NEW text, NEW from \in Nat, NEW s \in Seq(Nat),
         \A k \in 1..Len(s) : s[k] = text[from + k]
  PROVE  update_pos_string(PosAt(text, from), s) = PosAt(text, from + Len(s))
<1> DEFINE pos == PosAt(text, from)
           newlines == {i \in DOMAIN s : s[i] = NL}
           last == CHOOSE i \in newlines : \A j \in newlines : j <= i
           Walks(g) == g = [i \in 0..Len(s) |->
                              IF i = 0 THEN pos ELSE update_pos_char(g[i - 1], s[i])]
           after == CHOOSE g : Walks(g)
<1>1. /\ Len(s) \in Nat /\ DOMAIN s = 1..Len(s)
      /\ pos \in Position
      /\ newlines = NewlinesIn(s, Len(s))
  BY LenProperties, PosAtType DEF NewlinesIn
<1>2. update_pos_string(pos, s) =
        IF s = << >> THEN pos
        ELSE IF \E i \in DOMAIN s : s[i] = TAB THEN after[Len(s)]
        ELSE IF newlines = {} THEN [pos EXCEPT !.column = @ + Len(s)]
        ELSE [line   |-> pos.line + Cardinality(newlines),
              column |-> Len(s) - (last - 1)]
  BY Zenon DEF update_pos_string
<1>3. PosAt(text, from + 0) = pos
  BY <1>1
<1>4. CASE s = << >>
  <2>1. Len(s) = 0
    BY <1>4
  <2>2. update_pos_string(pos, s) = pos
    BY <1>2, <1>4, Zenon
  <2> QED
    BY <1>3, <2>1, <2>2
<1>5. CASE s # << >> /\ \E i \in DOMAIN s : s[i] = TAB
  <2>1. \E g : Walks(g)
    <3>1. 0 \in Int /\ Len(s) \in Int
      BY <1>1
    <3>2. PICK g : Stepwise(s, 0, Len(s), pos, g)
      BY <1>1, <3>1, StepwiseExists
    <3> QED
      BY <3>2 DEF Stepwise
  <2>2. Walks(after)
    <3> HIDE DEF Walks
    <3> QED
      BY <2>1, Zenon
  <2>3. Stepwise(s, 0, Len(s), PosAt(text, from), after)
    BY <2>2, Zenon DEF Stepwise
  <2> HIDE DEF after, Walks
  <2>4. \A n \in 0..Len(s) : after[n] = PosAt(text, from + (n - 0))
    <3>1. \A n \in (0 + 1)..Len(s) : s[n] = text[from + (n - 0)]
      <4>1. \A n \in (0 + 1)..Len(s) : n \in 1..Len(s) /\ n - 0 = n
        BY <1>1
      <4> QED
        BY <4>1
    <3>2. 0 \in Int /\ Len(s) \in Int
      BY <1>1
    <3> QED
      BY <2>3, <3>1, <3>2, StepwiseFollows
  <2>5. Len(s) \in 0..Len(s) /\ Len(s) - 0 = Len(s)
    BY <1>1
  <2>6. after[Len(s)] = PosAt(text, from + Len(s))
    BY <2>4, <2>5
  <2> HIDE DEF pos, newlines, last
  <2>7. update_pos_string(pos, s) = after[Len(s)]
    BY <1>2, <1>5, Zenon
  <2> QED
    BY <2>6, <2>7 DEF pos
<1>6. CASE s # << >> /\ ~\E i \in DOMAIN s : s[i] = TAB
  <2>1. CountedTo(pos, s, Len(s), PosAt(text, from + Len(s)))
    BY <1>1, <1>6, CountedAlong
  <2> DEFINE p == PosAt(text, from + Len(s))
  <2>2. p \in Position
    BY <1>1, PosAtType
  <2> HIDE DEF pos, p, after
  <2>3. CASE newlines = {}
    <3>1. p.line = pos.line /\ p.column = pos.column + Len(s)
      <4>1. NewlinesIn(s, Len(s)) = {} /\ Cardinality(NewlinesIn(s, Len(s))) = 0
        BY <1>1, <2>3, FS_EmptySet
      <4>2. p.line = pos.line + 0 /\ p.column = pos.column + Len(s)
        BY <2>1, <4>1 DEF CountedTo, p
      <4> QED
        BY <1>1, <4>2 DEF Position
    <3>2. p = [pos EXCEPT !.column = @ + Len(s)]
      BY <1>1, <2>2, <3>1 DEF Position
    <3> HIDE DEF newlines, last
    <3>3. update_pos_string(pos, s) = [pos EXCEPT !.column = @ + Len(s)]
      BY <1>2, <1>6, <2>3, Zenon
    <3> QED
      BY <3>2, <3>3 DEF p, pos
  <2>4. CASE newlines # {}
    <3>1. PICK l \in newlines : (\A j \in newlines : j <= l) /\ p.column = Len(s) - (l - 1)
      BY <1>1, <2>1, <2>4 DEF CountedTo, p
    <3>2. last = l
      <4>1. last \in newlines /\ \A j \in newlines : j <= last
        BY <3>1
      <4>2. \A j \in newlines : j \in Nat
        BY <1>1
      <4> HIDE DEF newlines, last
      <4> QED
        BY <3>1, <4>1, <4>2
    <3>3. p.line = pos.line + Cardinality(newlines)
      BY <1>1, <2>1 DEF CountedTo, p
    <3> HIDE DEF newlines, last
    <3>4. p = [line |-> pos.line + Cardinality(newlines), column |-> Len(s) - (last - 1)]
      BY <2>2, <3>1, <3>2, <3>3 DEF Position
    <3>5. update_pos_string(pos, s) =
            [line |-> pos.line + Cardinality(newlines), column |-> Len(s) - (last - 1)]
      BY <1>2, <1>6, <2>4, Zenon
    <3> QED
      BY <3>4, <3>5 DEF p, pos
  <2> QED
    BY <2>3, <2>4
<1> QED
  BY <1>4, <1>5, <1>6

-----------------------------------------------------------------------------
(* A vector says a message.                                                 *)
Says(v, m) == \E k \in 1..Len(v) : v[k] = m

(* It says finitely many.                                                   *)
LEMMA FiniteElements ==
  ASSUME NEW M, NEW v \in Seq(M)
  PROVE  IsFiniteSet({v[k] : k \in 1..Len(v)})
<1>1. Len(v) \in Nat /\ v \in [1..Len(v) -> M]
  BY LenProperties
<1>2. v \in Surjection(1..Len(v), {v[k] : k \in 1..Len(v)})
  BY <1>1 DEF Surjection
<1>3. IsFiniteSet(1..Len(v))
  BY <1>1, FS_Interval
<1> QED
  BY <1>2, <1>3, FS_Surjection

LEMMA SaysOneMore ==
  ASSUME NEW M, NEW v \in Seq(M), NEW m \in M
  PROVE  /\ << m >> \o v \in Seq(M)
         /\ \A x : Says(<< m >> \o v, x) <=> x = m \/ Says(v, x)
<1>1. << m >> \in Seq(M) /\ Len(<< m >>) = 1 /\ << m >>[1] = m
  OBVIOUS
<1> DEFINE one == << m >>
           more == one \o v
<1>2. Len(v) \in Nat
  BY LenProperties
<1> HIDE DEF one
<1>3. /\ more \in Seq(M) /\ Len(more) = 1 + Len(v)
      /\ \A k \in 1..(1 + Len(v)) : more[k] = IF k <= 1 THEN one[k] ELSE v[k - 1]
  <2>1. one \in Seq(M) /\ Len(one) = 1
    BY <1>1 DEF one
  <2>2. /\ more \in Seq(M) /\ Len(more) = Len(one) + Len(v)
        /\ \A k \in 1..(Len(one) + Len(v)) :
              more[k] = IF k <= Len(one) THEN one[k] ELSE v[k - Len(one)]
    BY <2>1, ConcatProperties
  <2> QED
    BY <2>1, <2>2
<1>4. one[1] = m
  BY <1>1 DEF one
<1> HIDE DEF more
<1>5. ASSUME NEW x, Says(more, x) PROVE x = m \/ Says(v, x)
  <2>1. PICK k \in 1..(1 + Len(v)) : more[k] = x
    BY <1>3, <1>5 DEF Says
  <2>2. CASE k = 1
    BY <1>2, <1>3, <1>4, <2>1, <2>2
  <2>3. CASE k # 1
    <3>1. k - 1 \in 1..Len(v) /\ v[k - 1] = x
      BY <1>2, <1>3, <2>1, <2>3
    <3> QED
      BY <3>1 DEF Says
  <2> QED
    BY <2>2, <2>3
<1>6. Says(more, m)
  <2>1. 1 \in 1..(1 + Len(v)) /\ more[1] = m
    BY <1>2, <1>3, <1>4
  <2> QED
    BY <1>3, <2>1 DEF Says
<1>7. ASSUME NEW x, Says(v, x) PROVE Says(more, x)
  <2>1. PICK k \in 1..Len(v) : v[k] = x
    BY <1>7 DEF Says
  <2>2. k + 1 \in 1..(1 + Len(v)) /\ ~(k + 1 <= 1) /\ (k + 1) - 1 = k
    BY <1>2
  <2>3. more[k + 1] = x
    BY <1>3, <2>1, <2>2
  <2> QED
    BY <1>3, <2>2, <2>3 DEF Says
<1> QED
  BY <1>3, <1>5, <1>6, <1>7 DEF more, one

LEMMA SaysRest ==
  ASSUME NEW M, NEW v \in Seq(M), NEW j \in 1..(Len(v) + 1)
  PROVE  /\ SubSeq(v, j, Len(v)) \in Seq(M)
         /\ \A x : Says(SubSeq(v, j, Len(v)), x) <=> \E b \in j..Len(v) : v[b] = x
<1> DEFINE n == Len(v)
           rest == SubSeq(v, j, n)
<1>1. n \in Nat /\ j \in Int /\ n \in Int /\ j \in 1..(n + 1)
  BY LenProperties
<1>2. \A k \in j..n : v[k] \in M
  BY <1>1, ElementOfSeq
<1> HIDE DEF n
<1>3. /\ rest \in Seq(M)
      /\ Len(rest) = IF j <= n THEN n - j + 1 ELSE 0
      /\ \A k \in 1..(n - j + 1) : rest[k] = v[j + k - 1]
  BY <1>1, <1>2, SubSeqProperties
<1>4. Len(rest) = n - j + 1
  BY <1>1, <1>3
<1> HIDE DEF rest
<1>5. ASSUME NEW x, Says(rest, x) PROVE \E b \in j..n : v[b] = x
  <2>1. PICK k \in 1..(n - j + 1) : rest[k] = x
    BY <1>4, <1>5 DEF Says
  <2>2. j + k - 1 \in j..n /\ v[j + k - 1] = x
    BY <1>1, <1>3, <2>1
  <2> QED
    BY <2>2
<1>6. ASSUME NEW x, NEW b \in j..n, v[b] = x PROVE Says(rest, x)
  <2>1. b - j + 1 \in 1..(n - j + 1) /\ j + (b - j + 1) - 1 = b
    BY <1>1
  <2>2. rest[b - j + 1] = x
    BY <1>3, <1>6, <2>1
  <2> QED
    BY <1>4, <2>1, <2>2 DEF Says
<1> QED
  BY <1>3, <1>5, <1>6 DEF rest, n

-----------------------------------------------------------------------------
(* The walk of set_union over two vectors.                                  *)
Places(s, t) == (1..(Len(s) + 1)) \X (1..(Len(t) + 1))

WalkFrom(s, t, w, p) ==
  LET i == p[1]
      j == p[2]
  IN  IF i > Len(s) THEN SubSeq(t, j, Len(t))
      ELSE IF j > Len(t) THEN SubSeq(s, i, Len(s))
      ELSE IF MessageBefore(s[i], t[j]) THEN << s[i] >> \o w[<< i + 1, j >>]
      ELSE IF MessageBefore(t[j], s[i]) THEN << t[j] >> \o w[<< i, j + 1 >>]
      ELSE << s[i] >> \o w[<< i + 1, j + 1 >>]

Walk(s, t, w) == w = [p \in Places(s, t) |-> WalkFrom(s, t, w, p)]

LEMMA SetUnionChosen ==
  ASSUME NEW s, NEW t
  PROVE  set_union(s, t) = (CHOOSE w : Walk(s, t, w))[<< 1, 1 >>]
BY Zenon DEF set_union, Walk, WalkFrom, Places

LEMMA WalkAt ==
  ASSUME NEW s, NEW t, NEW w, Walk(s, t, w), NEW p \in Places(s, t)
  PROVE  w[p] = WalkFrom(s, t, w, p)
BY Zenon DEF Walk

(* What is left of both vectors at a place.                                 *)
Left(s, t, p) == (Len(s) + 1 - p[1]) + (Len(t) + 1 - p[2])

LEMMA LaterHasLess ==
  ASSUME NEW s, NEW t, Len(s) \in Nat, Len(t) \in Nat,
         NEW p, p[1] \in Int, p[2] \in Int, NEW k, NEW l,
         k \in {p[1], p[1] + 1}, l \in {p[2], p[2] + 1}, k # p[1] \/ l # p[2]
  PROVE  Left(s, t, << k, l >>) < Left(s, t, p)
<1>1. << k, l >>[1] = k /\ << k, l >>[2] = l
  OBVIOUS
<1>2. Left(s, t, << k, l >>) = (Len(s) + 1 - k) + (Len(t) + 1 - l)
  BY <1>1 DEF Left
<1>3. \A m, n, a, b, c, d \in Int :
        (c = a \/ c = a + 1) /\ (d = b \/ d = b + 1) /\ (c # a \/ d # b)
          => (m + 1 - c) + (n + 1 - d) < (m + 1 - a) + (n + 1 - b)
  OBVIOUS
<1>4. Len(s) \in Int /\ Len(t) \in Int /\ k \in Int /\ l \in Int
  OBVIOUS
<1>5. (Len(s) + 1 - k) + (Len(t) + 1 - l) < (Len(s) + 1 - p[1]) + (Len(t) + 1 - p[2])
  BY <1>3, <1>4
<1> QED
  BY <1>2, <1>5 DEF Left

(* The walk at a place looks at later places only.                          *)
LEMMA WalkLooksAhead ==
  ASSUME NEW s, NEW t, Len(s) \in Nat, Len(t) \in Nat, NEW w, NEW w2,
         NEW p \in Places(s, t),
         \A q \in Places(s, t) : Left(s, t, q) < Left(s, t, p) => w[q] = w2[q]
  PROVE  WalkFrom(s, t, w, p) = WalkFrom(s, t, w2, p)
<1> DEFINE i == p[1]
           j == p[2]
<1>1. i \in 1..(Len(s) + 1) /\ j \in 1..(Len(t) + 1)
  BY DEF Places
<1> SUFFICES ASSUME ~(i > Len(s)), ~(j > Len(t))
             PROVE  /\ w[<< i + 1, j >>] = w2[<< i + 1, j >>]
                    /\ w[<< i, j + 1 >>] = w2[<< i, j + 1 >>]
                    /\ w[<< i + 1, j + 1 >>] = w2[<< i + 1, j + 1 >>]
  BY Zenon DEF WalkFrom
<1>2. ASSUME NEW k, NEW l, k \in {i, i + 1}, l \in {j, j + 1}, k # i \/ l # j
      PROVE  w[<< k, l >>] = w2[<< k, l >>]
  <2>1. k \in 1..(Len(s) + 1) /\ l \in 1..(Len(t) + 1)
    BY <1>1, <1>2
  <2>2. << k, l >> \in Places(s, t)
    BY <2>1 DEF Places
  <2>3. Left(s, t, << k, l >>) < Left(s, t, p)
    <3>1. i \in Int /\ j \in Int
      BY <1>1
    <3> QED
      BY <1>2, <3>1, LaterHasLess
  <2> QED
    BY <2>2, <2>3
<1>3. i + 1 # i /\ j + 1 # j
  BY <1>1
<1> QED
  BY <1>2, <1>3

(* The walk is right at the places with less than d left.                   *)
WalkedTo(s, t, d, w) ==
  \A p \in Places(s, t) : Left(s, t, p) < d => w[p] = WalkFrom(s, t, w, p)

LEMMA WalkExists ==
  ASSUME NEW s, NEW t, Len(s) \in Nat, Len(t) \in Nat
  PROVE  \E w : Walk(s, t, w)
<1> DEFINE S == {d \in Nat : \E w : WalkedTo(s, t, d, w)}
<1>0. \A p \in Places(s, t) : Left(s, t, p) \in 0..(Len(s) + Len(t))
  BY DEF Places, Left
<1>1. 0 \in S
  <2>1. WalkedTo(s, t, 0, 0)
    BY <1>0 DEF WalkedTo
  <2> QED
    BY <2>1
<1>2. ASSUME NEW d \in Nat, d \in S PROVE d + 1 \in S
  <2>1. PICK w : WalkedTo(s, t, d, w)
    BY <1>2
  <2> DEFINE w2 == [p \in Places(s, t) |-> WalkFrom(s, t, w, p)]
  <2>2. \A q \in Places(s, t) : w2[q] = WalkFrom(s, t, w, q)
    BY Zenon
  <2> HIDE DEF w2
  <2>3. ASSUME NEW p \in Places(s, t), Left(s, t, p) < d + 1
        PROVE  w2[p] = WalkFrom(s, t, w2, p)
    <3>1. ASSUME NEW q \in Places(s, t), Left(s, t, q) < Left(s, t, p)
          PROVE  w[q] = w2[q]
      <4>1. Left(s, t, q) < d
        BY <1>0, <2>3, <3>1
      <4> QED
        BY <2>1, <2>2, <4>1 DEF WalkedTo
    <3>2. WalkFrom(s, t, w, p) = WalkFrom(s, t, w2, p)
      BY <3>1, WalkLooksAhead
    <3> QED
      BY <2>2, <3>2
  <2>4. WalkedTo(s, t, d + 1, w2)
    BY <2>3 DEF WalkedTo
  <2>5. d + 1 \in Nat
    OBVIOUS
  <2> QED
    BY <2>4, <2>5
<1>3. Nat \subseteq S
  <2> HIDE DEF S
  <2> QED
    BY <1>1, <1>2, NatSetInduction
<1>4. Len(s) + Len(t) + 1 \in Nat
  OBVIOUS
<1>5. PICK w : WalkedTo(s, t, Len(s) + Len(t) + 1, w)
  BY <1>3, <1>4
<1>6. \A p \in Places(s, t) : w[p] = WalkFrom(s, t, w, p)
  BY <1>0, <1>5 DEF WalkedTo
<1> DEFINE w2 == [p \in Places(s, t) |-> WalkFrom(s, t, w, p)]
<1>7. \A q \in Places(s, t) : w2[q] = WalkFrom(s, t, w, q)
  BY Zenon
<1>8. w2 = [p \in Places(s, t) |-> WalkFrom(s, t, w2, p)]
  <2>1. \A q \in Places(s, t) : w[q] = w2[q]
    BY <1>6, <1>7
  <2> HIDE DEF w2
  <2>2. \A p \in Places(s, t) : WalkFrom(s, t, w, p) = WalkFrom(s, t, w2, p)
    BY <2>1, WalkLooksAhead
  <2> QED
    BY <2>2, Zenon DEF w2
<1> HIDE DEF w2
<1>9. Walk(s, t, w2)
  BY <1>8, Zenon DEF Walk
<1> QED
  BY <1>9

Walks(s, t, w) == \A p \in Places(s, t) : w[p] = WalkFrom(s, t, w, p)

LEMMA SetUnionUnfold ==
  ASSUME NEW s, NEW t, Len(s) \in Nat, Len(t) \in Nat
  PROVE  \E w : set_union(s, t) = w[<< 1, 1 >>] /\ Walks(s, t, w)
<1> DEFINE w == CHOOSE v : Walk(s, t, v)
<1>1. Walk(s, t, w)
  BY WalkExists, Zenon
<1>2. set_union(s, t) = w[<< 1, 1 >>]
  BY SetUnionChosen, Zenon
<1> HIDE DEF w
<1>3. Walks(s, t, w)
  BY <1>1, WalkAt DEF Walks
<1> QED
  BY <1>2, <1>3

-----------------------------------------------------------------------------
(* Of two different messages one is before the other.                       *)
Compared(M) == \A m, n \in M : m = n \/ MessageBefore(m, n) \/ MessageBefore(n, m)

(* What is said of both vectors from a place on, and nothing else.          *)
SaysLeft(M, s, t, p, v) ==
  /\ v \in Seq(M)
  /\ \A x : Says(v, x) <=> \/ \E b \in p[1]..Len(s) : s[b] = x
                          \/ \E b \in p[2]..Len(t) : t[b] = x

LEMMA WalkSays ==
  ASSUME NEW M, Compared(M), NEW s \in Seq(M), NEW t \in Seq(M), NEW w, Walks(s, t, w)
  PROVE  \A p \in Places(s, t) : SaysLeft(M, s, t, p, w[p])
<1>0. Len(s) \in Nat /\ Len(t) \in Nat
  BY LenProperties
<1> DEFINE Rest(v, i, x) == \E b \in i..Len(v) : v[b] = x
           Good(p) == /\ w[p] \in Seq(M)
                      /\ \A x : Says(w[p], x) <=> Rest(s, p[1], x) \/ Rest(t, p[2], x)
           S == {d \in Nat : \A p \in Places(s, t) : Left(s, t, p) < d => Good(p)}
<1>2. \A p \in Places(s, t) : Left(s, t, p) \in 0..(Len(s) + Len(t))
  BY <1>0 DEF Places, Left
<1>3. 0 \in S
  BY <1>2
<1>4. \A v, i, x : Len(v) \in Nat /\ i \in 1..Len(v) =>
                     (Rest(v, i, x) <=> x = v[i] \/ Rest(v, i + 1, x))
  <2> SUFFICES ASSUME NEW v, NEW i, NEW x, Len(v) \in Nat, i \in 1..Len(v)
               PROVE  Rest(v, i, x) <=> x = v[i] \/ Rest(v, i + 1, x)
    OBVIOUS
  <2>1. i..Len(v) = {i} \cup (i + 1)..Len(v)
    OBVIOUS
  <2> QED
    BY <2>1
<1>5. ASSUME NEW d \in Nat, d \in S PROVE d + 1 \in S
  <2> SUFFICES ASSUME NEW p \in Places(s, t), Left(s, t, p) < d + 1 PROVE Good(p)
    OBVIOUS
  <2> DEFINE i == p[1]
             j == p[2]
  <2>1. i \in 1..(Len(s) + 1) /\ j \in 1..(Len(t) + 1)
    BY DEF Places
  <2>2. w[p] = WalkFrom(s, t, w, p)
    BY DEF Walks
  <2>3. ASSUME NEW k, NEW l, k \in {i, i + 1}, l \in {j, j + 1}, k # i \/ l # j,
               i <= Len(s), j <= Len(t)
        PROVE  Good(<< k, l >>)
    <3>1. k \in 1..(Len(s) + 1) /\ l \in 1..(Len(t) + 1)
      BY <1>0, <2>1, <2>3
    <3>2. << k, l >> \in Places(s, t)
      BY <3>1 DEF Places
    <3>3. Left(s, t, << k, l >>) < Left(s, t, p)
      <4>1. i \in Int /\ j \in Int
        BY <2>1
      <4> QED
        BY <1>0, <2>3, <4>1, LaterHasLess
    <3>4. Left(s, t, << k, l >>) < d
      BY <1>2, <3>2, <3>3
    <3> HIDE DEF Good
    <3> QED
      BY <1>5, <3>2, <3>4
  <2>4. CASE i > Len(s)
    <3>1. w[p] = SubSeq(t, j, Len(t))
      BY <2>2, <2>4 DEF WalkFrom
    <3>2. \A x : ~Rest(s, i, x)
      BY <1>0, <2>1, <2>4
    <3>3. /\ w[p] \in Seq(M)
          /\ \A x : Says(w[p], x) <=> Rest(t, j, x)
      BY <2>1, <3>1, SaysRest
    <3> HIDE DEF Rest
    <3> QED
      BY <3>2, <3>3
  <2>5. CASE ~(i > Len(s)) /\ j > Len(t)
    <3>1. w[p] = SubSeq(s, i, Len(s))
      BY <2>2, <2>5 DEF WalkFrom
    <3>2. \A x : ~Rest(t, j, x)
      BY <1>0, <2>1, <2>5
    <3>3. /\ w[p] \in Seq(M)
          /\ \A x : Says(w[p], x) <=> Rest(s, i, x)
      BY <2>1, <3>1, SaysRest
    <3> HIDE DEF Rest
    <3> QED
      BY <3>2, <3>3
  <2>6. CASE ~(i > Len(s)) /\ ~(j > Len(t))
    <3>1. i \in 1..Len(s) /\ j \in 1..Len(t) /\ s[i] \in M /\ t[j] \in M
          /\ i <= Len(s) /\ j <= Len(t) /\ i + 1 # i /\ j + 1 # j
      BY <1>0, <2>1, <2>6, ElementOfSeq
    <3>2. /\ \A x : Rest(s, i, x) <=> x = s[i] \/ Rest(s, i + 1, x)
          /\ \A x : Rest(t, j, x) <=> x = t[j] \/ Rest(t, j + 1, x)
      <4> HIDE DEF Rest
      <4> QED
        BY <1>0, <1>4, <3>1
    <3>3. /\ Good(<< i + 1, j >>) /\ Good(<< i, j + 1 >>) /\ Good(<< i + 1, j + 1 >>)
      <4> HIDE DEF Good
      <4> QED
        BY <2>3, <3>1
    <3> DEFINE v1 == w[<< i + 1, j >>]
               v2 == w[<< i, j + 1 >>]
               v3 == w[<< i + 1, j + 1 >>]
    <3>4. /\ v1 \in Seq(M)
          /\ \A x : Says(v1, x) <=> Rest(s, i + 1, x) \/ Rest(t, j, x)
      BY <3>3
    <3>5. /\ v2 \in Seq(M)
          /\ \A x : Says(v2, x) <=> Rest(s, i, x) \/ Rest(t, j + 1, x)
      BY <3>3
    <3>6. /\ v3 \in Seq(M)
          /\ \A x : Says(v3, x) <=> Rest(s, i + 1, x) \/ Rest(t, j + 1, x)
      BY <3>3
    <3>7. \/ w[p] = << s[i] >> \o v1
          \/ w[p] = << t[j] >> \o v2
          \/ w[p] = << s[i] >> \o v3 /\ s[i] = t[j]
      <4>1. s[i] = t[j] \/ MessageBefore(s[i], t[j]) \/ MessageBefore(t[j], s[i])
        BY <3>1 DEF Compared
      <4> QED
        BY <2>2, <2>6, <4>1, Zenon DEF WalkFrom
    <3> HIDE DEF v1, v2, v3, Rest
    <3>8. CASE w[p] = << s[i] >> \o v1
      <4>1. /\ w[p] \in Seq(M)
            /\ \A x : Says(w[p], x) <=> x = s[i] \/ Says(v1, x)
        BY <3>1, <3>4, <3>8, SaysOneMore
      <4> QED
        BY <4>1, <3>2, <3>4
    <3>9. CASE w[p] = << t[j] >> \o v2
      <4>1. /\ w[p] \in Seq(M)
            /\ \A x : Says(w[p], x) <=> x = t[j] \/ Says(v2, x)
        BY <3>1, <3>5, <3>9, SaysOneMore
      <4> QED
        BY <4>1, <3>2, <3>5
    <3>10. CASE w[p] = << s[i] >> \o v3 /\ s[i] = t[j]
      <4>1. /\ w[p] \in Seq(M)
            /\ \A x : Says(w[p], x) <=> x = s[i] \/ Says(v3, x)
        BY <3>1, <3>6, <3>10, SaysOneMore
      <4> QED
        BY <4>1, <3>2, <3>6, <3>10
    <3> QED
      BY <3>7, <3>8, <3>9, <3>10
  <2> QED
    BY <2>4, <2>5, <2>6
<1>6. Nat \subseteq S
  <2> HIDE DEF S
  <2> QED
    BY <1>3, <1>5, NatSetInduction
<1> SUFFICES ASSUME NEW p \in Places(s, t) PROVE Good(p)
  BY DEF SaysLeft
<1>7. Len(s) + Len(t) + 1 \in Nat /\ Left(s, t, p) < Len(s) + Len(t) + 1
  BY <1>0, <1>2
<1> HIDE DEF Good
<1> QED
  BY <1>6, <1>7

(* set_union says what either vector says and nothing else, sorted or not.  *)
LEMMA SetUnionSays ==
  ASSUME NEW M, Compared(M), NEW s \in Seq(M), NEW t \in Seq(M)
  PROVE  /\ set_union(s, t) \in Seq(M)
         /\ \A x : Says(set_union(s, t), x) <=> Says(s, x) \/ Says(t, x)
<1>1. Len(s) \in Nat /\ Len(t) \in Nat
  BY LenProperties
<1>2. PICK w : set_union(s, t) = w[<< 1, 1 >>] /\ Walks(s, t, w)
  BY <1>1, SetUnionUnfold
<1>3. << 1, 1 >> \in Places(s, t) /\ << 1, 1 >>[1] = 1 /\ << 1, 1 >>[2] = 1
  BY <1>1 DEF Places
<1>4. SaysLeft(M, s, t, << 1, 1 >>, set_union(s, t))
  BY <1>2, <1>3, WalkSays
<1> QED
  BY <1>3, <1>4 DEF Says, SaysLeft

-----------------------------------------------------------------------------
(* The order of texts, and of messages, is total.                           *)
LEMMA TextsCompared ==
  ASSUME NEW s \in Seq(Nat), NEW t \in Seq(Nat)
  PROVE  s = t \/ TextBefore(s, t) \/ TextBefore(t, s)
<1>1. Len(s) \in Nat /\ Len(t) \in Nat
  BY LenProperties
<1>2. /\ \A i \in 1..Len(s) : s[i] \in Nat
      /\ \A i \in 1..Len(t) : t[i] \in Nat
  BY ElementOfSeq
<1> DEFINE Same(n) == \A i \in 1..n : s[i] = t[i]
           Decided == TextBefore(s, t) \/ TextBefore(t, s)
           S == {n \in Nat : n <= Len(s) /\ n <= Len(t) => Same(n) \/ Decided}
<1>3. 0 \in S
  OBVIOUS
<1>4. ASSUME NEW n \in Nat, n \in S PROVE n + 1 \in S
  <2> SUFFICES ASSUME n + 1 <= Len(s), n + 1 <= Len(t) PROVE Same(n + 1) \/ Decided
    OBVIOUS
  <2>1. Same(n) \/ Decided
    BY <1>1, <1>4
  <2>2. s[n + 1] \in Nat /\ t[n + 1] \in Nat
    BY <1>1, <1>2
  <2>3. CASE Same(n) /\ s[n + 1] = t[n + 1]
    <3>1. 1..(n + 1) = (1..n) \cup {n + 1}
      OBVIOUS
    <3> QED
      BY <2>3, <3>1
  <2>4. CASE Same(n) /\ s[n + 1] < t[n + 1]
    <3>1. n \in 0..Len(s) /\ n <= Len(t) /\ n < Len(t)
      BY <1>1
    <3>2. TextBefore(s, t)
      BY <2>4, <3>1 DEF TextBefore
    <3> QED
      BY <3>2
  <2>5. CASE Same(n) /\ t[n + 1] < s[n + 1]
    <3>1. n \in 0..Len(t) /\ n <= Len(s) /\ n < Len(s)
      BY <1>1
    <3>2. TextBefore(t, s)
      BY <2>5, <3>1 DEF TextBefore
    <3> QED
      BY <3>2
  <2> QED
    BY <2>1, <2>2, <2>3, <2>4, <2>5
<1>5. Nat \subseteq S
  <2> HIDE DEF S
  <2> QED
    BY <1>3, <1>4, NatSetInduction
<1>6. CASE Len(s) = Len(t)
  <2>1. Same(Len(s)) \/ Decided
    <3>1. Len(s) \in S /\ Len(s) <= Len(t)
      <4> HIDE DEF S
      <4> QED
        BY <1>1, <1>5, <1>6
    <3> QED
      BY <1>1, <3>1
  <2>2. Same(Len(s)) => s = t
    BY <1>6, SeqEqual
  <2> QED
    BY <2>1, <2>2
<1>7. CASE Len(s) < Len(t)
  <2>1. Same(Len(s)) \/ Decided
    <3>1. Len(s) \in S /\ Len(s) <= Len(t)
      <4> HIDE DEF S
      <4> QED
        BY <1>1, <1>5, <1>7
    <3> QED
      BY <1>1, <3>1
  <2>2. Same(Len(s)) => TextBefore(s, t)
    BY <1>1, <1>7 DEF TextBefore
  <2> QED
    BY <2>1, <2>2
<1>8. CASE Len(t) < Len(s)
  <2>1. Same(Len(t)) \/ Decided
    <3>1. Len(t) \in S /\ Len(t) <= Len(s) /\ Len(t) <= Len(t)
      <4> HIDE DEF S
      <4> QED
        BY <1>1, <1>5, <1>8
    <3> QED
      BY <1>1, <3>1
  <2>2. Same(Len(t)) => TextBefore(t, s)
    BY <1>1, <1>8 DEF TextBefore
  <2> QED
    BY <2>1, <2>2
<1> QED
  BY <1>1, <1>6, <1>7, <1>8

LEMMA MessagesCompared == Compared(AllMessages)
<1> SUFFICES ASSUME NEW m \in AllMessages, NEW n \in AllMessages
             PROVE  m = n \/ MessageBefore(m, n) \/ MessageBefore(n, m)
  BY DEF Compared
<1>1. /\ m.type \in Int /\ n.type \in Int
      /\ m.text \in Seq(Nat) /\ n.text \in Seq(Nat)
      /\ m.type = n.type /\ m.text = n.text => m = n
  BY DEF AllMessages, SysUnExpect, Msg
<1>2. m.text = n.text \/ TextBefore(m.text, n.text) \/ TextBefore(n.text, m.text)
  BY <1>1, TextsCompared
<1> QED
  BY <1>1, <1>2 DEF MessageBefore

-----------------------------------------------------------------------------
(* Positions are in line.                                                   *)
LEMMA PositionsInLine ==
  /\ \A p \in Position : PosAtMost(p, p)
  /\ \A p, q, r \in Position : PosAtMost(p, q) /\ PosAtMost(q, r) => PosAtMost(p, r)
  /\ \A p, q \in Position : p = q \/ PosBefore(p, q) \/ PosBefore(q, p)
  /\ \A p, q \in Position : PosBefore(p, q) => PosAtMost(p, q) /\ ~PosAtMost(q, p)
<1>1. \A p \in Position : p.line \in Int /\ p.column \in Int
  BY DEF Position
<1>2. \A p, q \in Position : p.line = q.line /\ p.column = q.column => p = q
  BY DEF Position
<1> QED
  BY <1>1, <1>2 DEF PosAtMost, PosBefore

(* Further on in a text is no earlier a position.                           *)
LEMMA PosAtMonotone ==
  ASSUME NEW text, NEW i \in Nat, NEW j \in Nat, i <= j
  PROVE  PosAtMost(PosAt(text, i), PosAt(text, j))
<1> DEFINE S == {k \in Nat : PosAtMost(PosAt(text, i), PosAt(text, i + k))}
<1>1. 0 \in S
  BY PosAtType, PositionsInLine
<1>2. ASSUME NEW k \in Nat, k \in S PROVE k + 1 \in S
  <2>1. PosAt(text, (i + k) + 1) = update_pos_char(PosAt(text, i + k), text[(i + k) + 1])
    BY PosAtNext
  <2>2. /\ PosAt(text, i) \in Position /\ PosAt(text, i + k) \in Position
        /\ PosAt(text, (i + k) + 1) \in Position
    BY PosAtType
  <2>3. PosBefore(PosAt(text, i + k), PosAt(text, (i + k) + 1))
    BY <2>1, <2>2, UpdatePosType
  <2>4. PosAtMost(PosAt(text, i), PosAt(text, (i + k) + 1))
    BY <1>2, <2>2, <2>3, PositionsInLine
  <2>5. (i + k) + 1 = i + (k + 1)
    OBVIOUS
  <2> QED
    BY <2>4, <2>5
<1>3. Nat \subseteq S
  <2> HIDE DEF S
  <2> QED
    BY <1>1, <1>2, NatSetInduction
<1>4. j - i \in Nat /\ i + (j - i) = j
  OBVIOUS
<1> QED
  BY <1>3, <1>4

-----------------------------------------------------------------------------
(* ParseError::merge.                                                       *)
IsError(e) ==
  /\ DOMAIN e = {"pos", "messages"}
  /\ e.pos \in Position
  /\ e.messages \in Seq(AllMessages)

(* What error e says is in error m, unless e is silent or further back.     *)
KeptIn(m, e) ==
  \/ is_unknown(e)
  \/ PosBefore(e.pos, m.pos)
  \/ e.pos = m.pos /\ \A x : Says(e.messages, x) => Says(m.messages, x)

LEMMA SilentIsUnknown ==
  ASSUME NEW e, IsError(e)
  PROVE  is_unknown(e) <=> ~\E x : Says(e.messages, x)
<1>1. Len(e.messages) \in Nat
  BY LenProperties DEF IsError
<1>2. CASE e.messages = << >>
  <2>1. Len(e.messages) = 0
    BY <1>2
  <2> QED
    BY <1>2, <2>1 DEF is_unknown, Says
<1>3. CASE e.messages # << >>
  <2>1. 1 \in 1..Len(e.messages)
    BY <1>1, <1>3, EmptySeq DEF IsError
  <2> QED
    BY <1>3, <2>1 DEF is_unknown, Says
<1> QED
  BY <1>2, <1>3

(* The merged error is at one of both positions, the furthest that one says *)
(* anything of; it keeps all that is said there and makes up nothing.       *)
THEOREM MergeKeepsFurthest ==
  ASSUME NEW e1, NEW e2, IsError(e1), IsError(e2)
  PROVE  /\ IsError(merge(e1, e2))
         /\ merge(e1, e2).pos \in {e1.pos, e2.pos}
         /\ KeptIn(merge(e1, e2), e1) /\ KeptIn(merge(e1, e2), e2)
         /\ is_unknown(merge(e1, e2)) <=> is_unknown(e1) /\ is_unknown(e2)
         /\ \A x : Says(merge(e1, e2).messages, x) =>
                     Says(e1.messages, x) \/ Says(e2.messages, x)
<1> DEFINE m == merge(e1, e2)
<1>1. \A e : KeptIn(e, e)
  BY DEF KeptIn
<1>2. CASE is_unknown(e1)
  <2>1. m = e2
    BY <1>2 DEF merge
  <2> QED
    BY <1>1, <1>2, <2>1 DEF KeptIn
<1>3. CASE ~is_unknown(e1) /\ is_unknown(e2)
  <2>1. m = e1
    BY <1>3 DEF merge
  <2> QED
    BY <1>1, <1>3, <2>1 DEF KeptIn
<1>4. CASE ~is_unknown(e1) /\ ~is_unknown(e2) /\ PosBefore(e2.pos, e1.pos)
  <2>1. m = e1
    BY <1>4 DEF merge
  <2> QED
    BY <1>1, <1>4, <2>1 DEF KeptIn
<1>5. CASE ~is_unknown(e1) /\ ~is_unknown(e2) /\ ~PosBefore(e2.pos, e1.pos)
           /\ PosBefore(e1.pos, e2.pos)
  <2>1. m = e2
    BY <1>5 DEF merge
  <2> QED
    BY <1>1, <1>5, <2>1 DEF KeptIn
<1>6. CASE ~is_unknown(e1) /\ ~is_unknown(e2) /\ ~PosBefore(e2.pos, e1.pos)
           /\ ~PosBefore(e1.pos, e2.pos)
  <2> DEFINE both == set_union(e1.messages, e2.messages)
  <2>1. m = [pos |-> e1.pos, messages |-> both]
    BY <1>6 DEF merge
  <2>2. e1.pos = e2.pos
    BY <1>6, PositionsInLine DEF IsError
  <2>3. /\ both \in Seq(AllMessages)
        /\ \A x : Says(both, x) <=> Says(e1.messages, x) \/ Says(e2.messages, x)
    BY MessagesCompared, SetUnionSays DEF IsError
  <2> HIDE DEF both
  <2>4. m.pos = e1.pos /\ m.messages = both /\ DOMAIN m = {"pos", "messages"}
    BY <2>1
  <2> HIDE DEF m
  <2>5. IsError(m)
    BY <2>3, <2>4 DEF IsError
  <2>6. ~is_unknown(m)
    BY <1>6, <2>3, <2>4, <2>5, SilentIsUnknown
  <2>7. KeptIn(m, e1) /\ KeptIn(m, e2)
    BY <2>2, <2>3, <2>4 DEF KeptIn
  <2> QED
    BY <1>6, <2>3, <2>4, <2>5, <2>6, <2>7 DEF m
<1> QED
  BY <1>2, <1>3, <1>4, <1>5, <1>6
=============================================================================
