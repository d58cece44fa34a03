------------------------------ MODULE SourcePos ------------------------------
(***************************************************************************)
(* Source positions (include/parsecpp/pos.hpp) and the three places of the *)
(* code that move one over consumed text: update_pos_char, one character   *)
(* at a time; update_pos_string, which counts newlines; and scan_pos of    *)
(* prim.hpp, an inlined copy of the first for take_while.  Characters are  *)
(* their codes and a string is a sequence of codes.                        *)
(***************************************************************************)
EXTENDS Integers, Sequences, FiniteSets

NL  == 10
TAB == 9

(* A SourcePos: line and column count from 1. *)
Position == [line : Nat \ {0}, column : Nat \ {0}]

(* SourcePos{1, 1}, where run_parser starts. *)
StartPos == [line |-> 1, column |-> 1]

(* SourcePos's defaulted operator<=>: first the line, then the column. *)
PosBefore(p, q) ==
  \/ p.line < q.line
  \/ p.line = q.line /\ p.column < q.column

PosAtMost(p, q) == p = q \/ PosBefore(p, q)

(* A newline starts the next line, a tab goes to the next tab stop. *)
update_pos_char(pos, c) ==
  CASE c = NL  -> [line |-> pos.line + 1, column |-> 1]
    [] c = TAB -> [pos EXCEPT !.column = @ + 8 - ((@ - 1) % 8)]
    [] OTHER   -> [pos EXCEPT !.column = @ + 1]

\* Mutant: tabs are not looked for.
UpdatePosStringNoTabs(pos, s) ==
  LET newlines == {i \in DOMAIN s : s[i] = NL}
      last     == CHOOSE i \in newlines : \A j \in newlines : j <= i
  IN  IF newlines = {} THEN [pos EXCEPT !.column = @ + Len(s)]
      ELSE [line |-> pos.line + Cardinality(newlines), column |-> Len(s) - (last - 1)]

(* Strings with a tab go character by character; otherwise the newlines are *)
(* counted and the column is the distance to the last of them.              *)
update_pos_string(pos, s) ==
  LET newlines == {i \in DOMAIN s : s[i] = NL}
      last     == CHOOSE i \in newlines : \A j \in newlines : j <= i
      after[i \in 0..Len(s)] ==
        IF i = 0 THEN pos ELSE update_pos_char(after[i - 1], s[i])
  IN  IF s = << >> THEN pos
      ELSE IF \E i \in DOMAIN s : s[i] = TAB THEN after[Len(s)]
      ELSE IF newlines = {} THEN [pos EXCEPT !.column = @ + Len(s)]
      ELSE [line   |-> pos.line + Cardinality(newlines),
            column |-> Len(s) - (last - 1)]

(* The position after the characters of input in from+1 .. to.             *)
scan_pos(pos, input, from, to) ==
  LET step(p, c) ==
        CASE c = NL  -> [line |-> p.line + 1, column |-> 1]
          [] c = TAB -> [p EXCEPT !.column = @ + (8 - ((@ - 1) % 8))]
          [] OTHER   -> [p EXCEPT !.column = @ + 1]
      at[i \in from..to] == IF i = from THEN pos ELSE step(at[i - 1], input[i])
  IN  at[to]

(* The position of index i of an input: what the characters before it add  *)
(* up to, one at a time.  No code computes it; properties compare with it. *)
PosAt(input, i) ==
  LET at[n \in 0..i] ==
        IF n = 0 THEN StartPos ELSE update_pos_char(at[n - 1], input[n])
  IN  at[i]
=============================================================================
