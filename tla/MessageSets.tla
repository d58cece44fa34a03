------------------------------ MODULE MessageSets ------------------------------
(***************************************************************************)
(* What a ParseError promises: a position and the set of things to be said *)
(* of it.  Of two errors combined the one further on counts, one that says *)
(* nothing does not, and two at the same place say what either said.  In   *)
(* which order messages came makes no difference.                          *)
(***************************************************************************)
EXTENDS SourcePos

CONSTANTS Slots, Heard, Sayings, Statements  \* errors to hear of, things to
                                             \* say of one, and to say instead

VARIABLES heard,  \* of every slot, a position and the set of what is said
          asked   \* what was asked for last

Furthest(positions) ==
  CHOOSE p \in positions : \A q \in positions : PosAtMost(q, p)

(* Two silent errors leave the second's position.                           *)
Together(x, y) ==
  LET loud == {r \in {x, y} : r.said # {}}
      pos  == Furthest({r.pos : r \in loud})
  IN  IF loud = {} THEN y
      ELSE [pos |-> pos, said |-> UNION {r.said : r \in {l \in loud : l.pos = pos}}]

Init == /\ heard \in [Slots -> Heard]
        /\ asked = << "nothing" >>

Hear(s) == \E r \in Heard : /\ heard' = [heard EXCEPT ![s] = r]
                            /\ asked' = << "fail", s >>

Combine(s, x, y) == /\ heard' = [heard EXCEPT ![s] = Together(heard[x], heard[y])]
                    /\ asked' = << "merge", s, x, y >>

Say(s, m) == /\ heard' = [heard EXCEPT ![s].said = @ \cup {m}]
             /\ asked' = << "add", s, m >>

Restate(s, said) == /\ heard' = [heard EXCEPT ![s].said = said]
                    /\ asked' = << "set", s, said >>

Next == \E s \in Slots : \/ Hear(s)
                         \/ \E x, y \in Slots : Combine(s, x, y)
                         \/ \E m \in Sayings : Say(s, m)
                         \/ \E said \in Statements : Restate(s, said)

setVars == << heard, asked >>

Spec == Init /\ [][Next]_setVars
=============================================================================
