------------------------------- MODULE MCErrors -------------------------------
(***************************************************************************)
(* Two errors at two positions, the one later in the text with the smaller *)
(* column, merged with each other and with new ones.                       *)
(***************************************************************************)
EXTENDS ErrorMachine

a == << 97 >>
b == << 98 >>
Positions == {[line |-> 1, column |-> 5], [line |-> 2, column |-> 1]}

MCMessages == {Message(SysUnExpect, << >>), Message(UnExpect, a), Message(Expect, a),
               Message(Msg, b)}

(* fail, unexpected, token_prim and label make errors of one message,       *)
(* tokens one of two out of order; label keeps a Msg before its Expect.     *)
MCFailures ==
  {unknown(p) : p \in Positions}
  \cup {[pos |-> p, messages |-> << m >>] : p \in Positions, m \in MCMessages}
  \cup {[pos |-> p, messages |-> msgs] : p \in Positions,
          msgs \in {<< Message(Expect, a), Message(SysUnExpect, << >>) >>,
                    << Message(Msg, b), Message(Expect, a) >>}}

(* Replaced by nothing, or by unsorted messages.                            *)
MCVectors == {<< >>, << Message(Msg, b), Message(Expect, a), Message(Msg, b) >>}
=============================================================================
