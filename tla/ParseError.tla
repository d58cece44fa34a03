------------------------------ MODULE ParseError ------------------------------
(***************************************************************************)
(* Parse errors (include/parsecpp/error.hpp): a position and a vector of   *)
(* messages.  A message's text is a sequence of character codes; the text  *)
(* of a label is one code of its own.  ParseError::source_name is left     *)
(* out: run_parser sets it once, on the error it returns, and merge never  *)
(* reads it.                                                               *)
(***************************************************************************)
EXTENDS SourcePos

(* enum MessageType, in the order operator<=> compares it. *)
SysUnExpect == 1
UnExpect    == 2
Expect      == 3
Msg         == 4

Message(type, text) == [type |-> type, text |-> text]

AllMessages == [type : SysUnExpect..Msg, text : Seq(Nat)]

(* std::string's operator<: at the first difference, or a proper prefix.   *)
TextBefore(s, t) ==
  \E n \in 0..Len(s) :
     /\ n <= Len(t)
     /\ \A i \in 1..n : s[i] = t[i]
     /\ n < Len(t)
     /\ n = Len(s) \/ s[n + 1] < t[n + 1]

(* Message's defaulted operator<=>. *)
MessageBefore(m, n) ==
  \/ m.type < n.type
  \/ m.type = n.type /\ TextBefore(m.text, n.text)

(* The precondition of std::set_union, std::lower_bound: strictly sorted.  *)
StrictlySorted(msgs) ==
  \A i \in 1..(Len(msgs) - 1) : MessageBefore(msgs[i], msgs[i + 1])

unknown(pos) == [pos |-> pos, messages |-> << >>]

with_message(pos, type, text) ==
  [pos |-> pos, messages |-> << Message(type, text) >>]

is_unknown(e) == e.messages = << >>

(* std::set_union as the standard library runs it, on whatever it is given: *)
(* on unsorted vectors it is the same two-pointer walk.                     *)
set_union(s, t) ==
  LET walk[p \in (1..(Len(s) + 1)) \X (1..(Len(t) + 1))] ==
        LET i == p[1]
            j == p[2]
        IN  IF i > Len(s) THEN SubSeq(t, j, Len(t))
            ELSE IF j > Len(t) THEN SubSeq(s, i, Len(s))
            ELSE IF MessageBefore(s[i], t[j]) THEN << s[i] >> \o walk[<< i + 1, j >>]
            ELSE IF MessageBefore(t[j], s[i]) THEN << t[j] >> \o walk[<< i, j + 1 >>]
            ELSE << s[i] >> \o walk[<< i + 1, j + 1 >>]
  IN  walk[<< 1, 1 >>]

\* Mutant: at one position the second error's messages replace the first's.
MergeKeepsSecond(e1, e2) ==
  CASE is_unknown(e1)            -> e2
    [] is_unknown(e2)            -> e1
    [] PosBefore(e2.pos, e1.pos) -> e1
    [] OTHER                     -> e2

(* ParseError::merge: an unknown error gives way, the furthest one wins,    *)
(* two at one position pool their messages.                                 *)
merge(e1, e2) ==
  IF is_unknown(e1) THEN e2
  ELSE IF is_unknown(e2) THEN e1
  ELSE IF PosBefore(e2.pos, e1.pos) THEN e1
  ELSE IF PosBefore(e1.pos, e2.pos) THEN e2
  ELSE [pos |-> e1.pos, messages |-> set_union(e1.messages, e2.messages)]
=============================================================================
