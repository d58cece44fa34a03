----------------------------- MODULE ErrorMachine -----------------------------
(***************************************************************************)
(* A few ParseErrors and everything error.hpp does to them: parsers fail   *)
(* and are merged in some order, messages are added and replaced, and at   *)
(* any time an error may be formatted.                                     *)
(***************************************************************************)
EXTENDS ParseError

LOCAL INSTANCE SequencesExt

CONSTANTS Slots,        \* the ParseErrors at hand
          Failures,     \* the errors parsers fail with
          Messages,     \* the messages to add
          Vectors,      \* the messages to set
          MaxMessages   \* the bound on an error's messages

(* They are what their types say: ParseErrors, Messages, vectors of them.   *)
AllErrors == [pos : Position, messages : Seq(AllMessages)]

ASSUME TypesAssumption == /\ Failures \subseteq AllErrors
                          /\ Messages \subseteq AllMessages
                          /\ Vectors \subseteq Seq(AllMessages)

VARIABLES err,   \* of every slot, its ParseError
          asked  \* the last operation and its arguments

vars == << err, asked >>

-----------------------------------------------------------------------------
(* std::lower_bound as the library runs it, sorted or not: how many         *)
(* messages the halving finds before m.                                     *)
lower_bound(msgs, m) ==
  LET ranges == {r \in (0..Len(msgs)) \X (0..Len(msgs)) : r[1] + r[2] <= Len(msgs)}
      search[r \in ranges] ==
        LET first == r[1]
            len   == r[2]
            half  == len \div 2
        IN  IF len = 0 THEN first
            ELSE IF MessageBefore(msgs[first + half + 1], m)
                 THEN search[<< first + half + 1, len - half - 1 >>]
                 ELSE search[<< first, half >>]
  IN  search[<< 0, Len(msgs) >>]

\* Mutant: the message goes in behind the first that is not before it.
AddMessageBehind(e, m) ==
  LET it == lower_bound(e.messages, m) + 1
  IN  IF it <= Len(e.messages) /\ e.messages[it] = m THEN e
      ELSE [e EXCEPT !.messages = IF it > Len(@) THEN Append(@, m) ELSE InsertAt(@, it + 1, m)]

add_message(e, m) ==
  LET it == lower_bound(e.messages, m) + 1
  IN  IF it <= Len(e.messages) /\ e.messages[it] = m THEN e
      ELSE [e EXCEPT !.messages = InsertAt(@, it, m)]

(* std::sort, then std::unique: each message once, in order.                *)
SortedOnce(said) ==
  CHOOSE v \in [1..Cardinality(said) -> said] : ToSet(v) = said /\ StrictlySorted(v)

set_messages(e, msgs) == [e EXCEPT !.messages = SortedOnce(ToSet(msgs))]

\* Mutant: the texts are printed as often and in the order they are met.
TextsAsMet(msgs, types) ==
  LET chosen == SelectSeq(msgs, LAMBDA m : m.type \in types)
  IN  [i \in DOMAIN chosen |-> chosen[i].text]

(* The texts of some types of message, sorted, each once.                   *)
TextsOf(msgs, types) ==
  SetToSortSeq({m.text : m \in {n \in ToSet(msgs) : n.type \in types}}, TextBefore)

(* What format prints: the parts between its semicolons.                    *)
format(e) ==
  LET unexpects == TextsOf(e.messages, {SysUnExpect, UnExpect})
      expects   == TextsOf(e.messages, {Expect})
      others    == TextsOf(e.messages, {Msg})
      part(head, texts) ==
        IF texts = << >> THEN << >> ELSE << [head |-> head, texts |-> texts] >>
  IN  IF is_unknown(e) THEN [head |-> "Unknown parse error", pos |-> e.pos]
      ELSE [head |-> "Parse error", pos |-> e.pos,
            parts |-> (IF unexpects = << << >> >>
                       THEN << [head |-> "unexpected end of input"] >>
                       ELSE part("unexpected", unexpects))
                      \o part("expecting", expects)
                      \o [i \in DOMAIN others |-> [text |-> others[i]]]]

-----------------------------------------------------------------------------
Init == /\ err \in [Slots -> Failures]
        /\ asked = << "nothing" >>

(* A parser fails with an error of its own.                                 *)
Fail(s) == \E e \in Failures : /\ err' = [err EXCEPT ![s] = e]
                               /\ asked' = << "fail", s >>

(* An error found before, or one found since, is merged in.                 *)
Merge(s, x, y) ==
  /\ Len(merge(err[x], err[y]).messages) <= MaxMessages
  /\ err' = [err EXCEPT ![s] = merge(err[x], err[y])]
  /\ asked' = << "merge", s, x, y >>

AddMessage(s, m) ==
  /\ Len(add_message(err[s], m).messages) <= MaxMessages
  /\ err' = [err EXCEPT ![s] = add_message(@, m)]
  /\ asked' = << "add", s, m >>

SetMessages(s, msgs) ==
  /\ err' = [err EXCEPT ![s] = set_messages(@, msgs)]
  /\ asked' = << "set", s, ToSet(msgs) >>

Next ==
  \E s \in Slots :
    \/ Fail(s)
    \/ \E other \in Slots \ {s} : Merge(s, s, other) \/ Merge(s, other, s)
    \/ \E m \in Messages : AddMessage(s, m)
    \/ \E msgs \in Vectors : SetMessages(s, msgs)

Spec == Init /\ [][Next]_vars

-----------------------------------------------------------------------------
(* However merge's and add_message's walks over the vectors go, and even on *)
(* the unsorted ones that tokens and label build, an error is its position  *)
(* and the set of its messages: none is lost, none made up, and one that is *)
(* further back leaves nothing.                                             *)
AsSet(e) == [pos |-> e.pos, said |-> ToSet(e.messages)]

Abstract == INSTANCE MessageSets
              WITH heard <- [s \in Slots |-> AsSet(err[s])],
                   Heard <- {AsSet(e) : e \in Failures},
                   Sayings <- Messages,
                   Statements <- {ToSet(msgs) : msgs \in Vectors}

ImplementsMessageSets == Abstract!Spec

(* While all vectors are sorted and without duplicates, as merge's comment  *)
(* assumes, none but a parser's own failure is not.                         *)
KeepsSorted ==
  [][(\A s \in Slots : StrictlySorted(err[s].messages)) =>
       \A s \in Slots : StrictlySorted(err'[s].messages) \/ err'[s] \in Failures]_vars

(* The report a user reads does not depend on the order in which the errors *)
(* of alternatives were merged, nor on how they were bracketed.  (Only among *)
(* errors without a message the last one's position is kept.)               *)
ReportIgnoresOrder ==
  \A x, y \in Slots, e \in Failures :
    LET reports == {format(merge(merge(err[x], err[y]), e)),
                    format(merge(err[x], merge(err[y], e))),
                    format(merge(merge(e, err[y]), err[x]))}
    IN  \/ Cardinality(reports) = 1
        \/ is_unknown(err[x]) /\ is_unknown(err[y]) /\ is_unknown(e)

(* Unsorted vectors are merged to unsorted ones that may hold a message     *)
(* twice; the report is still the one of the sorted vector without          *)
(* duplicates.                                                              *)
DisorderNeverShows ==
  \A s \in Slots : format(err[s]) = format(set_messages(err[s], err[s].messages))
=============================================================================
