------------------------------- MODULE LazyInit -------------------------------
(***************************************************************************)
(* lazy() of prim.hpp: the copies of a lazy parser share one LazyState, a  *)
(* once_flag, the parser and its producer, and threads that parse with     *)
(* them meet in std::call_once.  What call_once does is the standard's:    *)
(* one thread at a time runs the function, an exception leaves the flag as *)
(* it was and lets another thread try, a return closes it for good.  A     *)
(* producer that parses with its own lazy parser is outside the standard.  *)
(***************************************************************************)
EXTENDS Naturals

CONSTANT Threads

VARIABLES
  flag,      \* shared->flag: "fresh", "running", "done"
  parser,    \* shared->parser: 0 is the null one, n the nth that was made
  producer,  \* shared->producer: "set" or "null"
  pc         \* where each thread is in its call

vars == << flag, parser, producer, pc >>

Init ==
  /\ flag = "fresh"
  /\ parser = 0
  /\ producer = "set"
  /\ pc = [t \in Threads |-> "idle"]

Goto(t, from, to) == pc[t] = from /\ pc' = [pc EXCEPT ![t] = to]

Call(t) ==
  /\ Goto(t, "idle", "call_once")
  /\ UNCHANGED << flag, parser, producer >>

\* Mutant: a thread that finds the function running runs it, too.
EnterTogether(t) ==
  /\ Goto(t, "call_once", "produce")
  /\ flag # "done"
  /\ flag' = "running"
  /\ UNCHANGED << parser, producer >>

(* call_once picks this thread to run the function.                         *)
Enter(t) ==
  /\ Goto(t, "call_once", "produce")
  /\ flag = "fresh"
  /\ flag' = "running"
  /\ UNCHANGED << parser, producer >>

(* The function has been run: call_once returns.                            *)
Pass(t) ==
  /\ Goto(t, "call_once", "parse")
  /\ flag = "done"
  /\ UNCHANGED << flag, parser, producer >>

(* shared->parser = shared->producer();                                     *)
ProducerReturns(t) ==
  /\ Goto(t, "produce", "release")
  /\ producer = "set"
  /\ parser' = parser + 1
  /\ UNCHANGED << flag, producer >>

\* Mutant: the flag stays taken after an exception.
ProducerThrowsLocked(t) ==
  /\ Goto(t, "produce", "threw")
  /\ UNCHANGED << flag, parser, producer >>

\* Mutant: the flag is closed by an exception, too.
ProducerThrowsDone(t) ==
  /\ Goto(t, "produce", "threw")
  /\ flag' = "done"
  /\ UNCHANGED << parser, producer >>

(* The producer (or a null std::function) throws through call_once.         *)
ProducerThrows(t) ==
  /\ Goto(t, "produce", "threw")
  /\ flag' = "fresh"
  /\ UNCHANGED << parser, producer >>

(* shared->producer = nullptr;                                              *)
Release(t) ==
  /\ Goto(t, "release", "leave")
  /\ producer' = "null"
  /\ UNCHANGED << flag, parser >>

Leave(t) ==
  /\ Goto(t, "leave", "parse")
  /\ flag' = "done"
  /\ UNCHANGED << parser, producer >>

(* return shared->parser(state);                                            *)
Parse(t) ==
  /\ Goto(t, "parse", "idle")
  /\ UNCHANGED << flag, parser, producer >>

(* The exception leaves run_parser; its caller may parse again.             *)
Caught(t) ==
  /\ Goto(t, "threw", "idle")
  /\ UNCHANGED << flag, parser, producer >>

Return(t) ==
  \/ Enter(t) \/ Pass(t) \/ ProducerReturns(t) \/ ProducerThrows(t)
  \/ Release(t) \/ Leave(t) \/ Parse(t) \/ Caught(t)

Next == \E t \in Threads : Call(t) \/ Return(t)

Spec == Init /\ [][Next]_vars

(* A thread inside a call keeps running.                                    *)
FairSpec == Spec /\ \A t \in Threads : WF_vars(Return(t))

-----------------------------------------------------------------------------
Inside == {"produce", "release", "leave"}

(* The type invariant: of the parsers a producer could make, the null one   *)
(* and the first are all there are.                                         *)
TypeOK ==
  /\ flag \in {"fresh", "running", "done"}
  /\ parser \in {0, 1}
  /\ producer \in {"set", "null"}
  /\ pc \in [Threads -> {"idle", "call_once", "parse", "threw"} \cup Inside]

(* Whoever runs the parser finds it made, and made once, by a producer that *)
(* is then gone: no thread sees the null parser, and none a second one.     *)
ParsesTheOneParser ==
  \A t \in Threads : pc[t] = "parse" => parser = 1 /\ producer = "null"

(* Once made the parser is never replaced under a thread that may be using  *)
(* it, however many producers threw before and threads came at once.        *)
ParserNeverReplaced == [][parser # 0 => parser' = parser]_vars

(* Unless producers throw again and again, every call ends, in a parse or   *)
(* with the exception: also the call of a thread that waited while another  *)
(* one's producer threw.                                                    *)
EveryCallReturns ==
  <>[](\A t \in Threads : pc[t] # "threw")
     => \A t \in Threads : pc[t] = "call_once" ~> pc[t] \in {"idle", "threw"}

-----------------------------------------------------------------------------
(* lazy implements OnceCell: the parser counts as made when call_once says  *)
(* so, and with it the call that made it as served.                         *)
callBar ==
  [t \in Threads |->
     CASE pc[t] = "idle"  -> "none"
       [] pc[t] = "parse" -> "parsing"
       [] pc[t] = "threw" -> "failed"
       [] OTHER           -> "pending"]

Cell == INSTANCE OnceCell WITH
          cell <- IF flag = "done" THEN "made" ELSE "empty", call <- callBar

ImplementsOnceCell == Cell!Spec
=============================================================================
