---------------------------- MODULE LazyInitProofs ----------------------------
(***************************************************************************)
(* LazyInit's safety for any set of threads, and that it implements        *)
(* OnceCell.  ParsesTheOneParser says nothing of the threads inside the    *)
(* function; the inductive invariant adds that at most one is, and what    *)
(* the shared fields hold at each of its points.                           *)
(***************************************************************************)
EXTENDS LazyInit, TLAPS

(* One thread at a time runs the function, while the flag says running.     *)
OneInside ==
  /\ \A t \in Threads : pc[t] \in Inside => flag = "running"
  /\ \A t, u \in Threads : pc[t] \in Inside /\ pc[u] \in Inside => t = u

(* What the shared fields hold before, during and after.                    *)
FieldsFollow ==
  /\ flag = "fresh" => parser = 0 /\ producer = "set"
  /\ flag = "done"  => parser = 1 /\ producer = "null"
  /\ \A t \in Threads :
        /\ pc[t] = "produce" => parser = 0 /\ producer = "set"
        /\ pc[t] = "release" => parser = 1 /\ producer = "set"
        /\ pc[t] = "leave"   => parser = 1 /\ producer = "null"
        /\ pc[t] = "parse"   => flag = "done"

LazyInv == TypeOK /\ OneInside /\ FieldsFollow

(* Every thread starts idle over a fresh flag.                              *)
LEMMA InitLazyInv == Init => LazyInv
BY DEF Init, LazyInv, TypeOK, OneInside, FieldsFollow, Inside

(* No step of any thread breaks the inductive invariant.                    *)
LEMMA StepLazyInv == LazyInv /\ [Next]_vars => LazyInv'
<1> SUFFICES ASSUME LazyInv, [Next]_vars PROVE LazyInv'
  OBVIOUS
<1> USE DEF LazyInv, TypeOK, OneInside, FieldsFollow, Inside, Goto
<1>1. ASSUME NEW t \in Threads, Call(t) PROVE LazyInv'
  BY <1>1 DEF Call
<1>2. ASSUME NEW t \in Threads, Enter(t) PROVE LazyInv'
  BY <1>2 DEF Enter
<1>3. ASSUME NEW t \in Threads, Pass(t) PROVE LazyInv'
  BY <1>3 DEF Pass
<1>4. ASSUME NEW t \in Threads, ProducerReturns(t) PROVE LazyInv'
  BY <1>4 DEF ProducerReturns
<1>5. ASSUME NEW t \in Threads, ProducerThrows(t) PROVE LazyInv'
  BY <1>5 DEF ProducerThrows
<1>6. ASSUME NEW t \in Threads, Release(t) PROVE LazyInv'
  BY <1>6 DEF Release
<1>7. ASSUME NEW t \in Threads, Leave(t) PROVE LazyInv'
  BY <1>7 DEF Leave
<1>8. ASSUME NEW t \in Threads, Parse(t) PROVE LazyInv'
  BY <1>8 DEF Parse
<1>9. ASSUME NEW t \in Threads, Caught(t) PROVE LazyInv'
  BY <1>9 DEF Caught
<1>10. CASE UNCHANGED vars
  BY <1>10 DEF vars
<1> QED
  BY <1>1, <1>2, <1>3, <1>4, <1>5, <1>6, <1>7, <1>8, <1>9, <1>10 DEF Next, Return

(* The inductive invariant holds in every state of every behaviour.         *)
THEOREM LazyInvariant == Spec => []LazyInv
BY InitLazyInv, StepLazyInv, PTL DEF Spec

(* The state of a lazy parser keeps its type.                               *)
THEOREM LazyTypes == Spec => []TypeOK
<1>1. LazyInv => TypeOK
  BY DEF LazyInv
<1> QED
  BY <1>1, LazyInvariant, PTL

(* Every thread parses with the one parser that was made.                   *)
THEOREM OneParser == Spec => []ParsesTheOneParser
<1>1. LazyInv => ParsesTheOneParser
  BY DEF LazyInv, FieldsFollow, ParsesTheOneParser
<1> QED
  BY <1>1, LazyInvariant, PTL

(* A parser that was made is never replaced: to make one a thread must be   *)
(* at "produce", where the invariant says that there is none yet.           *)
THEOREM NeverReplaced == Spec => ParserNeverReplaced
<1>1. LazyInv /\ [Next]_vars => [parser # 0 => parser' = parser]_vars
  <2> SUFFICES ASSUME LazyInv, [Next]_vars, parser # 0 PROVE parser' = parser
    OBVIOUS
  <2>1. ASSUME NEW t \in Threads, Call(t) \/ Return(t) PROVE parser' = parser
    BY <2>1 DEF LazyInv, FieldsFollow, Call, Return, Enter, Pass, ProducerReturns,
                ProducerThrows, Release, Leave, Parse, Caught, Goto
  <2>2. CASE UNCHANGED vars
    BY <2>2 DEF vars
  <2> QED
    BY <2>1, <2>2 DEF Next
<1> QED
  BY <1>1, LazyInvariant, PTL DEF Spec, ParserNeverReplaced

-----------------------------------------------------------------------------
(* Refinement.  Producing and releasing the producer are stutters; leaving  *)
(* call_once as the one that ran the function, or past a closed flag, is    *)
(* Get; an exception is Fail, and there the invariant is needed: the flag   *)
(* of a thread at "produce" is not done, so the cell is empty.              *)
LEMMA CellInit == Init => Cell!Init
BY DEF Init, Cell!Init, callBar

LEMMA CellStep == LazyInv /\ [Next]_vars => [Cell!Next]_(Cell!cellVars)
<1> SUFFICES ASSUME LazyInv, [Next]_vars PROVE [Cell!Next]_(Cell!cellVars)
  OBVIOUS
<1> USE DEF LazyInv, TypeOK, OneInside, Inside, Goto, callBar, Cell!cellVars
<1>1. ASSUME NEW t \in Threads, Call(t) PROVE Cell!Begin(t)
  BY <1>1 DEF Call, Cell!Begin
<1>2. ASSUME NEW t \in Threads, Enter(t) PROVE UNCHANGED Cell!cellVars
  BY <1>2 DEF Enter
<1>3. ASSUME NEW t \in Threads, Pass(t) PROVE Cell!Get(t)
  BY <1>3 DEF Pass, Cell!Get
<1>4. ASSUME NEW t \in Threads, ProducerReturns(t) PROVE UNCHANGED Cell!cellVars
  BY <1>4 DEF ProducerReturns
<1>5. ASSUME NEW t \in Threads, ProducerThrows(t) PROVE Cell!Fail(t)
  BY <1>5 DEF ProducerThrows, Cell!Fail
<1>6. ASSUME NEW t \in Threads, Release(t) PROVE UNCHANGED Cell!cellVars
  BY <1>6 DEF Release
<1>7. ASSUME NEW t \in Threads, Leave(t) PROVE Cell!Get(t)
  BY <1>7 DEF Leave, Cell!Get
<1>8. ASSUME NEW t \in Threads, Parse(t) PROVE Cell!End(t)
  BY <1>8 DEF Parse, Cell!End
<1>9. ASSUME NEW t \in Threads, Caught(t) PROVE Cell!End(t)
  BY <1>9 DEF Caught, Cell!End
<1>10. CASE UNCHANGED vars
  BY <1>10 DEF vars
<1> QED
  BY <1>1, <1>2, <1>3, <1>4, <1>5, <1>6, <1>7, <1>8, <1>9, <1>10
     DEF Next, Return, Cell!Next

(* For any number of threads lazy is a cell that is filled once.            *)
THEOREM LazyImplementsOnceCell == Spec => ImplementsOnceCell
BY CellInit, CellStep, LazyInvariant, PTL DEF Spec, ImplementsOnceCell, Cell!Spec
=============================================================================
