------------------------------- MODULE OnceCell -------------------------------
(***************************************************************************)
(* What lazy promises its callers: one parser is made, at some moment, and *)
(* from then on every call uses it; a call made before may fail with the   *)
(* producer's exception, and a failed call leaves nothing behind.          *)
(***************************************************************************)
CONSTANT Threads

VARIABLES cell,   \* "empty" or "made"
          call    \* what each thread's call is doing

cellVars == << cell, call >>

Init == /\ cell = "empty"
        /\ call = [t \in Threads |-> "none"]

Begin(t) == /\ call[t] = "none"
            /\ call' = [call EXCEPT ![t] = "pending"]
            /\ UNCHANGED cell

(* A pending call gets the parser, making it if there is none.              *)
Get(t) == /\ call[t] = "pending"
          /\ cell' = "made"
          /\ call' = [call EXCEPT ![t] = "parsing"]

(* Only the call that would have made the parser can fail.                  *)
Fail(t) == /\ call[t] = "pending"
           /\ cell = "empty"
           /\ call' = [call EXCEPT ![t] = "failed"]
           /\ UNCHANGED cell

End(t) == /\ call[t] \in {"parsing", "failed"}
          /\ call' = [call EXCEPT ![t] = "none"]
          /\ UNCHANGED cell

Next == \E t \in Threads : Begin(t) \/ Get(t) \/ Fail(t) \/ End(t)

Spec == Init /\ [][Next]_cellVars
=============================================================================
