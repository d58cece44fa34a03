----------------------------- MODULE ParserTasks -----------------------------
(***************************************************************************)
(* A run of ParserMachine that knows what it is for: a task is a parser,   *)
(* the texts to run it on and, in `goal', whatever a property compares its *)
(* result with.                                                            *)
(***************************************************************************)
EXTENDS ParserProperties

CONSTANT Tasks  \* records with fields `parser', `texts' and `goal'

VARIABLE goal

taskVars == << observed, goal >>

TaskInit ==
  \E task \in Tasks :
     /\ goal = task.goal
     /\ input \in task.texts
     /\ InitOn(task.parser)
     /\ furthest = 0
     /\ licensed = (node.op \in LooksBack)

TaskNext == ObservedNext /\ UNCHANGED goal

TaskSpec == TaskInit /\ [][TaskNext]_taskVars /\ WF_vars(Step)

(* How run_parser ended.                                                    *)
Accepted == Finished /\ mode = "return" /\ res.ok
Rejected == Finished /\ mode = "return" /\ ~res.ok
Threw    == Finished /\ mode = "threw"
=============================================================================
