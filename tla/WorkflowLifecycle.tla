------------------------- MODULE WorkflowLifecycle -------------------------
(***************************************************************************)
(* The row state machines of the workflow engine (models/workflow.go), the *)
(* acceptance of a workflow's step graph, and the state sets the scheduler *)
(* and the database layer branch on.  A constant module.                   *)
(***************************************************************************)
EXTENDS Integers, FiniteSets

WorkflowState ==
  {"PENDING", "RUNNING", "COMPLETE", "FAILED", "TIMED_OUT", "CANCELLING", "CANCELLED"}

WorkflowNext ==
  [w \in WorkflowState |->
     CASE w = "PENDING"    -> {"RUNNING", "CANCELLING"}
       [] w = "RUNNING"    -> {"COMPLETE", "FAILED", "TIMED_OUT", "CANCELLING"}
       [] w = "FAILED"     -> {"RUNNING", "CANCELLING"}
       [] w = "TIMED_OUT"  -> {"RUNNING", "CANCELLING"}
       [] w = "CANCELLING" -> {"CANCELLED"}
       [] OTHER            -> {}]

ValidWorkflow(from, to) == to \in WorkflowNext[from]

StepState ==
  {"DEFINED", "PENDING", "RUNNING", "COMPLETE", "FAILED", "TIMED_OUT",
   "CANCELLING", "CANCELLED"}

StepNext ==
  [s \in StepState |->
     CASE s = "DEFINED"    -> {"PENDING", "TIMED_OUT", "CANCELLED"}
       [] s = "PENDING"    -> {"RUNNING", "TIMED_OUT", "CANCELLED"}
       [] s = "RUNNING"    -> {"COMPLETE", "FAILED", "TIMED_OUT", "CANCELLING"}
       [] s = "FAILED"     -> {"DEFINED", "CANCELLED"}
       [] s = "TIMED_OUT"  -> {"DEFINED", "CANCELLED"}
       [] s = "CANCELLING" -> {"CANCELLED"}
       [] OTHER            -> {}]

ValidStep(from, to) == to \in StepNext[from]

\* isTerminalWorkflowStepState: nothing in flight and nothing to do by itself.
StepTerminal == {"COMPLETE", "FAILED", "TIMED_OUT", "CANCELLED"}

\* What a time-out of the workflow flips.
StepUnfinished == {"DEFINED", "PENDING", "RUNNING"}

\* The outcomes a step's task can be in; a task that is none of them is OPEN
\* (PENDING or ACTIVE in the task engine's table).
TaskOutcome == {"COMPLETE", "FAILED", "TIMED_OUT", "CANCELLED"}

-----------------------------------------------------------------------------
\* The step graph. G[s] is the set of steps s names as its parents.

Removable(G, done) == {s \in DOMAIN G \ done : G[s] \subseteq done}

\* The topological sort, a round at a time: what the queue has let go of once
\* the in-degrees of n rounds of children have been counted down.
Processed(G) ==
  LET after[n \in 0..Cardinality(DOMAIN G)] ==
        IF n = 0 THEN {} ELSE after[n - 1] \cup Removable(G, after[n - 1])
  IN after[Cardinality(DOMAIN G)]

\* Mutant: the number of processed steps is not compared with the number of steps.
IsValid_NoCount(G) ==
  \A s \in DOMAIN G : G[s] \subseteq DOMAIN G /\ s \notin G[s]

IsValid(G) ==
  /\ \A s \in DOMAIN G : G[s] \subseteq DOMAIN G /\ s \notin G[s]
  /\ Processed(G) = DOMAIN G
=============================================================================
