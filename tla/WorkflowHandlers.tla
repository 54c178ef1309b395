-------------------------- MODULE WorkflowHandlers --------------------------
(***************************************************************************)
(* The workflow scheduler's handlers: what the one transaction of each     *)
(* does to the rows, and the pokes it owes once that has committed.  An    *)
(* early return, and a transition the tables refuse, which rolls the whole *)
(* transaction back, leave no trace.                                       *)
(***************************************************************************)
EXTENDS WorkflowTables

NoEffect == UNCHANGED rowVars /\ UNCHANGED task /\ out' = {}

\* A handler's writes: the workflow's and the steps' states, the pokes owed.
Write(w, rows, owed) ==
  /\ wf' = w /\ step' = rows /\ out' = owed
  /\ UNCHANGED <<parents, deadline, task>>

\* The rows with the steps in S marked.
Marked(S, to) == [s \in Step |-> IF s \in S THEN to ELSE step[s]]

HardStop == {"TIMED_OUT", "CANCELLING", "CANCELLED", "COMPLETE"}

\* Mutant: only a running workflow is settled.
Settled_RunningOnly(w, rows) ==
  IF w = "RUNNING" /\ (\A s \in Step : rows[s] = "COMPLETE") THEN "COMPLETE" ELSE w

\* settleWorkflowIfDone, for a workflow in state w over some step rows.
Settled(w, rows) ==
  CASE w = "RUNNING" /\ (\A s \in Step : rows[s] = "COMPLETE") -> "COMPLETE"
    [] w = "CANCELLING" /\ (\A s \in Step : rows[s] \in StepTerminal) -> "CANCELLED"
    [] OTHER -> w

\* Mutant: a parent need only have come to rest.
ReadyToRun_AnyOutcome ==
  {s \in StepsIn({"DEFINED"}) : \A p \in parents[s] : step[p] \in StepTerminal}

ReadyToRun ==
  {s \in StepsIn({"DEFINED"}) : \A p \in parents[s] : step[p] = "COMPLETE"}

ProcessWorkflow ==
  IF wf \in HardStop THEN NoEffect
  ELSE Write(IF wf = "PENDING" THEN "RUNNING" ELSE wf,
             Marked(ReadyToRun, "PENDING"),
             {ScheduleMsg(s) : s \in ReadyToRun})

\* timeOutWorkflowSteps: refused, and with it the caller's transaction, where
\* the workflow may not become TIMED_OUT.
TimeOutWorkflow ==
  IF wf # "TIMED_OUT" /\ ~ ValidWorkflow(wf, "TIMED_OUT") THEN NoEffect
  ELSE Write("TIMED_OUT",
             Marked(StepsIn(StepUnfinished), "TIMED_OUT"),
             {CancelTask(t) : t \in LiveTasks(StepsIn({"RUNNING"}))})

NewTask == [state |-> "OPEN", deadline |-> deadline, asked |-> FALSE]

\* The task is defined, linked and its step marked in one transaction. Its
\* submission needs no poke here: the task engine finds the row by itself.
Dispatch(s) ==
  /\ task' = [task EXCEPT ![s] = Append(@, NewTask)]
  /\ step' = Marked({s}, "RUNNING")
  /\ out' = {}
  /\ UNCHANGED <<wf, parents, deadline>>

\* Mutant: no look at the step's linked tasks.
ScheduleWorkflowStep_NoLiveGuard(s) ==
  IF wf \in HardStop \/ step[s] # "PENDING" THEN NoEffect
  ELSE IF Late THEN TimeOutWorkflow
  ELSE Dispatch(s)

ScheduleWorkflowStep(s) ==
  IF wf \in HardStop \/ step[s] # "PENDING" \/ Live(s) THEN NoEffect
  ELSE IF Late THEN TimeOutWorkflow
  ELSE Dispatch(s)

\* The outcome of a step in a workflow that is not being cancelled.
ApplyOutcome(s, to) ==
  LET rows == Marked({s}, to)
      w    == IF to = "FAILED" /\ wf = "RUNNING" THEN "FAILED" ELSE Settled(wf, rows)
  IN IF step[s] \in StepTerminal THEN NoEffect
     ELSE IF to = "TIMED_OUT" THEN TimeOutWorkflow
     ELSE IF ~ ValidStep(step[s], to) THEN NoEffect
     ELSE Write(w, rows, IF to = "COMPLETE" /\ w = wf THEN {ProcessMsg} ELSE {})

\* Cancellation wins over the reported outcome.
ApplyDrained(s) ==
  LET rows == IF step[s] \in StepTerminal THEN step ELSE Marked({s}, "CANCELLED")
  IN IF step[s] \notin StepTerminal /\ ~ ValidStep(step[s], "CANCELLED") THEN NoEffect
     ELSE Write(Settled(wf, rows), rows, {})

ApplyStepExecutionUpdate(s, to) ==
  IF wf \in {"CANCELLING", "CANCELLED"} THEN ApplyDrained(s) ELSE ApplyOutcome(s, to)

\* The task is resolved to its step; which of the step's tasks it is, is lost.
ApplyStepTaskUpdate(t, to) == ApplyStepExecutionUpdate(t[1], to)

CancelWorkflow ==
  LET rows == [s \in Step |->
                 CASE step[s] = "RUNNING" -> "CANCELLING"
                   [] step[s] \in {"DEFINED", "PENDING", "FAILED", "TIMED_OUT"} -> "CANCELLED"
                   [] OTHER -> step[s]]
  IN IF wf \in {"CANCELLING", "CANCELLED", "COMPLETE"} THEN NoEffect
     ELSE Write(Settled("CANCELLING", rows), rows,
                {CancelTask(t) : t \in LiveTasks(StepsIn({"RUNNING"}))})

\* Mutant: only the failed steps are reverted.
Reverted_FailedOnly == Marked(StepsIn({"FAILED"}), "DEFINED")

Reverted == Marked(StepsIn({"FAILED", "TIMED_OUT"}), "DEFINED")

Revivable(d) ==
  \/ wf = "FAILED" /\ (d = 0 \/ d > now)
  \/ wf = "TIMED_OUT" /\ d > now

\* A request that does not meet the conditions is dropped.
ReviveWorkflow(d) ==
  IF ~ Revivable(d) THEN NoEffect
  ELSE /\ wf' = "RUNNING" /\ step' = Reverted /\ out' = {ProcessMsg}
       /\ deadline' = IF d = 0 THEN deadline ELSE d
       /\ UNCHANGED <<parents, task>>

-----------------------------------------------------------------------------
\* The sweep

\* What the linked tasks of a step with none live say of it: the most recent
\* one decides, and a step without a task has failed.
LastOutcome(s) == IF task[s] = <<>> THEN "FAILED" ELSE Last(task[s]).state

\* Mutant: a task at rest is taken for a complete one.
ClassifyRunning_RestIsComplete ==
  {ExecUpdate(s, "COMPLETE") : s \in {r \in StepsIn({"RUNNING"}) : ~ Live(r)}}

ClassifyRunning ==
  {ExecUpdate(s, LastOutcome(s)) : s \in {r \in StepsIn({"RUNNING"}) : ~ Live(r)}}

\* Mutant: a cancelling step whose task is at rest is left to its notification.
ClassifyCancelling_CancelOnly ==
  {CancelTask(t) : t \in LiveTasks(StepsIn({"CANCELLING"}))}

ClassifyCancelling ==
  {CancelTask(t) : t \in LiveTasks(StepsIn({"CANCELLING"}))}
    \cup {ExecUpdate(s, "CANCELLED") : s \in {c \in StepsIn({"CANCELLING"}) : ~ Live(c)}}

\* One message starts the workflow, or looks again at the steps not yet let go.
Nudge == IF wf = "PENDING" \/ StepsIn({"DEFINED"}) # {} THEN {ProcessMsg} ELSE {}

ReconcileWorkflow ==
  IF wf \in {"ABSENT", "COMPLETE", "CANCELLED"} THEN NoEffect
  ELSE IF Late THEN TimeOutWorkflow
  ELSE Write(Settled(wf, step), step,
             ClassifyRunning \cup ClassifyCancelling
               \cup {ScheduleMsg(s) : s \in StepsIn({"PENDING"})} \cup Nudge)

Handle(m) ==
  \/ m.type = "PROCESS_WORKFLOW" /\ ProcessWorkflow
  \/ m.type = "CANCEL_WORKFLOW"  /\ CancelWorkflow
  \/ m.type = "REVIVE_WORKFLOW"  /\ ReviveWorkflow(m.deadline)
  \/ m.type = "SCHEDULE_STEP"    /\ ScheduleWorkflowStep(m.step)
  \/ m.type = "STEP_EXEC_UPDATE" /\ ApplyStepExecutionUpdate(m.step, m.to)
  \/ m.type = "STEP_TASK_UPDATE" /\ ApplyStepTaskUpdate(m.task, m.to)
  \/ m.type = "MAINTENANCE"      /\ ReconcileWorkflow
=============================================================================
