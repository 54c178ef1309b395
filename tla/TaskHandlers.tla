---------------------------- MODULE TaskHandlers ----------------------------
(***************************************************************************)
(* The scheduler's handlers: what one transaction does to the rows, and    *)
(* the pending instance it sends before it commits.  A handler that        *)
(* returns early or fails has NoEffect.                                    *)
(***************************************************************************)
EXTENDS TaskTables

NoEffect == UNCHANGED <<rowVars, execQ, pend>>

\* Mutant: the message names the task instead of the execution.
SendPending_TaskId(e) ==
  /\ execQ' = Append(execQ, TaskOf(e))
  /\ pend' = e

\* The send to the task queue is inside the transaction, and the commit is a
\* step of its own (SchedCommit).
SendPending(e) ==
  /\ execQ' = Append(execQ, e)
  /\ pend' = e

\* Ids are ULIDs: one whose transaction rolls back is not used again.
NewExec(t) == <<t, nextExec[t]>>

UseExecId(t) ==
  /\ nextExec[t] <= MaxExec
  /\ nextExec' = [nextExec EXCEPT ![t] = @ + 1]

ProcessNewPendingTask(t) ==
  CASE taskState[t] = "PENDING" /\ t \in Scheduled ->
         /\ UseExecId(t)
         /\ taskState' = [taskState EXCEPT ![t] = "ACTIVE"]
         /\ exec' = [exec EXCEPT ![NewExec(t)] = NewRow("SCHEDULED")]
         /\ UNCHANGED <<audit, execQ, pend>>
    [] taskState[t] = "PENDING" /\ t \notin Scheduled /\ t \notin NoSender ->
         /\ UseExecId(t)
         /\ SendPending(NewExec(t))
         /\ UNCHANGED <<taskState, exec, audit>>
    [] OTHER -> NoEffect

ProcessTaskExecutionStarting(e) ==
  IF /\ ~ IsStateAtOrPast(exec[e].state, "ENQUEUED")
     /\ ValidExec(exec[e].state, "ENQUEUED")
     /\ TaskOf(e) \notin NoSender
  THEN SendPending(e) /\ UNCHANGED rowVars
  ELSE NoEffect

\* Mutant: an execution that is already settled is settled again.
CanFinalize_NoGuard(e) == exec[e].state \in {"PROCESSED", "FAILED", "FINALIZED", "CANCELLED"}

\* The guard of every settling handler, then MarkTaskExecFinalized's own check.
CanFinalize(e) ==
  /\ ~ IsStateAtOrPast(exec[e].state, "FINALIZED")
  /\ ValidExec(exec[e].state, "FINALIZED")

\* Mutant: a task is completed whatever state it is in.
ProcessTaskExecutionComplete_NoGuard(e) ==
  IF CanFinalize(e)
  THEN /\ exec' = [exec EXCEPT ![e] = Mark(@, "FINALIZED")]
       /\ taskState' = [taskState EXCEPT ![TaskOf(e)] = "COMPLETE"]
       /\ UNCHANGED <<nextExec, audit, execQ, pend>>
  ELSE NoEffect

ProcessTaskExecutionComplete(e) ==
  IF CanFinalize(e) /\ ValidTask(taskState[TaskOf(e)], "COMPLETE")
  THEN /\ exec' = [exec EXCEPT ![e] = Mark(@, "FINALIZED")]
       /\ taskState' = [taskState EXCEPT ![TaskOf(e)] = "COMPLETE"]
       /\ UNCHANGED <<nextExec, audit, execQ, pend>>
  ELSE NoEffect

FailedExecs(t) == {e \in Exec : TaskOf(e) = t /\ exec[e].terminal = "FAILED"}

\* Mutants: the budget is one short, one too many; the disposition is not read.
DecideExecutionRetry_OneShort(e) ==
  /\ ~ exec[e].nonRetryable
  /\ MaxRetries < 0 \/ Cardinality(FailedExecs(TaskOf(e))) < MaxRetries

DecideExecutionRetry_OneMore(e) ==
  /\ ~ exec[e].nonRetryable
  /\ MaxRetries < 0 \/ Cardinality(FailedExecs(TaskOf(e))) - 1 <= MaxRetries

DecideExecutionRetry_NoDisposition(e) ==
  MaxRetries < 0 \/ Cardinality(FailedExecs(TaskOf(e))) - 1 < MaxRetries

\* decideExecutionRetry over NextDelay: a delay of zero means no retry.
DecideExecutionRetry(e) ==
  /\ ~ exec[e].nonRetryable
  /\ \/ MaxRetries < 0
     \/ Cardinality(FailedExecs(TaskOf(e))) - 1 < MaxRetries

\* Mutant: the failed execution is finalized and its retry never defined.
ProcessTaskExecutionFailed_NoRetryRow(e) ==
  IF CanFinalize(e)
  THEN /\ exec' = [exec EXCEPT ![e] = Mark(@, "FINALIZED")]
       /\ taskState' = IF taskState[TaskOf(e)] = "ACTIVE" /\ ~ DecideExecutionRetry(e)
                       THEN [taskState EXCEPT ![TaskOf(e)] = "FAILED"] ELSE taskState
       /\ UNCHANGED <<nextExec, audit, execQ, pend>>
  ELSE NoEffect

ProcessTaskExecutionFailed(e) ==
  LET t == TaskOf(e)
      finalized == [exec EXCEPT ![e] = Mark(@, "FINALIZED")]
  IN CASE CanFinalize(e) /\ taskState[t] = "ACTIVE" /\ DecideExecutionRetry(e) ->
            /\ UseExecId(t)
            /\ exec' = [finalized EXCEPT ![NewExec(t)] = NewRow("SCHEDULED")]
            /\ UNCHANGED <<taskState, audit, execQ, pend>>
       [] CanFinalize(e) /\ taskState[t] = "ACTIVE" /\ ~ DecideExecutionRetry(e) ->
            /\ exec' = finalized
            /\ taskState' = [taskState EXCEPT ![t] = "FAILED"]
            /\ UNCHANGED <<nextExec, audit, execQ, pend>>
       [] CanFinalize(e) /\ taskState[t] # "ACTIVE" ->
            /\ exec' = finalized
            /\ UNCHANGED <<taskState, nextExec, audit, execQ, pend>>
       [] OTHER -> NoEffect

ProcessTaskExecutionEngineFailed(e) ==
  IF CanFinalize(e) /\ ValidTask(taskState[TaskOf(e)], "FAILED")
  THEN /\ exec' = [exec EXCEPT ![e] = Mark(@, "FINALIZED")]
       /\ taskState' = [taskState EXCEPT ![TaskOf(e)] = "FAILED"]
       /\ audit' = audit \cup {e}
       /\ UNCHANGED <<nextExec, execQ, pend>>
  ELSE NoEffect

\* Mutant: executions a worker already has are left alone.
CancelOngoing_NotClaimed(rows, t) ==
  [e \in Exec |-> IF TaskOf(e) = t /\ rows[e].state \in {"DEFINED", "SCHEDULED", "ENQUEUED"}
                  THEN Mark(rows[e], "CANCELLED") ELSE rows[e]]

\* cancelOngoingExecInstancesOfTask, on the rows `rows`.
CancelOngoing(rows, t) ==
  [e \in Exec |-> IF TaskOf(e) = t /\ rows[e].state \in ExecLive
                  THEN Mark(rows[e], "CANCELLED") ELSE rows[e]]

ProcessTaskExecutionTimedOut(e) ==
  LET t == TaskOf(e)
      settled == [exec EXCEPT ![e] = Mark(Mark(@, "FAILED"), "FINALIZED")]
  IN IF /\ ~ HasEnded(exec[e].state)
        /\ ValidExec(exec[e].state, "FAILED")
        /\ ValidTask(taskState[t], "TIMED_OUT")
     THEN /\ taskState' = [taskState EXCEPT ![t] = "TIMED_OUT"]
          /\ exec' = CancelOngoing(settled, t)
          /\ UNCHANGED <<nextExec, audit, execQ, pend>>
     ELSE NoEffect

\* Mutants: a task at rest is cancelled all the same; only the task's own row is
\* cancelled.
ProcessCancelTask_NoGuard(t) ==
  /\ taskState' = [taskState EXCEPT ![t] = "CANCELLED"]
  /\ exec' = CancelOngoing(exec, t)
  /\ UNCHANGED <<nextExec, audit, execQ, pend>>

ProcessCancelTask_KeepsExecs(t) ==
  IF taskState[t] \in {"PENDING", "ACTIVE", "CANCELLING"}
  THEN /\ taskState' = [taskState EXCEPT ![t] = "CANCELLED"]
       /\ UNCHANGED <<exec, nextExec, audit, execQ, pend>>
  ELSE NoEffect

\* CANCELLING is marked and left again inside the one transaction.
ProcessCancelTask(t) ==
  IF taskState[t] \in {"PENDING", "ACTIVE", "CANCELLING"}
  THEN /\ taskState' = [taskState EXCEPT ![t] = "CANCELLED"]
       /\ exec' = CancelOngoing(exec, t)
       /\ UNCHANGED <<nextExec, audit, execQ, pend>>
  ELSE NoEffect

ProcessTaskTimeout(t) ==
  IF taskState[t] = "ACTIVE"
  THEN /\ taskState' = [taskState EXCEPT ![t] = "TIMED_OUT"]
       /\ exec' = CancelOngoing(exec, t)
       /\ UNCHANGED <<nextExec, audit, execQ, pend>>
  ELSE NoEffect

Handle(m) ==
  CASE m.type = "NEW_TASK"          -> ProcessNewPendingTask(m.id)
    [] m.type = "CANCEL_TASK"       -> ProcessCancelTask(m.id)
    [] m.type = "EXECUTE_SUCCEEDED" -> ProcessTaskExecutionComplete(m.id)
    [] m.type = "EXECUTE_FAILED"    -> ProcessTaskExecutionFailed(m.id)
    [] m.type = "ENGINE_FAILED"     -> ProcessTaskExecutionEngineFailed(m.id)
    [] m.type = "TASK_TIMEOUT"      -> ProcessTaskTimeout(m.id)
    [] m.type = "EXECUTE_START"     -> ProcessTaskExecutionStarting(m.id)
    [] m.type = "EXECUTE_TIMEOUT"   -> ProcessTaskExecutionTimedOut(m.id)

\* Mutant: the task is not activated with its first execution.
CommitRows_NoActivation ==
  /\ exec' = [exec EXCEPT ![pend] = [@ EXCEPT !.state = "ENQUEUED"]]
  /\ UNCHANGED taskState

\* What commits of the handler that sent `pend`: a new task's first execution,
\* with its task activated, or a SCHEDULED one moved on.
CommitRows ==
  LET t == TaskOf(pend)
  IN IF exec[pend].state = "NONE"
     THEN /\ exec' = [exec EXCEPT ![pend] = NewRow("ENQUEUED")]
          /\ taskState' = [taskState EXCEPT ![t] = "ACTIVE"]
     ELSE /\ exec' = [exec EXCEPT ![pend] = Mark(@, "ENQUEUED")]
          /\ UNCHANGED taskState
=============================================================================
