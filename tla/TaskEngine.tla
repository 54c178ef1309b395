----------------------------- MODULE TaskEngine -----------------------------
(***************************************************************************)
(* The task engine of the tasking library: one scheduler and a set of      *)
(* workers (a receiver and an executor each) that share a database and     *)
(* exchange messages over Redis queues.                                    *)
(*                                                                         *)
(*   client --NEW_TASK, CANCEL_TASK--> schedQ --> scheduler                *)
(*   scheduler --pending instance--> execQ --> receiver --> executor       *)
(*   worker --EXECUTE_SUCCEEDED, EXECUTE_FAILED, ENGINE_FAILED--> schedQ   *)
(*                                                                         *)
(* The database rows are the source of truth; a message is only a poke to  *)
(* look at a row, and the scheduler's maintenance sweep re-derives the     *)
(* work from the rows.  A reader pops a message into a private buffer and  *)
(* deletes it there when done, so that a crashed reader finds it again.    *)
(*                                                                         *)
(* One action stands for one step between two points at which another      *)
(* process can look: a committed transaction, a queue operation, a step of *)
(* the sweep.  A handler whose transaction fails leaves no trace, so an    *)
(* error return is a step that changes no row.                             *)
(***************************************************************************)
EXTENDS TaskScheduler, TaskWorker

Init ==
  /\ taskState = [t \in Task |-> "ABSENT"]
  /\ exec = [e \in Exec |-> NoRow]
  /\ nextExec = [t \in Task |-> 1]
  /\ audit = {}
  /\ late = {} /\ due = {}
  /\ schedQ = <<>> /\ schedBuf = <<>> /\ execQ = <<>>
  /\ recvBuf = [w \in Worker |-> <<>>]
  /\ spc = "down" /\ cur = None /\ phase = 0 /\ todo = {} /\ pend = None
  /\ wpc = [w \in Worker |-> "down"]
  /\ popped = [w \in Worker |-> {}]
  /\ claim = [w \in Worker |-> None]
  /\ job = [w \in Worker |-> [e \in Exec |-> "none"]]
  /\ seen = [w \in Worker |-> [e \in Exec |-> None]]
  /\ pokes = 0 /\ faults = 0

-----------------------------------------------------------------------------
\* Clients and the clock

DefineTask(t) ==
  /\ taskState[t] = "ABSENT"
  /\ taskState' = [taskState EXCEPT ![t] = "PENDING"]
  /\ UNCHANGED <<exec, nextExec, audit, clockVars, schedQ, schedBuf, execQ, recvBuf,
                 schedVars, workVars, boundVars>>

Poke(m) ==
  /\ taskState[m.id] # "ABSENT"
  /\ pokes < MaxPokes
  /\ pokes' = pokes + 1
  /\ schedQ' = Append(schedQ, m)
  /\ UNCHANGED <<rowVars, clockVars, schedBuf, execQ, recvBuf, schedVars, workVars,
                 faults>>

SubmitTask(t) == Poke(Msg("NEW_TASK", t))

\* Only a message: nothing of the request is written to the task's row.
CancelTask(t) == Poke(Msg("CANCEL_TASK", t))

DeadlinePasses(t) ==
  /\ t \in Timed \ late
  /\ taskState[t] # "ABSENT"
  /\ late' = late \cup {t}
  /\ UNCHANGED <<rowVars, due, schedQ, schedBuf, execQ, recvBuf, schedVars, workVars,
                 boundVars>>

BecomesDue(e) ==
  /\ e \notin due
  /\ exec[e].state = "SCHEDULED"
  /\ due' = due \cup {e}
  /\ UNCHANGED <<rowVars, late, schedQ, schedBuf, execQ, recvBuf, schedVars, workVars,
                 boundVars>>

-----------------------------------------------------------------------------
ClientStep == \E t \in Task : DefineTask(t) \/ SubmitTask(t) \/ CancelTask(t)
ClockStep  == (\E t \in Task : DeadlinePasses(t)) \/ (\E e \in Exec : BecomesDue(e))

Next ==
  \/ ClientStep
  \/ ClockStep
  \/ SchedulerStep
  \/ MaintenanceTick
  \/ HandlerAborts \/ SweepItemAborts \/ SchedCrash
  \/ \E w \in Worker : ReceiverStep(w)
  \/ \E w \in Worker, e \in Exec : ExecutorStep(w, e)
  \/ \E w \in Worker : WorkerFault(w)

Spec == Init /\ [][Next]_vars

\* A scheduled execution becomes due, the timer ticks, a process that is down is
\* started again, each loop goes on, and a processor returns. Clients, deadlines
\* and faults owe nothing.
Fairness ==
  /\ WF_vars(\E e \in Exec : BecomesDue(e))
  /\ WF_vars(SchedulerStep)
  /\ WF_vars(MaintenanceTick)
  /\ \A w \in Worker : WF_vars(ReceiverStep(w))
  /\ \A w \in Worker, e \in Exec : WF_vars(ExecutorStep(w, e))

FairSpec == Spec /\ Fairness

-----------------------------------------------------------------------------
(* Type invariant *)

\* The rows, the queues and every process's memory hold what the code puts in
\* them: a queue only messages its reader has a handler for, a held message
\* only while the scheduler loop is at a point that has one.
TypeOK ==
  /\ taskState \in [Task -> TaskState \cup {"ABSENT"}]
  /\ exec \in [Exec -> ExecRow]
  /\ nextExec \in [Task -> 1..(MaxExec + 1)]
  /\ audit \subseteq Exec
  /\ late \subseteq Timed /\ due \subseteq Exec
  /\ schedQ \in Seq(SchedMsg) /\ schedBuf \in Seq(SchedMsg)
  /\ execQ \in Seq(Exec)
  /\ recvBuf \in [Worker -> Seq(Exec)]
  /\ spc \in {"down", "recover", "idle", "handle", "sweep", "delete"}
  /\ cur \in SchedMsg \cup {None}
  /\ phase \in 0..5
  /\ todo \subseteq SweepItem
  /\ pend \in Exec \cup {None}
  /\ wpc \in [Worker -> {"down", "init", "up"}]
  /\ popped \in [Worker -> SUBSET Exec]
  /\ claim \in [Worker -> Exec \cup {None}]
  /\ job \in [Worker -> [Exec -> JobState]]
  /\ seen \in [Worker -> [Exec -> ExecState \cup {None}]]
  /\ pokes \in 0..MaxPokes /\ faults \in 0..MaxFaults

-----------------------------------------------------------------------------
(* Safety *)

Unsettled(e) == exec[e].state \in ExecUnsettled

\* At most one execution of a task is unsettled: however cancels, timeouts,
\* late and duplicate reports, sweeps and restarts interleave, a retry is made
\* only when everything before it is settled.
OneUnsettled ==
  \A d, e \in Exec : TaskOf(d) = TaskOf(e) /\ Unsettled(d) /\ Unsettled(e) => d = e

\* A task at rest has nothing left that may still be started or is recorded as
\* running: every path to rest sweeps up the executions (task/DESIGN.md, 6.2).
RestingQuiet ==
  \A e \in Exec : taskState[TaskOf(e)] \in TaskResting => exec[e].state \notin ExecLive

\* An ACTIVE task always has an execution the engine owes a step: it is never
\* active with nothing to drive it.
ActiveHasWork ==
  \A t \in Task : taskState[t] = "ACTIVE" =>
    \E e \in Exec : TaskOf(e) = t /\ Unsettled(e)

\* Before activation there is no execution row, whatever sends and rollbacks
\* happened before.
PendingBare ==
  \A e \in Exec : taskState[TaskOf(e)] \in {"ABSENT", "PENDING"} => exec[e].state = "NONE"

\* A task is COMPLETE only if one of its executions was finalized after being
\* processed: no stale or duplicate report completes a failed task.
CompleteHasSuccess ==
  \A t \in Task : taskState[t] = "COMPLETE" =>
    \E e \in Exec : /\ TaskOf(e) = t
                    /\ exec[e].state = "FINALIZED" /\ exec[e].terminal = "PROCESSED"

\* A task is FAILED only with a cause on record: an execution that must not be
\* retried, an engine failure event, or a spent retry budget.
FailedHasCause ==
  \A t \in Task : taskState[t] = "FAILED" =>
    \/ \E e \in Exec : TaskOf(e) = t /\ (exec[e].nonRetryable \/ e \in audit)
    \/ MaxRetries >= 0 /\ Cardinality(FailedExecs(t)) > MaxRetries

\* Failed executions never outnumber the first attempt and its retries, through
\* restarts, duplicate failure reports and sweeps that see the same failure.
RetryBudget ==
  MaxRetries >= 0 =>
    \A t \in Task : Cardinality(FailedExecs(t)) <= MaxRetries + 1

\* A non-retryable failure is the last execution of its task.
NonRetryableIsLast ==
  \A d, e \in Exec :
    TaskOf(d) = TaskOf(e) /\ exec[d].nonRetryable /\ e[2] > d[2] => exec[e].state = "NONE"

\* No two workers ever hold the same execution between its claim and its
\* outcome, whatever duplicates of its message the queues carry.
OneRunner ==
  \A v, w \in Worker, e \in Exec :
    job[v][e] \in {"pre", "run"} /\ job[w][e] \in {"pre", "run"} => v = w

\* An execution a running worker owns is with its executor: a row says ACQUIRED
\* or PROCESSING by a worker that is up only if that worker is at work on it.
OwnedIsRunning ==
  \A w \in Worker : wpc[w] = "up" => \A e \in Owned(w) : job[w][e] \in {"pre", "run"}

(* Action properties *)

\* A resting task never changes again.
RestingIsFinal ==
  [][\A t \in Task : taskState[t] \in TaskResting => taskState'[t] = taskState[t]]_vars

\* The row of a settled execution is frozen; in one that has ended, the
\* recorded verdict (terminal state and disposition) is.
SettledIsFinal ==
  [][\A e \in Exec :
       /\ exec[e].state \in {"FINALIZED", "CANCELLED"} => exec'[e] = exec[e]
       /\ exec[e].terminal # None =>
            /\ exec'[e].terminal = exec[e].terminal
            /\ exec'[e].nonRetryable = exec[e].nonRetryable]_vars

(* Liveness *)

InFlight(e) ==
  \/ Contains(execQ, e)
  \/ \E w \in Worker : Contains(recvBuf[w], e) \/ e \in popped[w] \/ claim[w] = e

\* The two ways an execution can be abandoned by everything but a deadline:
\* ENQUEUED with no message for it anywhere, or owned by a worker whose
\* executor let go of it.
Stranded(t) ==
  \E e \in Exec : /\ TaskOf(e) = t
                  /\ \/ exec[e].state = "ENQUEUED" /\ ~ InFlight(e)
                     \/ /\ exec[e].state \in {"ACQUIRED", "PROCESSING"}
                        /\ \A w \in Worker : job[w][e] = "none"

Open(t) == taskState[t] \in {"PENDING", "ACTIVE"}

\* A task past its deadline comes to rest, whatever is lost or crashes.
TimedTasksRest ==
  \A t \in Timed \ NoSender : (Open(t) /\ t \in late) ~> taskState[t] \in TaskResting

\* Without a deadline, work is only ever lost by being stranded: a task that
\* stays open for good has an execution that is stranded for good.
OnlyStrandedLinger ==
  \A t \in Task \ NoSender : <>[]Open(t) => <>[]Stranded(t)

-----------------------------------------------------------------------------
(* What the documents say and the code does not do *)

\* task/DESIGN.md: losing a poke delays work, it never loses it. Every open
\* task with a sender rests. A pending instance claimed before the transaction
\* that sent it commits is dropped, and nothing looks at the ENQUEUED row again.
WorkIsNeverLost ==
  \A t \in Task \ NoSender : Open(t) ~> taskState[t] \in TaskResting
=============================================================================
