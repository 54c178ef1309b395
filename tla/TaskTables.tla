----------------------------- MODULE TaskTables -----------------------------
(***************************************************************************)
(* What the processes of the task engine share and what each keeps: the    *)
(* task and execution tables, the Redis queues, the scheduler's and the    *)
(* workers' memory.  The scheduler (TaskScheduler) and the workers         *)
(* (TaskWorker) are modules of their own over these variables; TaskEngine  *)
(* composes them.                                                          *)
(***************************************************************************)
EXTENDS TaskLifecycle, Integers, SequencesExt

CONSTANTS
  Task,          \* task ids
  Worker,        \* worker names, one receiver and one executor each
  None,          \* no execution, no worker, no value
  Scheduled,     \* the tasks of class SCHEDULED_ONE_SHOT; others are immediate
  Timed,         \* the tasks with a deadline
  NoSender,      \* tasks whose name no task queue sender is registered for
  NoProcessor,   \* tasks whose name no worker has a processor for
  Outcomes,      \* what a processor may return: "ok", "fail", "fatal"
  MaxRetries,    \* RetryParams.MaxRetries, -1 for no limit
  MaxExec,       \* bound: execution ids a task may use up
  MaxPokes,      \* bound: messages the clients send
  MaxFaults,     \* bound: faults of the environment, all kinds together
  FaultKinds     \* the kinds of fault that happen, of those FaultKind lists

\* schedCrash, workerCrash: the process dies and may start again.
\* lostReport: a worker's message to the scheduler is not enqueued; the code logs it.
\* txAbort: a scheduler transaction fails (database error, or the send in it).
\* execAbort: the executor's transaction before or after the processor fails.
\* submitFail: the executor's pool refuses the instance.
\* staleRead: the database runs a worker's read-then-write transaction at READ
\* COMMITTED, so that another transaction commits in between.
FaultKind ==
  {"schedCrash", "workerCrash", "lostReport", "txAbort", "execAbort",
   "submitFail", "staleRead"}

ASSUME TaskAssumption ==
  /\ IsFiniteSet(Task)
  /\ Scheduled \subseteq Task
  /\ Timed \subseteq Task
  /\ NoSender \subseteq Task
  /\ NoProcessor \subseteq Task

ASSUME BoundAssumption ==
  /\ MaxRetries \in Int
  /\ MaxRetries >= -1
  /\ MaxExec \in Nat \ {0}
  /\ MaxPokes \in Nat
  /\ MaxFaults \in Nat
  /\ FaultKinds \subseteq FaultKind
  /\ Outcomes \subseteq {"ok", "fail", "fatal"}

\* An execution id: the task and a number, given out in order.
Exec == Task \X (1..MaxExec)
TaskOf(e) == e[1]

ASSUME NoneAssumption == None \notin Exec /\ None \notin Worker /\ None \notin ExecState

VARIABLES
  taskState,   \* the tasks table: state by id, "ABSENT" before the row exists
  exec,        \* the executions table: row by id
  nextExec,    \* the next execution number each task will get
  audit,       \* executions with an engine-failed audit event
  late,        \* tasks whose deadline has passed
  due,         \* executions whose execute_at has passed
  schedQ,      \* the scheduler's main queue
  schedBuf,    \* the scheduler's buffer queue
  execQ,       \* the task queue: pending instances
  recvBuf,     \* each receiver's buffer queue
  spc,         \* where the scheduler's single loop is
  cur,         \* the message it holds
  phase,       \* which of the five listings a sweep is in, 0 outside a sweep
  todo,        \* what the sweep listed in this phase and has not handled
  pend,        \* the execution sent to the task queue and not yet committed
  wpc,         \* each worker process: "down", "init" or "up"
  popped,      \* what Initialize popped off the buffer and holds in memory
  claim,       \* the pending instance each receiver is about to claim
  job,         \* each worker's executions: where its executor is with them
  seen,        \* the state a worker's open transaction read (staleRead only)
  pokes, faults

rowVars   == <<taskState, exec, nextExec, audit>>
clockVars == <<late, due>>
schedVars == <<spc, cur, phase, todo, pend>>
workVars  == <<wpc, popped, claim, job, seen>>
boundVars == <<pokes, faults>>
vars == <<rowVars, clockVars, schedQ, schedBuf, execQ, recvBuf, schedVars,
          workVars, boundVars>>

-----------------------------------------------------------------------------
\* Messages and rows

Msg(type, id) == [type |-> type, id |-> id]

TaskMsgTypes == {"NEW_TASK", "CANCEL_TASK"}
ReportTypes  == {"EXECUTE_SUCCEEDED", "EXECUTE_FAILED", "ENGINE_FAILED"}

SchedMsg ==
  [type : TaskMsgTypes, id : Task] \cup [type : ReportTypes, id : Exec]
    \cup {Msg("TASK_MAINTENANCE", None)}

\* What a sweep lists and dispatches: the same handlers, and three of its own.
SweepItem ==
  [type : TaskMsgTypes \cup {"TASK_TIMEOUT"}, id : Task]
    \cup [type : {"EXECUTE_SUCCEEDED", "EXECUTE_FAILED", "EXECUTE_START",
                  "EXECUTE_TIMEOUT"}, id : Exec]

NoRow == [state |-> "NONE", worker |-> None, terminal |-> None, nonRetryable |-> FALSE]

ExecRow ==
  [state : ExecState \cup {"NONE"}, worker : Worker \cup {None},
   terminal : {None, "PROCESSED", "FAILED", "CANCELLED"}, nonRetryable : BOOLEAN]

NewRow(state) == [NoRow EXCEPT !.state = state]

\* updateTaskExecutionState: the columns written with a new state.
Mark(row, state) ==
  [row EXCEPT !.state = state,
              !.terminal = IF state \in {"PROCESSED", "FAILED", "CANCELLED"}
                           THEN state ELSE row.terminal]

Fault(kind) == kind \in FaultKinds /\ faults < MaxFaults /\ faults' = faults + 1
=============================================================================
