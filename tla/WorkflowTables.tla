--------------------------- MODULE WorkflowTables ---------------------------
(***************************************************************************)
(* The state the workflow engine's modules share: the rows of one workflow *)
(* and of its steps, the tasks that ran the steps, the queue, the          *)
(* scheduler's memory.                                                     *)
(*                                                                         *)
(* One workflow: a handler's transaction reads and writes the rows of one  *)
(* workflow only, and the sweep gives each workflow a transaction of its   *)
(* own, so workflows meet only in the order of the queue.                  *)
(***************************************************************************)
EXTENDS WorkflowLifecycle, Sequences, SequencesExt

CONSTANTS
  Step,          \* the steps of the workflow
  MaxTime,       \* bound: the clock, and the deadlines a client may set
  MaxPokes,      \* bound: the messages clients send
  Requests,      \* what clients ask for: some of "submit", "cancel", "revive"
  MaxBacklog,    \* bound: the queue's length at which the sweep's timer holds back
  MaxFaults,     \* bound: the faults that happen
  FaultKinds,    \* the kinds of fault that may happen
  None           \* no message

FaultKind == {"schedCrash", "txAbort", "pokeLost", "notifyLost", "republish"}

ASSUME StepAssumption  == IsFiniteSet(Step) /\ Step # {}
ASSUME BoundAssumption ==
  /\ MaxTime \in Nat /\ MaxPokes \in Nat /\ MaxBacklog \in Nat /\ MaxFaults \in Nat
  /\ Requests \subseteq {"submit", "cancel", "revive"}
  /\ FaultKinds \subseteq FaultKind

VARIABLES
  wf,        \* the workflow's state, or "ABSENT" before it is defined
  step,      \* each step's state
  parents,   \* each step's parents
  deadline,  \* the workflow's deadline, and that of every step still to be run
  task,      \* each step's linked tasks, the most recent last
  feed,      \* tasks at rest whose audit event is not yet broadcast
  now,       \* the clock
  wfQ,       \* the workflow scheduler's queue
  wfBuf,     \* its reader's buffer
  spc,       \* where the scheduler's loop is
  cur,       \* the message it holds
  out,       \* pokes its last transaction owes and it has not sent yet
  pokes, faults

rowVars   == <<wf, step, parents, deadline>>
schedVars == <<wfQ, wfBuf, spc, cur, out>>
boundVars == <<pokes, faults>>
vars == <<rowVars, task, feed, now, schedVars, boundVars>>

\* A step's task: its state, the deadline it was given, whether the task engine
\* was asked to cancel it. The id of a step's n-th task is <<step, n>>.
TaskRow == [state : TaskOutcome \cup {"OPEN"}, deadline : 0..MaxTime, asked : BOOLEAN]

TaskId == Step \X (Nat \ {0})
Linked == UNION {{s} \X DOMAIN task[s] : s \in Step}
IsOpen(t) == task[t[1]][t[2]].state = "OPEN"

\* The live tasks of some steps. A step with one is live.
LiveTasks(S) == {t \in Linked : t[1] \in S /\ IsOpen(t)}
Live(s) == \E k \in DOMAIN task[s] : task[s][k].state = "OPEN"

StepsIn(states) == {s \in Step : step[s] \in states}

Late == now >= deadline

-----------------------------------------------------------------------------
\* Messages, and the pokes a handler owes after its commit

ProcessMsg        == [type |-> "PROCESS_WORKFLOW"]
CancelMsg         == [type |-> "CANCEL_WORKFLOW"]
MaintenanceMsg    == [type |-> "MAINTENANCE"]
ReviveMsg(d)      == [type |-> "REVIVE_WORKFLOW", deadline |-> d]    \* 0: no new deadline
ScheduleMsg(s)    == [type |-> "SCHEDULE_STEP", step |-> s]
ExecUpdate(s, to) == [type |-> "STEP_EXEC_UPDATE", step |-> s, to |-> to]
TaskUpdate(t, to) == [type |-> "STEP_TASK_UPDATE", task |-> t, to |-> to]
CancelTask(t)     == [type |-> "CANCEL_TASK", task |-> t]            \* to the task engine

WorkflowMsg ==
  {ProcessMsg, CancelMsg, MaintenanceMsg}
    \cup [type : {"REVIVE_WORKFLOW"}, deadline : 0..MaxTime]
    \cup [type : {"SCHEDULE_STEP"}, step : Step]
    \cup [type : {"STEP_EXEC_UPDATE"}, step : Step, to : TaskOutcome]
    \cup [type : {"STEP_TASK_UPDATE"}, task : TaskId, to : TaskOutcome]

\* The order a handler sends its pokes in: updates, schedules, process, cancels.
SendOrder(m) ==
  CASE m.type = "STEP_EXEC_UPDATE" -> 1
    [] m.type = "SCHEDULE_STEP"    -> 2
    [] m.type = "PROCESS_WORKFLOW" -> 3
    [] m.type = "CANCEL_TASK"      -> 4

Fault(kind) == kind \in FaultKinds /\ faults < MaxFaults /\ faults' = faults + 1
=============================================================================
