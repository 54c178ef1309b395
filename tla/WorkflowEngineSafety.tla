------------------------ MODULE WorkflowEngineSafety ------------------------
(***************************************************************************)
(* The workflow engine's proofs, for every set of steps, every graph,      *)
(* every interleaving and every fault.                                     *)
(*                                                                         *)
(* First its types, and the honesty of its queue: what an update says of a *)
(* task is true of it, in the queue, in the buffer, in the scheduler's     *)
(* memory and among the pokes it owes, however late, repeated or replayed. *)
(* Honesty is an invariant by itself because a task at rest rests for      *)
(* good: an update can be out of date, it cannot become false.             *)
(*                                                                         *)
(* Then the safety of its rows.  ParentsFirst, EarlierTasksRest,           *)
(* ResultsHaveTasks and StatesAgree are inductive together, with honesty   *)
(* and one fact more: no task is dispatched before the workflow starts.    *)
(***************************************************************************)
EXTENDS WorkflowEngine, QueueLemmas

\* A message that says something of a task says the truth, and one about the
\* workflow, which is any but the timer's, is sent once it is defined.
Honest ==
  {m \in WorkflowMsg :
     /\ m.type # "MAINTENANCE" => wf # "ABSENT"
     /\ m.type = "STEP_TASK_UPDATE" =>
          m.task \in Linked /\ task[m.task[1]][m.task[2]].state = m.to
     /\ m.type = "STEP_EXEC_UPDATE" =>
          /\ task[m.step] # <<>>
          /\ m.to \in {"COMPLETE", "FAILED"} =>
               \E k \in DOMAIN task[m.step] : task[m.step][k].state = m.to}

Cancels == {CancelTask(t) : t \in Linked}

RowType ==
  /\ wf \in WorkflowState \cup {"ABSENT"}
  /\ step \in [Step -> StepState]
  /\ parents \in [Step -> SUBSET Step]
  /\ deadline \in 0..MaxTime
  /\ task \in [Step -> Seq(TaskRow)]

\* A step that is running, or was when it was cancelled, has been dispatched.
RunningHasTask == \A s \in Step : step[s] \in {"RUNNING", "CANCELLING"} => task[s] # <<>>

\* Nothing is dispatched before there is a workflow.
TasksNeedWorkflow == \A s \in Step : task[s] # <<>> => wf # "ABSENT"

\* The events still to be broadcast are of tasks that rest.
FeedRests ==
  feed \subseteq Linked /\ \A t \in feed : task[t[1]][t[2]].state # "OPEN"

QueueInv ==
  /\ wfQ \in Seq(Honest) /\ wfBuf \in Seq(Honest)
  /\ cur \in Honest \cup {None}
  /\ spc \in {"handle", "send"} => cur \in Honest
  /\ out \subseteq Honest \cup Cancels

LoopType ==
  /\ spc \in {"down", "recover", "idle", "handle", "send"}
  /\ now \in 0..MaxTime /\ pokes \in 0..MaxPokes /\ faults \in 0..MaxFaults

TypeInv ==
  RowType /\ RunningHasTask /\ TasksNeedWorkflow /\ FeedRests /\ QueueInv /\ LoopType

-----------------------------------------------------------------------------
\* How rows change: a workflow is not undefined again, a step's tasks are
\* appended to, and a task that rests does so for good.

Grows ==
  /\ wf # "ABSENT" => wf' # "ABSENT"
  /\ \A s \in Step :
       /\ DOMAIN task[s] \subseteq DOMAIN task'[s]
       /\ \A k \in DOMAIN task[s] :
            task[s][k].state # "OPEN" => task'[s][k].state = task[s][k].state

\* A linked task is one of its step's.
LEMMA LinkedId ==
  ASSUME NEW t \in Linked
  PROVE  t[1] \in Step /\ t[2] \in DOMAIN task[t[1]] /\ t = <<t[1], t[2]>>
BY DEF Linked

LEMMA LinkedIs ==
  ASSUME NEW s \in Step, NEW k \in DOMAIN task[s]
  PROVE  <<s, k>> \in Linked
BY DEF Linked

\* The tasks of a step, and their number.
LEMMA TaskRows ==
  ASSUME RowType, NEW s \in Step
  PROVE  /\ task[s] \in Seq(TaskRow) /\ DOMAIN task[s] = 1..Len(task[s])
         /\ Len(task[s]) \in Nat
         /\ \A k \in DOMAIN task[s] : task[s][k] \in TaskRow
         /\ task[s] # <<>> => Len(task[s]) \in DOMAIN task[s]
<1>1. task[s] \in Seq(TaskRow)
  BY DEF RowType
<1>2. Len(task[s]) \in Nat /\ DOMAIN task[s] = 1..Len(task[s])
  BY <1>1, LenProperties
<1>3. \A k \in DOMAIN task[s] : task[s][k] \in TaskRow
  BY <1>1, <1>2, ElementOfSeq
<1>4. task[s] # <<>> => Len(task[s]) \in Nat \ {0}
  BY <1>1, EmptySeq
<1> QED BY <1>1, <1>2, <1>3, <1>4

LEMMA LinkedIsId == RowType => Linked \subseteq TaskId
<1> SUFFICES ASSUME RowType, NEW t \in Linked PROVE t \in TaskId
  OBVIOUS
<1>1. t[1] \in Step /\ t[2] \in DOMAIN task[t[1]] /\ t = <<t[1], t[2]>>
  BY LinkedId
<1>2. t[2] \in Nat \ {0}
  BY <1>1, TaskRows
<1> QED BY <1>1, <1>2 DEF TaskId

LEMMA LinkedGrows == Grows => Linked \subseteq Linked'
<1> SUFFICES ASSUME Grows, NEW t \in Linked PROVE t \in Linked'
  OBVIOUS
<1>1. t[1] \in Step /\ t[2] \in DOMAIN task[t[1]] /\ t = <<t[1], t[2]>>
  BY LinkedId
<1>2. t[2] \in DOMAIN task'[t[1]]
  BY <1>1 DEF Grows
<1> QED BY <1>1, <1>2 DEF Linked

\* A message has the fields of its kind.
LEMMA MsgFields ==
  ASSUME NEW m \in WorkflowMsg
  PROVE  /\ m.type \in {"PROCESS_WORKFLOW", "CANCEL_WORKFLOW", "MAINTENANCE", "REVIVE_WORKFLOW",
                        "SCHEDULE_STEP", "STEP_EXEC_UPDATE", "STEP_TASK_UPDATE"}
         /\ m.type = "REVIVE_WORKFLOW" => m.deadline \in 0..MaxTime
         /\ m.type = "SCHEDULE_STEP" => m.step \in Step
         /\ m.type = "STEP_EXEC_UPDATE" => m.step \in Step /\ m.to \in TaskOutcome
         /\ m.type = "STEP_TASK_UPDATE" => m.task \in TaskId /\ m.to \in TaskOutcome
BY DEF WorkflowMsg, ProcessMsg, CancelMsg, MaintenanceMsg

\* The messages there are.
LEMMA MsgKinds ==
  /\ ProcessMsg \in WorkflowMsg /\ CancelMsg \in WorkflowMsg /\ MaintenanceMsg \in WorkflowMsg
  /\ \A d \in 0..MaxTime : ReviveMsg(d) \in WorkflowMsg
  /\ \A s \in Step : ScheduleMsg(s) \in WorkflowMsg
  /\ \A s \in Step, to \in TaskOutcome : ExecUpdate(s, to) \in WorkflowMsg
  /\ \A t \in TaskId, to \in TaskOutcome : TaskUpdate(t, to) \in WorkflowMsg
BY DEF WorkflowMsg, ProcessMsg, CancelMsg, MaintenanceMsg, ReviveMsg, ScheduleMsg,
       ExecUpdate, TaskUpdate

\* The plain messages are honest once there is a workflow.
LEMMA PlainHonest ==
  /\ MaintenanceMsg \in Honest
  /\ wf # "ABSENT" =>
       /\ ProcessMsg \in Honest /\ CancelMsg \in Honest
       /\ \A d \in 0..MaxTime : ReviveMsg(d) \in Honest
       /\ \A s \in Step : ScheduleMsg(s) \in Honest
BY MsgKinds DEF Honest, ProcessMsg, CancelMsg, MaintenanceMsg, ReviveMsg, ScheduleMsg

\* An update is honest that says of a task what it is, or of a step what one of
\* its tasks is.
LEMMA UpdateHonest ==
  ASSUME wf # "ABSENT"
  PROVE  /\ \A t \in Linked \cap TaskId, to \in TaskOutcome :
              task[t[1]][t[2]].state = to => TaskUpdate(t, to) \in Honest
         /\ \A s \in Step, to \in TaskOutcome :
              /\ task[s] # <<>>
              /\ to \in {"COMPLETE", "FAILED"} => \E k \in DOMAIN task[s] : task[s][k].state = to
              => ExecUpdate(s, to) \in Honest
<1>1. ASSUME NEW t \in Linked \cap TaskId, NEW to \in TaskOutcome, task[t[1]][t[2]].state = to
      PROVE  TaskUpdate(t, to) \in Honest
  BY <1>1, MsgKinds DEF Honest, TaskUpdate
<1>2. ASSUME NEW s \in Step, NEW to \in TaskOutcome, task[s] # <<>>,
             to \in {"COMPLETE", "FAILED"} => \E k \in DOMAIN task[s] : task[s][k].state = to
      PROVE  ExecUpdate(s, to) \in Honest
  <2>1. ExecUpdate(s, to) \in WorkflowMsg
    BY MsgKinds
  <2> QED BY <1>2, <2>1 DEF Honest, ExecUpdate
<1> QED BY <1>1, <1>2

\* A message stays honest.
LEMMA HonestStays ==
  RowType /\ Grows => Honest \subseteq Honest' /\ Cancels \subseteq Cancels'
<1> SUFFICES ASSUME RowType, Grows PROVE Honest \subseteq Honest' /\ Cancels \subseteq Cancels'
  OBVIOUS
<1>1. Linked \subseteq Linked'
  BY LinkedGrows
<1>2. Cancels \subseteq Cancels'
  BY <1>1 DEF Cancels, CancelTask
<1>3. ASSUME NEW m \in Honest PROVE m \in Honest'
  <2>1. m \in WorkflowMsg /\ (m.type # "MAINTENANCE" => wf' # "ABSENT")
    BY <1>3 DEF Honest, Grows
  <2>2. ASSUME m.type = "STEP_TASK_UPDATE"
        PROVE  m.task \in Linked' /\ task'[m.task[1]][m.task[2]].state = m.to
    <3>1. m.task \in Linked /\ task[m.task[1]][m.task[2]].state = m.to /\ m.to # "OPEN"
      BY <1>3, <2>1, <2>2, MsgFields DEF Honest, TaskOutcome
    <3>2. m.task[1] \in Step /\ m.task[2] \in DOMAIN task[m.task[1]]
      BY <3>1, LinkedId
    <3> QED BY <1>1, <3>1, <3>2 DEF Grows
  <2>3. ASSUME m.type = "STEP_EXEC_UPDATE"
        PROVE  /\ task'[m.step] # <<>>
               /\ m.to \in {"COMPLETE", "FAILED"} =>
                    \E k \in DOMAIN task'[m.step] : task'[m.step][k].state = m.to
    <3>1. m.step \in Step /\ task[m.step] # <<>>
      BY <1>3, <2>1, <2>3, MsgFields DEF Honest
    <3>2. Len(task[m.step]) \in DOMAIN task'[m.step]
      BY <3>1, TaskRows DEF Grows
    <3>3. task'[m.step] # <<>>
      BY <3>2
    <3>4. ASSUME m.to \in {"COMPLETE", "FAILED"}
          PROVE  \E k \in DOMAIN task'[m.step] : task'[m.step][k].state = m.to
      <4>1. PICK k \in DOMAIN task[m.step] : task[m.step][k].state = m.to
        BY <1>3, <2>3, <3>4 DEF Honest
      <4>2. k \in DOMAIN task'[m.step] /\ task'[m.step][k].state = m.to
        BY <3>1, <3>4, <4>1 DEF Grows
      <4> QED BY <4>2
    <3> QED BY <3>3, <3>4
  <2> QED BY <2>1, <2>2, <2>3 DEF Honest
<1> QED BY <1>2, <1>3
-----------------------------------------------------------------------------
\* The handlers

\* What a handler leaves behind.
Handled ==
  /\ RowType' /\ RunningHasTask' /\ Grows
  /\ out' \subseteq Honest \cup Cancels

\* Rows some of which are marked.
LEMMA MarkedType ==
  ASSUME RowType, NEW S, NEW to \in StepState
  PROVE  Marked(S, to) \in [Step -> StepState]
BY DEF RowType, Marked

LEMMA SettledType ==
  ASSUME NEW w \in WorkflowState, NEW rows
  PROVE  Settled(w, rows) \in WorkflowState
BY DEF Settled, WorkflowState

\* A handler that does nothing is safe.
LEMMA NoEffectHandled == RowType /\ RunningHasTask /\ NoEffect => Handled
BY DEF RowType, RunningHasTask, NoEffect, rowVars, Handled, Grows

\* One that writes states and owes honest pokes is, if it does not let a step run
\* that has no task.
LEMMA WriteHandled ==
  ASSUME RowType, NEW w \in WorkflowState, NEW rows \in [Step -> StepState],
         NEW owed \in SUBSET (Honest \cup Cancels), Write(w, rows, owed),
         \A s \in Step : rows[s] \in {"RUNNING", "CANCELLING"} => task[s] # <<>>
  PROVE  Handled
<1>1. wf' = w /\ step' = rows /\ out' = owed /\ parents' = parents
      /\ deadline' = deadline /\ task' = task
  BY DEF Write
<1>2. "ABSENT" \notin WorkflowState
  BY DEF WorkflowState
<1>3. Grows
  BY <1>1, <1>2 DEF Grows
<1>4. RowType' /\ RunningHasTask'
  BY <1>1 DEF RowType, RunningHasTask
<1> QED BY <1>1, <1>3, <1>4 DEF Handled

\* The cancels owed to live tasks.
LEMMA LiveCancels == \A S : {CancelTask(t) : t \in LiveTasks(S)} \subseteq Cancels
BY DEF LiveTasks, Cancels

LEMMA ProcessWorkflowHandled ==
  ASSUME RowType, RunningHasTask, wf # "ABSENT", ProcessWorkflow
  PROVE  Handled
<1>1. CASE wf \in HardStop
  BY <1>1, NoEffectHandled DEF ProcessWorkflow
<1>2. CASE wf \notin HardStop
  <2> DEFINE w    == IF wf = "PENDING" THEN "RUNNING" ELSE wf
             rows == Marked(ReadyToRun, "PENDING")
             owed == {ScheduleMsg(s) : s \in ReadyToRun}
  <2>1. Write(w, rows, owed)
    BY <1>2 DEF ProcessWorkflow
  <2>2. w \in WorkflowState
    BY DEF RowType, WorkflowState
  <2>3. rows \in [Step -> StepState]
    BY MarkedType DEF StepState
  <2>4. owed \in SUBSET (Honest \cup Cancels)
    BY PlainHonest DEF ReadyToRun, StepsIn
  <2>5. \A s \in Step : rows[s] \in {"RUNNING", "CANCELLING"} => task[s] # <<>>
    BY DEF Marked, RunningHasTask
  <2> QED
    <3> HIDE DEF w, rows, owed
    <3> QED BY <2>1, <2>2, <2>3, <2>4, <2>5, WriteHandled
<1> QED BY <1>1, <1>2

LEMMA TimeOutWorkflowHandled ==
  ASSUME RowType, RunningHasTask, TimeOutWorkflow
  PROVE  Handled
<1>1. CASE NoEffect
  BY <1>1, NoEffectHandled
<1>2. CASE ~ NoEffect
  <2> DEFINE rows == Marked(StepsIn(StepUnfinished), "TIMED_OUT")
             owed == {CancelTask(t) : t \in LiveTasks(StepsIn({"RUNNING"}))}
  <2>1. Write("TIMED_OUT", rows, owed)
    BY <1>2 DEF TimeOutWorkflow
  <2>2. rows \in [Step -> StepState]
    BY MarkedType DEF StepState
  <2>3. owed \in SUBSET (Honest \cup Cancels)
    BY LiveCancels
  <2>4. \A s \in Step : rows[s] \in {"RUNNING", "CANCELLING"} => task[s] # <<>>
    BY DEF Marked, RunningHasTask
  <2> QED
    <3> HIDE DEF rows, owed
    <3> QED BY <2>1, <2>2, <2>3, <2>4, WriteHandled DEF WorkflowState
<1> QED BY <1>1, <1>2

LEMMA ScheduleWorkflowStepHandled ==
  ASSUME RowType, RunningHasTask, NEW s \in Step, ScheduleWorkflowStep(s)
  PROVE  Handled
<1>1. CASE NoEffect
  BY <1>1, NoEffectHandled
<1>2. CASE TimeOutWorkflow
  BY <1>2, TimeOutWorkflowHandled
<1>3. CASE Dispatch(s)
  <2>1. task[s] \in Seq(TaskRow) /\ DOMAIN task[s] = 1..Len(task[s]) /\ Len(task[s]) \in Nat
    BY TaskRows
  <2>2. NewTask \in TaskRow
    BY DEF NewTask, TaskRow, RowType
  <2>3. /\ Append(task[s], NewTask) \in Seq(TaskRow)
        /\ Len(Append(task[s], NewTask)) = Len(task[s]) + 1
        /\ \A k \in 1..Len(task[s]) : Append(task[s], NewTask)[k] = task[s][k]
    BY <2>1, <2>2, AppendProperties
  <2>4. DOMAIN Append(task[s], NewTask) = 1..(Len(task[s]) + 1)
    BY <2>3, LenProperties
  <2>5. task' = [task EXCEPT ![s] = Append(task[s], NewTask)] /\ UNCHANGED <<wf, parents, deadline>>
        /\ step' = Marked({s}, "RUNNING") /\ out' = {}
    BY <1>3 DEF Dispatch
  <2>6. task'[s] = Append(task[s], NewTask) /\ \A r \in Step \ {s} : task'[r] = task[r]
    BY <2>5 DEF RowType
  <2>7. Grows
    BY <2>1, <2>3, <2>4, <2>5, <2>6 DEF Grows
  <2>8. RowType'
    BY <2>3, <2>5, MarkedType DEF RowType, StepState
  <2>9. task'[s] # <<>>
    BY <2>1, <2>4, <2>6
  <2>10. RunningHasTask'
    BY <2>5, <2>6, <2>9 DEF RunningHasTask, Marked
  <2> QED BY <2>5, <2>7, <2>8, <2>10 DEF Handled
<1> QED BY <1>1, <1>2, <1>3 DEF ScheduleWorkflowStep

LEMMA ApplyOutcomeHandled ==
  ASSUME RowType, RunningHasTask, wf # "ABSENT",
         NEW s \in Step, NEW to \in TaskOutcome, ApplyOutcome(s, to)
  PROVE  Handled
<1> DEFINE rows == Marked({s}, to)
           w    == IF to = "FAILED" /\ wf = "RUNNING" THEN "FAILED" ELSE Settled(wf, rows)
           owed == IF to = "COMPLETE" /\ w = wf THEN {ProcessMsg} ELSE {}
<1>1. CASE NoEffect
  BY <1>1, NoEffectHandled
<1>2. CASE TimeOutWorkflow
  BY <1>2, TimeOutWorkflowHandled
<1>3. CASE Write(w, rows, owed)
  <2>1. rows \in [Step -> StepState]
    BY MarkedType DEF StepState, TaskOutcome
  <2>2. w \in WorkflowState
    BY SettledType DEF RowType, WorkflowState
  <2>3. owed \in SUBSET (Honest \cup Cancels)
    BY PlainHonest
  <2>4. \A r \in Step : rows[r] \in {"RUNNING", "CANCELLING"} => task[r] # <<>>
    BY DEF Marked, RunningHasTask, TaskOutcome
  <2> HIDE DEF rows, w, owed
  <2> QED BY <1>3, <2>1, <2>2, <2>3, <2>4, WriteHandled
<1> QED BY <1>1, <1>2, <1>3 DEF ApplyOutcome

LEMMA ApplyDrainedHandled ==
  ASSUME RowType, RunningHasTask, wf # "ABSENT", NEW s \in Step, ApplyDrained(s)
  PROVE  Handled
<1> DEFINE rows == IF step[s] \in StepTerminal THEN step ELSE Marked({s}, "CANCELLED")
<1>1. CASE NoEffect
  BY <1>1, NoEffectHandled
<1>2. CASE Write(Settled(wf, rows), rows, {})
  <2>1. rows \in [Step -> StepState]
    BY MarkedType DEF StepState, RowType
  <2>2. Settled(wf, rows) \in WorkflowState
    BY SettledType DEF RowType
  <2>3. \A r \in Step : rows[r] \in {"RUNNING", "CANCELLING"} => task[r] # <<>>
    BY DEF Marked, RunningHasTask
  <2>4. {} \in SUBSET (Honest \cup Cancels)
    OBVIOUS
  <2> HIDE DEF rows
  <2> QED BY <1>2, <2>1, <2>2, <2>3, <2>4, WriteHandled
<1> QED BY <1>1, <1>2 DEF ApplyDrained

LEMMA ApplyStepExecutionUpdateHandled ==
  ASSUME RowType, RunningHasTask, wf # "ABSENT",
         NEW s \in Step, NEW to \in TaskOutcome, ApplyStepExecutionUpdate(s, to)
  PROVE  Handled
BY ApplyOutcomeHandled, ApplyDrainedHandled DEF ApplyStepExecutionUpdate

LEMMA CancelWorkflowHandled ==
  ASSUME RowType, RunningHasTask, CancelWorkflow
  PROVE  Handled
<1> DEFINE rows == [s \in Step |->
                      CASE step[s] = "RUNNING" -> "CANCELLING"
                        [] step[s] \in {"DEFINED", "PENDING", "FAILED", "TIMED_OUT"} -> "CANCELLED"
                        [] OTHER -> step[s]]
           owed == {CancelTask(t) : t \in LiveTasks(StepsIn({"RUNNING"}))}
<1>1. CASE NoEffect
  BY <1>1, NoEffectHandled
<1>2. CASE Write(Settled("CANCELLING", rows), rows, owed)
  <2>1. rows \in [Step -> StepState]
    BY DEF StepState, RowType
  <2>2. Settled("CANCELLING", rows) \in WorkflowState
    BY SettledType DEF WorkflowState
  <2>3. \A s \in Step : rows[s] \in {"RUNNING", "CANCELLING"} => task[s] # <<>>
    BY DEF RunningHasTask, RowType, StepState
  <2>4. owed \in SUBSET (Honest \cup Cancels)
    BY LiveCancels
  <2> HIDE DEF rows, owed
  <2> QED BY <1>2, <2>1, <2>2, <2>3, <2>4, WriteHandled
<1> QED BY <1>1, <1>2 DEF CancelWorkflow

LEMMA ReviveWorkflowHandled ==
  ASSUME RowType, RunningHasTask, wf # "ABSENT", NEW d \in 0..MaxTime, ReviveWorkflow(d)
  PROVE  Handled
<1>1. CASE NoEffect
  BY <1>1, NoEffectHandled
<1>2. CASE ~ NoEffect
  <2>1. /\ wf' = "RUNNING" /\ step' = Reverted /\ out' = {ProcessMsg}
        /\ deadline' = IF d = 0 THEN deadline ELSE d
        /\ parents' = parents /\ task' = task
    BY <1>2 DEF ReviveWorkflow
  <2>2. RowType'
    BY <2>1, MarkedType DEF RowType, Reverted, WorkflowState, StepState
  <2>3. RunningHasTask'
    BY <2>1 DEF RunningHasTask, Reverted, Marked
  <2>4. Grows
    BY <2>1 DEF Grows
  <2> QED BY <2>1, <2>2, <2>3, <2>4, PlainHonest DEF Handled
<1> QED BY <1>1, <1>2

\* The sweep's update of a running step whose tasks rest is the state of one of them.
LEMMA ClassifyRunningHonest ==
  ASSUME RowType, RunningHasTask, wf # "ABSENT"
  PROVE  ClassifyRunning \subseteq Honest
<1> SUFFICES ASSUME NEW s \in Step, step[s] = "RUNNING", ~ Live(s)
             PROVE  ExecUpdate(s, LastOutcome(s)) \in Honest
  BY DEF ClassifyRunning, StepsIn
<1>1. task[s] # <<>>
  BY DEF RunningHasTask
<1>2. Len(task[s]) \in DOMAIN task[s] /\ task[s][Len(task[s])] \in TaskRow
  BY <1>1, TaskRows
<1>3. task[s][Len(task[s])].state # "OPEN"
  BY <1>2 DEF Live
<1>4. LastOutcome(s) = task[s][Len(task[s])].state
  BY <1>1 DEF LastOutcome, Last
<1>5. LastOutcome(s) \in TaskOutcome
  BY <1>2, <1>3, <1>4 DEF TaskRow
<1> QED BY <1>1, <1>2, <1>4, <1>5, UpdateHonest

LEMMA ClassifyCancellingHonest ==
  ASSUME RowType, RunningHasTask, wf # "ABSENT"
  PROVE  ClassifyCancelling \subseteq Honest \cup Cancels
<1>1. ASSUME NEW s \in Step, step[s] = "CANCELLING" PROVE ExecUpdate(s, "CANCELLED") \in Honest
  <2>1. task[s] # <<>>
    BY <1>1 DEF RunningHasTask
  <2> QED BY <2>1, UpdateHonest DEF TaskOutcome
<1>2. {CancelTask(t) : t \in LiveTasks(StepsIn({"CANCELLING"}))} \subseteq Cancels
  BY LiveCancels
<1>3. {ExecUpdate(s, "CANCELLED") : s \in {c \in StepsIn({"CANCELLING"}) : ~ Live(c)}} \subseteq Honest
  BY <1>1 DEF StepsIn
<1> QED BY <1>2, <1>3 DEF ClassifyCancelling

LEMMA ReconcileWorkflowHandled ==
  ASSUME RowType, RunningHasTask, ReconcileWorkflow
  PROVE  Handled
<1>1. CASE NoEffect
  BY <1>1, NoEffectHandled
<1>2. CASE TimeOutWorkflow
  BY <1>2, TimeOutWorkflowHandled
<1>3. CASE ~ NoEffect /\ ~ TimeOutWorkflow
  <2> DEFINE owed == ClassifyRunning \cup ClassifyCancelling
                       \cup {ScheduleMsg(s) : s \in StepsIn({"PENDING"})} \cup Nudge
  <2>1. wf # "ABSENT" /\ Write(Settled(wf, step), step, owed)
    BY <1>3 DEF ReconcileWorkflow
  <2>2. Settled(wf, step) \in WorkflowState
    BY <2>1, SettledType DEF RowType
  <2>3. {ScheduleMsg(s) : s \in StepsIn({"PENDING"})} \subseteq Honest /\ Nudge \subseteq Honest
    BY <2>1, PlainHonest DEF StepsIn, Nudge
  <2>4. owed \in SUBSET (Honest \cup Cancels)
    BY <2>1, <2>3, ClassifyRunningHonest, ClassifyCancellingHonest
  <2>5. \A s \in Step : step[s] \in {"RUNNING", "CANCELLING"} => task[s] # <<>>
    BY DEF RunningHasTask
  <2>6. step \in [Step -> StepState]
    BY DEF RowType
  <2> HIDE DEF owed
  <2> QED BY <2>1, <2>2, <2>4, <2>5, <2>6, WriteHandled
<1> QED BY <1>1, <1>2, <1>3

\* What the scheduler does with an honest message.
LEMMA HandleHandled ==
  ASSUME RowType, RunningHasTask, NEW m \in Honest, Handle(m)
  PROVE  Handled
<1>1. m \in WorkflowMsg /\ (m.type # "MAINTENANCE" => wf # "ABSENT")
  BY DEF Honest
<1>2. CASE m.type = "PROCESS_WORKFLOW"
  BY <1>1, <1>2, ProcessWorkflowHandled DEF Handle
<1>3. CASE m.type = "CANCEL_WORKFLOW"
  BY <1>3, CancelWorkflowHandled DEF Handle
<1>4. CASE m.type = "REVIVE_WORKFLOW"
  <2>1. m.deadline \in 0..MaxTime /\ ReviveWorkflow(m.deadline)
    BY <1>1, <1>4, MsgFields DEF Handle
  <2> QED BY <1>1, <1>4, <2>1, ReviveWorkflowHandled
<1>5. CASE m.type = "SCHEDULE_STEP"
  <2>1. m.step \in Step /\ ScheduleWorkflowStep(m.step)
    BY <1>1, <1>5, MsgFields DEF Handle
  <2> QED BY <2>1, ScheduleWorkflowStepHandled
<1>6. CASE m.type = "STEP_EXEC_UPDATE"
  <2>1. m.step \in Step /\ m.to \in TaskOutcome /\ ApplyStepExecutionUpdate(m.step, m.to)
    BY <1>1, <1>6, MsgFields DEF Handle
  <2> QED BY <1>1, <1>6, <2>1, ApplyStepExecutionUpdateHandled
<1>7. CASE m.type = "STEP_TASK_UPDATE"
  <2>1. m.task[1] \in Step /\ m.to \in TaskOutcome /\ ApplyStepExecutionUpdate(m.task[1], m.to)
    BY <1>1, <1>7, MsgFields DEF Handle, ApplyStepTaskUpdate, TaskId
  <2> QED BY <1>1, <1>7, <2>1, ApplyStepExecutionUpdateHandled
<1>8. CASE m.type = "MAINTENANCE"
  BY <1>8, ReconcileWorkflowHandled DEF Handle
<1> QED BY <1>1, <1>2, <1>3, <1>4, <1>5, <1>6, <1>7, <1>8, MsgFields
-----------------------------------------------------------------------------
\* The steps

\* The queues, and the pokes owed, hold in the next state what they held.
LEMMA QueuesStay ==
  ASSUME RowType, Grows, QueueInv
  PROVE  /\ wfQ \in Seq(Honest') /\ wfBuf \in Seq(Honest')
         /\ cur \in Honest' \cup {None}
         /\ spc \in {"handle", "send"} => cur \in Honest'
         /\ out \subseteq Honest' \cup Cancels'
<1>1. Honest \subseteq Honest' /\ Cancels \subseteq Cancels'
  BY HonestStays
<1> QED BY <1>1, SeqMonotonic DEF QueueInv

\* An unstamped event is still one of a task that rests.
LEMMA FeedStays ==
  ASSUME FeedRests, Grows
  PROVE  feed \subseteq Linked' /\ \A t \in feed : task'[t[1]][t[2]].state # "OPEN"
<1>1. feed \subseteq Linked'
  BY LinkedGrows DEF FeedRests
<1>2. ASSUME NEW t \in feed PROVE task'[t[1]][t[2]].state # "OPEN"
  <2>1. t \in Linked /\ task[t[1]][t[2]].state # "OPEN"
    BY DEF FeedRests
  <2>2. t[1] \in Step /\ t[2] \in DOMAIN task[t[1]]
    BY <2>1, LinkedId
  <2> QED BY <2>1, <2>2 DEF Grows
<1> QED BY <1>1, <1>2

\* Where no row and no task changes, nothing is said that was not said before.
LEMMA RowsStay ==
  ASSUME TypeInv, UNCHANGED <<rowVars, task>>
  PROVE  /\ RowType' /\ RunningHasTask' /\ TasksNeedWorkflow' /\ Grows
         /\ Honest' = Honest /\ Cancels' = Cancels /\ Linked' = Linked
BY DEF TypeInv, RowType, RunningHasTask, TasksNeedWorkflow, Grows, rowVars, Honest, Cancels, Linked

LEMMA QueueAppends ==
  ASSUME NEW S, NEW q \in Seq(S), NEW m \in S
  PROVE  Append(q, m) \in Seq(S) /\ <<m>> \o q \in Seq(S)
BY AppendProperties, ConcatProperties

LEMMA InitType == Init => TypeInv
<1> SUFFICES ASSUME Init PROVE TypeInv
  OBVIOUS
<1>1. RowType
  BY BoundAssumption, EmptySeq DEF Init, RowType, StepState
<1>2. RunningHasTask /\ TasksNeedWorkflow /\ FeedRests /\ LoopType
  BY BoundAssumption DEF Init, RunningHasTask, TasksNeedWorkflow, FeedRests, LoopType
<1>3. QueueInv
  BY EmptySeq DEF Init, QueueInv
<1> QED BY <1>1, <1>2, <1>3 DEF TypeInv

LEMMA ClientStepType == TypeInv /\ ClientStep => TypeInv'
<1>1. ASSUME TypeInv, NEW G \in [Step -> SUBSET Step], NEW d \in 1..MaxTime, DefineWorkflow(G, d)
      PROVE  TypeInv'
  <2>1. /\ wf' = "PENDING" /\ parents' = G /\ deadline' = d
        /\ UNCHANGED <<step, task, feed, now, schedVars, boundVars>>
    BY <1>1 DEF DefineWorkflow
  <2>2. Grows
    BY <2>1 DEF Grows
  <2>3. RowType' /\ RunningHasTask' /\ TasksNeedWorkflow' /\ LoopType'
    BY <1>1, <2>1, BoundAssumption
       DEF TypeInv, RowType, RunningHasTask, TasksNeedWorkflow, LoopType, WorkflowState, schedVars, boundVars
  <2>4. FeedRests'
    BY <1>1, <2>1, <2>2, FeedStays DEF TypeInv, FeedRests
  <2>5. QueueInv'
    BY <1>1, <2>1, <2>2, QueuesStay DEF TypeInv, QueueInv, schedVars
  <2> QED BY <2>3, <2>4, <2>5 DEF TypeInv
<1>2. ASSUME TypeInv, NEW kind, NEW m, wf # "ABSENT" => m \in Honest, Poke(kind, m)
      PROVE  TypeInv'
  <2>1. /\ wf # "ABSENT" /\ pokes < MaxPokes /\ pokes' = pokes + 1 /\ wfQ' = Append(wfQ, m)
        /\ UNCHANGED <<rowVars, task, feed, now, wfBuf, spc, cur, out, faults>>
    BY <1>2 DEF Poke
  <2>2. LoopType'
    BY <1>2, <2>1, BoundAssumption DEF TypeInv, LoopType
  <2>3. FeedRests'
    BY <1>2, <2>1, RowsStay DEF TypeInv, FeedRests
  <2>4. QueueInv'
    BY <1>2, <2>1, RowsStay, QueueAppends DEF TypeInv, QueueInv
  <2> QED BY <1>2, <2>1, <2>2, <2>3, <2>4, RowsStay DEF TypeInv
<1>3. TypeInv /\ SubmitWorkflow => TypeInv'
  BY <1>2, PlainHonest DEF SubmitWorkflow
<1>4. TypeInv /\ RequestCancel => TypeInv'
  BY <1>2, PlainHonest DEF RequestCancel
<1>5. TypeInv /\ RequestRevive => TypeInv'
  BY <1>2, PlainHonest DEF RequestRevive
<1> QED BY <1>1, <1>3, <1>4, <1>5 DEF ClientStep

LEMMA TickType == TypeInv /\ Tick => TypeInv'
<1> SUFFICES ASSUME TypeInv, Tick PROVE TypeInv'
  OBVIOUS
<1>1. now < MaxTime /\ now' = now + 1 /\ UNCHANGED <<rowVars, task, feed, schedVars, boundVars>>
  BY DEF Tick
<1>2. LoopType'
  BY <1>1, BoundAssumption DEF TypeInv, LoopType, schedVars, boundVars
<1>3. FeedRests' /\ QueueInv'
  BY <1>1, RowsStay DEF TypeInv, FeedRests, QueueInv, schedVars
<1> QED BY <1>1, <1>2, <1>3, RowsStay DEF TypeInv

\* A task is replaced in its step's sequence by one that keeps its state if it rests.
LEMMA TaskChanges ==
  ASSUME RowType, NEW s \in Step, NEW k \in DOMAIN task[s], NEW r \in TaskRow,
         task[s][k].state # "OPEN" => r.state = task[s][k].state,
         task' = [task EXCEPT ![s] = [task[s] EXCEPT ![k] = r]], wf' = wf
  PROVE  /\ task' \in [Step -> Seq(TaskRow)] /\ Grows
         /\ \A q \in Step : DOMAIN task'[q] = DOMAIN task[q]
         /\ task'[s][k] = r
<1>1. task[s] \in Seq(TaskRow) /\ DOMAIN task[s] = 1..Len(task[s])
  BY TaskRows
<1>2. [task[s] EXCEPT ![k] = r] \in Seq(TaskRow)
  BY <1>1, ExceptSeq
<1>3. task' \in [Step -> Seq(TaskRow)]
  BY <1>2 DEF RowType
<1>4. task'[s] = [task[s] EXCEPT ![k] = r] /\ \A q \in Step \ {s} : task'[q] = task[q]
  BY DEF RowType
<1>5. DOMAIN task'[s] = DOMAIN task[s] /\ task'[s][k] = r
      /\ \A i \in DOMAIN task[s] \ {k} : task'[s][i] = task[s][i]
  BY <1>4
<1>6. Grows
  BY <1>4, <1>5 DEF Grows
<1> QED BY <1>3, <1>4, <1>5, <1>6

\* A step with tasks keeps having some.
LEMMA TasksStay ==
  ASSUME RowType, RunningHasTask, step' = step, Grows
  PROVE  RunningHasTask'
<1> SUFFICES ASSUME NEW s \in Step, step[s] \in {"RUNNING", "CANCELLING"} PROVE task'[s] # <<>>
  BY DEF RunningHasTask
<1>1. Len(task[s]) \in DOMAIN task'[s]
  BY TaskRows DEF RunningHasTask, Grows
<1> QED BY <1>1

LEMMA TaskEngineStepType == TypeInv /\ TaskEngineStep => TypeInv'
<1> SUFFICES ASSUME TypeInv, NEW s \in Step, NEW k \in DOMAIN task[s], NEW o \in TaskOutcome,
                    TaskRests(s, k, o)
             PROVE  TypeInv'
  BY DEF TaskEngineStep
<1> DEFINE r == [task[s][k] EXCEPT !.state = o, !.asked = FALSE]
<1>1. /\ task[s][k].state = "OPEN"
      /\ task' = [task EXCEPT ![s][k].state = o, ![s][k].asked = FALSE]
      /\ feed' = feed \cup {<<s, k>>} /\ UNCHANGED <<rowVars, now, schedVars, boundVars>>
  BY DEF TaskRests
<1>2. task[s][k] \in TaskRow
  BY TaskRows DEF TypeInv
<1>3. r \in TaskRow /\ r.state = o /\ o # "OPEN"
  BY <1>2 DEF TaskRow, TaskOutcome
<1>4. task' = [task EXCEPT ![s] = [task[s] EXCEPT ![k] = r]]
  BY <1>1 DEF TypeInv, RowType
<1>5. /\ task' \in [Step -> Seq(TaskRow)] /\ Grows
      /\ \A q \in Step : DOMAIN task'[q] = DOMAIN task[q]
      /\ task'[s][k] = r
  <2>1. RowType /\ wf' = wf
    BY <1>1 DEF TypeInv, rowVars
  <2>2. task[s][k].state # "OPEN" => r.state = task[s][k].state
    BY <1>1
  <2> HIDE DEF r
  <2> QED BY <1>3, <1>4, <2>1, <2>2, TaskChanges
<1>6. RowType'
  BY <1>1, <1>5 DEF TypeInv, RowType, rowVars
<1>7. RunningHasTask'
  BY <1>1, <1>5, TasksStay DEF TypeInv, rowVars
<1>8. FeedRests'
  <2>1. <<s, k>> \in Linked'
    BY <1>5 DEF Linked
  <2>2. task'[s][k].state # "OPEN"
    BY <1>3, <1>5
  <2>3. feed \subseteq Linked' /\ \A t \in feed : task'[t[1]][t[2]].state # "OPEN"
    BY <1>5, FeedStays DEF TypeInv
  <2>4. ASSUME NEW t \in feed' PROVE t \in Linked' /\ task'[t[1]][t[2]].state # "OPEN"
    <3>1. CASE t \in feed
      BY <2>3, <3>1
    <3>2. CASE t = <<s, k>>
      BY <2>1, <2>2, <3>2
    <3> QED BY <1>1, <3>1, <3>2
  <2> QED BY <2>4 DEF FeedRests
<1>9. QueueInv' /\ LoopType'
  BY <1>1, <1>5, QueuesStay DEF TypeInv, QueueInv, LoopType, schedVars, boundVars
<1>10. wf # "ABSENT" /\ wf' = wf
  BY <1>1 DEF TypeInv, TasksNeedWorkflow, rowVars
<1> QED BY <1>6, <1>7, <1>8, <1>9, <1>10 DEF TypeInv, TasksNeedWorkflow

\* An event that is heard becomes an honest update.
LEMMA NotifyType ==
  ASSUME TypeInv, NEW t \in feed, NEW heard \in BOOLEAN, NEW stamped \in BOOLEAN,
         heard => Subscribed, Notify(t, heard, stamped), faults' \in 0..MaxFaults
  PROVE  TypeInv'
<1>1. /\ wfQ' = IF heard THEN Append(wfQ, TaskUpdate(t, task[t[1]][t[2]].state)) ELSE wfQ
      /\ feed' \subseteq feed
      /\ UNCHANGED <<rowVars, task, now, wfBuf, spc, cur, out, pokes>>
  BY DEF Notify
<1>2. t \in Linked \cap TaskId /\ task[t[1]][t[2]].state \in TaskOutcome
  <2>1. t \in Linked /\ task[t[1]][t[2]].state # "OPEN"
    BY DEF TypeInv, FeedRests
  <2>2. t[1] \in Step /\ t[2] \in DOMAIN task[t[1]]
    BY <2>1, LinkedId
  <2>3. task[t[1]][t[2]] \in TaskRow
    BY <2>2, TaskRows DEF TypeInv
  <2> QED BY <2>1, <2>3, LinkedIsId DEF TypeInv, TaskRow
<1>3. wf # "ABSENT"
  <2>1. t[1] \in Step /\ t[2] \in DOMAIN task[t[1]]
    BY <1>2, LinkedId
  <2> QED BY <2>1 DEF TypeInv, TasksNeedWorkflow
<1>4. TaskUpdate(t, task[t[1]][t[2]].state) \in Honest
  BY <1>2, <1>3, UpdateHonest
<1>5. QueueInv'
  BY <1>1, <1>4, RowsStay, QueueAppends DEF TypeInv, QueueInv
<1>6. FeedRests' /\ LoopType'
  BY <1>1, RowsStay DEF TypeInv, FeedRests, LoopType
<1> QED BY <1>1, <1>5, <1>6, RowsStay DEF TypeInv

LEMMA NotifyStepType == TypeInv /\ NotifyStep => TypeInv'
<1> SUFFICES ASSUME TypeInv, NEW t \in feed, Notified(t) \/ NotifyLost(t) \/ Republished(t)
             PROVE  TypeInv'
  BY DEF NotifyStep
<1>1. MaxFaults \in Nat /\ faults \in 0..MaxFaults
  BY BoundAssumption DEF TypeInv, LoopType
<1>2. CASE Notified(t)
  BY <1>1, <1>2, NotifyType DEF Notified, Subscribed
<1>3. CASE NotifyLost(t)
  <2>1. Notify(t, FALSE, TRUE) /\ Fault("notifyLost")
    BY <1>3 DEF NotifyLost
  <2>2. faults' \in 0..MaxFaults
    BY <1>1, <2>1 DEF Fault
  <2> QED BY <2>1, <2>2, NotifyType
<1>4. CASE Republished(t)
  <2>1. Subscribed /\ Notify(t, TRUE, FALSE) /\ Fault("republish")
    BY <1>4 DEF Republished
  <2>2. faults' \in 0..MaxFaults
    BY <1>1, <2>1 DEF Fault
  <2> QED BY <2>1, <2>2, NotifyType
<1> QED BY <1>2, <1>3, <1>4

\* A step of the loop that touches no row and no task: the queues are all there is to see.
LEMMA LoopStep ==
  ASSUME TypeInv, UNCHANGED <<rowVars, task, feed, now, pokes>>,
         faults' \in 0..MaxFaults, spc' \in {"down", "recover", "idle", "handle", "send"},
         wfQ' \in Seq(Honest), wfBuf' \in Seq(Honest), cur' \in Honest \cup {None},
         spc' \in {"handle", "send"} => cur' \in Honest, out' \subseteq Honest \cup Cancels
  PROVE  TypeInv'
<1>1. FeedRests' /\ QueueInv' /\ LoopType'
  BY RowsStay DEF TypeInv, FeedRests, QueueInv, LoopType
<1> QED BY <1>1, RowsStay DEF TypeInv

LEMMA RecoverType == TypeInv /\ (SchedStart \/ RecoverPop \/ RecoverPush \/ RecoverDone) => TypeInv'
<1> SUFFICES ASSUME TypeInv, SchedStart \/ RecoverPop \/ RecoverPush \/ RecoverDone PROVE TypeInv'
  OBVIOUS
<1>1. QueueInv /\ LoopType
  BY DEF TypeInv
<1>2. CASE SchedStart
  BY <1>1, <1>2, LoopStep DEF SchedStart, SchedulerOnly, QueueInv, LoopType
<1>3. CASE RecoverPop
  <2>1. Head(wfBuf) \in Honest /\ Tail(wfBuf) \in Seq(Honest)
    BY <1>1, <1>3, HeadTailProperties DEF RecoverPop, QueueInv
  <2> QED BY <1>1, <1>3, <2>1, LoopStep DEF RecoverPop, SchedulerOnly, QueueInv, LoopType
<1>4. CASE RecoverPush
  <2>1. <<cur>> \o wfQ \in Seq(Honest)
    BY <1>1, <1>4, QueueAppends DEF RecoverPush, QueueInv
  <2> QED BY <1>1, <1>4, <2>1, LoopStep DEF RecoverPush, SchedulerOnly, QueueInv, LoopType
<1>5. CASE RecoverDone
  BY <1>1, <1>5, LoopStep DEF RecoverDone, SchedulerOnly, QueueInv, LoopType
<1> QED BY <1>2, <1>3, <1>4, <1>5

LEMMA MaintenanceTickType == TypeInv /\ MaintenanceTick => TypeInv'
<1> SUFFICES ASSUME TypeInv, MaintenanceTick PROVE TypeInv'
  OBVIOUS
<1>1. QueueInv /\ LoopType
  BY DEF TypeInv
<1>2. Append(wfQ, MaintenanceMsg) \in Seq(Honest)
  BY <1>1, QueueAppends, PlainHonest DEF QueueInv
<1> QED BY <1>1, <1>2, LoopStep DEF MaintenanceTick, SchedulerOnly, QueueInv, LoopType

LEMMA DequeueType == TypeInv /\ Dequeue => TypeInv'
<1> SUFFICES ASSUME TypeInv, Dequeue PROVE TypeInv'
  OBVIOUS
<1>1. QueueInv /\ LoopType
  BY DEF TypeInv
<1>2. Head(wfQ) \in Honest /\ Tail(wfQ) \in Seq(Honest)
  BY <1>1, HeadTailProperties DEF Dequeue, QueueInv
<1>3. Append(wfBuf, Head(wfQ)) \in Seq(Honest)
  BY <1>1, <1>2, QueueAppends DEF QueueInv
<1> QED BY <1>1, <1>2, <1>3, LoopStep DEF Dequeue, SchedulerOnly, QueueInv, LoopType

LEMMA HandleOneType == TypeInv /\ HandleOne => TypeInv'
<1> SUFFICES ASSUME TypeInv, HandleOne PROVE TypeInv'
  OBVIOUS
<1>1. /\ spc = "handle" /\ cur \in Honest /\ Handle(cur) /\ spc' = "send"
      /\ UNCHANGED <<feed, now, pokes, wfQ, wfBuf, cur, faults>>
  BY DEF TypeInv, QueueInv, HandleOne, SchedulerOnly
<1>2. Handled
  BY <1>1, HandleHandled DEF TypeInv
<1>3. TasksNeedWorkflow'
  <2>1. CASE wf # "ABSENT"
    BY <1>2, <2>1 DEF Handled, Grows, TasksNeedWorkflow
  <2>2. CASE wf = "ABSENT"
    <3>1. cur.type = "MAINTENANCE"
      BY <1>1, <2>2 DEF Honest
    <3>2. NoEffect
      BY <1>1, <2>2, <3>1 DEF Handle, ReconcileWorkflow
    <3> QED BY <3>2 DEF TypeInv, NoEffect, rowVars, TasksNeedWorkflow
  <2> QED BY <2>1, <2>2
<1>4. FeedRests'
  BY <1>1, <1>2, FeedStays DEF TypeInv, Handled, FeedRests
<1>5. QueueInv'
  <2>1. out' \subseteq Honest' \cup Cancels'
    BY <1>2, HonestStays DEF TypeInv, Handled
  <2> QED BY <1>1, <1>2, <2>1, QueuesStay DEF TypeInv, Handled, QueueInv
<1>6. LoopType'
  BY <1>1 DEF TypeInv, LoopType
<1> QED BY <1>2, <1>3, <1>4, <1>5, <1>6 DEF TypeInv, Handled

\* A poke goes to the queue, or a cancel to a task.
LEMMA SendOneType == TypeInv /\ SendOne => TypeInv'
<1> SUFFICES ASSUME TypeInv, SendOne PROVE TypeInv'
  OBVIOUS
<1>1. PICK m \in out : Deliver(m) /\ out' = out \ {m}
  BY DEF SendOne
<1>2. UNCHANGED <<rowVars, feed, now, pokes, wfBuf, spc, cur, faults>>
  BY DEF SendOne, SchedulerOnly
<1>3. QueueInv /\ LoopType
  BY DEF TypeInv
<1>4. CASE m.type # "CANCEL_TASK" \/ m \in Honest
  <2>1. m \in Honest
    <3>1. m \in Honest \/ m.type = "CANCEL_TASK"
      BY <1>3 DEF QueueInv, Cancels, CancelTask
    <3> QED BY <1>4, <3>1
  <2>2. m \in WorkflowMsg
    BY <2>1 DEF Honest
  <2>3. m.type # "CANCEL_TASK"
    BY <2>2, MsgFields
  <2>4. wfQ' = Append(wfQ, m) /\ UNCHANGED task
    BY <1>1, <2>3 DEF Deliver
  <2>5. wfQ' \in Seq(Honest)
    BY <1>3, <2>1, <2>4, QueueAppends DEF QueueInv
  <2> QED BY <1>1, <1>2, <1>3, <2>4, <2>5, LoopStep DEF QueueInv, LoopType
<1>5. CASE m.type = "CANCEL_TASK" /\ m \notin Honest
  <2>1. PICK t \in Linked : m = CancelTask(t)
    BY <1>1, <1>3, <1>5 DEF QueueInv, Cancels
  <2>2. t[1] \in Step /\ t[2] \in DOMAIN task[t[1]]
    BY LinkedId
  <2>3. wfQ' = wfQ /\ task' = IF IsOpen(t) THEN [task EXCEPT ![t[1]][t[2]].asked = TRUE] ELSE task
    BY <1>1, <1>5, <2>1 DEF Deliver, CancelTask
  <2>4. CASE ~ IsOpen(t)
    BY <1>1, <1>2, <1>3, <2>3, <2>4, LoopStep DEF QueueInv, LoopType
  <2>5. CASE IsOpen(t)
    <3> DEFINE r == [task[t[1]][t[2]] EXCEPT !.asked = TRUE]
    <3>1. task[t[1]][t[2]] \in TaskRow
      BY <2>2, TaskRows DEF TypeInv
    <3>2. r \in TaskRow /\ r.state = task[t[1]][t[2]].state
      BY <3>1 DEF TaskRow
    <3>3. task' = [task EXCEPT ![t[1]] = [task[t[1]] EXCEPT ![t[2]] = r]]
      BY <2>2, <2>3, <2>5 DEF TypeInv, RowType
    <3>4. /\ task' \in [Step -> Seq(TaskRow)] /\ Grows
          /\ \A q \in Step : DOMAIN task'[q] = DOMAIN task[q]
      <4>1. RowType /\ wf' = wf
        BY <1>2 DEF TypeInv, rowVars
      <4> HIDE DEF r
      <4> QED BY <2>2, <3>2, <3>3, <4>1, TaskChanges
    <3>5. RowType' /\ wf' = wf
      BY <1>2, <3>4 DEF TypeInv, RowType, rowVars
    <3>6. RunningHasTask'
      BY <1>2, <3>4, TasksStay DEF TypeInv, rowVars
    <3>7. TasksNeedWorkflow'
      BY <2>2, <3>5 DEF TypeInv, TasksNeedWorkflow
    <3>8. FeedRests'
      BY <1>2, <3>4, FeedStays DEF TypeInv, FeedRests
    <3>9. QueueInv' /\ LoopType'
      BY <1>1, <1>2, <2>3, <3>4, QueuesStay DEF TypeInv, QueueInv, LoopType
    <3> QED BY <3>5, <3>6, <3>7, <3>8, <3>9 DEF TypeInv
  <2> QED BY <2>4, <2>5
<1> QED BY <1>4, <1>5

\* The loop lets go of its message: handled, aborted, or lost with the process.
LEMMA LetGoType ==
  TypeInv /\ (DeleteOne \/ PokeLost \/ HandlerAborts \/ SchedCrash) => TypeInv'
<1> SUFFICES ASSUME TypeInv, DeleteOne \/ PokeLost \/ HandlerAborts \/ SchedCrash PROVE TypeInv'
  OBVIOUS
<1>1. QueueInv /\ LoopType
  BY DEF TypeInv
<1>2. RemoveFirst(wfBuf, cur) \in Seq(Honest)
  BY <1>1, RemoveFirstInSeq DEF QueueInv
<1>3. faults' \in 0..MaxFaults
  BY <1>1, BoundAssumption DEF LoopType, DeleteOne, PokeLost, HandlerAborts, SchedCrash, Fault
<1>4. CASE DeleteOne
  BY <1>1, <1>2, <1>3, <1>4, LoopStep DEF DeleteOne, SchedulerOnly, QueueInv, LoopType
<1>5. CASE PokeLost
  BY <1>1, <1>3, <1>5, LoopStep DEF PokeLost, SchedulerOnly, QueueInv, LoopType
<1>6. CASE HandlerAborts
  BY <1>1, <1>2, <1>3, <1>6, LoopStep DEF HandlerAborts, SchedulerOnly, QueueInv, LoopType
<1>7. CASE SchedCrash
  BY <1>1, <1>3, <1>7, LoopStep DEF SchedCrash, SchedulerOnly, QueueInv, LoopType
<1> QED BY <1>4, <1>5, <1>6, <1>7

LEMMA StutterType == TypeInv /\ UNCHANGED vars => TypeInv'
<1> SUFFICES ASSUME TypeInv, UNCHANGED vars PROVE TypeInv'
  OBVIOUS
<1>1. QueueInv /\ LoopType
  BY DEF TypeInv
<1> QED BY <1>1, LoopStep DEF QueueInv, LoopType, vars, schedVars, boundVars

LEMMA TypeInvSteps == TypeInv /\ [Next]_vars => TypeInv'
BY ClientStepType, TickType, TaskEngineStepType, NotifyStepType, RecoverType, DequeueType,
   HandleOneType, SendOneType, LetGoType, MaintenanceTickType, StutterType
   DEF Next, SchedulerStep

LEMMA TypeInvType == TypeInv => TypeOK
<1> SUFFICES ASSUME TypeInv PROVE TypeOK
  OBVIOUS
<1>1. Honest \subseteq WorkflowMsg
  BY DEF Honest
<1>2. wfQ \in Seq(WorkflowMsg) /\ wfBuf \in Seq(WorkflowMsg)
  BY <1>1, SeqMonotonic DEF TypeInv, QueueInv
<1>3. cur \in WorkflowMsg \cup {None} /\ out \subseteq WorkflowMsg \cup {CancelTask(t) : t \in Linked}
  BY <1>1 DEF TypeInv, QueueInv, Cancels
<1> QED BY <1>2, <1>3 DEF TypeInv, RowType, FeedRests, LoopType, TypeOK

\* Rows, queues and memory are always of their types, and what is said of a task
\* is always true of it.
THEOREM WorkflowTypeInv == Spec => []TypeInv
<1>1. Init => TypeInv
  BY InitType
<1>2. TypeInv /\ [Next]_vars => TypeInv'
  BY TypeInvSteps
<1> QED BY <1>1, <1>2, PTL DEF Spec

\* The workflow engine keeps its types (the rows, Redis lists and scheduler memory
\* of workflow/scheduler*.go).
THEOREM WorkflowTypeCorrect == Spec => []TypeOK
BY WorkflowTypeInv, TypeInvType, PTL

-----------------------------------------------------------------------------
\* The safety of the rows

NotStarted == {"ABSENT", "PENDING"}

NoEarlyTask == wf \in NotStarted => \A s \in Step : task[s] = <<>>

\* The states a step reaches only with its parents complete.
LetGo == {"PENDING", "RUNNING", "COMPLETE", "FAILED", "CANCELLING"}

\* StatesAgree, of any workflow state and step rows.
Agree(w, rows) ==
  /\ w \in NotStarted => \A s \in Step : rows[s] = "DEFINED"
  /\ w = "RUNNING" => /\ \A s \in Step : rows[s] \notin {"FAILED", "TIMED_OUT", "CANCELLING"}
                      /\ \E s \in Step : rows[s] # "COMPLETE"
  /\ w = "FAILED" => /\ \A s \in Step : rows[s] \notin {"TIMED_OUT", "CANCELLING"}
                     /\ \E s \in Step : rows[s] = "FAILED"
  /\ w = "TIMED_OUT" => /\ \A s \in Step : rows[s] \in {"COMPLETE", "TIMED_OUT", "CANCELLED"}
                        /\ \E s \in Step : rows[s] # "COMPLETE"
  /\ w = "CANCELLING" => /\ \A s \in Step : rows[s] \in {"COMPLETE", "CANCELLING", "CANCELLED"}
                         /\ \E s \in Step : rows[s] = "CANCELLING"
  /\ w = "CANCELLED" => \A s \in Step : rows[s] \in {"COMPLETE", "CANCELLED"}
  /\ w = "COMPLETE" => \A s \in Step : rows[s] = "COMPLETE"

LEMMA AgreeIs == StatesAgree <=> Agree(wf, step)
BY DEF StatesAgree, Agree, NotStarted

RowInv == ParentsFirst /\ EarlierTasksRest /\ ResultsHaveTasks /\ StatesAgree /\ NoEarlyTask

Inv == TypeInv /\ RowInv

\* A result that a task of the step has.
HasResult(s, to) == \E k \in DOMAIN task[s] : task[s][k].state = to

-----------------------------------------------------------------------------
\* Handlers

LEMMA NoEffectSafe == RowInv /\ NoEffect => RowInv'
BY DEF RowInv, NoEffect, rowVars, ParentsFirst, EarlierTasksRest, ResultsHaveTasks,
       StatesAgree, NoEarlyTask

\* A handler's writes are safe if a step is let go only with its parents complete, a
\* complete step stays so, a result is not made up, and the states agree.
LEMMA WriteSafe ==
  ASSUME Inv, NEW w, NEW rows, NEW owed, Write(w, rows, owed),
         \A s \in Step : rows[s] \in LetGo =>
           step[s] \in LetGo \/ \A p \in parents[s] : step[p] = "COMPLETE",
         \A s \in Step : step[s] = "COMPLETE" => rows[s] = "COMPLETE",
         \A s \in Step : rows[s] \in {"COMPLETE", "FAILED"} =>
           rows[s] = step[s] \/ HasResult(s, rows[s]),
         w \in NotStarted => w = wf,
         Agree(w, rows)
  PROVE  RowInv'
<1>1. wf' = w /\ step' = rows /\ parents' = parents /\ task' = task
  BY DEF Write
<1>2. ParentsFirst'
  <2> SUFFICES ASSUME NEW s \in Step, rows[s] \in LetGo, NEW p \in parents[s]
               PROVE  rows[p] = "COMPLETE"
    BY <1>1 DEF ParentsFirst, LetGo
  <2>1. p \in Step
    BY DEF Inv, TypeInv, RowType
  <2>2. step[p] = "COMPLETE"
    BY DEF Inv, RowInv, ParentsFirst, LetGo
  <2> QED BY <2>1, <2>2
<1>3. EarlierTasksRest'
  BY <1>1 DEF Inv, RowInv, EarlierTasksRest
<1>4. ResultsHaveTasks'
  <2> SUFFICES ASSUME NEW s \in Step, rows[s] \in {"COMPLETE", "FAILED"}
               PROVE  \E k \in DOMAIN task[s] : task[s][k].state = rows[s]
    BY <1>1 DEF ResultsHaveTasks
  <2> QED BY DEF Inv, RowInv, ResultsHaveTasks, HasResult
<1>5. StatesAgree'
  BY <1>1 DEF StatesAgree, Agree, NotStarted
<1>6. NoEarlyTask'
  BY <1>1 DEF Inv, RowInv, NoEarlyTask
<1> QED BY <1>2, <1>3, <1>4, <1>5, <1>6 DEF RowInv

LEMMA ProcessWorkflowSafe ==
  ASSUME Inv, wf # "ABSENT", ProcessWorkflow
  PROVE  RowInv'
<1>1. CASE wf \in HardStop
  BY <1>1, NoEffectSafe DEF ProcessWorkflow, Inv
<1>2. CASE wf \notin HardStop
  <2> DEFINE w    == IF wf = "PENDING" THEN "RUNNING" ELSE wf
             rows == Marked(ReadyToRun, "PENDING")
             owed == {ScheduleMsg(s) : s \in ReadyToRun}
  <2>1. Write(w, rows, owed)
    BY <1>2 DEF ProcessWorkflow
  <2>2. w \in {"RUNNING", "FAILED"}
    BY <1>2 DEF Inv, TypeInv, RowType, WorkflowState, HardStop
  <2>3. \A s \in Step : rows[s] = step[s] \/ /\ step[s] = "DEFINED" /\ rows[s] = "PENDING"
                                             /\ \A p \in parents[s] : step[p] = "COMPLETE"
    BY DEF Marked, ReadyToRun, StepsIn
  <2>4. Agree(w, rows)
    <3>1. Agree(wf, step)
      BY AgreeIs DEF Inv, RowInv
    <3>2. \A s \in Step : rows[s] = step[s] \/ (step[s] = "DEFINED" /\ rows[s] = "PENDING")
      BY <2>3
    <3>3. wf \in {"PENDING", "RUNNING", "FAILED"}
      BY <2>2
    <3> HIDE DEF rows
    <3>4. CASE wf = "PENDING"
      BY <3>1, <3>2, <3>4, StepAssumption DEF Agree, NotStarted
    <3>5. CASE wf # "PENDING"
      BY <3>1, <3>2, <3>3, <3>5 DEF Agree, NotStarted
    <3> QED BY <3>4, <3>5
  <2> QED
    <3> HIDE DEF w, rows, owed
    <3> QED BY <2>1, <2>2, <2>3, <2>4, WriteSafe DEF NotStarted
<1> QED BY <1>1, <1>2

LEMMA TimeOutWorkflowSafe ==
  ASSUME Inv, wf # "ABSENT", TimeOutWorkflow
  PROVE  RowInv'
<1>1. CASE NoEffect
  BY <1>1, NoEffectSafe DEF Inv
<1>2. CASE ~ NoEffect
  <2> DEFINE rows == Marked(StepsIn(StepUnfinished), "TIMED_OUT")
             owed == {CancelTask(t) : t \in LiveTasks(StepsIn({"RUNNING"}))}
  <2>1. Write("TIMED_OUT", rows, owed)
    BY <1>2 DEF TimeOutWorkflow
  <2>2. wf \in {"RUNNING", "TIMED_OUT"}
    BY <1>2 DEF TimeOutWorkflow, Inv, TypeInv, RowType, WorkflowState, ValidWorkflow, WorkflowNext
  <2>3. \A s \in Step : rows[s] = IF step[s] \in StepUnfinished THEN "TIMED_OUT" ELSE step[s]
    BY DEF Marked, StepsIn
  <2>4. step \in [Step -> StepState]
    BY DEF Inv, TypeInv, RowType
  <2>5. Agree("TIMED_OUT", rows)
    <3>1. Agree(wf, step)
      BY AgreeIs DEF Inv, RowInv
    <3> HIDE DEF rows
    <3> QED BY <2>2, <2>3, <2>4, <3>1 DEF Agree, NotStarted, StepState, StepUnfinished
  <2> QED
    <3> HIDE DEF rows, owed
    <3> QED BY <2>1, <2>3, <2>5, WriteSafe DEF NotStarted, LetGo, StepUnfinished
<1> QED BY <1>1, <1>2

LEMMA ScheduleWorkflowStepSafe ==
  ASSUME Inv, wf # "ABSENT", NEW s \in Step, ScheduleWorkflowStep(s)
  PROVE  RowInv'
<1>1. CASE NoEffect
  BY <1>1, NoEffectSafe DEF Inv
<1>2. CASE TimeOutWorkflow
  BY <1>2, TimeOutWorkflowSafe
<1>3. CASE ~ NoEffect /\ ~ TimeOutWorkflow
  <2>1. wf \notin HardStop /\ step[s] = "PENDING" /\ ~ Live(s) /\ Dispatch(s)
    BY <1>3 DEF ScheduleWorkflowStep
  <2>2. Agree(wf, step)
    BY AgreeIs DEF Inv, RowInv
  <2>3. wf \in {"RUNNING", "FAILED"}
    BY <2>1, <2>2 DEF Inv, TypeInv, RowType, WorkflowState, HardStop, Agree, NotStarted
  <2>4. /\ wf' = wf /\ parents' = parents /\ step' = Marked({s}, "RUNNING")
        /\ task' = [task EXCEPT ![s] = Append(task[s], NewTask)]
    BY <2>1 DEF Dispatch
  <2>5. \A r \in Step : step'[r] = IF r = s THEN "RUNNING" ELSE step[r]
    BY <2>4 DEF Marked
  <2>6. task'[s] = Append(task[s], NewTask) /\ \A r \in Step \ {s} : task'[r] = task[r]
    BY <2>4 DEF Inv, TypeInv, RowType
  <2>7. ParentsFirst'
    <3> SUFFICES ASSUME NEW r \in Step, step'[r] \in LetGo, NEW p \in parents[r]
                 PROVE  step'[p] = "COMPLETE"
      BY <2>4 DEF ParentsFirst, LetGo
    <3>1. step[r] \in LetGo /\ p \in Step
      BY <2>1, <2>5 DEF LetGo, Inv, TypeInv, RowType
    <3>2. step[p] = "COMPLETE"
      BY <3>1 DEF Inv, RowInv, ParentsFirst, LetGo
    <3> QED BY <2>1, <2>5, <3>1, <3>2
  <2>8. EarlierTasksRest'
    <3> SUFFICES ASSUME NEW r \in Step, NEW k \in DOMAIN task'[r], task'[r][k].state = "OPEN"
                 PROVE  k = Len(task'[r])
      BY DEF EarlierTasksRest
    <3>1. CASE r # s
      BY <2>6, <3>1 DEF Inv, RowInv, EarlierTasksRest
    <3>2. CASE r = s
      <4>1. task[s] \in Seq(TaskRow) /\ DOMAIN task[s] = 1..Len(task[s]) /\ Len(task[s]) \in Nat
        BY TaskRows DEF Inv, TypeInv
      <4>2. NewTask \in TaskRow
        BY DEF NewTask, TaskRow, Inv, TypeInv, RowType
      <4>3. /\ Append(task[s], NewTask) \in Seq(TaskRow)
            /\ Len(Append(task[s], NewTask)) = Len(task[s]) + 1
            /\ \A i \in 1..Len(task[s]) : Append(task[s], NewTask)[i] = task[s][i]
        BY <4>1, <4>2, AppendProperties
      <4>4. k \in 1..(Len(task[s]) + 1)
        BY <2>6, <3>2, <4>3, LenProperties
      <4>5. k \notin 1..Len(task[s])
        BY <2>1, <2>6, <3>2, <4>1, <4>3 DEF Live
      <4> QED BY <2>6, <3>2, <4>1, <4>3, <4>4, <4>5
    <3> QED BY <3>1, <3>2
  <2>9. ResultsHaveTasks'
    BY <2>5, <2>6 DEF Inv, RowInv, ResultsHaveTasks
  <2>10. StatesAgree'
    BY <2>1, <2>2, <2>3, <2>4, <2>5 DEF StatesAgree, Agree, NotStarted
  <2>11. NoEarlyTask'
    BY <2>3, <2>4 DEF NoEarlyTask, NotStarted
  <2> QED BY <2>7, <2>8, <2>9, <2>10, <2>11 DEF RowInv
<1> QED BY <1>1, <1>2, <1>3

\* An outcome is applied to a step that was dispatched, and only in a workflow that is
\* running or has failed: every other one has nothing left to apply it to.
LEMMA ApplyOutcomeSafe ==
  ASSUME Inv, wf \notin {"ABSENT", "CANCELLING", "CANCELLED"}, NEW s \in Step, NEW to \in TaskOutcome,
         task[s] # <<>>, to \in {"COMPLETE", "FAILED"} => HasResult(s, to), ApplyOutcome(s, to)
  PROVE  RowInv'
<1> DEFINE rows == Marked({s}, to)
           w    == IF to = "FAILED" /\ wf = "RUNNING" THEN "FAILED" ELSE Settled(wf, rows)
           owed == IF to = "COMPLETE" /\ w = wf THEN {ProcessMsg} ELSE {}
<1>1. CASE NoEffect
  BY <1>1, NoEffectSafe DEF Inv
<1>2. CASE TimeOutWorkflow
  BY <1>2, TimeOutWorkflowSafe
<1>3. CASE ~ NoEffect /\ ~ TimeOutWorkflow
  <2>1. /\ step[s] \notin StepTerminal /\ to # "TIMED_OUT" /\ ValidStep(step[s], to)
        /\ Write(w, rows, owed)
    BY <1>3 DEF ApplyOutcome
  <2>2. Agree(wf, step)
    BY AgreeIs DEF Inv, RowInv
  <2>3. wf \in {"RUNNING", "FAILED"}
    BY <2>1, <2>2 DEF Inv, TypeInv, RowType, RowInv, NoEarlyTask, WorkflowState, Agree, NotStarted,
                      StepTerminal
  <2>4. step[s] \in StepState
    BY DEF Inv, TypeInv, RowType
  <2>5. \/ step[s] = "RUNNING" /\ to \in {"COMPLETE", "FAILED"}
        \/ to = "CANCELLED"
    BY <2>1, <2>4 DEF ValidStep, StepNext, TaskOutcome, StepState, StepTerminal
  <2>6. \A r \in Step : rows[r] = IF r = s THEN to ELSE step[r]
    BY DEF Marked
  <2>7. w = IF to = "FAILED" /\ wf = "RUNNING" THEN "FAILED"
            ELSE IF wf = "RUNNING" /\ (\A r \in Step : rows[r] = "COMPLETE") THEN "COMPLETE" ELSE wf
    BY <2>3 DEF Settled
  <2> HIDE DEF rows, w, owed
  <2>8. Agree(w, rows)
    <3>1. CASE wf = "RUNNING" /\ to = "FAILED"
      BY <2>2, <2>6, <2>7, <3>1 DEF Agree, NotStarted
    <3>2. CASE wf = "RUNNING" /\ to # "FAILED"
      BY <2>2, <2>5, <2>6, <2>7, <3>2 DEF Agree, NotStarted
    <3>3. CASE wf = "FAILED"
      BY <2>1, <2>2, <2>5, <2>6, <2>7, <3>3 DEF Agree, NotStarted, StepTerminal
    <3> QED BY <2>3, <3>1, <3>2, <3>3
  <2>9. \A r \in Step : rows[r] \in LetGo => step[r] \in LetGo
    BY <2>5, <2>6 DEF LetGo
  <2>10. \A r \in Step : step[r] = "COMPLETE" => rows[r] = "COMPLETE"
    BY <2>1, <2>6 DEF StepTerminal
  <2>11. \A r \in Step : rows[r] \in {"COMPLETE", "FAILED"} => rows[r] = step[r] \/ HasResult(r, rows[r])
    BY <2>6
  <2>12. w \in NotStarted => w = wf
    BY <2>3, <2>7 DEF NotStarted
  <2> QED BY <2>1, <2>8, <2>9, <2>10, <2>11, <2>12, WriteSafe
<1> QED BY <1>1, <1>2, <1>3

LEMMA ApplyDrainedSafe ==
  ASSUME Inv, wf \in {"CANCELLING", "CANCELLED"}, NEW s \in Step, ApplyDrained(s)
  PROVE  RowInv'
<1> DEFINE rows == IF step[s] \in StepTerminal THEN step ELSE Marked({s}, "CANCELLED")
<1>1. CASE NoEffect
  BY <1>1, NoEffectSafe DEF Inv
<1>2. CASE Write(Settled(wf, rows), rows, {})
  <2>1. Agree(wf, step)
    BY AgreeIs DEF Inv, RowInv
  <2>2. \A r \in Step : \/ rows[r] = step[r]
                        \/ rows[r] = "CANCELLED" /\ step[r] \notin StepTerminal
    BY DEF Marked
  <2> HIDE DEF rows
  <2>3. Settled(wf, rows) = IF \A r \in Step : rows[r] \in StepTerminal THEN "CANCELLED" ELSE wf
    <3>1. wf = "CANCELLED" => \A r \in Step : rows[r] \in StepTerminal
      BY <2>1, <2>2 DEF Agree, StepTerminal
    <3> QED BY <3>1 DEF Settled
  <2>4. \A r \in Step : rows[r] \in {"COMPLETE", "CANCELLING", "CANCELLED"}
    BY <2>1, <2>2 DEF Agree
  <2>5. Agree(Settled(wf, rows), rows)
    <3>1. CASE \A r \in Step : rows[r] \in StepTerminal
      BY <2>3, <2>4, <3>1 DEF Agree, NotStarted, StepTerminal
    <3>2. CASE ~ \A r \in Step : rows[r] \in StepTerminal
      <4>1. PICK r \in Step : rows[r] \notin StepTerminal
        BY <3>2
      <4>2. rows[r] = "CANCELLING"
        BY <2>4, <4>1 DEF StepTerminal
      <4>3. wf = "CANCELLING"
        BY <2>1, <2>2, <4>1 DEF Agree, StepTerminal
      <4>4. Settled(wf, rows) = "CANCELLING"
        BY <2>3, <3>2, <4>3
      <4> QED BY <2>4, <4>2, <4>4 DEF Agree, NotStarted
    <3> QED BY <3>1, <3>2
  <2>6. \A r \in Step : /\ rows[r] \in LetGo => step[r] \in LetGo
                        /\ step[r] = "COMPLETE" => rows[r] = "COMPLETE"
                        /\ rows[r] \in {"COMPLETE", "FAILED"} => rows[r] = step[r]
    BY <2>2 DEF LetGo, StepTerminal
  <2>7. Settled(wf, rows) \notin NotStarted
    BY <2>3 DEF NotStarted
  <2> QED BY <1>2, <2>5, <2>6, <2>7, WriteSafe
<1> QED BY <1>1, <1>2 DEF ApplyDrained

LEMMA ApplyStepExecutionUpdateSafe ==
  ASSUME Inv, wf # "ABSENT", NEW s \in Step, NEW to \in TaskOutcome,
         task[s] # <<>>, to \in {"COMPLETE", "FAILED"} => HasResult(s, to),
         ApplyStepExecutionUpdate(s, to)
  PROVE  RowInv'
BY ApplyOutcomeSafe, ApplyDrainedSafe DEF ApplyStepExecutionUpdate

LEMMA CancelWorkflowSafe ==
  ASSUME Inv, wf # "ABSENT", CancelWorkflow
  PROVE  RowInv'
<1> DEFINE rows == [s \in Step |->
                      CASE step[s] = "RUNNING" -> "CANCELLING"
                        [] step[s] \in {"DEFINED", "PENDING", "FAILED", "TIMED_OUT"} -> "CANCELLED"
                        [] OTHER -> step[s]]
           owed == {CancelTask(t) : t \in LiveTasks(StepsIn({"RUNNING"}))}
           w == Settled("CANCELLING", rows)
<1>1. CASE NoEffect
  BY <1>1, NoEffectSafe DEF Inv
<1>2. CASE Write(w, rows, owed)
  <2>1. \A s \in Step : step[s] \in StepState
    BY DEF Inv, TypeInv, RowType
  <2>2. \A s \in Step : \/ step[s] \in {"RUNNING", "CANCELLING"} /\ rows[s] = "CANCELLING"
                        \/ step[s] \in {"COMPLETE"} /\ rows[s] = "COMPLETE"
                        \/ step[s] \notin {"RUNNING", "CANCELLING", "COMPLETE"} /\ rows[s] = "CANCELLED"
    BY <2>1 DEF StepState
  <2> HIDE DEF rows, owed
  <2>3. w = IF \A s \in Step : rows[s] \in StepTerminal THEN "CANCELLED" ELSE "CANCELLING"
    BY DEF Settled
  <2> HIDE DEF w
  <2>4. Agree(w, rows)
    <3>1. \A s \in Step : rows[s] \in {"COMPLETE", "CANCELLING", "CANCELLED"}
      BY <2>2
    <3>2. CASE \A s \in Step : rows[s] \in StepTerminal
      BY <2>3, <3>1, <3>2 DEF Agree, NotStarted, StepTerminal
    <3>3. CASE ~ \A s \in Step : rows[s] \in StepTerminal
      BY <2>3, <3>1, <3>3 DEF Agree, NotStarted, StepTerminal
    <3> QED BY <3>2, <3>3
  <2>5. \A s \in Step : /\ rows[s] \in LetGo => step[s] \in LetGo
                        /\ step[s] = "COMPLETE" => rows[s] = "COMPLETE"
                        /\ rows[s] \in {"COMPLETE", "FAILED"} => rows[s] = step[s]
    BY <2>2 DEF LetGo
  <2>6. w \notin NotStarted
    BY <2>3 DEF NotStarted
  <2> QED BY <1>2, <2>4, <2>5, <2>6, WriteSafe
<1> QED BY <1>1, <1>2 DEF CancelWorkflow

LEMMA ReviveWorkflowSafe ==
  ASSUME Inv, NEW d, ReviveWorkflow(d)
  PROVE  RowInv'
<1>1. CASE NoEffect
  BY <1>1, NoEffectSafe DEF Inv
<1>2. CASE ~ NoEffect
  <2>1. /\ wf \in {"FAILED", "TIMED_OUT"} /\ wf' = "RUNNING" /\ step' = Reverted
        /\ parents' = parents /\ task' = task
    BY <1>2 DEF ReviveWorkflow, Revivable
  <2>2. \A s \in Step : step'[s] = IF step[s] \in {"FAILED", "TIMED_OUT"} THEN "DEFINED" ELSE step[s]
    BY <2>1 DEF Reverted, Marked, StepsIn
  <2>3. Agree(wf, step)
    BY AgreeIs DEF Inv, RowInv
  <2>4. ParentsFirst'
    <3> SUFFICES ASSUME NEW s \in Step, step'[s] \in LetGo, NEW p \in parents[s]
                 PROVE  step'[p] = "COMPLETE"
      BY <2>1 DEF ParentsFirst, LetGo
    <3>1. p \in Step
      BY DEF Inv, TypeInv, RowType
    <3>2. step[p] = "COMPLETE"
      BY <2>2 DEF Inv, RowInv, ParentsFirst, LetGo
    <3> QED BY <2>2, <3>1, <3>2
  <2>5. StatesAgree'
    BY <2>1, <2>2, <2>3 DEF StatesAgree, Agree, NotStarted
  <2>6. EarlierTasksRest' /\ NoEarlyTask'
    BY <2>1 DEF Inv, RowInv, EarlierTasksRest, NoEarlyTask, NotStarted
  <2>7. ResultsHaveTasks'
    BY <2>1, <2>2 DEF Inv, RowInv, ResultsHaveTasks
  <2> QED BY <2>4, <2>5, <2>6, <2>7 DEF RowInv
<1> QED BY <1>1, <1>2

\* The sweep finds nothing to settle: every update has settled what it could.
LEMMA ReconcileWorkflowSafe ==
  ASSUME Inv, ReconcileWorkflow
  PROVE  RowInv'
<1>1. CASE NoEffect
  BY <1>1, NoEffectSafe DEF Inv
<1>2. CASE wf # "ABSENT" /\ TimeOutWorkflow
  BY <1>2, TimeOutWorkflowSafe
<1>3. CASE ~ NoEffect /\ ~ (wf # "ABSENT" /\ TimeOutWorkflow)
  <2> DEFINE owed == ClassifyRunning \cup ClassifyCancelling
                       \cup {ScheduleMsg(s) : s \in StepsIn({"PENDING"})} \cup Nudge
  <2>1. wf \notin {"ABSENT", "COMPLETE", "CANCELLED"} /\ Write(Settled(wf, step), step, owed)
    BY <1>3 DEF ReconcileWorkflow
  <2> HIDE DEF owed
  <2>2. Agree(wf, step)
    BY AgreeIs DEF Inv, RowInv
  <2>3. Settled(wf, step) = wf
    BY <2>2 DEF Settled, Agree, StepTerminal
  <2> QED BY <2>1, <2>2, <2>3, WriteSafe
<1> QED BY <1>1, <1>2, <1>3 DEF ReconcileWorkflow

LEMMA HandleSafe ==
  ASSUME Inv, NEW m \in Honest, Handle(m)
  PROVE  RowInv'
<1>1. m \in WorkflowMsg /\ (m.type # "MAINTENANCE" => wf # "ABSENT")
  BY DEF Honest
<1>2. CASE m.type = "PROCESS_WORKFLOW"
  BY <1>1, <1>2, ProcessWorkflowSafe DEF Handle
<1>3. CASE m.type = "CANCEL_WORKFLOW"
  BY <1>1, <1>3, CancelWorkflowSafe DEF Handle
<1>4. CASE m.type = "REVIVE_WORKFLOW"
  BY <1>4, ReviveWorkflowSafe DEF Handle
<1>5. CASE m.type = "SCHEDULE_STEP"
  <2>1. m.step \in Step /\ ScheduleWorkflowStep(m.step)
    BY <1>1, <1>5, MsgFields DEF Handle
  <2> QED BY <1>1, <1>5, <2>1, ScheduleWorkflowStepSafe
<1>6. CASE m.type = "STEP_EXEC_UPDATE"
  <2>1. m.step \in Step /\ m.to \in TaskOutcome /\ ApplyStepExecutionUpdate(m.step, m.to)
    BY <1>1, <1>6, MsgFields DEF Handle
  <2>2. task[m.step] # <<>> /\ (m.to \in {"COMPLETE", "FAILED"} => HasResult(m.step, m.to))
    BY <1>6 DEF Honest, HasResult
  <2> QED BY <1>1, <1>6, <2>1, <2>2, ApplyStepExecutionUpdateSafe
<1>7. CASE m.type = "STEP_TASK_UPDATE"
  <2>1. m.to \in TaskOutcome /\ ApplyStepExecutionUpdate(m.task[1], m.to)
    BY <1>1, <1>7, MsgFields DEF Handle, ApplyStepTaskUpdate
  <2>2. m.task \in Linked /\ task[m.task[1]][m.task[2]].state = m.to
    BY <1>7 DEF Honest
  <2>3. m.task[1] \in Step /\ m.task[2] \in DOMAIN task[m.task[1]]
    BY <2>2, LinkedId
  <2>4. task[m.task[1]] # <<>>
    BY <2>3
  <2>5. HasResult(m.task[1], m.to)
    BY <2>2, <2>3 DEF HasResult
  <2> QED BY <1>1, <1>7, <2>1, <2>3, <2>4, <2>5, ApplyStepExecutionUpdateSafe
<1>8. CASE m.type = "MAINTENANCE"
  BY <1>8, ReconcileWorkflowSafe DEF Handle
<1> QED BY <1>1, <1>2, <1>3, <1>4, <1>5, <1>6, <1>7, <1>8, MsgFields

-----------------------------------------------------------------------------
\* Steps

LEMMA InitSafe == Init => RowInv
BY DEF Init, RowInv, ParentsFirst, EarlierTasksRest, ResultsHaveTasks, StatesAgree, NoEarlyTask

\* A workflow is defined with nothing let go and nothing run.
LEMMA DefineSafe ==
  ASSUME Inv, NEW G, NEW d, DefineWorkflow(G, d)
  PROVE  RowInv'
BY DEF Inv, RowInv, DefineWorkflow, ParentsFirst, EarlierTasksRest, ResultsHaveTasks,
       StatesAgree, NoEarlyTask, NotStarted

\* A step that touches no row keeps what the rows say of tasks, if the tasks only
\* come to rest.
LEMMA TasksRestSafe ==
  ASSUME Inv, Grows, UNCHANGED rowVars, task' \in [Step -> Seq(TaskRow)],
         \A q \in Step : DOMAIN task'[q] = DOMAIN task[q],
         \A q \in Step : \A i \in DOMAIN task[q] :
           task'[q][i].state = "OPEN" => task[q][i].state = "OPEN"
  PROVE  RowInv'
<1>1. wf' = wf /\ step' = step /\ parents' = parents
  BY DEF rowVars
<1>2. \A q \in Step : Len(task'[q]) = Len(task[q])
  <2> TAKE q \in Step
  <2>1. task[q] \in Seq(TaskRow) /\ task'[q] \in Seq(TaskRow)
    BY DEF Inv, TypeInv, RowType
  <2>2. DOMAIN task[q] = 1..Len(task[q]) /\ DOMAIN task'[q] = 1..Len(task'[q])
        /\ Len(task[q]) \in Nat /\ Len(task'[q]) \in Nat
    BY <2>1, LenProperties
  <2> QED BY <2>2
<1>3. EarlierTasksRest'
  BY <1>2 DEF Inv, RowInv, EarlierTasksRest
<1>4. ResultsHaveTasks'
  BY <1>1 DEF Inv, RowInv, ResultsHaveTasks, Grows
<1>5. NoEarlyTask'
  <2> SUFFICES ASSUME wf \in NotStarted, NEW s \in Step PROVE task'[s] = <<>>
    BY <1>1 DEF NoEarlyTask
  <2>1. task[s] = <<>>
    BY DEF Inv, RowInv, NoEarlyTask
  <2>2. task'[s] \in Seq(TaskRow) /\ Len(task'[s]) = 0
    BY <1>2, <2>1, EmptySeq
  <2> QED BY <2>2, EmptySeq
<1>6. ParentsFirst' /\ StatesAgree'
  BY <1>1 DEF Inv, RowInv, ParentsFirst, StatesAgree
<1> QED BY <1>3, <1>4, <1>5, <1>6 DEF RowInv

LEMMA TaskEngineStepSafe == Inv /\ TaskEngineStep => RowInv'
<1> SUFFICES ASSUME Inv, NEW s \in Step, NEW k \in DOMAIN task[s], NEW o \in TaskOutcome,
                    TaskRests(s, k, o)
             PROVE  RowInv'
  BY DEF TaskEngineStep
<1>1. /\ task[s][k].state = "OPEN" /\ UNCHANGED rowVars
      /\ task' = [task EXCEPT ![s][k].state = o, ![s][k].asked = FALSE]
  BY DEF TaskRests
<1>2. task[s] \in Seq(TaskRow) /\ DOMAIN task[s] = 1..Len(task[s]) /\ task[s][k] \in TaskRow
  BY TaskRows DEF Inv, TypeInv
<1> DEFINE r == [task[s][k] EXCEPT !.state = o, !.asked = FALSE]
<1>3. r \in TaskRow /\ r.state = o /\ o # "OPEN"
  BY <1>2 DEF TaskRow, TaskOutcome
<1>4. task' = [task EXCEPT ![s] = [task[s] EXCEPT ![k] = r]]
  BY <1>1 DEF Inv, TypeInv, RowType
<1>5. /\ task' \in [Step -> Seq(TaskRow)] /\ Grows
      /\ \A q \in Step : DOMAIN task'[q] = DOMAIN task[q]
      /\ task'[s][k] = r
  <2>1. RowType /\ wf' = wf
    BY <1>1 DEF Inv, TypeInv, rowVars
  <2>2. task[s][k].state # "OPEN" => r.state = task[s][k].state
    BY <1>1
  <2> HIDE DEF r
  <2> QED BY <1>3, <1>4, <2>1, <2>2, TaskChanges
<1>6. \A q \in Step : \A i \in DOMAIN task[q] :
        task'[q][i].state = "OPEN" => task[q][i].state = "OPEN"
  <2> HIDE DEF r
  <2>1. task'[s] = [task[s] EXCEPT ![k] = r] /\ \A q \in Step \ {s} : task'[q] = task[q]
    BY <1>4 DEF Inv, TypeInv, RowType
  <2> QED BY <1>3, <1>5, <2>1
<1> QED BY <1>1, <1>5, <1>6, TasksRestSafe

\* A cancel asked of a task changes no state.
LEMMA SendOneSafe == Inv /\ SendOne => RowInv'
<1> SUFFICES ASSUME Inv, SendOne PROVE RowInv'
  OBVIOUS
<1>1. PICK m \in out : Deliver(m)
  BY DEF SendOne
<1>2. UNCHANGED rowVars
  BY DEF SendOne
<1>3. CASE UNCHANGED task
  BY <1>2, <1>3 DEF rowVars, Inv, RowInv, ParentsFirst, EarlierTasksRest, ResultsHaveTasks,
                    StatesAgree, NoEarlyTask
<1>4. CASE task' # task
  <2>1. m.type = "CANCEL_TASK"
    BY <1>1, <1>4 DEF Deliver
  <2>2. m \notin Honest
    <3>1. m \in Honest => m \in WorkflowMsg
      BY DEF Honest
    <3> QED BY <2>1, <3>1, MsgFields
  <2>3. PICK t \in Linked : m = CancelTask(t)
    BY <2>2 DEF Inv, TypeInv, QueueInv, Cancels
  <2>4. t[1] \in Step /\ t[2] \in DOMAIN task[t[1]]
    BY LinkedId
  <2>5. task' = [task EXCEPT ![t[1]][t[2]].asked = TRUE]
    BY <1>1, <1>4, <2>3 DEF Deliver, CancelTask
  <2> DEFINE r == [task[t[1]][t[2]] EXCEPT !.asked = TRUE]
  <2>6. task[t[1]][t[2]] \in TaskRow
    BY <2>4, TaskRows DEF Inv, TypeInv
  <2>7. r \in TaskRow /\ r.state = task[t[1]][t[2]].state
    BY <2>6 DEF TaskRow
  <2>8. task' = [task EXCEPT ![t[1]] = [task[t[1]] EXCEPT ![t[2]] = r]]
    BY <2>4, <2>5 DEF Inv, TypeInv, RowType
  <2>9. RowType /\ wf' = wf
    BY <1>2 DEF Inv, TypeInv, rowVars
  <2> HIDE DEF r
  <2>10. /\ task' \in [Step -> Seq(TaskRow)] /\ Grows
         /\ \A q \in Step : DOMAIN task'[q] = DOMAIN task[q]
    BY <2>4, <2>7, <2>8, <2>9, TaskChanges
  <2>11. \A q \in Step : \A i \in DOMAIN task[q] :
           task'[q][i].state = "OPEN" => task[q][i].state = "OPEN"
    <3>1. task'[t[1]] = [task[t[1]] EXCEPT ![t[2]] = r]
          /\ \A q \in Step \ {t[1]} : task'[q] = task[q]
      BY <2>4, <2>8, <2>9 DEF RowType
    <3> QED BY <2>7, <3>1
  <2> QED BY <1>2, <2>10, <2>11, TasksRestSafe
<1> QED BY <1>3, <1>4

LEMMA HandleOneSafe == Inv /\ HandleOne => RowInv'
BY HandleSafe DEF Inv, TypeInv, QueueInv, HandleOne

\* Whatever touches neither a row nor a task is safe.
LEMMA QuietSafe == RowInv /\ UNCHANGED <<rowVars, task>> => RowInv'
BY DEF rowVars, RowInv, ParentsFirst, EarlierTasksRest, ResultsHaveTasks, StatesAgree, NoEarlyTask

LEMMA InvSteps == Inv /\ [Next]_vars => RowInv'
<1> SUFFICES ASSUME Inv, [Next]_vars PROVE RowInv'
  OBVIOUS
<1>1. RowInv
  BY DEF Inv
<1>2. CASE ClientStep
  BY <1>1, <1>2, DefineSafe, QuietSafe
     DEF ClientStep, SubmitWorkflow, RequestCancel, RequestRevive, Poke
<1>3. CASE Tick
  BY <1>1, <1>3, QuietSafe DEF Tick
<1>4. CASE TaskEngineStep
  BY <1>4, TaskEngineStepSafe
<1>5. CASE NotifyStep
  BY <1>1, <1>5, QuietSafe DEF NotifyStep, Notified, NotifyLost, Republished, Notify
<1>6. CASE HandleOne
  BY <1>6, HandleOneSafe
<1>7. CASE SendOne
  BY <1>7, SendOneSafe
<1>8. CASE SchedStart \/ RecoverPop \/ RecoverPush \/ RecoverDone \/ Dequeue \/ DeleteOne
  BY <1>1, <1>8, QuietSafe
     DEF SchedStart, RecoverPop, RecoverPush, RecoverDone, Dequeue, DeleteOne
<1>9. CASE MaintenanceTick \/ PokeLost \/ HandlerAborts \/ SchedCrash
  BY <1>1, <1>9, QuietSafe DEF MaintenanceTick, PokeLost, HandlerAborts, SchedCrash
<1>10. CASE UNCHANGED vars
  BY <1>1, <1>10, QuietSafe DEF vars
<1> QED BY <1>2, <1>3, <1>4, <1>5, <1>6, <1>7, <1>8, <1>9, <1>10 DEF Next, SchedulerStep

LEMMA InvHolds == Spec => []Inv
<1>1. Init => Inv
  BY InitType, InitSafe DEF Inv
<1>2. Inv /\ [Next]_vars => Inv'
  BY TypeInvSteps, InvSteps DEF Inv
<1> QED BY <1>1, <1>2, PTL DEF Spec

-----------------------------------------------------------------------------

\* A step is let go only with all its parents complete (scheduler_process_workflow.go, the
\* start conditions), in every graph, whatever is late, lost, repeated or revived.
THEOREM ParentsFirstHolds == Spec => []ParentsFirst
<1>1. Inv => ParentsFirst
  BY DEF Inv, RowInv
<1> QED BY <1>1, InvHolds, PTL

\* Of a step's tasks only the most recent is ever live: dispatch looks at all of them
\* (scheduler_schedule_step.go).
THEOREM EarlierTasksRestHolds == Spec => []EarlierTasksRest
<1>1. Inv => EarlierTasksRest
  BY DEF Inv, RowInv
<1> QED BY <1>1, InvHolds, PTL

\* A step's COMPLETE or FAILED is the outcome of one of its tasks (scheduler_step_exec_update.go).
THEOREM ResultsHaveTasksHolds == Spec => []ResultsHaveTasks
<1>1. Inv => ResultsHaveTasks
  BY DEF Inv, RowInv
<1> QED BY <1>1, InvHolds, PTL

\* The workflow's state and its steps' agree, after every handler's transaction.
THEOREM StatesAgreeHolds == Spec => []StatesAgree
<1>1. Inv => StatesAgree
  BY DEF Inv, RowInv
<1> QED BY <1>1, InvHolds, PTL
=============================================================================
