------------------------- MODULE TaskEngineSafety --------------------------
(***************************************************************************)
(* The task engine's types and the safety of its rows, for every set of    *)
(* tasks and workers and every fault.                                      *)
(*                                                                         *)
(* First type correctness: the rows, the queues and the memories of the    *)
(* processes stay within TypeOK.  The one fact TypeOK needs beside itself  *)
(* is that the scheduler holds a message whenever it handles one.          *)
(*                                                                         *)
(* Then safety.  The invariants are on the rows and on what the scheduler  *)
(* has sent and not yet committed; the queues do not occur in them, which  *)
(* is the engine's design: a message is only a poke, and whatever is lost, *)
(* duplicated or late, the handlers decide from the rows.  First what      *)
(* holds whatever the database does to a worker's transaction, then what   *)
(* needs that none is interrupted between its read and its write, the      *)
(* fault staleRead.                                                        *)
(***************************************************************************)
EXTENDS TaskEngine, QueueLemmas

\* An execution belongs to a task.
LEMMA TaskOfType == ASSUME NEW e \in Exec PROVE TaskOf(e) \in Task
BY DEF Exec, TaskOf

\* The executions of a model are finitely many, so that they can be sent in an order.
LEMMA ExecFinite == IsFiniteSet(Exec)
<1>1. IsFiniteSet(1..MaxExec)
  BY BoundAssumption, FS_Interval
<1>2. IsFiniteSet(Task)
  BY TaskAssumption
<1> QED BY <1>1, <1>2, FS_Product DEF Exec

\* The next id of a task is an id while the bound is not reached.
LEMMA NewExecType ==
  ASSUME TypeOK, NEW t \in Task, nextExec[t] <= MaxExec
  PROVE  NewExec(t) \in Exec /\ nextExec[t] + 1 \in 1..(MaxExec + 1)
BY BoundAssumption DEF TypeOK, Exec, NewExec

\* updateTaskExecutionState writes a row, in the state it was asked for.
LEMMA MarkType ==
  ASSUME NEW row \in ExecRow, NEW s \in ExecState
  PROVE  Mark(row, s) \in ExecRow /\ Mark(row, s).state = s
BY DEF Mark, ExecRow

\* The owner and the failure disposition are columns of their own.
LEMMA ColumnType ==
  ASSUME NEW row \in ExecRow, NEW w \in Worker, NEW b \in BOOLEAN
  PROVE  /\ [row EXCEPT !.worker = w] \in ExecRow
         /\ [row EXCEPT !.nonRetryable = b] \in ExecRow
BY DEF ExecRow

\* A new row is in the state it was defined in.
LEMMA NewRowType ==
  ASSUME NEW s \in ExecState
  PROVE  NewRow(s) \in ExecRow /\ NewRow(s).state = s /\ NoRow \in ExecRow
BY DEF NewRow, NoRow, ExecRow

\* Cancelling a task's executions leaves rows.
LEMMA CancelOngoingType ==
  ASSUME NEW rows \in [Exec -> ExecRow], NEW t
  PROVE  CancelOngoing(rows, t) \in [Exec -> ExecRow]
BY MarkType DEF CancelOngoing, ExecState

-----------------------------------------------------------------------------

\* What a handler may write.
HandlerTypeOK ==
  /\ taskState \in [Task -> TaskState \cup {"ABSENT"}]
  /\ exec \in [Exec -> ExecRow]
  /\ nextExec \in [Task -> 1..(MaxExec + 1)]
  /\ audit \subseteq Exec
  /\ execQ \in Seq(Exec)
  /\ pend \in Exec \cup {None}

\* Defining an execution (DefineNewTaskExecInstance) uses up the next id.
LEMMA UseExecIdType ==
  ASSUME TypeOK, NEW t \in Task, UseExecId(t)
  PROVE  NewExec(t) \in Exec /\ nextExec' \in [Task -> 1..(MaxExec + 1)]
BY NewExecType DEF UseExecId, TypeOK

\* The send puts an execution on the task queue and remembers it until the commit.
LEMMA SendPendingType ==
  ASSUME TypeOK, NEW e \in Exec, SendPending(e)
  PROVE  execQ' \in Seq(Exec) /\ pend' \in Exec
BY AppendProperties DEF SendPending, TypeOK

\* A handler that returns early keeps the types.
LEMMA NoEffectType == TypeOK /\ NoEffect => HandlerTypeOK'
BY DEF TypeOK, HandlerTypeOK, NoEffect, rowVars

\* processNewPendingTask keeps the types.
LEMMA ProcessNewPendingTaskType ==
  ASSUME TypeOK, NEW t \in Task, ProcessNewPendingTask(t)
  PROVE  HandlerTypeOK'
<1>1. CASE taskState[t] = "PENDING" /\ t \in Scheduled
  <2>1. UseExecId(t) /\ exec' = [exec EXCEPT ![NewExec(t)] = NewRow("SCHEDULED")]
        /\ taskState' = [taskState EXCEPT ![t] = "ACTIVE"] /\ UNCHANGED <<audit, execQ, pend>>
    BY <1>1 DEF ProcessNewPendingTask
  <2> QED BY <2>1, UseExecIdType, NewRowType DEF TypeOK, HandlerTypeOK, ExecState, TaskState
<1>2. CASE taskState[t] = "PENDING" /\ t \notin Scheduled /\ t \notin NoSender
  <2>1. UseExecId(t) /\ SendPending(NewExec(t)) /\ UNCHANGED <<taskState, exec, audit>>
    BY <1>2 DEF ProcessNewPendingTask
  <2> QED BY <2>1, UseExecIdType, SendPendingType DEF TypeOK, HandlerTypeOK
<1>3. CASE ~ (taskState[t] = "PENDING" /\ t \in Scheduled)
           /\ ~ (taskState[t] = "PENDING" /\ t \notin Scheduled /\ t \notin NoSender)
  BY <1>3, NoEffectType DEF ProcessNewPendingTask
<1> QED BY <1>1, <1>2, <1>3

\* processTaskExecutionStarting keeps the types.
LEMMA ProcessTaskExecutionStartingType ==
  ASSUME TypeOK, NEW e \in Exec, ProcessTaskExecutionStarting(e)
  PROVE  HandlerTypeOK'
<1>1. CASE SendPending(e) /\ UNCHANGED rowVars
  BY <1>1, SendPendingType DEF TypeOK, HandlerTypeOK, rowVars
<1>2. CASE NoEffect
  BY <1>2, NoEffectType
<1> QED BY <1>1, <1>2 DEF ProcessTaskExecutionStarting

\* processTaskExecutionComplete keeps the types.
LEMMA ProcessTaskExecutionCompleteType ==
  ASSUME TypeOK, NEW e \in Exec, ProcessTaskExecutionComplete(e)
  PROVE  HandlerTypeOK'
<1>1. Mark(exec[e], "FINALIZED") \in ExecRow
  BY MarkType DEF TypeOK, ExecState
<1> QED BY <1>1, TaskOfType, NoEffectType
        DEF ProcessTaskExecutionComplete, TypeOK, HandlerTypeOK, TaskState

\* processTaskExecutionEngineFailed keeps the types.
LEMMA ProcessTaskExecutionEngineFailedType ==
  ASSUME TypeOK, NEW e \in Exec, ProcessTaskExecutionEngineFailed(e)
  PROVE  HandlerTypeOK'
<1>1. Mark(exec[e], "FINALIZED") \in ExecRow
  BY MarkType DEF TypeOK, ExecState
<1> QED BY <1>1, TaskOfType, NoEffectType
        DEF ProcessTaskExecutionEngineFailed, TypeOK, HandlerTypeOK, TaskState

\* processTaskExecutionFailed keeps the types, with a retry and without.
LEMMA ProcessTaskExecutionFailedType ==
  ASSUME TypeOK, NEW e \in Exec, ProcessTaskExecutionFailed(e)
  PROVE  HandlerTypeOK'
<1> DEFINE t == TaskOf(e)
           finalized == [exec EXCEPT ![e] = Mark(@, "FINALIZED")]
<1>0. t \in Task /\ finalized \in [Exec -> ExecRow]
  BY MarkType, TaskOfType DEF TypeOK, ExecState
<1>1. CASE CanFinalize(e) /\ taskState[t] = "ACTIVE" /\ DecideExecutionRetry(e)
  <2>1. UseExecId(t) /\ exec' = [finalized EXCEPT ![NewExec(t)] = NewRow("SCHEDULED")]
        /\ UNCHANGED <<taskState, audit, execQ, pend>>
    BY <1>1 DEF ProcessTaskExecutionFailed
  <2> HIDE DEF finalized, t
  <2> QED BY <1>0, <2>1, UseExecIdType, NewRowType DEF TypeOK, HandlerTypeOK, ExecState
<1>2. CASE CanFinalize(e) /\ taskState[t] = "ACTIVE" /\ ~ DecideExecutionRetry(e)
  <2>1. /\ exec' = finalized /\ taskState' = [taskState EXCEPT ![t] = "FAILED"]
        /\ UNCHANGED <<nextExec, audit, execQ, pend>>
    BY <1>2 DEF ProcessTaskExecutionFailed
  <2> HIDE DEF finalized, t
  <2> QED BY <1>0, <2>1 DEF TypeOK, HandlerTypeOK, TaskState
<1>3. CASE CanFinalize(e) /\ taskState[t] # "ACTIVE"
  <2>1. exec' = finalized /\ UNCHANGED <<taskState, nextExec, audit, execQ, pend>>
    BY <1>3 DEF ProcessTaskExecutionFailed
  <2> HIDE DEF finalized, t
  <2> QED BY <1>0, <2>1 DEF TypeOK, HandlerTypeOK
<1>4. CASE ~ CanFinalize(e)
  BY <1>4, NoEffectType DEF ProcessTaskExecutionFailed
<1> QED BY <1>1, <1>2, <1>3, <1>4

\* processTaskExecutionTimedOut keeps the types.
LEMMA ProcessTaskExecutionTimedOutType ==
  ASSUME TypeOK, NEW e \in Exec, ProcessTaskExecutionTimedOut(e)
  PROVE  HandlerTypeOK'
<1> DEFINE settled == [exec EXCEPT ![e] = Mark(Mark(@, "FAILED"), "FINALIZED")]
<1>1. settled \in [Exec -> ExecRow] /\ TaskOf(e) \in Task
  BY MarkType, TaskOfType DEF TypeOK, ExecState
<1>2. CancelOngoing(settled, TaskOf(e)) \in [Exec -> ExecRow]
  BY <1>1, CancelOngoingType
<1> QED BY <1>1, <1>2, NoEffectType
        DEF ProcessTaskExecutionTimedOut, TypeOK, HandlerTypeOK, TaskState

\* processCancelTask keeps the types.
LEMMA ProcessCancelTaskType ==
  ASSUME TypeOK, NEW t \in Task, ProcessCancelTask(t)
  PROVE  HandlerTypeOK'
<1>1. CancelOngoing(exec, t) \in [Exec -> ExecRow]
  BY CancelOngoingType DEF TypeOK
<1>2. CASE NoEffect
  BY <1>2, NoEffectType
<1>3. CASE ~ NoEffect
  BY <1>1, <1>3 DEF ProcessCancelTask, TypeOK, HandlerTypeOK, TaskState
<1> QED BY <1>2, <1>3

\* processTaskTimeout keeps the types.
LEMMA ProcessTaskTimeoutType ==
  ASSUME TypeOK, NEW t \in Task, ProcessTaskTimeout(t)
  PROVE  HandlerTypeOK'
<1>1. CancelOngoing(exec, t) \in [Exec -> ExecRow]
  BY CancelOngoingType DEF TypeOK
<1>2. CASE NoEffect
  BY <1>2, NoEffectType
<1>3. CASE ~ NoEffect
  BY <1>1, <1>3 DEF ProcessTaskTimeout, TypeOK, HandlerTypeOK, TaskState
<1> QED BY <1>2, <1>3

\* What a handler is given: a queue message or an item of a sweep.
LEMMA HandleCases ==
  ASSUME NEW m \in SchedMsg \cup SweepItem, m.type # "TASK_MAINTENANCE", Handle(m)
  PROVE  \/ m.id \in Task /\ (\/ ProcessNewPendingTask(m.id)
                              \/ ProcessCancelTask(m.id)
                              \/ ProcessTaskTimeout(m.id))
         \/ m.id \in Exec /\ (\/ /\ m.type = "EXECUTE_SUCCEEDED"
                                 /\ ProcessTaskExecutionComplete(m.id)
                              \/ /\ m.type = "EXECUTE_FAILED"
                                 /\ ProcessTaskExecutionFailed(m.id)
                              \/ ProcessTaskExecutionEngineFailed(m.id)
                              \/ ProcessTaskExecutionStarting(m.id)
                              \/ ProcessTaskExecutionTimedOut(m.id))
<1>1. CASE m.type = "NEW_TASK"
  BY <1>1 DEF Handle, SchedMsg, SweepItem, TaskMsgTypes, ReportTypes, Msg
<1>2. CASE m.type = "CANCEL_TASK"
  BY <1>2 DEF Handle, SchedMsg, SweepItem, TaskMsgTypes, ReportTypes, Msg
<1>3. CASE m.type = "EXECUTE_SUCCEEDED"
  BY <1>3 DEF Handle, SchedMsg, SweepItem, TaskMsgTypes, ReportTypes, Msg
<1>4. CASE m.type = "EXECUTE_FAILED"
  BY <1>4 DEF Handle, SchedMsg, SweepItem, TaskMsgTypes, ReportTypes, Msg
<1>5. CASE m.type = "ENGINE_FAILED"
  BY <1>5 DEF Handle, SchedMsg, SweepItem, TaskMsgTypes, ReportTypes, Msg
<1>6. CASE m.type = "TASK_TIMEOUT"
  BY <1>6 DEF Handle, SchedMsg, SweepItem, TaskMsgTypes, ReportTypes, Msg
<1>7. CASE m.type = "EXECUTE_START"
  BY <1>7 DEF Handle, SchedMsg, SweepItem, TaskMsgTypes, ReportTypes, Msg
<1>8. CASE m.type = "EXECUTE_TIMEOUT"
  BY <1>8 DEF Handle, SchedMsg, SweepItem, TaskMsgTypes, ReportTypes, Msg
<1> QED BY <1>1, <1>2, <1>3, <1>4, <1>5, <1>6, <1>7, <1>8
        DEF SchedMsg, SweepItem, TaskMsgTypes, ReportTypes, Msg

\* Whatever handler a message or a sweep item is dispatched to keeps the types.
LEMMA HandleType ==
  ASSUME TypeOK, NEW m \in SchedMsg \cup SweepItem, m.type # "TASK_MAINTENANCE", Handle(m)
  PROVE  HandlerTypeOK'
BY HandleCases, ProcessNewPendingTaskType, ProcessCancelTaskType, ProcessTaskTimeoutType,
   ProcessTaskExecutionCompleteType, ProcessTaskExecutionFailedType,
   ProcessTaskExecutionEngineFailedType, ProcessTaskExecutionStartingType,
   ProcessTaskExecutionTimedOutType

-----------------------------------------------------------------------------

\* While the scheduler handles a message it holds one.
Holding == spc = "handle" => cur \in SchedMsg

TypeInv == TypeOK /\ Holding

\* A fault is counted within the bound.
LEMMA FaultType == ASSUME TypeOK, NEW kind, Fault(kind) PROVE faults' \in 0..MaxFaults
BY BoundAssumption DEF Fault, TypeOK

\* The listings of a sweep hold what the handlers take.
LEMMA ListedType ==
  ASSUME TypeOK, NEW p \in 1..5
  PROVE  Listed(p) \subseteq SweepItem
BY TaskOfType DEF Listed, ListedEnded, TasksIn, ExecsIn, PastDeadline, Msg, SweepItem, TaskMsgTypes

\* The commit of a handler that sent writes a row and a task state.
LEMMA CommitRowsType ==
  ASSUME TypeOK, pend # None, CommitRows
  PROVE  exec' \in [Exec -> ExecRow] /\ taskState' \in [Task -> TaskState \cup {"ABSENT"}]
<1>1. pend \in Exec /\ TaskOf(pend) \in Task
  BY TaskOfType DEF TypeOK
<1>2. Mark(exec[pend], "ENQUEUED") \in ExecRow /\ NewRow("ENQUEUED") \in ExecRow
  BY <1>1, MarkType, NewRowType DEF TypeOK, ExecState
<1> QED BY <1>1, <1>2 DEF CommitRows, TypeOK, TaskState

\* The scheduler keeps every variable in its type.
LEMMA SchedulerType ==
  ASSUME TypeInv,
         SchedulerStep \/ MaintenanceTick \/ HandlerAborts \/ SweepItemAborts \/ SchedCrash
  PROVE  TypeInv'
<1> USE DEF TypeInv, TypeOK, Holding, SchedulerOnly, rowVars, clockVars, schedVars, workVars
<1>1. CASE SchedStart
  BY <1>1 DEF SchedStart
<1>2. CASE RecoverPop
  BY <1>2, HeadTailProperties DEF RecoverPop
<1>3. CASE RecoverPush
  BY <1>3, ConcatProperties DEF RecoverPush
<1>4. CASE RecoverDone
  BY <1>4 DEF RecoverDone
<1>5. CASE MaintenanceTick
  BY <1>5, AppendProperties DEF MaintenanceTick, SchedMsg
<1>6. CASE SchedDequeue
  BY <1>6, HeadTailProperties, AppendProperties DEF SchedDequeue
<1>7. CASE SchedHandle
  BY <1>7, HandleType DEF SchedHandle, HandlerTypeOK
<1>8. CASE SchedCommit
  BY <1>8, CommitRowsType DEF SchedCommit
<1>9. CASE SweepBegin
  BY <1>9, ListedType DEF SweepBegin
<1>10. CASE SweepOne
  <2>1. PICK m \in todo : Handle(m) /\ todo' = todo \ {m}
    BY <1>10 DEF SweepOne
  <2>2. m \in SweepItem /\ m.type # "TASK_MAINTENANCE"
    BY DEF SweepItem, TaskMsgTypes
  <2>3. HandlerTypeOK'
    BY <2>1, <2>2, HandleType
  <2> QED BY <1>10, <2>1, <2>3 DEF SweepOne, HandlerTypeOK
<1>11. CASE SweepNext
  BY <1>11, ListedType DEF SweepNext
<1>12. CASE SweepEnd
  BY <1>12 DEF SweepEnd
<1>13. CASE SchedDelete
  BY <1>13, RemoveFirstInSeq DEF SchedDelete
<1>14. CASE HandlerAborts
  BY <1>14, RemoveFirstInSeq, FaultType DEF HandlerAborts
<1>15. CASE SweepItemAborts
  BY <1>15, FaultType DEF SweepItemAborts
<1>16. CASE SchedCrash
  BY <1>16, FaultType DEF SchedCrash
<1> QED BY <1>1, <1>2, <1>3, <1>4, <1>5, <1>6, <1>7, <1>8, <1>9,
            <1>10, <1>11, <1>12, <1>13, <1>14, <1>15, <1>16 DEF SchedulerStep

-----------------------------------------------------------------------------

\* A receiver's delete leaves executions in its buffer.
LEMMA DropBufferedType ==
  ASSUME TypeOK, NEW w \in Worker, NEW e, DropBuffered(w, e)
  PROVE  recvBuf' \in [Worker -> Seq(Exec)]
BY RemoveFirstInSeq DEF DropBuffered, TypeOK

\* A worker's job moves to a point the executor has.
LEMMA SetJobType ==
  ASSUME TypeOK, NEW w \in Worker, NEW e \in Exec, NEW s \in JobState, SetJob(w, e, s)
  PROVE  job' \in [Worker -> [Exec -> JobState]]
BY DEF SetJob, TypeOK

\* The end of a worker transaction forgets what it read.
LEMMA ForgetType ==
  ASSUME TypeOK, NEW w \in Worker, NEW e \in Exec, Forget(w, e)
  PROVE  seen' \in [Worker -> [Exec -> ExecState \cup {None}]]
BY DEF Forget, TypeOK

\* A report is a message the scheduler has a handler for.
LEMMA ReportType ==
  ASSUME TypeOK, NEW type \in ReportTypes, NEW e \in Exec, Report(type, e)
  PROVE  schedQ' \in Seq(SchedMsg) /\ faults' \in 0..MaxFaults
<1>1. Msg(type, e) \in SchedMsg
  BY DEF Msg, SchedMsg
<1>2. CASE schedQ' = Append(schedQ, Msg(type, e)) /\ UNCHANGED faults
  BY <1>1, <1>2, AppendProperties DEF TypeOK
<1>3. CASE Fault("lostReport") /\ UNCHANGED schedQ
  BY <1>3, FaultType DEF TypeOK
<1> QED BY <1>2, <1>3 DEF Report

\* The reports and the re-enqueues of Initialize.
LEMMA WorkerInitQueues ==
  ASSUME TypeOK, NEW w \in Worker, WorkerInit(w)
  PROVE  schedQ' \in Seq(SchedMsg) /\ execQ' \in Seq(Exec)
<1>1. \A S \in SUBSET Exec : SetToSeqs(S) \subseteq Seq(S)
  BY ExecFinite, FS_Subset, SetToSeqsInSeq
<1>2. PICK again \in SetToSeqs(popped[w] \cap Owned(w)), owned \in SetToSeqs(Owned(w)) :
        LET failed == again \o owned
        IN schedQ' = schedQ \o [i \in DOMAIN failed |-> Msg("EXECUTE_FAILED", failed[i])]
  BY DEF WorkerInit
<1>3. again \in Seq(Exec) /\ owned \in Seq(Exec)
  BY <1>1, <1>2, SeqMonotonic DEF Owned
<1> DEFINE failed == again \o owned
           reports == [i \in DOMAIN failed |-> Msg("EXECUTE_FAILED", failed[i])]
<1>4. failed \in Seq(Exec)
  BY <1>3, ConcatProperties
<1>5. reports \in Seq(SchedMsg)
  <2> HIDE DEF failed
  <2>1. DOMAIN failed = 1..Len(failed) /\ Len(failed) \in Nat
    BY <1>4, LenProperties
  <2>2. \A i \in 1..Len(failed) : Msg("EXECUTE_FAILED", failed[i]) \in SchedMsg
    BY <1>4, ElementOfSeq DEF Msg, SchedMsg, ReportTypes
  <2> QED BY <2>1, <2>2, IsASeq
<1>6. schedQ' \in Seq(SchedMsg)
  <2> HIDE DEF reports
  <2>1. schedQ' = schedQ \o reports
    BY <1>2 DEF reports
  <2> QED BY <2>1, <1>5, ConcatProperties DEF TypeOK
<1>7. PICK retry \in SetToSeqs({e \in popped[w] : exec[e].state = "ENQUEUED"}) :
        execQ' = retry \o execQ
  BY DEF WorkerInit
<1>8. {e \in popped[w] : exec[e].state = "ENQUEUED"} \in SUBSET Exec
  BY DEF TypeOK
<1>9. retry \in Seq(Exec)
  BY <1>1, <1>7, <1>8, SeqMonotonic
<1> QED BY <1>6, <1>7, <1>9, ConcatProperties DEF TypeOK

\* A worker transaction writes a row of its type and moves the job on.
LEMMA UpdateType ==
  ASSUME TypeInv, NEW w \in Worker, NEW e \in Exec, NEW s, NEW row \in ExecRow,
         NEW next \in JobState, Update(w, e, s, row, next)
  PROVE  TypeInv'
<1>1. seen' \in [Worker -> [Exec -> ExecState \cup {None}]]
  BY ForgetType DEF Update, TypeInv
<1>2. job' \in [Worker -> [Exec -> JobState]]
  BY SetJobType DEF Update, TypeInv, JobState, ReportTypes
<1>3. exec' \in [Exec -> ExecRow]
  BY DEF Update, TypeInv, TypeOK
<1> QED BY <1>1, <1>2, <1>3
        DEF Update, WorkerOnly, TypeInv, TypeOK, Holding, clockVars, schedVars

\* Initialize keeps every variable in its type.
LEMMA WorkerInitType ==
  ASSUME TypeInv, NEW w \in Worker, WorkerInit(w)
  PROVE  TypeInv'
<1>1. schedQ' \in Seq(SchedMsg) /\ execQ' \in Seq(Exec)
  BY WorkerInitQueues DEF TypeInv
<1>2. exec' \in [Exec -> ExecRow]
  BY MarkType DEF WorkerInit, TypeInv, TypeOK, ExecState
<1>3. /\ wpc' = [wpc EXCEPT ![w] = "up"] /\ popped' = [popped EXCEPT ![w] = {}]
      /\ WorkerOnly /\ UNCHANGED <<recvBuf, claim, job, seen, faults>>
  BY DEF WorkerInit
<1> QED BY <1>1, <1>2, <1>3
        DEF WorkerOnly, TypeInv, TypeOK, Holding, clockVars, schedVars

\* A receiver keeps every variable in its type.
LEMMA ReceiverType ==
  ASSUME TypeInv, NEW w \in Worker, ReceiverStep(w)
  PROVE  TypeInv'
<1> USE DEF TypeInv, TypeOK, Holding, WorkerOnly, clockVars, schedVars
<1>1. CASE ReceiverDequeue(w)
  BY <1>1, HeadTailProperties, AppendProperties DEF ReceiverDequeue
<1>2. CASE ReceiverClaim(w)
  <2> DEFINE e == claim[w]
             row == [Mark(exec[e], "ACQUIRED") EXCEPT !.worker = w]
  <2>1. e \in Exec
    BY <1>2 DEF ReceiverClaim
  <2>2. row \in ExecRow
    <3>1. Mark(exec[e], "ACQUIRED") \in ExecRow
      BY <2>1, MarkType DEF ExecState
    <3> QED BY <3>1, ColumnType
  <2>3. exec' = [exec EXCEPT ![e] = row] /\ SetJob(w, e, "pre") /\ Forget(w, e)
    BY <1>2 DEF ReceiverClaim
  <2>4. /\ job' \in [Worker -> [Exec -> JobState]]
        /\ seen' \in [Worker -> [Exec -> ExecState \cup {None}]]
    BY <2>1, <2>3, SetJobType, ForgetType DEF JobState
  <2>5. exec' \in [Exec -> ExecRow]
    <3> HIDE DEF row, e
    <3> QED BY <2>1, <2>2, <2>3
  <2>6. claim' \in [Worker -> Exec \cup {None}]
    BY <1>2 DEF ReceiverClaim
  <2> QED BY <1>2, <2>4, <2>5, <2>6 DEF ReceiverClaim
<1>3. CASE ReceiverDrop(w)
  <2>1. claim[w] \in Exec /\ "ENGINE_FAILED" \in ReportTypes
    BY <1>3 DEF ReceiverDrop, ReportTypes
  <2>2. schedQ' \in Seq(SchedMsg) /\ faults' \in 0..MaxFaults
    BY <1>3, <2>1, ReportType DEF ReceiverDrop
  <2>3. /\ recvBuf' \in [Worker -> Seq(Exec)]
        /\ seen' \in [Worker -> [Exec -> ExecState \cup {None}]]
    BY <1>3, <2>1, DropBufferedType, ForgetType DEF ReceiverDrop
  <2> QED BY <1>3, <2>2, <2>3 DEF ReceiverDrop
<1>4. CASE WorkerStart(w)
  <2>1. ToSet(recvBuf[w]) \subseteq Exec
    BY ElementOfSeq, LenProperties DEF ToSet
  <2>2. <<>> \in Seq(Exec)
    BY EmptySeq
  <2> QED BY <1>4, <2>1, <2>2 DEF WorkerStart
<1>5. CASE WorkerInit(w)
  BY <1>5, WorkerInitType
<1>6. CASE WorkerInitFails(w)
  BY <1>6 DEF WorkerInitFails
<1> QED BY <1>1, <1>2, <1>3, <1>4, <1>5, <1>6 DEF ReceiverStep

\* An executor keeps every variable in its type.
LEMMA ExecutorType ==
  ASSUME TypeInv, NEW w \in Worker, NEW e \in Exec, ExecutorStep(w, e)
  PROVE  TypeInv'
<1>0. exec[e] \in ExecRow /\ ReportTypes \subseteq JobState /\ "run" \in JobState
  BY DEF TypeInv, TypeOK, JobState
<1>1. CASE ExecutorPre(w, e)
  BY <1>0, <1>1, MarkType, UpdateType DEF ExecutorPre, ExecState
<1>2. CASE ExecutorSucceeds(w, e)
  BY <1>0, <1>2, MarkType, UpdateType DEF ExecutorSucceeds, ExecState, ReportTypes
<1>3. CASE ExecutorFails(w, e)
  <2>1. PICK o \in Outcomes \ {"ok"} :
          Update(w, e, "FAILED",
                 [Mark(exec[e], "FAILED") EXCEPT !.nonRetryable = (o = "fatal")],
                 "EXECUTE_FAILED")
    BY <1>3 DEF ExecutorFails
  <2>2. [Mark(exec[e], "FAILED") EXCEPT !.nonRetryable = (o = "fatal")] \in ExecRow
    <3>1. Mark(exec[e], "FAILED") \in ExecRow /\ (o = "fatal") \in BOOLEAN
      BY <1>0, MarkType DEF ExecState
    <3> QED BY <3>1, ColumnType
  <2> QED BY <1>0, <2>1, <2>2, UpdateType DEF ReportTypes
<1>4. CASE ExecutorMissesProcessor(w, e)
  BY <1>0, <1>4, MarkType, UpdateType DEF ExecutorMissesProcessor, ExecState, ReportTypes
<1>5. CASE OnTaskComplete(w, e)
  <2> USE DEF TypeInv, TypeOK, Holding, WorkerOnly, clockVars, schedVars
  <2>1. schedQ' \in Seq(SchedMsg) /\ faults' \in 0..MaxFaults
    BY <1>5, ReportType DEF OnTaskComplete
  <2>2. recvBuf' \in [Worker -> Seq(Exec)] /\ job' \in [Worker -> [Exec -> JobState]]
    BY <1>5, DropBufferedType, SetJobType DEF OnTaskComplete, JobState
  <2> QED BY <1>5, <2>1, <2>2 DEF OnTaskComplete
<1> QED BY <1>1, <1>2, <1>3, <1>4, <1>5 DEF ExecutorStep

\* A worker's faults keep every variable in its type.
LEMMA WorkerFaultType ==
  ASSUME TypeInv, NEW w \in Worker, WorkerFault(w)
  PROVE  TypeInv'
<1> USE DEF TypeInv, TypeOK, Holding, WorkerOnly, clockVars, schedVars
<1>1. CASE WorkerCrash(w)
  BY <1>1, FaultType DEF WorkerCrash, JobState
<1>2. ASSUME NEW e \in Exec, WorkerReads(w, e) PROVE TypeInv'
  BY <1>2, FaultType DEF WorkerReads, ExecRow
<1>3. ASSUME NEW e \in Exec, SubmitFails(w, e) PROVE TypeInv'
  <2>1. /\ recvBuf' \in [Worker -> Seq(Exec)]
        /\ job' \in [Worker -> [Exec -> JobState]]
        /\ seen' \in [Worker -> [Exec -> ExecState \cup {None}]]
    BY <1>3, DropBufferedType, SetJobType, ForgetType DEF SubmitFails, JobState, ReportTypes
  <2>2. exec' \in [Exec -> ExecRow]
    BY <1>3, MarkType DEF SubmitFails, ExecState
  <2> QED BY <1>3, <2>1, <2>2, FaultType DEF SubmitFails
<1>4. ASSUME NEW e \in Exec, ExecutorAborts(w, e) PROVE TypeInv'
  <2>1. /\ job' \in [Worker -> [Exec -> JobState]]
        /\ seen' \in [Worker -> [Exec -> ExecState \cup {None}]]
    BY <1>4, SetJobType, ForgetType DEF ExecutorAborts, JobState, ReportTypes
  <2> QED BY <1>4, <2>1, FaultType DEF ExecutorAborts
<1> QED BY <1>1, <1>2, <1>3, <1>4 DEF WorkerFault

\* Clients and the clock keep every variable in its type.
LEMMA EnvironmentType ==
  ASSUME TypeInv, ClientStep \/ ClockStep
  PROVE  TypeInv'
<1> USE DEF TypeInv, TypeOK, Holding, rowVars, clockVars, schedVars, workVars, boundVars
<1>1. ASSUME NEW t \in Task, DefineTask(t) PROVE TypeInv'
  BY <1>1 DEF DefineTask, TaskState
<1>2. ASSUME NEW t \in Task, NEW type \in TaskMsgTypes, Poke(Msg(type, t)) PROVE TypeInv'
  <2>1. Msg(type, t) \in SchedMsg
    BY DEF Msg, SchedMsg
  <2> QED BY <1>2, <2>1, AppendProperties, BoundAssumption DEF Poke
<1>3. ASSUME NEW t \in Task, DeadlinePasses(t) PROVE TypeInv'
  BY <1>3 DEF DeadlinePasses
<1>4. ASSUME NEW e \in Exec, BecomesDue(e) PROVE TypeInv'
  BY <1>4 DEF BecomesDue
<1> QED BY <1>1, <1>2, <1>3, <1>4
        DEF ClientStep, ClockStep, SubmitTask, CancelTask, TaskMsgTypes

\* The empty database and queues have their types.
LEMMA TypeInit == Init => TypeInv
<1> SUFFICES ASSUME Init PROVE TypeInv
  OBVIOUS
<1>1. <<>> \in Seq(SchedMsg) /\ <<>> \in Seq(Exec)
  BY EmptySeq
<1> QED BY <1>1, NewRowType, BoundAssumption
        DEF Init, TypeInv, TypeOK, Holding, ExecState, JobState

\* Every step of the engine keeps the types.
LEMMA TypeNext == TypeInv /\ [Next]_vars => TypeInv'
<1> SUFFICES ASSUME TypeInv, [Next]_vars PROVE TypeInv'
  OBVIOUS
<1>1. CASE UNCHANGED vars
  BY <1>1 DEF TypeInv, TypeOK, Holding, vars, rowVars, clockVars, schedVars, workVars, boundVars
<1>2. CASE Next
  BY <1>2, SchedulerType, ReceiverType, ExecutorType, WorkerFaultType, EnvironmentType DEF Next
<1> QED BY <1>1, <1>2

\* Whatever the tasks, the workers and the faults, the rows, the queues and the
\* processes' memories hold what the code puts in them.
THEOREM TypeCorrect == Spec => []TypeOK
<1>1. Spec => []TypeInv
  BY TypeInit, TypeNext, PTL DEF Spec
<1>2. TypeInv => TypeOK
  BY DEF TypeInv
<1> QED BY <1>1, <1>2, PTL

-----------------------------------------------------------------------------
\* What holds however late a worker writes. One that writes on what it read
\* earlier may take back an execution that has been settled meanwhile; it never
\* writes the row of one that the scheduler has yet to let go.

\* An execution that was sent and not committed waits for that commit: its row
\* does not exist yet and its task is PENDING, or it is still to be enqueued.
Sending ==
  pend # None =>
    \/ exec[pend].state = "NONE" /\ taskState[TaskOf(pend)] = "PENDING"
    \/ exec[pend].state \in {"DEFINED", "SCHEDULED"}

\* Ids are given out in order, and one that was sent is used up.
IdsUsed ==
  /\ \A e \in Exec : e[2] >= nextExec[TaskOf(e)] => exec[e].state = "NONE"
  /\ pend # None => pend[2] < nextExec[TaskOf(pend)]

\* The states of an execution the scheduler has let go: it was enqueued, or ended.
Released == ExecState \ {"DEFINED", "SCHEDULED"}

\* What a worker's open transaction read as let go still is.
ReadsReleased ==
  \A w \in Worker, e \in Exec : seen[w][e] \in Released => exec[e].state \in Released

CoreInv == TypeInv /\ Sending /\ IdsUsed /\ PendingBare /\ ActiveHasWork /\ ReadsReleased

\* Ids are used up, and what is sent and not committed has one.
IdsAge ==
  /\ \A t \in Task : nextExec'[t] >= nextExec[t]
  /\ pend' # None => pend' = pend \/ pend'[2] < nextExec'[TaskOf(pend')]

\* How any step moves the rows. An execution is left alone, is let go, or is
\* inserted for a task that is active; a task is left alone, is defined, is
\* activated or goes to rest; and an active task has, or keeps, an unsettled
\* execution.
RowsMove ==
  /\ \A e \in Exec :
       \/ exec'[e] = exec[e]
       \/ exec[e].state # "NONE" /\ exec'[e].state \in Released
       \/ /\ exec[e].state = "NONE" /\ e[2] < nextExec'[TaskOf(e)]
          /\ taskState'[TaskOf(e)] = "ACTIVE"
  /\ \A t \in Task :
       \/ taskState'[t] = taskState[t]
       \/ taskState[t] = "ABSENT" /\ taskState'[t] = "PENDING"
       \/ taskState[t] = "PENDING" /\ taskState'[t] = "ACTIVE"
       \/ taskState[t] \notin TaskResting /\ taskState'[t] \in TaskResting
  /\ \A t \in Task : taskState'[t] = "ACTIVE" =>
       \/ /\ taskState[t] = "ACTIVE"
          /\ \A e \in Exec : TaskOf(e) = t /\ Unsettled(e) => Unsettled(e)'
       \/ \E e \in Exec : TaskOf(e) = t /\ Unsettled(e)'

CoreMove == RowsMove /\ IdsAge /\ Sending'

\* A worker's transactions end, or one reads a row that stays as it is.
ReadsEnd  == \A w \in Worker, e \in Exec : seen'[w][e] \in {None, seen[w][e]}
ReadsMove ==
  \/ ReadsEnd
  \/ UNCHANGED exec /\ \A w \in Worker, e \in Exec :
                         seen'[w][e] \in {seen[w][e], exec[e].state}

RestingKept == \A t \in Task : taskState[t] \in TaskResting => taskState'[t] = taskState[t]

\* Ids that are used up stay so.
LEMMA IdsStayUsed ==
  ASSUME TypeOK, TypeOK', IdsUsed, IdsAge,
         \A e \in Exec : exec[e].state = "NONE" =>
           exec'[e].state = "NONE" \/ e[2] < nextExec'[TaskOf(e)]
  PROVE  IdsUsed'
<1>0. /\ \A e \in Exec : TaskOf(e) \in Task /\ e[2] \in Int
      /\ \A t \in Task : nextExec[t] \in Int /\ nextExec'[t] \in Int
  BY TaskOfType, BoundAssumption DEF Exec, TypeOK
<1>1. ASSUME NEW e \in Exec, e[2] >= nextExec'[TaskOf(e)]
      PROVE  exec'[e].state = "NONE"
  <2>1. e[2] >= nextExec[TaskOf(e)] /\ ~ (e[2] < nextExec'[TaskOf(e)])
    BY <1>0, <1>1 DEF IdsAge
  <2> QED BY <2>1 DEF IdsUsed
<1>2. ASSUME pend' # None PROVE pend'[2] < nextExec'[TaskOf(pend')]
  <2>1. CASE pend' = pend
    <3>1. pend \in Exec /\ pend[2] < nextExec[TaskOf(pend)]
      BY <1>2, <2>1 DEF TypeOK, IdsUsed
    <3> QED BY <1>0, <2>1, <3>1 DEF IdsAge
  <2>2. CASE pend' # pend
    BY <1>2, <2>2 DEF IdsAge
  <2> QED BY <2>1, <2>2
<1> QED BY <1>1, <1>2 DEF IdsUsed

\* Such a move keeps the invariant, and the state of every task at rest.
LEMMA CoreKept ==
  ASSUME CoreInv, TypeInv', CoreMove, ReadsMove
  PROVE  CoreInv' /\ RestingKept
<1>0. /\ TypeOK /\ TypeOK' /\ \A e \in Exec : TaskOf(e) \in Task
      /\ RowsMove /\ IdsAge /\ Sending'
      /\ IdsUsed /\ PendingBare /\ ActiveHasWork /\ ReadsReleased
  BY TaskOfType DEF CoreInv, CoreMove, TypeInv
<1>1. \A e \in Exec : exec[e].state \in Released => exec'[e].state \in Released
  BY <1>0 DEF RowsMove, Released, ExecState
<1>2. IdsUsed'
  <2>1. \A e \in Exec : exec[e].state = "NONE" =>
          exec'[e].state = "NONE" \/ e[2] < nextExec'[TaskOf(e)]
    BY <1>0 DEF RowsMove
  <2> QED BY <1>0, <2>1, IdsStayUsed
<1>3. PendingBare'
  BY <1>0 DEF RowsMove, PendingBare, TaskResting
<1>4. ActiveHasWork'
  BY <1>0 DEF RowsMove, ActiveHasWork
<1>5. ReadsReleased'
  <2>1. None \notin Released
    BY NoneAssumption DEF Released
  <2> QED BY <1>0, <1>1, <2>1 DEF ReadsMove, ReadsEnd, ReadsReleased
<1>6. RestingKept
  BY <1>0 DEF RowsMove, RestingKept, TaskResting
<1> QED BY <1>0, <1>2, <1>3, <1>4, <1>5, <1>6 DEF CoreInv

\* A step that leaves the rows alone, and drops or keeps what was sent.
LEMMA IdleMoves ==
  ASSUME CoreInv, UNCHANGED <<taskState, exec, nextExec>>, pend' \in {pend, None}
  PROVE  CoreMove
<1>1. \A t \in Task : nextExec[t] \in Int
  BY BoundAssumption DEF CoreInv, TypeInv, TypeOK
<1>2. RowsMove
  BY DEF RowsMove, Unsettled, CoreInv, ActiveHasWork
<1>3. IdsAge
  BY <1>1 DEF IdsAge
<1>4. Sending'
  BY DEF CoreInv, Sending
<1> QED BY <1>2, <1>3, <1>4 DEF CoreMove

\* A task that goes to rest: of its executions alone some are let go.
LEMMA RestMoves ==
  ASSUME CoreInv, pend' = None, UNCHANGED nextExec,
         NEW t \in Task, NEW s \in TaskResting, taskState[t] \notin TaskResting,
         taskState' = [taskState EXCEPT ![t] = s],
         \A e \in Exec :
           \/ exec'[e] = exec[e]
           \/ TaskOf(e) = t /\ exec[e].state # "NONE" /\ exec'[e].state \in Released
  PROVE  CoreMove
<1>1. \A x \in Task : nextExec[x] \in Int
  BY BoundAssumption DEF CoreInv, TypeInv, TypeOK
<1>2. \A x \in Task : taskState'[x] = IF x = t THEN s ELSE taskState[x]
  BY DEF CoreInv, TypeInv, TypeOK
<1>3. s # "ACTIVE"
  BY DEF TaskResting
<1>4. RowsMove
  BY <1>2, <1>3 DEF RowsMove, Unsettled
<1>5. IdsAge /\ Sending'
  BY <1>1 DEF IdsAge, Sending
<1> QED BY <1>4, <1>5 DEF CoreMove

-----------------------------------------------------------------------------

\* The tables the handlers look states up in, as the proofs need them.
LEMMA FinalizeFrom ==
  ASSUME TypeOK, NEW e \in Exec, CanFinalize(e)
  PROVE  exec[e].state \in {"PROCESSED", "FAILED"}
BY DEF CanFinalize, ValidExec, ExecNext, ExecState

\* Only a DEFINED or SCHEDULED execution is enqueued.
LEMMA EnqueueFrom ==
  ASSUME NEW s, ValidExec(s, "ENQUEUED")
  PROVE  s \in {"DEFINED", "SCHEDULED"}
BY DEF ValidExec, ExecNext, ExecState

\* Only an ENQUEUED execution is claimed.
LEMMA AcquireFrom ==
  ASSUME NEW s, ValidExec(s, "ACQUIRED")
  PROVE  s = "ENQUEUED"
BY DEF ValidExec, ExecNext, ExecState

\* Only an execution that was enqueued and has not ended moves on or ends.
LEMMA OutcomeFrom ==
  ASSUME NEW s, NEW to \in {"PROCESSING", "PROCESSED", "FAILED"}, ValidExec(s, to)
  PROVE  s \in {"ENQUEUED", "ACQUIRED", "PROCESSING"}
BY DEF ValidExec, ExecNext, ExecState

\* A task completes, fails and times out from ACTIVE only.
LEMMA TaskFrom ==
  \A s \in TaskState :
    /\ ValidTask(s, "COMPLETE") => s = "ACTIVE"
    /\ ValidTask(s, "FAILED") => s = "ACTIVE"
    /\ ValidTask(s, "TIMED_OUT") => s = "ACTIVE"
BY DEF ValidTask, TaskNext, TaskState

\* An execution row belongs to a task that is at least active.
LEMMA TaskOfRow ==
  ASSUME TypeOK, PendingBare, NEW e \in Exec, exec[e].state # "NONE"
  PROVE  taskState[TaskOf(e)] \in TaskState \ {"PENDING"}
BY TaskOfType DEF TypeOK, PendingBare

\* Cancelling what is live of a task touches nothing else.
LEMMA CancelledRows ==
  ASSUME NEW rows \in [Exec -> ExecRow], NEW t, NEW e \in Exec
  PROVE  \/ CancelOngoing(rows, t)[e] = rows[e]
         \/ /\ TaskOf(e) = t /\ rows[e].state \in ExecLive
            /\ CancelOngoing(rows, t)[e].state = "CANCELLED"
BY MarkType DEF CancelOngoing, ExecState

\* processNewPendingTask inserts the first execution of its task, or sends it.
LEMMA ProcessNewPendingTaskMoves ==
  ASSUME CoreInv, pend = None, NEW t \in Task, ProcessNewPendingTask(t)
  PROVE  CoreMove
<1>0. TypeOK /\ nextExec[t] \in Int /\ \A x \in Task : nextExec[x] \in Int
  BY BoundAssumption DEF CoreInv, TypeInv, TypeOK
<1>1. ASSUME UseExecId(t)
      PROVE  /\ NewExec(t) \in Exec /\ TaskOf(NewExec(t)) = t
             /\ NewExec(t)[2] < nextExec'[t]
             /\ exec[NewExec(t)].state = "NONE"
             /\ \A x \in Task : nextExec'[x] >= nextExec[x]
  <2>1. nextExec' = [nextExec EXCEPT ![t] = @ + 1] /\ NewExec(t) \in Exec
    BY <1>0, <1>1, UseExecIdType DEF UseExecId
  <2>2. TaskOf(NewExec(t)) = t /\ NewExec(t)[2] = nextExec[t]
    BY DEF NewExec, TaskOf
  <2>3. \A x \in Task : nextExec'[x] = IF x = t THEN nextExec[t] + 1 ELSE nextExec[x]
    BY <2>1 DEF CoreInv, TypeInv, TypeOK
  <2>4. exec[NewExec(t)].state = "NONE"
    BY <1>0, <2>1, <2>2 DEF CoreInv, IdsUsed
  <2> QED BY <1>0, <2>1, <2>2, <2>3, <2>4
<1>2. CASE taskState[t] = "PENDING" /\ t \in Scheduled
  <2> DEFINE n == NewExec(t)
  <2>1. /\ UseExecId(t) /\ pend' = None
        /\ exec' = [exec EXCEPT ![n] = NewRow("SCHEDULED")]
        /\ taskState' = [taskState EXCEPT ![t] = "ACTIVE"]
    BY <1>2 DEF ProcessNewPendingTask
  <2>2. /\ n \in Exec /\ TaskOf(n) = t /\ n[2] < nextExec'[t] /\ exec[n].state = "NONE"
        /\ \A x \in Task : nextExec'[x] >= nextExec[x]
    BY <1>1, <2>1
  <2> HIDE DEF n
  <2>3. exec'[n].state = "SCHEDULED" /\ \A e \in Exec \ {n} : exec'[e] = exec[e]
    BY <1>0, <2>1, <2>2, NewRowType DEF TypeOK, ExecState
  <2>4. \A x \in Task : taskState'[x] = IF x = t THEN "ACTIVE" ELSE taskState[x]
    BY <1>0, <2>1 DEF TypeOK
  <2>5. exec'[n].state \in ExecUnsettled
    BY <2>3 DEF ExecUnsettled, ExecLive
  <2>6. RowsMove
    BY <1>2, <2>2, <2>3, <2>4, <2>5 DEF RowsMove, Unsettled
  <2>7. IdsAge /\ Sending'
    BY <2>1, <2>2 DEF IdsAge, Sending
  <2> QED BY <2>6, <2>7 DEF CoreMove
<1>3. CASE taskState[t] = "PENDING" /\ t \notin Scheduled /\ t \notin NoSender
  <2>1. UseExecId(t) /\ pend' = NewExec(t) /\ UNCHANGED <<taskState, exec>>
    BY <1>3 DEF ProcessNewPendingTask, SendPending
  <2>2. RowsMove
    BY <2>1 DEF RowsMove, Unsettled, CoreInv, ActiveHasWork
  <2>3. IdsAge /\ Sending'
    BY <1>1, <1>3, <2>1 DEF IdsAge, Sending
  <2> QED BY <2>2, <2>3 DEF CoreMove
<1>4. CASE NoEffect
  BY <1>4, IdleMoves DEF NoEffect, rowVars
<1> QED BY <1>2, <1>3, <1>4 DEF ProcessNewPendingTask

\* processTaskExecutionStarting sends an execution the scheduler holds.
LEMMA ProcessTaskExecutionStartingMoves ==
  ASSUME CoreInv, pend = None, NEW e \in Exec, ProcessTaskExecutionStarting(e)
  PROVE  CoreMove
<1>1. CASE ValidExec(exec[e].state, "ENQUEUED") /\ SendPending(e) /\ UNCHANGED rowVars
  <2>1. /\ exec[e].state \in {"DEFINED", "SCHEDULED"} /\ pend' = e
        /\ UNCHANGED <<taskState, exec, nextExec>>
    BY <1>1, EnqueueFrom DEF SendPending, rowVars
  <2>2. TaskOf(e) \in Task /\ e[2] \in Int /\ \A x \in Task : nextExec[x] \in Int
    BY TaskOfType, BoundAssumption DEF CoreInv, TypeInv, TypeOK, Exec
  <2>3. e[2] < nextExec[TaskOf(e)]
    BY <2>1, <2>2 DEF CoreInv, IdsUsed
  <2>4. RowsMove
    BY <2>1 DEF RowsMove, Unsettled, CoreInv, ActiveHasWork
  <2>5. IdsAge /\ Sending'
    BY <2>1, <2>2, <2>3 DEF IdsAge, Sending
  <2> QED BY <2>4, <2>5 DEF CoreMove
<1>2. CASE NoEffect
  BY <1>2, IdleMoves DEF NoEffect, rowVars
<1> QED BY <1>1, <1>2 DEF ProcessTaskExecutionStarting

\* An outcome that settles its execution and takes the task to rest with it.
LEMMA SettleMoves ==
  ASSUME CoreInv, pend' = None, UNCHANGED nextExec,
         NEW e \in Exec, NEW s \in TaskResting, CanFinalize(e),
         taskState[TaskOf(e)] = "ACTIVE",
         exec' = [exec EXCEPT ![e] = Mark(@, "FINALIZED")],
         taskState' = [taskState EXCEPT ![TaskOf(e)] = s]
  PROVE  CoreMove
<1>0. TypeOK /\ TaskOf(e) \in Task
  BY TaskOfType DEF CoreInv, TypeInv
<1>1. exec[e].state # "NONE"
  BY <1>0, FinalizeFrom
<1>2. exec'[e].state \in Released /\ \A d \in Exec \ {e} : exec'[d] = exec[d]
  BY <1>0, MarkType DEF TypeOK, ExecState, Released
<1>3. taskState[TaskOf(e)] \notin TaskResting
  BY DEF TaskResting
<1> QED BY <1>0, <1>1, <1>2, <1>3, RestMoves

\* processTaskExecutionComplete and processTaskExecutionEngineFailed settle an
\* active task.
LEMMA ReportMoves ==
  ASSUME CoreInv, pend = None, NEW e \in Exec,
         ProcessTaskExecutionComplete(e) \/ ProcessTaskExecutionEngineFailed(e)
  PROVE  CoreMove
<1>1. CASE NoEffect
  BY <1>1, IdleMoves DEF NoEffect, rowVars
<1>2. CASE ~ NoEffect
  <2>1. PICK s \in {"COMPLETE", "FAILED"} :
          /\ CanFinalize(e) /\ ValidTask(taskState[TaskOf(e)], s) /\ pend' = None
          /\ exec' = [exec EXCEPT ![e] = Mark(@, "FINALIZED")]
          /\ taskState' = [taskState EXCEPT ![TaskOf(e)] = s] /\ UNCHANGED nextExec
    BY <1>2 DEF ProcessTaskExecutionComplete, ProcessTaskExecutionEngineFailed
  <2>2. TypeOK /\ PendingBare
    BY DEF CoreInv, TypeInv
  <2>3. exec[e].state # "NONE"
    BY <2>1, <2>2, FinalizeFrom
  <2>4. taskState[TaskOf(e)] = "ACTIVE"
    BY <2>1, <2>2, <2>3, TaskOfRow, TaskFrom
  <2> QED BY <2>1, <2>4, SettleMoves DEF TaskResting
<1> QED BY <1>1, <1>2

\* processTaskExecutionFailed settles an execution, and either inserts a retry for
\* its task, or takes the task to rest, or finds it there.
LEMMA ProcessTaskExecutionFailedMoves ==
  ASSUME CoreInv, pend = None, NEW e \in Exec, ProcessTaskExecutionFailed(e)
  PROVE  CoreMove
<1> DEFINE t == TaskOf(e)
           finalized == [exec EXCEPT ![e] = Mark(@, "FINALIZED")]
<1>0. /\ TypeOK /\ t \in Task
      /\ \A x \in Task : nextExec[x] \in Int
      /\ finalized \in [Exec -> ExecRow]
      /\ finalized[e].state \in Released
      /\ \A d \in Exec \ {e} : finalized[d] = exec[d]
  BY TaskOfType, MarkType, BoundAssumption DEF CoreInv, TypeInv, TypeOK, ExecState, Released
<1>1. CASE CanFinalize(e) /\ taskState[t] = "ACTIVE" /\ DecideExecutionRetry(e)
  <2> DEFINE n == NewExec(t)
  <2>1. /\ UseExecId(t) /\ exec' = [finalized EXCEPT ![n] = NewRow("SCHEDULED")]
        /\ UNCHANGED <<taskState, pend>>
    BY <1>1 DEF ProcessTaskExecutionFailed
  <2>2. n \in Exec /\ TaskOf(n) = t /\ n[2] = nextExec[t]
    BY <1>0, <2>1, UseExecIdType DEF NewExec, TaskOf
  <2>3. exec[n].state = "NONE" /\ exec[e].state # "NONE"
    BY <1>0, <1>1, <2>2, FinalizeFrom DEF CoreInv, IdsUsed
  <2>4. \A x \in Task : nextExec'[x] = IF x = t THEN nextExec[t] + 1 ELSE nextExec[x]
    BY <1>0, <2>1 DEF UseExecId, TypeOK
  <2> HIDE DEF finalized, n, t
  <2>5. /\ exec'[n].state = "SCHEDULED"
        /\ \A d \in Exec \ {n} : exec'[d] = finalized[d]
    BY <1>0, <2>1, <2>2, NewRowType DEF ExecState
  <2>6. n[2] < nextExec'[t] /\ \A x \in Task : nextExec'[x] >= nextExec[x]
    BY <1>0, <2>2, <2>4
  <2>7. exec'[n].state \in ExecUnsettled
    BY <2>5 DEF ExecUnsettled, ExecLive
  <2>8. \A d \in Exec : TaskOf(d) # t => exec'[d] = exec[d]
    BY <1>0, <2>2, <2>5 DEF t
  <2>9. \A d \in Exec :
          \/ exec'[d] = exec[d]
          \/ exec[d].state # "NONE" /\ exec'[d].state \in Released
          \/ d = n
    BY <1>0, <2>3, <2>5
  <2>10. RowsMove
    BY <1>0, <1>1, <2>1, <2>2, <2>3, <2>6, <2>7, <2>8, <2>9
       DEF RowsMove, Unsettled, CoreInv, ActiveHasWork
  <2>11. IdsAge /\ Sending'
    BY <2>1, <2>6 DEF IdsAge, Sending
  <2> QED BY <2>10, <2>11 DEF CoreMove
<1>2. CASE CanFinalize(e) /\ taskState[t] = "ACTIVE" /\ ~ DecideExecutionRetry(e)
  <2>1. /\ exec' = finalized /\ taskState' = [taskState EXCEPT ![t] = "FAILED"]
        /\ pend' = None /\ UNCHANGED nextExec
    BY <1>2 DEF ProcessTaskExecutionFailed
  <2> QED BY <1>2, <2>1, SettleMoves DEF TaskResting
<1>3. CASE CanFinalize(e) /\ taskState[t] # "ACTIVE"
  <2>1. exec' = finalized /\ UNCHANGED <<taskState, nextExec, pend>>
    BY <1>3 DEF ProcessTaskExecutionFailed
  <2>2. exec[e].state # "NONE"
    BY <1>0, <1>3, FinalizeFrom
  <2> HIDE DEF finalized
  <2>3. RowsMove
    BY <1>0, <1>3, <2>1, <2>2 DEF RowsMove, Unsettled, CoreInv, ActiveHasWork
  <2>4. IdsAge /\ Sending'
    BY <1>0, <2>1 DEF IdsAge, Sending
  <2> QED BY <2>3, <2>4 DEF CoreMove
<1>4. CASE ~ CanFinalize(e)
  BY <1>4, IdleMoves DEF ProcessTaskExecutionFailed, NoEffect, rowVars
<1> QED BY <1>1, <1>2, <1>3, <1>4

\* processTaskExecutionTimedOut, processCancelTask and processTaskTimeout take a
\* task to rest and end what is live of it.
LEMMA EndingMoves ==
  ASSUME CoreInv, pend = None, NEW t \in Task,
         \/ ProcessCancelTask(t)
         \/ ProcessTaskTimeout(t)
         \/ \E e \in Exec : TaskOf(e) = t /\ ProcessTaskExecutionTimedOut(e)
  PROVE  CoreMove
<1>0. TypeOK /\ PendingBare
  BY DEF CoreInv, TypeInv
<1>1. CASE NoEffect
  BY <1>1, IdleMoves DEF NoEffect, rowVars
<1>2. ASSUME NEW rows \in [Exec -> ExecRow], NEW s \in TaskResting,
             taskState[t] \notin TaskResting, pend' = None, UNCHANGED nextExec,
             exec' = CancelOngoing(rows, t), taskState' = [taskState EXCEPT ![t] = s],
             \A d \in Exec : \/ rows[d] = exec[d]
                             \/ /\ TaskOf(d) = t /\ exec[d].state # "NONE"
                                /\ rows[d].state = "FINALIZED"
      PROVE  CoreMove
  <2>1. \A d \in Exec :
          \/ exec'[d] = exec[d]
          \/ TaskOf(d) = t /\ exec[d].state # "NONE" /\ exec'[d].state \in Released
    <3> TAKE d \in Exec
    <3>1. \/ exec'[d] = rows[d]
          \/ TaskOf(d) = t /\ rows[d].state \in ExecLive /\ exec'[d].state = "CANCELLED"
      BY <1>2, CancelledRows
    <3> QED BY <1>2, <3>1 DEF ExecLive, Released, ExecState
  <2> QED BY <1>2, <2>1, RestMoves
<1>3. CASE ~ NoEffect /\ (ProcessCancelTask(t) \/ ProcessTaskTimeout(t))
  <2>1. PICK s \in {"CANCELLED", "TIMED_OUT"} :
          /\ taskState[t] \in {"PENDING", "ACTIVE", "CANCELLING"}
          /\ exec' = CancelOngoing(exec, t) /\ pend' = None /\ UNCHANGED nextExec
          /\ taskState' = [taskState EXCEPT ![t] = s]
    BY <1>3 DEF ProcessCancelTask, ProcessTaskTimeout
  <2>2. exec \in [Exec -> ExecRow]
    BY <1>0 DEF TypeOK
  <2> QED BY <1>2, <2>1, <2>2 DEF TaskResting
<1>4. ASSUME ~ NoEffect, NEW e \in Exec, TaskOf(e) = t, ProcessTaskExecutionTimedOut(e)
      PROVE  CoreMove
  <2> DEFINE settled == [exec EXCEPT ![e] = Mark(Mark(@, "FAILED"), "FINALIZED")]
  <2>1. /\ ValidExec(exec[e].state, "FAILED") /\ ValidTask(taskState[t], "TIMED_OUT")
        /\ pend' = None /\ UNCHANGED nextExec
        /\ taskState' = [taskState EXCEPT ![t] = "TIMED_OUT"]
        /\ exec' = CancelOngoing(settled, t)
    BY <1>4 DEF ProcessTaskExecutionTimedOut
  <2>2. exec[e].state # "NONE"
    BY <2>1, OutcomeFrom
  <2>3. taskState[t] = "ACTIVE"
    BY <1>0, <1>4, <2>1, <2>2, TaskOfRow, TaskFrom
  <2>4. /\ settled \in [Exec -> ExecRow] /\ settled[e].state = "FINALIZED"
        /\ \A d \in Exec \ {e} : settled[d] = exec[d]
    BY <1>0, MarkType DEF TypeOK, ExecState
  <2> HIDE DEF settled
  <2>5. \A d \in Exec : \/ settled[d] = exec[d]
                       \/ /\ TaskOf(d) = t /\ exec[d].state # "NONE"
                          /\ settled[d].state = "FINALIZED"
    BY <1>4, <2>2, <2>4
  <2> QED BY <1>2, <2>1, <2>3, <2>4, <2>5 DEF TaskResting
<1> QED BY <1>1, <1>3, <1>4

\* Whatever handler a message or a sweep item is dispatched to.
LEMMA HandledCore ==
  ASSUME CoreInv, pend = None,
         NEW m \in SchedMsg \cup SweepItem, m.type # "TASK_MAINTENANCE", Handle(m)
  PROVE  CoreMove
<1>1. m.id \in Exec => TaskOf(m.id) \in Task
  BY TaskOfType
<1> QED BY <1>1, HandleCases, ProcessNewPendingTaskMoves, ProcessTaskExecutionStartingMoves,
           ReportMoves, ProcessTaskExecutionFailedMoves, EndingMoves

\* The commit of what was sent.
LEMMA CommittedMoves ==
  ASSUME CoreInv, SchedCommit
  PROVE  CoreMove
<1>0. /\ TypeOK /\ pend \in Exec /\ TaskOf(pend) \in Task
      /\ CommitRows /\ pend' = None /\ UNCHANGED nextExec
      /\ pend[2] < nextExec[TaskOf(pend)]
      /\ \A x \in Task : nextExec[x] \in Int
  BY TaskOfType, BoundAssumption DEF SchedCommit, CoreInv, IdsUsed, TypeInv, TypeOK
<1>1. IdsAge /\ Sending'
  BY <1>0 DEF IdsAge, Sending
<1>2. PICK e \in Exec : e = pend
  BY <1>0
<1>3. CASE exec[e].state = "NONE"
  <2>1. /\ exec' = [exec EXCEPT ![e] = NewRow("ENQUEUED")]
        /\ taskState' = [taskState EXCEPT ![TaskOf(e)] = "ACTIVE"]
        /\ taskState[TaskOf(e)] = "PENDING"
    BY <1>0, <1>2, <1>3 DEF CommitRows, SchedCommit, CoreInv, Sending
  <2>2. exec'[e].state = "ENQUEUED" /\ \A d \in Exec \ {e} : exec'[d] = exec[d]
    BY <1>0, <2>1, NewRowType DEF TypeOK, ExecState
  <2>3. \A x \in Task : taskState'[x] = IF x = TaskOf(e) THEN "ACTIVE" ELSE taskState[x]
    BY <1>0, <2>1 DEF TypeOK
  <2>4. Unsettled(e)'
    BY <2>2 DEF Unsettled, ExecUnsettled, ExecLive
  <2>5. RowsMove
    BY <1>0, <1>2, <1>3, <2>1, <2>2, <2>3, <2>4 DEF RowsMove, Unsettled
  <2> QED BY <1>1, <2>5 DEF CoreMove
<1>4. CASE exec[e].state # "NONE"
  <2>1. exec' = [exec EXCEPT ![e] = Mark(@, "ENQUEUED")] /\ UNCHANGED taskState
    BY <1>2, <1>4 DEF CommitRows, SchedCommit
  <2>2. exec'[e].state = "ENQUEUED" /\ \A d \in Exec \ {e} : exec'[d] = exec[d]
    BY <1>0, <2>1, MarkType DEF TypeOK, ExecState
  <2>3. exec'[e].state \in Released /\ Unsettled(e)'
    BY <2>2 DEF Unsettled, ExecUnsettled, ExecLive, Released, ExecState
  <2>4. RowsMove
    BY <1>4, <2>1, <2>2, <2>3 DEF RowsMove, Unsettled, CoreInv, ActiveHasWork
  <2> QED BY <1>1, <2>4 DEF CoreMove
<1> QED BY <1>3, <1>4

\* Every step of the scheduler, its failures and its crash move the rows so.
LEMMA SchedulerCore ==
  ASSUME CoreInv,
         SchedulerStep \/ MaintenanceTick \/ HandlerAborts \/ SweepItemAborts \/ SchedCrash
  PROVE  CoreMove /\ UNCHANGED seen
<1>0. TypeOK /\ Holding
  BY DEF CoreInv, TypeInv
<1>1. CASE SchedHandle
  BY <1>0, <1>1, HandledCore DEF SchedHandle, Holding, SchedulerOnly, workVars
<1>2. CASE SweepOne
  <2>1. PICK m \in todo : Handle(m)
    BY <1>2 DEF SweepOne
  <2>2. pend = None /\ m \in SweepItem /\ m.type # "TASK_MAINTENANCE" /\ UNCHANGED seen
    BY <1>0, <1>2 DEF SweepOne, TypeOK, SweepItem, TaskMsgTypes, SchedulerOnly, workVars
  <2> QED BY <2>1, <2>2, HandledCore
<1>3. CASE SchedCommit
  BY <1>3, CommittedMoves DEF SchedCommit, SchedulerOnly, workVars
<1>4. CASE UNCHANGED <<taskState, exec, nextExec, seen>> /\ pend' \in {pend, None}
  BY <1>4, IdleMoves
<1> QED BY <1>1, <1>2, <1>3, <1>4
        DEF SchedulerStep, SchedStart, RecoverPop, RecoverPush, RecoverDone, MaintenanceTick,
            SchedDequeue, SweepBegin, SweepNext, SweepEnd, SchedDelete, HandlerAborts,
            SweepItemAborts, SchedCrash, SchedulerOnly, rowVars, schedVars, workVars

-----------------------------------------------------------------------------

\* What a worker writes: a row that was, when its transaction read it, that of an
\* execution it may hold; and it never settles one.
WorkersWrite ==
  /\ UNCHANGED <<taskState, nextExec, pend>>
  /\ exec' \in [Exec -> ExecRow]
  /\ \A e \in Exec :
       \/ exec'[e] = exec[e]
       \/ /\ \/ exec[e].state \in {"ENQUEUED", "ACQUIRED", "PROCESSING"}
             \/ \E w \in Worker : seen[w][e] \in {"ENQUEUED", "ACQUIRED", "PROCESSING"}
          /\ exec'[e].state \in {"ACQUIRED", "PROCESSING", "PROCESSED", "FAILED"}

\* A worker transaction that ends leaves none open.
LEMMA ForgetReads ==
  ASSUME TypeOK, NEW w \in Worker, NEW e \in Exec, Forget(w, e) \/ UNCHANGED seen
  PROVE  ReadsEnd
<1>1. CASE Forget(w, e)
  <2>1. seen' = [seen EXCEPT ![w] = [seen[w] EXCEPT ![e] = None]]
    BY <1>1 DEF Forget
  <2>2. \A v \in Worker : seen'[v] = IF v = w THEN [seen[w] EXCEPT ![e] = None] ELSE seen[v]
    BY <2>1 DEF TypeOK
  <2>3. seen[w] \in [Exec -> ExecState \cup {None}]
    BY DEF TypeOK
  <2> QED BY <2>2, <2>3 DEF ReadsEnd
<1>2. CASE UNCHANGED seen
  BY <1>2 DEF ReadsEnd
<1> QED BY <1>1, <1>2

\* One row of a worker.
LEMMA OneRowWritten ==
  ASSUME TypeOK, NEW w \in Worker, NEW e \in Exec, NEW row \in ExecRow,
         StateRead(w, e) \in {"ENQUEUED", "ACQUIRED", "PROCESSING"},
         row.state \in {"ACQUIRED", "PROCESSING", "PROCESSED", "FAILED"},
         exec' = [exec EXCEPT ![e] = row], UNCHANGED <<taskState, nextExec, pend>>
  PROVE  WorkersWrite
BY DEF StateRead, WorkersWrite, TypeOK

\* An executor's transaction.
LEMMA UpdateWrites ==
  ASSUME TypeOK, NEW w \in Worker, NEW e \in Exec,
         NEW to \in {"PROCESSING", "PROCESSED", "FAILED"},
         NEW row \in ExecRow, row.state = to, NEW next, Update(w, e, to, row, next)
  PROVE  WorkersWrite /\ ReadsEnd
<1>1. ReadsEnd /\ UNCHANGED <<taskState, nextExec, pend>>
  BY ForgetReads DEF Update, WorkerOnly, schedVars
<1>2. CASE ValidExec(StateRead(w, e), to)
  <2>1. exec' = [exec EXCEPT ![e] = row]
    BY <1>2 DEF Update
  <2>2. StateRead(w, e) \in {"ENQUEUED", "ACQUIRED", "PROCESSING"}
    BY <1>2, OutcomeFrom
  <2> QED BY <1>1, <2>1, <2>2, OneRowWritten
<1>3. CASE ~ ValidExec(StateRead(w, e), to)
  BY <1>1, <1>3 DEF Update, WorkersWrite, TypeOK
<1> QED BY <1>2, <1>3

\* Every step of a receiver: the claim, the refusal, Initialize.
LEMMA ReceiverWrites ==
  ASSUME TypeOK, NEW w \in Worker, ReceiverStep(w)
  PROVE  WorkersWrite /\ ReadsEnd
<1>1. CASE ReceiverClaim(w)
  <2> DEFINE e == claim[w]
             row == [Mark(exec[e], "ACQUIRED") EXCEPT !.worker = w]
  <2>1. e \in Exec
    BY <1>1 DEF ReceiverClaim, TypeOK
  <2>2. StateRead(w, e) = "ENQUEUED"
    BY <1>1, AcquireFrom DEF ReceiverClaim
  <2>3. row \in ExecRow /\ row.state = "ACQUIRED"
    <3>1. Mark(exec[e], "ACQUIRED") \in ExecRow /\ Mark(exec[e], "ACQUIRED").state = "ACQUIRED"
      BY <2>1, MarkType DEF TypeOK, ExecState
    <3> QED BY <3>1, ColumnType DEF ExecRow
  <2>4. /\ exec' = [exec EXCEPT ![e] = row] /\ Forget(w, e)
        /\ UNCHANGED <<taskState, nextExec, pend>>
    BY <1>1 DEF ReceiverClaim, WorkerOnly, schedVars
  <2> HIDE DEF e, row
  <2> QED BY <2>1, <2>2, <2>3, <2>4, OneRowWritten, ForgetReads
<1>2. CASE ReceiverDrop(w)
  <2>1. claim[w] \in Exec
    BY <1>2 DEF ReceiverDrop, TypeOK
  <2>2. Forget(w, claim[w]) /\ UNCHANGED <<exec, taskState, nextExec, pend>>
    BY <1>2 DEF ReceiverDrop, WorkerOnly, schedVars
  <2> QED BY <2>1, <2>2, ForgetReads DEF WorkersWrite, TypeOK
<1>3. CASE WorkerInit(w)
  <2>1. /\ exec' = [e \in Exec |-> IF e \in Owned(w) THEN Mark(exec[e], "FAILED") ELSE exec[e]]
        /\ UNCHANGED <<taskState, nextExec, pend, seen>>
    BY <1>3 DEF WorkerInit, WorkerOnly, schedVars
  <2>2. exec' \in [Exec -> ExecRow]
    BY <2>1, MarkType DEF TypeOK, ExecState
  <2>3. \A e \in Exec : \/ exec'[e] = exec[e]
                       \/ /\ exec[e].state \in {"ACQUIRED", "PROCESSING"}
                          /\ exec'[e].state = "FAILED"
    BY <2>1, MarkType DEF TypeOK, ExecState, Owned
  <2> QED BY <2>1, <2>2, <2>3 DEF WorkersWrite, ReadsEnd
<1>4. CASE ReceiverDequeue(w) \/ WorkerStart(w) \/ WorkerInitFails(w)
  BY <1>4 DEF ReceiverDequeue, WorkerStart, WorkerInitFails, WorkerOnly, schedVars,
              WorkersWrite, ReadsEnd, TypeOK
<1> QED BY <1>1, <1>2, <1>3, <1>4 DEF ReceiverStep

\* Every step of an executor.
LEMMA ExecutorWrites ==
  ASSUME TypeOK, NEW w \in Worker, NEW e \in Exec, ExecutorStep(w, e)
  PROVE  WorkersWrite /\ ReadsEnd
<1>1. \A s \in {"PROCESSING", "PROCESSED", "FAILED"} :
        Mark(exec[e], s) \in ExecRow /\ Mark(exec[e], s).state = s
  BY MarkType DEF TypeOK, ExecState
<1>2. CASE ExecutorPre(w, e)
  BY <1>1, <1>2, UpdateWrites DEF ExecutorPre
<1>3. CASE ExecutorSucceeds(w, e)
  BY <1>1, <1>3, UpdateWrites DEF ExecutorSucceeds
<1>4. CASE ExecutorFails(w, e)
  <2>1. PICK o \in Outcomes \ {"ok"} :
          Update(w, e, "FAILED",
                 [Mark(exec[e], "FAILED") EXCEPT !.nonRetryable = (o = "fatal")],
                 "EXECUTE_FAILED")
    BY <1>4 DEF ExecutorFails
  <2> DEFINE row == [Mark(exec[e], "FAILED") EXCEPT !.nonRetryable = (o = "fatal")]
  <2>2. row \in ExecRow /\ row.state = "FAILED"
    <3>1. (o = "fatal") \in BOOLEAN
      OBVIOUS
    <3>2. row \in ExecRow
      BY <1>1, <3>1, ColumnType
    <3> QED BY <1>1, <3>2 DEF ExecRow
  <2>3. Update(w, e, "FAILED", row, "EXECUTE_FAILED")
    BY <2>1
  <2> HIDE DEF row
  <2> QED BY <2>2, <2>3, UpdateWrites
<1>5. CASE ExecutorMissesProcessor(w, e)
  BY <1>1, <1>5, UpdateWrites DEF ExecutorMissesProcessor
<1>6. CASE OnTaskComplete(w, e)
  BY <1>6 DEF OnTaskComplete, WorkerOnly, schedVars, WorkersWrite, ReadsEnd, TypeOK
<1> QED BY <1>2, <1>3, <1>4, <1>5, <1>6 DEF ExecutorStep

\* A worker's faults: a crash, a refused submission, a failed transaction, or a
\* transaction that is interrupted after its read.
LEMMA WorkerFaultWrites ==
  ASSUME TypeOK, NEW w \in Worker, WorkerFault(w)
  PROVE  /\ WorkersWrite /\ ReadsMove
         /\ "staleRead" \notin FaultKinds => ReadsEnd
<1>1. CASE WorkerCrash(w)
  BY <1>1 DEF WorkerCrash, WorkerOnly, schedVars, WorkersWrite, ReadsMove, ReadsEnd, TypeOK
<1>2. ASSUME NEW e \in Exec, WorkerReads(w, e)
      PROVE  WorkersWrite /\ ReadsMove /\ "staleRead" \in FaultKinds
  BY <1>2 DEF WorkerReads, Fault, WorkerOnly, schedVars, WorkersWrite, ReadsMove, TypeOK
<1>3. ASSUME NEW e \in Exec, SubmitFails(w, e) PROVE WorkersWrite /\ ReadsEnd
  <2>1. ReadsEnd /\ UNCHANGED <<taskState, nextExec, pend>>
    BY <1>3, ForgetReads DEF SubmitFails, WorkerOnly, schedVars
  <2>2. \/ UNCHANGED exec
        \/ /\ ValidExec(exec[e].state, "FAILED")
           /\ exec' = [exec EXCEPT ![e] = Mark(@, "FAILED")]
    BY <1>3 DEF SubmitFails, TypeOK
  <2>3. Mark(exec[e], "FAILED") \in ExecRow /\ Mark(exec[e], "FAILED").state = "FAILED"
    BY MarkType DEF TypeOK, ExecState
  <2> QED BY <2>1, <2>2, <2>3, OutcomeFrom DEF WorkersWrite, TypeOK
<1>4. ASSUME NEW e \in Exec, ExecutorAborts(w, e) PROVE WorkersWrite /\ ReadsEnd
  <2>1. Forget(w, e) /\ UNCHANGED <<exec, taskState, nextExec, pend>>
    BY <1>4 DEF ExecutorAborts, WorkerOnly, schedVars
  <2> QED BY <2>1, ForgetReads DEF WorkersWrite, TypeOK
<1> QED BY <1>1, <1>2, <1>3, <1>4 DEF WorkerFault, ReadsMove

\* A worker lets nothing go that the scheduler holds, even when it writes late.
LEMMA WorkersWriteMoves ==
  ASSUME CoreInv, WorkersWrite
  PROVE  CoreMove
<1>1. \A e \in Exec :
        \/ exec'[e] = exec[e]
        \/ /\ exec[e].state \in Released
           /\ exec'[e].state \in {"ACQUIRED", "PROCESSING", "PROCESSED", "FAILED"}
  BY DEF WorkersWrite, CoreInv, ReadsReleased, Released, ExecState
<1>2. \A e \in Exec : exec'[e].state \in {"ACQUIRED", "PROCESSING", "PROCESSED", "FAILED"} =>
        exec'[e].state \in Released /\ Unsettled(e)'
  BY DEF Released, ExecState, Unsettled, ExecUnsettled, ExecLive
<1>3. UNCHANGED <<taskState, nextExec, pend>> /\ "NONE" \notin Released
  BY DEF WorkersWrite, Released, ExecState
<1>4. RowsMove
  BY <1>1, <1>2, <1>3 DEF RowsMove, Unsettled
<1>5. IdsAge
  BY <1>3, BoundAssumption DEF IdsAge, CoreInv, TypeInv, TypeOK
<1>6. Sending'
  BY <1>1, <1>3 DEF Sending, CoreInv, TypeInv, TypeOK, Released, ExecState
<1> QED BY <1>4, <1>5, <1>6 DEF CoreMove

\* Clients and the clock define tasks and change no execution.
LEMMA EnvironmentMoves ==
  ASSUME CoreInv, ClientStep \/ ClockStep
  PROVE  CoreMove /\ UNCHANGED <<exec, pend, seen>>
<1>0. TypeOK /\ \A e \in Exec : TaskOf(e) \in Task
  BY TaskOfType DEF CoreInv, TypeInv
<1>1. ASSUME NEW t \in Task, DefineTask(t)
      PROVE  CoreMove /\ UNCHANGED <<exec, pend, seen>>
  <2>1. /\ taskState[t] = "ABSENT" /\ UNCHANGED <<exec, nextExec, pend, seen>>
        /\ taskState' = [taskState EXCEPT ![t] = "PENDING"]
    BY <1>1 DEF DefineTask, schedVars, workVars
  <2>2. \A x \in Task : taskState'[x] = IF x = t THEN "PENDING" ELSE taskState[x]
    BY <1>0, <2>1 DEF TypeOK
  <2>3. RowsMove
    BY <2>1, <2>2 DEF RowsMove, Unsettled
  <2>4. Sending'
    BY <1>0, <2>1, <2>2 DEF CoreInv, Sending, TypeOK
  <2>5. IdsAge
    BY <1>0, <2>1, BoundAssumption DEF IdsAge, TypeOK
  <2> QED BY <2>1, <2>3, <2>4, <2>5 DEF CoreMove
<1>2. CASE UNCHANGED <<taskState, exec, nextExec, pend, seen>>
  BY <1>2, IdleMoves
<1> QED BY <1>1, <1>2
        DEF ClientStep, ClockStep, SubmitTask, CancelTask, Poke, DeadlinePasses, BecomesDue,
            rowVars, schedVars, workVars

-----------------------------------------------------------------------------

\* The empty database satisfies the invariant.
LEMMA CoreInit == Init => CoreInv
<1> SUFFICES ASSUME Init PROVE CoreInv
  OBVIOUS
<1>1. \A e \in Exec : exec[e].state = "NONE" /\ TaskOf(e) \in Task
  BY TaskOfType DEF Init, NoRow
<1>2. pend = None /\ \A t \in Task : taskState[t] = "ABSENT"
  BY DEF Init
<1>3. ReadsReleased
  BY NoneAssumption DEF Init, ReadsReleased, Released
<1>4. Sending /\ IdsUsed /\ PendingBare /\ ActiveHasWork
  BY <1>1, <1>2 DEF Sending, IdsUsed, PendingBare, ActiveHasWork
<1> QED BY <1>3, <1>4, TypeInit DEF CoreInv

\* Every step of the engine, an interrupted transaction's included, keeps the
\* invariant and the state of every task at rest.
LEMMA CoreNext == ASSUME CoreInv, [Next]_vars PROVE CoreInv' /\ RestingKept
<1>0. TypeOK /\ TypeInv'
  BY TypeNext DEF CoreInv, TypeInv
<1>1. UNCHANGED seen => ReadsMove
  BY DEF ReadsMove, ReadsEnd
<1>2. CASE SchedulerStep \/ MaintenanceTick \/ HandlerAborts \/ SweepItemAborts \/ SchedCrash
  BY <1>0, <1>1, <1>2, SchedulerCore, CoreKept
<1>3. CASE ClientStep \/ ClockStep
  BY <1>0, <1>1, <1>3, EnvironmentMoves, CoreKept
<1>4. CASE WorkersWrite /\ ReadsMove
  BY <1>0, <1>4, WorkersWriteMoves, CoreKept
<1>5. CASE UNCHANGED vars
  <2>1. UNCHANGED <<taskState, exec, nextExec, pend, seen>>
    BY <1>5 DEF vars, rowVars, schedVars, workVars
  <2> QED BY <1>0, <1>1, <2>1, IdleMoves, CoreKept
<1> QED BY <1>0, <1>2, <1>3, <1>4, <1>5, ReceiverWrites, ExecutorWrites, WorkerFaultWrites
        DEF Next, ReadsMove

\* The invariant holds with every kind of fault, stale reads of workers included.
LEMMA CoreHolds == Spec => []CoreInv
BY CoreInit, CoreNext, PTL DEF Spec

\* An ACTIVE task always has an execution the engine owes a step, however late
\* workers write: a late write leaves an execution unsettled, never the other way
\* round.
THEOREM ActiveHasWorkHolds == Spec => []ActiveHasWork
<1>1. CoreInv => ActiveHasWork
  BY DEF CoreInv
<1> QED BY <1>1, CoreHolds, PTL

\* A task that is not active yet has no execution rows, whatever was sent for it
\* and rolled back, and whatever a worker has read.
THEOREM PendingBareHolds == Spec => []PendingBare
<1>1. CoreInv => PendingBare
  BY DEF CoreInv
<1> QED BY <1>1, CoreHolds, PTL

\* The outcome of a task never changes, even where a worker's late write takes one
\* of its settled executions back: the handlers decide by the task's state.
THEOREM RestingIsFinalHolds == Spec => RestingIsFinal
<1>1. CoreInv /\ [Next]_vars => [RestingKept]_vars
  BY CoreNext
<1>2. Spec => [][RestingKept]_vars
  BY <1>1, CoreHolds, PTL DEF Spec
<1> QED BY <1>2 DEF RestingIsFinal, RestingKept

-----------------------------------------------------------------------------
\* What takes a database that isolates a worker's transaction from its read to its
\* write: of a task's executions one is unsettled, and none that is live outlasts it.

RowsInv == Sending /\ OneUnsettled /\ RestingQuiet /\ ActiveHasWork /\ PendingBare

\* The part of it the isolation is needed for.
QuietInv == OneUnsettled /\ RestingQuiet

\* What a worker may do to the rows, as the scheduler sees it: an execution
\* that was enqueued stays unsettled, every other row is left alone.
WorkersMove ==
  /\ UNCHANGED taskState
  /\ exec' \in [Exec -> ExecRow]
  /\ \A e \in Exec :
       \/ exec'[e] = exec[e]
       \/ /\ exec[e].state \in {"ENQUEUED", "ACQUIRED", "PROCESSING"}
          /\ exec'[e].state \in {"ACQUIRED", "PROCESSING", "PROCESSED", "FAILED"}

\* A worker's step keeps them: it settles nothing and starts nothing that was not
\* enqueued.
LEMMA WorkersMoveSafe ==
  ASSUME TypeOK, RowsInv, WorkersMove
  PROVE  QuietInv'
<1> USE DEF RowsInv, WorkersMove
<1>1. \A e \in Exec : Unsettled(e)' <=> Unsettled(e)
  BY DEF Unsettled, ExecUnsettled, ExecLive
<1>2. \A e \in Exec : exec'[e].state \in ExecLive => exec[e].state \in ExecLive
  BY DEF ExecLive
<1>3. OneUnsettled'
  BY <1>1 DEF OneUnsettled
<1>4. RestingQuiet'
  BY <1>2 DEF RestingQuiet
<1> QED BY <1>3, <1>4 DEF QuietInv

-----------------------------------------------------------------------------

\* A handler that returns early keeps the invariants of the rows.
LEMMA NoEffectSafe == TypeOK /\ RowsInv /\ NoEffect => QuietInv'
BY DEF NoEffect, rowVars, RowsInv, QuietInv, OneUnsettled, RestingQuiet, Unsettled

\* Settling e with its task taken to rest, and nothing else of the task left
\* live: the shape of every ending.
LEMMA EndingSafe ==
  ASSUME TypeOK, RowsInv, NEW t \in Task, NEW s \in TaskResting,
         taskState' = [taskState EXCEPT ![t] = s],
         \A d \in Exec : TaskOf(d) # t => exec'[d] = exec[d],
         \A d \in Exec : TaskOf(d) = t =>
           /\ exec'[d].state \notin ExecLive
           /\ exec'[d].state \in ExecUnsettled => exec[d].state \in ExecUnsettled
  PROVE  QuietInv'
<1> USE DEF RowsInv, TypeOK
<1>1. \A d \in Exec : TaskOf(d) \in Task
  BY TaskOfType
<1>2. OneUnsettled'
  BY DEF OneUnsettled, Unsettled
<1>3. RestingQuiet'
  BY <1>1 DEF RestingQuiet
<1> QED BY <1>2, <1>3 DEF QuietInv

\* Settling e of an active task that goes to rest with it: nothing else of the
\* task is unsettled.
LEMMA SettleAndRestSafe ==
  ASSUME TypeOK, RowsInv, NEW e \in Exec, NEW s \in TaskResting, CanFinalize(e),
         exec' = [exec EXCEPT ![e] = Mark(@, "FINALIZED")],
         taskState' = [taskState EXCEPT ![TaskOf(e)] = s]
  PROVE  QuietInv'
<1>1. exec[e].state \in {"PROCESSED", "FAILED"} /\ TaskOf(e) \in Task
  BY FinalizeFrom, TaskOfType
<1>2. exec'[e].state = "FINALIZED" /\ \A d \in Exec \ {e} : exec'[d] = exec[d]
  BY MarkType DEF TypeOK, ExecState
<1>3. \A d \in Exec \ {e} : TaskOf(d) = TaskOf(e) => exec[d].state \notin ExecUnsettled
  BY <1>1 DEF RowsInv, OneUnsettled, Unsettled, ExecUnsettled
<1>4. \A d \in Exec : TaskOf(d) # TaskOf(e) => exec'[d] = exec[d]
  BY <1>2
<1>5. \A d \in Exec : TaskOf(d) = TaskOf(e) =>
        /\ exec'[d].state \notin ExecLive
        /\ exec'[d].state \in ExecUnsettled => exec[d].state \in ExecUnsettled
  BY <1>2, <1>3 DEF ExecUnsettled, ExecLive
<1> QED BY <1>1, <1>4, <1>5, EndingSafe

\* Cancelling what is live of a task that goes to rest.
LEMMA CancelAndRestSafe ==
  ASSUME TypeOK, RowsInv, NEW t \in Task, NEW s \in TaskResting,
         NEW rows \in [Exec -> ExecRow],
         \A d \in Exec : rows[d] = exec[d] \/ (TaskOf(d) = t /\ rows[d].state = "FINALIZED"),
         exec' = CancelOngoing(rows, t),
         taskState' = [taskState EXCEPT ![t] = s]
  PROVE  QuietInv'
<1>1. \A d \in Exec : TaskOf(d) # t => exec'[d] = exec[d]
  BY DEF CancelOngoing
<1>2. ASSUME NEW d \in Exec, TaskOf(d) = t
      PROVE  /\ exec'[d].state \notin ExecLive
             /\ exec'[d].state \in ExecUnsettled => exec[d].state \in ExecUnsettled
  <2>1. CASE rows[d].state \in ExecLive
    BY <1>2, <2>1, MarkType DEF CancelOngoing, ExecState, ExecLive, ExecUnsettled
  <2>2. CASE rows[d].state \notin ExecLive
    BY <1>2, <2>2 DEF CancelOngoing, ExecLive, ExecUnsettled
  <2> QED BY <2>1, <2>2
<1> QED BY <1>1, <1>2, EndingSafe

-----------------------------------------------------------------------------

\* processNewPendingTask keeps the invariants: its task had no execution before.
LEMMA ProcessNewPendingTaskSafe ==
  ASSUME TypeOK, RowsInv, NEW t \in Task, ProcessNewPendingTask(t)
  PROVE  QuietInv'
<1>1. CASE taskState[t] = "PENDING" /\ t \in Scheduled
  <2>1. /\ UseExecId(t)
        /\ exec' = [exec EXCEPT ![NewExec(t)] = NewRow("SCHEDULED")]
        /\ taskState' = [taskState EXCEPT ![t] = "ACTIVE"]
    BY <1>1 DEF ProcessNewPendingTask
  <2>2. NewExec(t) \in Exec /\ TaskOf(NewExec(t)) = t
    BY <2>1, UseExecIdType DEF NewExec, TaskOf
  <2>3. /\ exec'[NewExec(t)].state = "SCHEDULED"
        /\ \A d \in Exec \ {NewExec(t)} : exec'[d] = exec[d]
    BY <2>1, <2>2, NewRowType DEF TypeOK, ExecState
  <2>4. \A d \in Exec : TaskOf(d) = t => exec[d].state = "NONE"
    BY <1>1 DEF RowsInv, PendingBare
  <2>5. \A x \in Task : taskState'[x] = IF x = t THEN "ACTIVE" ELSE taskState[x]
    BY <2>1 DEF TypeOK
  <2>6. \A d \in Exec : TaskOf(d) \in Task
    BY TaskOfType
  <2> HIDE DEF NewExec
  <2>7. OneUnsettled'
    BY <2>2, <2>3, <2>4 DEF RowsInv, OneUnsettled, Unsettled, ExecUnsettled, ExecLive
  <2>8. RestingQuiet'
    BY <2>2, <2>3, <2>5, <2>6 DEF RowsInv, RestingQuiet, TaskResting
  <2> QED BY <2>7, <2>8 DEF QuietInv
<1>2. CASE taskState[t] = "PENDING" /\ t \notin Scheduled /\ t \notin NoSender
  <2>1. UNCHANGED <<taskState, exec>>
    BY <1>2 DEF ProcessNewPendingTask
  <2> QED BY <2>1 DEF RowsInv, QuietInv, OneUnsettled, RestingQuiet, Unsettled
<1>3. CASE ~ (taskState[t] = "PENDING" /\ t \in Scheduled)
           /\ ~ (taskState[t] = "PENDING" /\ t \notin Scheduled /\ t \notin NoSender)
  BY <1>3, NoEffectSafe DEF ProcessNewPendingTask
<1> QED BY <1>1, <1>2, <1>3

\* processTaskExecutionStarting keeps the invariants: the rows change at the commit.
LEMMA ProcessTaskExecutionStartingSafe ==
  ASSUME TypeOK, RowsInv, NEW e \in Exec, ProcessTaskExecutionStarting(e)
  PROVE  QuietInv'
BY DEF ProcessTaskExecutionStarting, NoEffect, rowVars, RowsInv, QuietInv, OneUnsettled,
       RestingQuiet, Unsettled

\* processTaskExecutionComplete keeps the invariants.
LEMMA ProcessTaskExecutionCompleteSafe ==
  ASSUME TypeOK, RowsInv, NEW e \in Exec, ProcessTaskExecutionComplete(e)
  PROVE  QuietInv'
<1>1. CASE NoEffect
  BY <1>1, NoEffectSafe
<1>2. CASE ~ NoEffect
  <2>1. /\ CanFinalize(e)
        /\ exec' = [exec EXCEPT ![e] = Mark(@, "FINALIZED")]
        /\ taskState' = [taskState EXCEPT ![TaskOf(e)] = "COMPLETE"]
    BY <1>2 DEF ProcessTaskExecutionComplete
  <2> QED BY <2>1, SettleAndRestSafe DEF TaskResting
<1> QED BY <1>1, <1>2

\* processTaskExecutionEngineFailed keeps the invariants.
LEMMA ProcessTaskExecutionEngineFailedSafe ==
  ASSUME TypeOK, RowsInv, NEW e \in Exec, ProcessTaskExecutionEngineFailed(e)
  PROVE  QuietInv'
<1>1. CASE NoEffect
  BY <1>1, NoEffectSafe
<1>2. CASE ~ NoEffect
  <2>1. /\ CanFinalize(e)
        /\ exec' = [exec EXCEPT ![e] = Mark(@, "FINALIZED")]
        /\ taskState' = [taskState EXCEPT ![TaskOf(e)] = "FAILED"]
    BY <1>2 DEF ProcessTaskExecutionEngineFailed
  <2> QED BY <2>1, SettleAndRestSafe DEF TaskResting
<1> QED BY <1>1, <1>2

\* processTaskExecutionFailed keeps the invariants: the retry replaces the one
\* execution of its task that was unsettled.
LEMMA ProcessTaskExecutionFailedSafe ==
  ASSUME TypeOK, RowsInv, NEW e \in Exec, ProcessTaskExecutionFailed(e)
  PROVE  QuietInv'
<1> DEFINE t == TaskOf(e)
           finalized == [exec EXCEPT ![e] = Mark(@, "FINALIZED")]
<1>0. /\ t \in Task
      /\ finalized[e].state = "FINALIZED"
      /\ finalized \in [Exec -> ExecRow]
      /\ \A d \in Exec \ {e} : finalized[d] = exec[d]
      /\ \A d \in Exec : TaskOf(d) \in Task
  BY MarkType, TaskOfType DEF TypeOK, ExecState
<1>1. CASE CanFinalize(e) /\ taskState[t] = "ACTIVE" /\ DecideExecutionRetry(e)
  <2> DEFINE n == NewExec(t)
  <2>1. /\ UseExecId(t) /\ exec' = [finalized EXCEPT ![n] = NewRow("SCHEDULED")]
        /\ UNCHANGED taskState
    BY <1>1 DEF ProcessTaskExecutionFailed
  <2>2. n \in Exec /\ TaskOf(n) = t
    BY <1>0, <2>1, UseExecIdType DEF NewExec, TaskOf
  <2> HIDE DEF finalized, n, t
  <2>3. /\ exec'[n].state = "SCHEDULED"
        /\ \A d \in Exec \ {n} : exec'[d] = finalized[d]
    BY <1>0, <2>1, <2>2, NewRowType DEF ExecState
  <2>4. Unsettled(e)
    BY <1>1, FinalizeFrom DEF Unsettled, ExecUnsettled
  <2>5. \A d \in Exec : TaskOf(d) = t /\ d # n => exec'[d].state \notin ExecUnsettled
    BY <1>0, <2>3, <2>4 DEF RowsInv, OneUnsettled, Unsettled, ExecUnsettled, ExecLive, t
  <2>6. \A d \in Exec : TaskOf(d) # t => exec'[d] = exec[d]
    BY <1>0, <2>2, <2>3 DEF t
  <2>7. OneUnsettled'
    BY <2>2, <2>5, <2>6 DEF RowsInv, OneUnsettled, Unsettled
  <2>8. RestingQuiet'
    BY <1>0, <1>1, <2>1, <2>6 DEF RowsInv, RestingQuiet, TaskResting, t
  <2> QED BY <2>7, <2>8 DEF QuietInv
<1>2. CASE CanFinalize(e) /\ taskState[t] = "ACTIVE" /\ ~ DecideExecutionRetry(e)
  <2>1. exec' = finalized /\ taskState' = [taskState EXCEPT ![t] = "FAILED"]
    BY <1>2 DEF ProcessTaskExecutionFailed
  <2> QED BY <1>2, <2>1, SettleAndRestSafe DEF TaskResting
<1>3. CASE CanFinalize(e) /\ taskState[t] # "ACTIVE"
  <2>1. exec' = finalized /\ UNCHANGED taskState
    BY <1>3 DEF ProcessTaskExecutionFailed
  <2> HIDE DEF finalized
  <2> QED BY <1>0, <2>1
          DEF RowsInv, QuietInv, OneUnsettled, Unsettled, RestingQuiet, ExecUnsettled, ExecLive
<1>4. CASE ~ CanFinalize(e)
  BY <1>4, NoEffectSafe DEF ProcessTaskExecutionFailed
<1> QED BY <1>1, <1>2, <1>3, <1>4

\* processTaskExecutionTimedOut keeps the invariants.
LEMMA ProcessTaskExecutionTimedOutSafe ==
  ASSUME TypeOK, RowsInv, NEW e \in Exec, ProcessTaskExecutionTimedOut(e)
  PROVE  QuietInv'
<1>1. CASE NoEffect
  BY <1>1, NoEffectSafe
<1>2. CASE ~ NoEffect
  <2> DEFINE settled == [exec EXCEPT ![e] = Mark(Mark(@, "FAILED"), "FINALIZED")]
  <2>1. /\ taskState' = [taskState EXCEPT ![TaskOf(e)] = "TIMED_OUT"]
        /\ exec' = CancelOngoing(settled, TaskOf(e))
    BY <1>2 DEF ProcessTaskExecutionTimedOut
  <2>2. /\ settled \in [Exec -> ExecRow] /\ TaskOf(e) \in Task
        /\ settled[e].state = "FINALIZED"
        /\ \A d \in Exec \ {e} : settled[d] = exec[d]
    BY MarkType, TaskOfType DEF TypeOK, ExecState
  <2> HIDE DEF settled
  <2> QED BY <2>1, <2>2, CancelAndRestSafe DEF TaskResting
<1> QED BY <1>1, <1>2

\* processCancelTask and processTaskTimeout keep the invariants.
LEMMA ProcessCancelTaskSafe ==
  ASSUME TypeOK, RowsInv, NEW t \in Task,
         ProcessCancelTask(t) \/ ProcessTaskTimeout(t)
  PROVE  QuietInv'
<1>1. CASE NoEffect
  BY <1>1, NoEffectSafe
<1>2. CASE ~ NoEffect
  <2>1. /\ exec' = CancelOngoing(exec, t)
        /\ \/ taskState' = [taskState EXCEPT ![t] = "CANCELLED"]
           \/ taskState' = [taskState EXCEPT ![t] = "TIMED_OUT"]
    BY <1>2 DEF ProcessCancelTask, ProcessTaskTimeout
  <2>2. exec \in [Exec -> ExecRow]
    BY DEF TypeOK
  <2> QED BY <2>1, <2>2, CancelAndRestSafe DEF TaskResting
<1> QED BY <1>1, <1>2

\* Whatever handler a message or a sweep item is dispatched to keeps the invariants.
LEMMA HandleSafe ==
  ASSUME TypeOK, RowsInv,
         NEW m \in SchedMsg \cup SweepItem, m.type # "TASK_MAINTENANCE", Handle(m)
  PROVE  QuietInv'
BY HandleCases, ProcessNewPendingTaskSafe, ProcessTaskExecutionStartingSafe,
   ProcessTaskExecutionCompleteSafe, ProcessTaskExecutionEngineFailedSafe,
   ProcessTaskExecutionFailedSafe, ProcessTaskExecutionTimedOutSafe, ProcessCancelTaskSafe

\* The commit of what was sent.
LEMMA CommitSafe ==
  ASSUME TypeOK, RowsInv, pend # None, CommitRows
  PROVE  QuietInv'
<1> DEFINE e == pend
           t == TaskOf(pend)
<1>1. e \in Exec /\ t \in Task /\ \A d \in Exec : TaskOf(d) \in Task
  BY TaskOfType DEF TypeOK
<1>2. CASE exec[e].state = "NONE"
  <2>1. /\ exec' = [exec EXCEPT ![e] = NewRow("ENQUEUED")]
        /\ taskState' = [taskState EXCEPT ![t] = "ACTIVE"]
    BY <1>2 DEF CommitRows
  <2>2. taskState[t] = "PENDING"
    BY <1>2 DEF RowsInv, Sending
  <2>3. \A d \in Exec : TaskOf(d) = t => exec[d].state = "NONE"
    BY <2>2 DEF RowsInv, PendingBare
  <2>4. exec'[e].state = "ENQUEUED" /\ \A d \in Exec \ {e} : exec'[d] = exec[d]
    BY <1>1, <2>1, NewRowType DEF TypeOK, ExecState
  <2>5. \A x \in Task : taskState'[x] = IF x = t THEN "ACTIVE" ELSE taskState[x]
    BY <2>1 DEF TypeOK
  <2>6. OneUnsettled'
    BY <1>1, <2>3, <2>4 DEF RowsInv, OneUnsettled, Unsettled, ExecUnsettled, ExecLive
  <2>7. RestingQuiet'
    BY <1>1, <2>4, <2>5 DEF RowsInv, RestingQuiet, TaskResting
  <2> QED BY <2>6, <2>7 DEF QuietInv
<1>3. CASE exec[e].state # "NONE"
  <2>1. exec' = [exec EXCEPT ![e] = Mark(@, "ENQUEUED")] /\ UNCHANGED taskState
    BY <1>3 DEF CommitRows
  <2>2. exec[e].state \in {"DEFINED", "SCHEDULED"}
    BY <1>3 DEF RowsInv, Sending
  <2>3. exec'[e].state = "ENQUEUED" /\ \A d \in Exec \ {e} : exec'[d] = exec[d]
    BY <1>1, <2>1, MarkType DEF TypeOK, ExecState
  <2>4. \A d \in Exec : Unsettled(d)' <=> Unsettled(d)
    BY <2>2, <2>3 DEF Unsettled, ExecUnsettled, ExecLive
  <2>5. OneUnsettled'
    BY <2>4 DEF RowsInv, OneUnsettled
  <2>6. RestingQuiet'
    BY <2>1, <2>2, <2>3 DEF RowsInv, RestingQuiet, ExecLive
  <2> QED BY <2>5, <2>6 DEF QuietInv
<1> QED BY <1>2, <1>3

\* A step that leaves the rows alone.
LEMMA RowsUnchangedSafe ==
  ASSUME TypeOK, RowsInv, UNCHANGED <<taskState, exec>>
  PROVE  QuietInv'
<1>1. WorkersMove
  BY DEF WorkersMove, TypeOK
<1> QED BY <1>1, WorkersMoveSafe

\* Every step of the scheduler, its failures and its crash keep the invariants.
LEMMA SchedulerSafe ==
  ASSUME TypeInv, RowsInv,
         SchedulerStep \/ MaintenanceTick \/ HandlerAborts \/ SweepItemAborts \/ SchedCrash
  PROVE  QuietInv'
<1>0. TypeOK
  BY DEF TypeInv
<1>1. CASE SchedHandle
  <2>1. cur \in SchedMsg /\ cur.type # "TASK_MAINTENANCE" /\ Handle(cur)
    BY <1>1 DEF SchedHandle, TypeInv, Holding
  <2> QED BY <1>0, <2>1, HandleSafe
<1>2. CASE SweepOne
  <2>1. PICK m \in todo : Handle(m)
    BY <1>2 DEF SweepOne
  <2>2. m \in SweepItem /\ m.type # "TASK_MAINTENANCE"
    BY <1>0 DEF TypeOK, SweepItem, TaskMsgTypes
  <2> QED BY <1>0, <2>1, <2>2, HandleSafe
<1>3. CASE SchedCommit
  BY <1>0, <1>3, CommitSafe DEF SchedCommit
<1>4. CASE UNCHANGED <<taskState, exec>>
  BY <1>0, <1>4, RowsUnchangedSafe
<1> QED BY <1>1, <1>2, <1>3, <1>4
        DEF SchedulerStep, SchedStart, RecoverPop, RecoverPush, RecoverDone, MaintenanceTick,
            SchedDequeue, SweepBegin, SweepNext, SweepEnd, SchedDelete, HandlerAborts,
            SweepItemAborts, SchedCrash, rowVars

-----------------------------------------------------------------------------

\* No worker transaction is between its read and its write.
NothingRead == \A w \in Worker, e \in Exec : seen[w][e] = None

\* A step of a worker that is not interrupted is a worker's move.
LEMMA IsolatedMoves ==
  ASSUME "staleRead" \notin FaultKinds, TypeOK, NothingRead, NEW w \in Worker,
         \/ ReceiverStep(w) \/ WorkerFault(w)
         \/ \E e \in Exec : ExecutorStep(w, e)
  PROVE  WorkersMove /\ NothingRead' /\ UNCHANGED pend
<1>1. WorkersWrite /\ ReadsEnd
  BY ReceiverWrites, ExecutorWrites, WorkerFaultWrites
<1>2. \A v \in Worker, e \in Exec : seen[v][e] \notin {"ENQUEUED", "ACQUIRED", "PROCESSING"}
  BY NoneAssumption DEF NothingRead, ExecState
<1> QED BY <1>1, <1>2 DEF WorkersWrite, ReadsEnd, WorkersMove, NothingRead

\* Clients and the clock change no execution, and take no task to rest.
LEMMA EnvironmentSafe ==
  ASSUME CoreInv, RowsInv, ClientStep \/ ClockStep
  PROVE  QuietInv'
<1>1. UNCHANGED exec /\ RowsMove
  BY EnvironmentMoves DEF CoreMove
<1>2. OneUnsettled'
  BY <1>1 DEF RowsInv, OneUnsettled, Unsettled
<1>3. \A t \in Task : taskState'[t] \in TaskResting => taskState[t] = taskState'[t]
  BY DEF ClientStep, ClockStep, DefineTask, SubmitTask, CancelTask, Poke, DeadlinePasses,
         BecomesDue, rowVars, CoreInv, TypeInv, TypeOK, TaskResting
<1>4. RestingQuiet'
  BY <1>1, <1>3, TaskOfType DEF RowsInv, RestingQuiet
<1> QED BY <1>2, <1>4 DEF QuietInv

-----------------------------------------------------------------------------

SafetyInv == TypeInv /\ NothingRead /\ RowsInv /\ IdsUsed

\* With no transaction open, it is the invariant above and more.
LEMMA SafetyIsCore ==
  NothingRead => (SafetyInv <=> CoreInv /\ QuietInv)
<1>1. NothingRead => ReadsReleased
  BY NoneAssumption DEF NothingRead, ReadsReleased, Released
<1> QED BY <1>1 DEF SafetyInv, RowsInv, QuietInv, CoreInv

\* The inductive invariant holds of the empty database.
LEMMA SafetyInit == Init => SafetyInv
<1> SUFFICES ASSUME Init PROVE SafetyInv
  OBVIOUS
<1>1. NothingRead
  BY DEF Init, NothingRead
<1>2. \A e \in Exec : exec[e].state = "NONE"
  BY DEF Init, NoRow
<1>3. QuietInv
  BY <1>2 DEF QuietInv, OneUnsettled, Unsettled, ExecUnsettled, ExecLive, RestingQuiet
<1> QED BY <1>1, <1>3, CoreInit, SafetyIsCore

\* Every step of the engine keeps the inductive invariant.
LEMMA SafetyNext ==
  ASSUME "staleRead" \notin FaultKinds, SafetyInv, [Next]_vars
  PROVE  SafetyInv'
<1>0. TypeInv /\ TypeOK /\ NothingRead /\ RowsInv /\ CoreInv
  BY SafetyIsCore DEF SafetyInv, TypeInv
<1>1. CoreInv'
  BY <1>0, CoreNext
<1>2. CASE QuietInv' /\ NothingRead'
  <2>1. NothingRead' => (SafetyInv' <=> CoreInv' /\ QuietInv')
    BY SafetyIsCore, PTL
  <2> QED BY <1>1, <1>2, <2>1
<1>3. CASE SchedulerStep \/ MaintenanceTick \/ HandlerAborts \/ SweepItemAborts \/ SchedCrash
  BY <1>0, <1>2, <1>3, SchedulerCore, SchedulerSafe DEF NothingRead
<1>4. CASE WorkersMove /\ NothingRead'
  BY <1>0, <1>2, <1>4, WorkersMoveSafe
<1>5. CASE ClientStep \/ ClockStep
  BY <1>0, <1>2, <1>5, EnvironmentMoves, EnvironmentSafe DEF NothingRead
<1>6. CASE UNCHANGED vars
  <2>1. UNCHANGED <<taskState, exec, seen>>
    BY <1>6 DEF vars, rowVars, workVars
  <2> QED BY <1>0, <1>2, <2>1, RowsUnchangedSafe DEF NothingRead
<1> QED BY <1>0, <1>3, <1>4, <1>5, <1>6, IsolatedMoves DEF Next

\* The inductive invariant holds in every run without interrupted transactions.
LEMMA SafetyHolds ==
  ASSUME "staleRead" \notin FaultKinds
  PROVE  Spec => []SafetyInv
BY SafetyInit, SafetyNext, PTL DEF Spec

\* At most one execution of a task is unsettled, in every run of the engine over
\* a database that isolates a worker's transactions.
THEOREM OneUnsettledHolds ==
  ASSUME "staleRead" \notin FaultKinds
  PROVE  Spec => []OneUnsettled
<1>1. SafetyInv => OneUnsettled
  BY DEF SafetyInv, RowsInv
<1> QED BY <1>1, SafetyHolds, PTL

\* A task at rest has no execution that may still be started or is recorded as
\* running: cancel, timeout, success and failure all leave none behind.
THEOREM RestingQuietHolds ==
  ASSUME "staleRead" \notin FaultKinds
  PROVE  Spec => []RestingQuiet
<1>1. SafetyInv => RestingQuiet
  BY DEF SafetyInv, RowsInv
<1> QED BY <1>1, SafetyHolds, PTL
=============================================================================
