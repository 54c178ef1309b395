--------------------------- MODULE TaskScheduler ----------------------------
(***************************************************************************)
(* The scheduler process: one loop that takes a message at a time off its  *)
(* queue, and a maintenance timer that puts a message of its own there.    *)
(* A step is what happens between two points at which another process can  *)
(* look: a queue operation, a committed transaction, a listing.            *)
(***************************************************************************)
EXTENDS TaskHandlers

-----------------------------------------------------------------------------
\* The maintenance sweep: five listings, each handled before the next is made

TasksIn(states, type) == {Msg(type, t) : t \in {x \in Task : taskState[x] \in states}}
ExecsIn(states, type) == {Msg(type, e) : e \in {x \in Exec : exec[x].state \in states}}

\* Mutant: the comparison with the deadline never holds.
PastDeadline_Never(t) == t \notin Task

PastDeadline(t) == t \in late

\* Mutants: a failed execution is dispatched as a completion; a processed one
\* is not listed.
ListedEnded_AllComplete == ExecsIn({"PROCESSED", "FAILED"}, "EXECUTE_SUCCEEDED")
ListedEnded_FailedOnly  == ExecsIn({"FAILED"}, "EXECUTE_FAILED")

ListedEnded ==
  ExecsIn({"PROCESSED"}, "EXECUTE_SUCCEEDED") \cup ExecsIn({"FAILED"}, "EXECUTE_FAILED")

Listed(p) ==
  CASE p = 1 -> TasksIn({"PENDING"}, "NEW_TASK") \cup TasksIn({"CANCELLING"}, "CANCEL_TASK")
    [] p = 2 -> {m \in TasksIn({"ACTIVE"}, "TASK_TIMEOUT") : PastDeadline(m.id)}
    [] p = 3 -> ListedEnded
    [] p = 4 -> {m \in ExecsIn({"SCHEDULED"}, "EXECUTE_START") : m.id \in due}
    [] p = 5 -> {m \in ExecsIn(ExecLive, "EXECUTE_TIMEOUT") : PastDeadline(TaskOf(m.id))}

\* A step of the scheduler alone: nothing of the clients, the clock or the
\* workers changes.
SchedulerOnly == UNCHANGED <<clockVars, recvBuf, workVars, pokes>>

SchedStart ==
  /\ spc = "down"
  /\ spc' = "recover"
  /\ SchedulerOnly
  /\ UNCHANGED <<rowVars, schedQ, schedBuf, execQ, cur, phase, todo, pend, faults>>

\* recoverBufferedMessages: pop one off the buffer, then put it back at the
\* front of the main queue.
RecoverPop ==
  /\ spc = "recover" /\ cur = None /\ schedBuf # <<>>
  /\ cur' = Head(schedBuf)
  /\ schedBuf' = Tail(schedBuf)
  /\ SchedulerOnly
  /\ UNCHANGED <<rowVars, schedQ, execQ, spc, phase, todo, pend, faults>>

RecoverPush ==
  /\ spc = "recover" /\ cur # None
  /\ schedQ' = <<cur>> \o schedQ
  /\ cur' = None
  /\ SchedulerOnly
  /\ UNCHANGED <<rowVars, schedBuf, execQ, spc, phase, todo, pend, faults>>

RecoverDone ==
  /\ spc = "recover" /\ cur = None /\ schedBuf = <<>>
  /\ spc' = "idle"
  /\ SchedulerOnly
  /\ UNCHANGED <<rowVars, schedQ, schedBuf, execQ, cur, phase, todo, pend, faults>>

\* The maintenance timer. Bound: one maintenance message waits at a time.
MaintenanceTick ==
  /\ spc \notin {"down", "recover"}
  /\ ~ Contains(schedQ, Msg("TASK_MAINTENANCE", None))
  /\ schedQ' = Append(schedQ, Msg("TASK_MAINTENANCE", None))
  /\ SchedulerOnly
  /\ UNCHANGED <<rowVars, schedBuf, execQ, schedVars, faults>>

SchedDequeue ==
  /\ spc = "idle" /\ schedQ # <<>>
  /\ cur' = Head(schedQ)
  /\ schedQ' = Tail(schedQ)
  /\ schedBuf' = Append(schedBuf, Head(schedQ))
  /\ spc' = "handle"
  /\ SchedulerOnly
  /\ UNCHANGED <<rowVars, execQ, phase, todo, pend, faults>>

\* One queue message handled, up to its commit or to its send.
SchedHandle ==
  /\ spc = "handle" /\ pend = None
  /\ cur.type # "TASK_MAINTENANCE"
  /\ Handle(cur)
  /\ spc' = IF pend' = None THEN "delete" ELSE "handle"
  /\ SchedulerOnly
  /\ UNCHANGED <<schedQ, schedBuf, cur, phase, todo, faults>>

SchedCommit ==
  /\ pend # None
  /\ CommitRows
  /\ pend' = None
  /\ spc' = IF spc = "handle" THEN "delete" ELSE spc
  /\ SchedulerOnly
  /\ UNCHANGED <<nextExec, audit, schedQ, schedBuf, execQ, cur, phase, todo, faults>>

\* performMaintenance: make the first listing, handle what it holds item by
\* item (the list's order is not modelled), make the next.
SweepBegin ==
  /\ spc = "handle" /\ cur.type = "TASK_MAINTENANCE"
  /\ spc' = "sweep"
  /\ phase' = 1
  /\ todo' = Listed(1)
  /\ SchedulerOnly
  /\ UNCHANGED <<rowVars, schedQ, schedBuf, execQ, cur, pend, faults>>

SweepOne ==
  /\ spc = "sweep" /\ pend = None
  /\ \E m \in todo : Handle(m) /\ todo' = todo \ {m}
  /\ SchedulerOnly
  /\ UNCHANGED <<schedQ, schedBuf, spc, cur, phase, faults>>

SweepNext ==
  /\ spc = "sweep" /\ pend = None /\ todo = {} /\ phase < 5
  /\ phase' = phase + 1
  /\ todo' = Listed(phase + 1)
  /\ SchedulerOnly
  /\ UNCHANGED <<rowVars, schedQ, schedBuf, execQ, spc, cur, pend, faults>>

SweepEnd ==
  /\ spc = "sweep" /\ pend = None /\ todo = {} /\ phase = 5
  /\ spc' = "delete"
  /\ phase' = 0
  /\ SchedulerOnly
  /\ UNCHANGED <<rowVars, schedQ, schedBuf, execQ, cur, todo, pend, faults>>

\* A handled message, whatever its handler returned, is deleted.
SchedDelete ==
  /\ spc = "delete"
  /\ schedBuf' = RemoveFirst(schedBuf, cur)
  /\ cur' = None
  /\ spc' = "idle"
  /\ SchedulerOnly
  /\ UNCHANGED <<rowVars, schedQ, execQ, phase, todo, pend, faults>>

SchedulerStep ==
  \/ SchedStart \/ RecoverPop \/ RecoverPush \/ RecoverDone
  \/ SchedDequeue \/ SchedHandle \/ SchedCommit
  \/ SweepBegin \/ SweepOne \/ SweepNext \/ SweepEnd
  \/ SchedDelete

\* A handler's transaction fails, before its send or at its commit. The message
\* is deleted all the same; a database error also stops the loop, and another
\* process start is needed.
HandlerAborts ==
  /\ Fault("txAbort")
  /\ spc = "handle"
  /\ schedBuf' = RemoveFirst(schedBuf, cur)
  /\ cur' = None
  /\ pend' = None
  /\ spc' \in {"idle", "down"}
  /\ SchedulerOnly
  /\ UNCHANGED <<rowVars, schedQ, execQ, phase, todo>>

\* In a sweep an item's failure is logged and the next item taken.
SweepItemAborts ==
  /\ Fault("txAbort")
  /\ spc = "sweep"
  /\ \/ pend # None /\ todo' = todo
     \/ pend = None /\ \E m \in todo : todo' = todo \ {m}
  /\ pend' = None
  /\ SchedulerOnly
  /\ UNCHANGED <<rowVars, schedQ, schedBuf, execQ, spc, cur, phase>>

SchedCrash ==
  /\ Fault("schedCrash")
  /\ spc # "down"
  /\ spc' = "down" /\ cur' = None /\ phase' = 0 /\ todo' = {} /\ pend' = None
  /\ SchedulerOnly
  /\ UNCHANGED <<rowVars, schedQ, schedBuf, execQ>>
=============================================================================
