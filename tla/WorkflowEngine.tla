--------------------------- MODULE WorkflowEngine ---------------------------
(***************************************************************************)
(* The workflow engine: one scheduler that drives a DAG of steps, each run *)
(* as a task of the task engine.                                           *)
(*                                                                         *)
(*   client --PROCESS, CANCEL, REVIVE--> wfQ --> scheduler --> out         *)
(*   scheduler --task--> task engine --audit event--> notify --> wfQ       *)
(*   scheduler, maintenance timer --> wfQ                                  *)
(*                                                                         *)
(* The task engine appears as what TaskService promises of a task: it is   *)
(* open until it comes to rest, once.  Notifications are best effort: the  *)
(* producer may publish an event late, out of order or again, and only a   *)
(* scheduler that is subscribed hears it.                                  *)
(***************************************************************************)
EXTENDS WorkflowHandlers

Init ==
  /\ wf = "ABSENT"
  /\ step = [s \in Step |-> "DEFINED"]
  /\ parents = [s \in Step |-> {}]
  /\ deadline = 0
  /\ task = [s \in Step |-> <<>>]
  /\ feed = {} /\ now = 0
  /\ wfQ = <<>> /\ wfBuf = <<>>
  /\ spc = "down" /\ cur = None /\ out = {}
  /\ pokes = 0 /\ faults = 0

-----------------------------------------------------------------------------
\* Clients and the clock

\* The workflow and its steps are written in one transaction, if the graph is
\* accepted.
DefineWorkflow(G, d) ==
  /\ wf = "ABSENT"
  /\ IsValid(G)
  /\ wf' = "PENDING" /\ parents' = G /\ deadline' = d
  /\ UNCHANGED <<step, task, feed, now, schedVars, boundVars>>

Poke(kind, m) ==
  /\ wf # "ABSENT"
  /\ kind \in Requests /\ pokes < MaxPokes
  /\ pokes' = pokes + 1
  /\ wfQ' = Append(wfQ, m)
  /\ UNCHANGED <<rowVars, task, feed, now, wfBuf, spc, cur, out, faults>>

SubmitWorkflow == Poke("submit", ProcessMsg)
RequestCancel  == Poke("cancel", CancelMsg)
RequestRevive  == \E d \in 0..MaxTime : Poke("revive", ReviveMsg(d))

ClientStep ==
  \/ \E G \in [Step -> SUBSET Step], d \in 1..MaxTime : DefineWorkflow(G, d)
  \/ SubmitWorkflow \/ RequestCancel \/ RequestRevive

Tick ==
  /\ now < MaxTime
  /\ now' = now + 1
  /\ UNCHANGED <<rowVars, task, feed, schedVars, boundVars>>

-----------------------------------------------------------------------------
\* The task engine and the notifications

\* A step's task comes to rest, with whatever its step's processor returned, by
\* its deadline, or because the engine was asked to cancel it.
TaskRests(s, k, outcome) ==
  /\ k \in DOMAIN task[s] /\ task[s][k].state = "OPEN"
  /\ outcome = "TIMED_OUT" => now >= task[s][k].deadline
  /\ outcome = "CANCELLED" => task[s][k].asked
  /\ task' = [task EXCEPT ![s][k].state = outcome, ![s][k].asked = FALSE]
  /\ feed' = feed \cup {<<s, k>>}
  /\ UNCHANGED <<rowVars, now, schedVars, boundVars>>

Subscribed == spc \notin {"down", "recover"}

\* The producer publishes a task's event, and the subscriber's callback puts an
\* update on the scheduler's queue. With nobody subscribed the event is gone; a
\* failed publish, or a failed stamp after it, publishes the event again.
Notify(t, heard, stamped) ==
  /\ t \in feed
  /\ wfQ' = IF heard THEN Append(wfQ, TaskUpdate(t, task[t[1]][t[2]].state)) ELSE wfQ
  /\ feed' = IF stamped THEN feed \ {t} ELSE feed
  /\ UNCHANGED <<rowVars, task, now, wfBuf, spc, cur, out, pokes>>

Notified(t)       == Notify(t, Subscribed, TRUE) /\ UNCHANGED faults
NotifyLost(t)     == Subscribed /\ Fault("notifyLost") /\ Notify(t, FALSE, TRUE)
Republished(t)    == Subscribed /\ Fault("republish") /\ Notify(t, TRUE, FALSE)

TaskEngineStep ==
  \E s \in Step : \E k \in DOMAIN task[s], o \in TaskOutcome : TaskRests(s, k, o)

NotifyStep == \E t \in feed : Notified(t) \/ NotifyLost(t) \/ Republished(t)

-----------------------------------------------------------------------------
\* The scheduler's process

SchedulerOnly == UNCHANGED <<feed, now, pokes>>

SchedStart ==
  /\ spc = "down"
  /\ spc' = "recover"
  /\ SchedulerOnly
  /\ UNCHANGED <<rowVars, task, wfQ, wfBuf, cur, out, faults>>

RecoverPop ==
  /\ spc = "recover" /\ cur = None /\ wfBuf # <<>>
  /\ cur' = Head(wfBuf) /\ wfBuf' = Tail(wfBuf)
  /\ SchedulerOnly
  /\ UNCHANGED <<rowVars, task, wfQ, spc, out, faults>>

RecoverPush ==
  /\ spc = "recover" /\ cur # None
  /\ wfQ' = <<cur>> \o wfQ /\ cur' = None
  /\ SchedulerOnly
  /\ UNCHANGED <<rowVars, task, wfBuf, spc, out, faults>>

RecoverDone ==
  /\ spc = "recover" /\ cur = None /\ wfBuf = <<>>
  /\ spc' = "idle"
  /\ SchedulerOnly
  /\ UNCHANGED <<rowVars, task, wfQ, wfBuf, cur, out, faults>>

\* Bound: the timer is held back while MaxBacklog messages wait.
MaintenanceTick ==
  /\ Subscribed
  /\ Len(wfQ) < MaxBacklog
  /\ wfQ' = Append(wfQ, MaintenanceMsg)
  /\ SchedulerOnly
  /\ UNCHANGED <<rowVars, task, wfBuf, spc, cur, out, faults>>

Dequeue ==
  /\ spc = "idle" /\ wfQ # <<>>
  /\ cur' = Head(wfQ) /\ wfQ' = Tail(wfQ) /\ wfBuf' = Append(wfBuf, Head(wfQ))
  /\ spc' = "handle"
  /\ SchedulerOnly
  /\ UNCHANGED <<rowVars, task, out, faults>>

HandleOne ==
  /\ spc = "handle"
  /\ Handle(cur)
  /\ spc' = "send"
  /\ SchedulerOnly
  /\ UNCHANGED <<wfQ, wfBuf, cur, faults>>

\* Mutant: a cancel is put on the scheduler's own queue.
Deliver_OwnQueue(m) == wfQ' = Append(wfQ, m) /\ UNCHANGED task

\* One poke: onto the scheduler's own queue, or a cancel to the task engine,
\* which has no effect on a task that is at rest.
Deliver(m) ==
  IF m.type = "CANCEL_TASK"
  THEN /\ task' = IF IsOpen(m.task)
                  THEN [task EXCEPT ![m.task[1]][m.task[2]].asked = TRUE] ELSE task
       /\ UNCHANGED wfQ
  ELSE wfQ' = Append(wfQ, m) /\ UNCHANGED task

NextToSend(m) == m \in out /\ \A n \in out : SendOrder(m) <= SendOrder(n)

SendOne ==
  /\ spc = "send"
  /\ \E m \in out : NextToSend(m) /\ Deliver(m) /\ out' = out \ {m}
  /\ SchedulerOnly
  /\ UNCHANGED <<rowVars, wfBuf, spc, cur, faults>>

DeleteOne ==
  /\ spc = "send" /\ out = {}
  /\ wfBuf' = RemoveFirst(wfBuf, cur) /\ cur' = None
  /\ spc' = "idle"
  /\ SchedulerOnly
  /\ UNCHANGED <<rowVars, task, wfQ, out, faults>>

SchedulerStep ==
  \/ SchedStart \/ RecoverPop \/ RecoverPush \/ RecoverDone
  \/ Dequeue \/ HandleOne \/ SendOne \/ DeleteOne

\* A poke whose send fails is logged and forgotten.
PokeLost ==
  /\ Fault("pokeLost")
  /\ spc = "send"
  /\ \E m \in out : NextToSend(m) /\ out' = out \ {m}
  /\ SchedulerOnly
  /\ UNCHANGED <<rowVars, task, wfQ, wfBuf, spc, cur>>

\* A handler's transaction fails; the message is deleted all the same, and a
\* database error stops the loop.
HandlerAborts ==
  /\ Fault("txAbort")
  /\ spc = "handle"
  /\ wfBuf' = RemoveFirst(wfBuf, cur) /\ cur' = None
  /\ spc' \in {"idle", "down"}
  /\ SchedulerOnly
  /\ UNCHANGED <<rowVars, task, wfQ, out>>

SchedCrash ==
  /\ Fault("schedCrash")
  /\ spc # "down"
  /\ spc' = "down" /\ cur' = None /\ out' = {}
  /\ SchedulerOnly
  /\ UNCHANGED <<rowVars, task, wfQ, wfBuf>>

-----------------------------------------------------------------------------
Next ==
  \/ ClientStep \/ Tick
  \/ TaskEngineStep \/ NotifyStep
  \/ SchedulerStep \/ MaintenanceTick
  \/ PokeLost \/ HandlerAborts \/ SchedCrash

Spec == Init /\ [][Next]_vars

\* The scheduler is started again and goes on, its timer ticks, and a step's
\* task comes to rest: past its deadline by TimedTasksRest of TaskEngine, before
\* it unless it is stranded (OnlyStrandedLinger), which is assumed away here.
\* Nothing is owed by the clients, the clock, the notifications or the faults.
Fairness ==
  /\ WF_vars(SchedulerStep)
  /\ WF_vars(MaintenanceTick)
  /\ WF_vars(TaskEngineStep)

FairSpec == Spec /\ Fairness

-----------------------------------------------------------------------------
(* Type invariant *)

\* Rows, queues and memory hold what the code puts there; the loop holds a
\* message exactly where it handles one, and owes pokes only after a commit.
TypeOK ==
  /\ wf \in WorkflowState \cup {"ABSENT"}
  /\ step \in [Step -> StepState]
  /\ parents \in [Step -> SUBSET Step]
  /\ deadline \in 0..MaxTime /\ now \in 0..MaxTime
  /\ task \in [Step -> Seq(TaskRow)]
  /\ feed \subseteq Linked
  /\ wfQ \in Seq(WorkflowMsg) /\ wfBuf \in Seq(WorkflowMsg)
  /\ spc \in {"down", "recover", "idle", "handle", "send"}
  /\ cur \in WorkflowMsg \cup {None}
  /\ out \subseteq WorkflowMsg \cup {CancelTask(t) : t \in Linked}
  /\ pokes \in 0..MaxPokes /\ faults \in 0..MaxFaults

-----------------------------------------------------------------------------
(* Safety *)

\* A step that was let go has all its parents complete, through time-outs,
\* revivals, redelivered updates and sweeps (workflow/DESIGN.md, startability).
ParentsFirst ==
  \A s \in Step : step[s] \in {"PENDING", "RUNNING", "COMPLETE", "FAILED", "CANCELLING"} =>
    \A p \in parents[s] : step[p] = "COMPLETE"

\* Dispatch is idempotent (workflow/DESIGN.md, Design Invariant 3): no task of a
\* step but the most recent is ever live.
EarlierTasksRest ==
  \A s \in Step : \A k \in DOMAIN task[s] : task[s][k].state = "OPEN" => k = Len(task[s])

\* A step is COMPLETE, or FAILED, only if one of its tasks is, whatever the sweep
\* and late or repeated notifications made of the others.
ResultsHaveTasks ==
  \A s \in Step : step[s] \in {"COMPLETE", "FAILED"} =>
    \E k \in DOMAIN task[s] : task[s][k].state = step[s]

\* The workflow's state and its steps' states agree: each aggregate state says
\* which step states are still possible.
StatesAgree ==
  /\ wf \in {"ABSENT", "PENDING"} => \A s \in Step : step[s] = "DEFINED"
  /\ wf = "RUNNING" => /\ \A s \in Step : step[s] \notin {"FAILED", "TIMED_OUT", "CANCELLING"}
                       /\ \E s \in Step : step[s] # "COMPLETE"
  /\ wf = "FAILED" => /\ \A s \in Step : step[s] \notin {"TIMED_OUT", "CANCELLING"}
                      /\ \E s \in Step : step[s] = "FAILED"
  /\ wf = "TIMED_OUT" => /\ \A s \in Step : step[s] \in {"COMPLETE", "TIMED_OUT", "CANCELLED"}
                         /\ \E s \in Step : step[s] # "COMPLETE"
  /\ wf = "CANCELLING" => /\ \A s \in Step : step[s] \in {"COMPLETE", "CANCELLING", "CANCELLED"}
                          /\ \E s \in Step : step[s] = "CANCELLING"
  /\ wf = "CANCELLED" => \A s \in Step : step[s] \in {"COMPLETE", "CANCELLED"}
  /\ wf = "COMPLETE" => \A s \in Step : step[s] = "COMPLETE"

(* Liveness *)

\* A running workflow does not run for good, with no notification and no clock
\* needed: the sweep alone moves every step on from what its task became.
RunningSettles == wf = "RUNNING" ~> wf # "RUNNING"

\* A workflow that is defined is started, its submission lost or not, and one
\* that is being cancelled drains, unless the deadline passes first.
SettlesInTime ==
  wf \in {"PENDING", "CANCELLING"} ~>
    (wf \in {"COMPLETE", "FAILED", "TIMED_OUT", "CANCELLED"} \/ Late)

-----------------------------------------------------------------------------
(* What the documents say and the code does not do *)

\* workflow/DESIGN.md: the links to an earlier attempt's task are harmless, and a
\* step is CANCELLED with its workflow. A late CANCELLED notification of a timed-out
\* attempt cancels the step for good after the user revived it.
OnlyCancelCancels ==
  \A s \in Step : step[s] = "CANCELLED" => wf \in {"CANCELLING", "CANCELLED"}

\* workflow/DESIGN.md: the backstop guarantees that a CANCELLING workflow settles.
\* Past its deadline the sweep tries to time it out, which is refused, each time.
CancellingSettles == wf = "CANCELLING" ~> wf = "CANCELLED"
=============================================================================
