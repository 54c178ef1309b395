# Tasking: a TLA+ development

`tasking` is a Go library with a task engine (submit a task, run it on a worker, retry it, cancel it,
time it out), a workflow engine on top of it (DAGs of steps, each step a task), and a notification
service that tails the audit log. Its processes share a database and exchange messages over Redis
queues. This directory models the task engine, the workflow engine, the notification producer, the message queue and the
retry policy, checks them with TLC, and proves their safety with TLAPS, and that the task engine and the producer implement
an abstract specification of what they promise.
Paths below are relative to `src/`.

## 1. Inventory

### Components

| component | code | state it keeps | operations |
|---|---|---|---|
| row state machines | `models/task.go`, `models/workflow.go` | none | `ValidNextState`, `IsStateAtOrPast`, `HasEnded`, `NextDelay`, the cycle check of a workflow's steps |
| messages | `models/ipc.go` | none | one constructor per message type, encode and decode |
| database layer | `db/task.go`, `db/workflow.go`, `db/audit.go`, `db/client.go` | tables of tasks, executions, workflows, steps, audit events | define, list, one `Mark*` per state; each `Mark*` reads the row, checks the transition, writes |
| reliable queue | `common/queue.go` | a Redis list per queue and a buffer list per reader | enqueue, dequeue into the buffer, delete from the buffer, pop the buffer, re-enqueue at the front |
| task client | `task/client.go` | none | define (row first, then a `NEW_TASK` message), submit, cancel, wait |
| task scheduler | `task/scheduler*.go` | its loop; queue and buffer in Redis | recover its buffer; per message one handler in one transaction; a maintenance sweep on a timer |
| task receiver | `task/receiver.go` | the set of instances it has handed over; its buffer in Redis | `Initialize`, claim an instance, submit it, report and delete on completion |
| task executor | `task/executor.go` | a pool of goroutines, registered processors | run one instance between two transactions |
| workflow client, scheduler, step runner | `workflow/*.go` | its loop; workflow and step rows | start, step, complete, fail, time out, cancel, revive a workflow; sweep; read the notifications of step tasks; run a step as a task's processor |
| notification producer | `notify/producer.go` | none but the stamps in the audit log | poll a batch of unstamped entries, route, publish, stamp |
| notification consumer | `notify/consumer.go` | a subscription | hear what is published while it is subscribed |

### Interactions

    client --NEW_TASK, CANCEL_TASK--> scheduler's queue --> scheduler
    scheduler --pending instance--> task queue --> receiver --submit--> executor
    executor --completion callback--> receiver --EXECUTE_SUCCEEDED, EXECUTE_FAILED, ENGINE_FAILED--> scheduler's queue
    scheduler, receiver, executor <--rows--> database --audit events--> notify producer --> workflow scheduler
    workflow scheduler --defines a task per step--> task client

A message is only a poke: every handler decides from the rows, and the scheduler's sweep re-derives the
work from the rows without any message. `task/DESIGN.md` rests the whole design on that.

### What is hard here

* **Interleaving of scheduler and workers.** The scheduler is a single loop, but a worker commits claims
  and outcomes between any two of its steps, and the sweep works through listings that age.
* **A send inside a transaction.** `processNewPendingTask` and `processTaskExecutionStarting` send the
  pending instance before the row that it names commits; a receiver may look first.
* **Crash and restart.** Two processes have a buffer in Redis and recover from it in different ways:
  the scheduler pops and re-enqueues one message at a time, the receiver pops everything into memory
  first and then looks at the rows in one transaction.
* **Duplicates and losses.** The same failure reaches the scheduler as a message, a redelivered message
  and a row in a sweep; reports are best effort.
* **Races at the end of a task.** A cancel, a deadline, a retry decision and a completion compete.
* **Read, check, write.** A `Mark*` checks a state read by an earlier SELECT and its UPDATE repeats no
  condition.
* **Partial failure.** The executor's transactions, the pool's submit, a report or a commit may fail.
* **Attempts of a step.** A workflow that failed or timed out can be revived while the tasks of its last
  attempt still run; their notifications come late, more than once or not at all, and are resolved to the step and not to
  the attempt.
* **Pokes after the commit.** A workflow handler commits first and sends its pokes afterwards, one by one; some may be lost,
  and after a crash the handler runs again on rows it has already written.
* **A log that is filled out of order.** An audit entry takes its id before its transaction commits, so a lower id may
  become visible after a higher one was published; and nothing but the stamp column coordinates producers.
* **Arithmetic on durations.** A delay of zero means "stop", and a product of durations may wrap or be truncated.

`PROJECT.json` lists these at the lines where they bite, each with the properties that catch it.

### What makes each component correct

* *Task and execution rows.* A task at rest never changes; a settled execution never changes; the recorded
  verdict of an ended execution survives finalization.
* *Scheduler.* At most one unsettled execution of a task; no retry beyond the budget, after a
  non-retryable failure or after rest; an ACTIVE task always has something to drive it; COMPLETE only
  over a success, FAILED only with a cause; a task at rest has nothing that may still start.
* *Workers.* One runner per execution; what a live worker owns, it is working on; what a dead one owned is
  failed when it returns.
* *The engine as a whole.* To the submitter of one task: `TaskService`. And every task comes to rest.
* *Workflow engine.* A step is let go only when all its parents are complete; of its tasks only the latest is ever
  live; its outcome is that of one of its tasks; the workflow's state agrees with its steps'; a workflow that
  runs or is being cancelled settles, by the sweep alone if it must.
* *Step graph.* Accepted exactly when every step can be reached by completing parents first: with a cycle let
  through, a running workflow never settles.
* *Notification producer.* To those who listen: `AuditFeed`. An entry is stamped only after each of its channels took it,
  nothing that was rolled back is heard, duplicates are paid for by faults or a second producer, and every
  entry that can be routed is stamped in the end, unless a batch of entries that cannot be comes before it.
* *Message queue.* A message is at one place at a time; it is lost in one way only; replays have a cause, go in
  front of newer messages and keep nothing from being handled.
* *Retry policy.* Nothing but a spent budget, or an initial delay too long for a duration, stops a retryable task; no attempt waits
  less than the one before.

## 2. Modules

| module | models | lines of code it stands for |
|---|---|---|
| `TaskLifecycle` | both transition tables and the predicates over them; a constant module | `models/task.go` |
| `TaskTables` | the variables of all processes, rows, messages, constants and their assumptions | `db/task.go`, `models/ipc.go` |
| `TaskHandlers` | each scheduler handler: what its one transaction does to the rows, what it sends | `task/scheduler_new_task.go`, `scheduler_task_exec.go`, `scheduler_cancel_task.go`, `scheduler_ipc.go` |
| `TaskScheduler` | the scheduler's process: loop, recovery, sweep, timer, its faults | `task/scheduler.go`, `scheduler_ipc.go`, `scheduler_maintenance.go` |
| `TaskWorker` | a receiver and its executor: claim, run, report, crash, `Initialize` | `task/receiver.go`, `task/executor.go` |
| `TaskEngine` | the composition with clients and clock; `Spec`, `FairSpec`, the properties | `task/client.go` |
| `TaskService` | the abstract specification: what the submitter of one task is promised | - |
| `TaskEngineService` | the refinement mapping from the engine's rows to `TaskService`, per task | - |
| `MCTaskEngine` | instances for TLC, symmetry of workers | - |
| `WorkflowLifecycle` | both workflow transition tables, the state sets the code branches on, the acceptance of a step graph; a constant module | `models/workflow.go`, `workflow/scheduler_process_workflow.go` |
| `WorkflowTables` | the rows of a workflow, its steps and their tasks, the queue, messages, constants and their assumptions | `db/workflow.go`, `models/ipc.go` |
| `WorkflowHandlers` | each handler's transaction and the pokes it owes | `workflow/scheduler_*.go` |
| `WorkflowEngine` | clients, clock, tasks, notifications, the scheduler's process and its faults; `Spec`, `FairSpec`, the properties | `workflow/client.go`, `scheduler.go`, `scheduler_ipc.go`, `scheduler_notify.go`, `notify/producer.go` |
| `MCWorkflowEngine` | instances for TLC | - |
| `NotifyProducer` | the audit log, the transactions that write it, any number of producers, routing, faults | `notify/producer.go`, `db/audit.go`, `models/audit.go` |
| `AuditFeed` | the abstract specification: what a listener is promised | - |
| `NotifyProducerFeed`, `MCNotifyProducer` | the refinement mapping; instances for TLC | - |
| `MessageQueue`, `MCMessageQueue` | one queue, its senders and readers, the readers' buffers and recovery, faults | `common/queue.go`, `task/scheduler_ipc.go` |
| `RetryPolicy`, `MCRetryPolicy` | the arithmetic of a policy at a scaled width, and the delays one task sees | `models/task.go`, `task/client.go` |
| `QueueLemmas`, `TaskEngineSafety`, `TaskEngineOutcomes`, `TaskEngineRefinement`, `WorkflowEngineSafety`, `NotifyProducerSafety`, `MessageQueueSafety`, `RetryPolicySafety` | proofs (section 5) | - |

The two engines meet in one place. The workflow engine submits tasks and hears of their end; a task appears in
`WorkflowTables` as a state that is `OPEN` until it comes to rest, once, by its processor's outcome, by its deadline, or because
the engine was asked to cancel it. That is what `TaskService` states and what `EngineImplementsService` shows the task engine to implement, so the
composition does not carry the task engine's own processes.

### State of the task engine

`taskState` and `exec` are the two tables. An execution row keeps its state, the worker that claimed it,
`terminal` (the code's `TerminalState`) and `nonRetryable` (the failure disposition that the
processor's error carries). An execution id is a task and a number; `nextExec` hands the numbers out, and an id
whose transaction rolls back is not used again, as with the code's ULIDs. `audit` holds the
engine-failure events. Time is two sets: `late`, the tasks whose deadline has passed, and `due`, the
executions whose `execute_at` has. `schedQ`, `schedBuf`, `execQ`, `recvBuf` are the Redis lists. `spc`, `cur`, `phase`, `todo`, `pend` are
the scheduler's memory: where its loop is, the message it holds, the sweep's listing and what is left of
it, and an execution it has sent and not committed. `wpc`, `popped`, `claim`, `job` are
the workers'. `seen` is the state a worker's open transaction has read; it is used only when the fault
`staleRead` is enabled.

### Actions of the task engine

An action is one step between two points at which another process can look.

* *Handlers* (`Handle`) are one transaction each. An early return, a refused transition, a missing row roll the
  transaction back and are `NoEffect`. The message is deleted in any case, as the loop does
  (`scheduler_ipc.go`). The two handlers that send have the commit as a second step (`SendPending`, then
  `SchedCommit`), so the message is visible before the row.
* *Sweep.* `SweepBegin`, then five listings, each made when the one before has been handled; an item that was listed is
  handled from the rows as they are by then. The list's order is not modelled: any order is taken.
* *Recovery.* `RecoverPop` and `RecoverPush` are two steps with a crash possible between them. `WorkerStart` pops
  the receiver's whole buffer; `WorkerInit` is the transaction, the reports and the re-enqueues, taken as
  one step; `WorkerInitFails` is the error when a popped id has no row.
* *Workers.* `ReceiverDequeue`, then `ReceiverClaim` or `ReceiverDrop`; `ExecutorPre` is the transaction before the
  processor, `ExecutorSucceeds`, `ExecutorFails` and `ExecutorMissesProcessor` the one after it;
  `OnTaskComplete` reports and deletes. A receiver goes back to its queue as soon as
  it has submitted, so a worker may have several jobs.
* *Faults.* `Fault(kind)` guards each with the kinds a run enables and a common budget: process crashes, a scheduler
  transaction that fails (before its send, or between send and commit), an executor transaction that fails,
  a lost report, a refused submit, a stale read.

### The workflow engine

`wf`, `step`, `parents`, `deadline` are the rows of one workflow; `task[s]` is the sequence of tasks linked to step `s`, each with
the deadline it was given and whether its cancellation was asked for. `feed` holds the tasks that rest and whose audit event the
producer has not stamped. `wfQ`, `wfBuf` are the Redis lists; `spc`, `cur`, `out` are the scheduler's loop, the message it
holds and the pokes it still owes.

* `DefineWorkflow` writes a workflow of any accepted graph; submission, cancellation and revival are messages.
* A handler (`HandleOne`, over `WorkflowHandlers`) is one transaction; the pokes it owes are sent one at a time afterwards
  (`SendOne`), in the code's order, and the message is deleted last (`DeleteOne`). A transition that the tables refuse rolls the
  whole transaction back (`NoEffect`).
* `ReconcileWorkflow` is the sweep's transaction for the workflow: time-out, settling, reclassification of running
  and cancelling steps from their tasks, nudges.
* `TaskRests` is the task engine; `Notified`, `NotifyLost`, `Republished` are the notification service: late, in any order, more
  than once, or unheard by a scheduler that is not subscribed.
* Faults: a scheduler crash at any step, a failed transaction, a lost poke, a lost or repeated notification.

One workflow is modelled. A handler reads and writes the rows of one workflow, and the sweep gives each workflow a transaction of
its own, so workflows meet only in the order of the queue.

### The notification producer

`row` says of each audit entry whether its transaction is open, committed or rolled back; `stamp` is its
`broadcast_at`, as the producer that set it. Entries are numbers, ordered as their ids. `batch` is what is left of the batch a producer
listed, `clean` its `publishedIDs`, `copies` what each channel has heard.

* `Write` and `Finish` are the engines' transactions: an id is taken before it is known whether the entry will be seen.
* `Poll` lists the first `BatchSize` committed entries without a stamp. `Publish`, `Skip`, `PublishFails` take the next entry: on all of
  its channels, on none because it cannot be routed, on some. `MarkBroadcast` stamps what went out on every channel; an entry
  another producer stamped meanwhile keeps its stamp.
* `MarkFails`, `Crash`, `CrashInEntry` are the faults. A stop is a `Crash`: it ends the cycle where it is.
* `Entry` gives an entry's class, metadata fields and subject, from which `Routable` and `Channels` follow as in
  `parseSystemEventMetadata` and `routeEvent`.

The workflow engine does not carry these processes. Its `feed`, from which an event is heard late, in any order, more than once or
not at all, allows every order in which `NotifyProducer` publishes to one subscriber.

### The message queue

`main` is the queue and `buffer` holds each reader's buffer list, left ends first. `rpc` and `held` are a reader's loop and the
message in its memory. `sent`, `taken` and `handled` record the senders' count, the last message taken for the first time, and how often each
was handled. `Dequeue` moves a message into the buffer in one step, `HandleOne` and
`DeleteOne` follow, and `Start` leads through `RecoverPop` and `RecoverPush` (or `RecoverDrop`, for one no handler can read), a message at a time.
`DeleteFails`, `FatalError`, `ReplyLost`, `Stop`, `Crash` are the faults. This is the reader as both schedulers
run it; a receiver recovers differently, and that is in `TaskWorker`. The engines use the same queue: theirs is this one with one reader.

### The retry policy

`Policy` is what the validation accepts and `Resolved` what the client makes of it; `NextDelay` is computed at `Word` bits with wrapping products,
the float's truncation and the two caps. The actions are a task's attempts: each failure asks `NextDelay` with the number the handler
passes, and zero or less ends the task.

### Abstractions

* Payloads, parameters, timestamps, queue names, JSON, logging and the thread pool are left out. A retry's
  delay enters as the decision it leads to (`NextDelay` of zero means no retry) and as the wait
  until the execution is `due`.
* A task's name only matters by whether a queue sender (`NoSender`) or a processor (`NoProcessor`) is
  registered for it.
* Malformed or unsupported messages change no row of the engine, and are left out, as is the graceful `Stop`, which is a
  crash that first waits for the loop.
* The fatal-error callback is the app's: a scheduler loop that has stopped is `down` and may be started again.
* Scheduler transactions are atomic except for the send before a commit: no other process writes a task row, and the
  execution rows both sides write are the ones a worker's transaction checks. A worker's transaction may be split
  between its read and its write, under `staleRead`; a scheduler's is not, so a scheduler that writes over a worker's commit it
  has not read (CANCELLED over PROCESSED, say) is outside the model.

## 3. Runs

The runs of the task engine instantiate `MCTaskEngine`. Bounds: `MaxExec`, execution ids per task; `MaxPokes`, client messages
in all; `MaxFaults`, faults in all, of the kinds in `FaultKinds`; one waiting maintenance message.

| run | instance | shows |
|---|---|---|
| `faults` | 1 task with a deadline, 1 retry, every outcome, one fault of any kind but `staleRead` | table consistency (`OneUnsettled`, `RestingQuiet`, `ActiveHasWork`, `PendingBare`), finality, verdicts (`CompleteHasSuccess`, `FailedHasCause`), budget (`RetryBudget`, `NonRetryableIsLast`), and `EngineImplementsService` |
| `workers` | 2 workers, 2 tasks (one scheduled, one with no sender), 2 crashes | `OneRunner` with duplicate messages, `OwnedIsRunning` through a worker's return |
| `readcommitted` | 2 workers, 2 scheduled tasks (one with no processor), 2 faults: stale reads, a send whose transaction fails | `RestingIsFinal` survives workers that write on stale reads (READ COMMITTED), while a settled execution is taken back and run again |
| `settles` | 1 task with a deadline, 1 retry, one fault of any kind but `staleRead`, fairness | `TimedTasksRest`; `OnlyStrandedLinger`: the two known ways are the only ways a task stays open before its deadline |
| `lost` | the smallest instance | a violation, section 6 |

The runs of the workflow engine instantiate `MCWorkflowEngine`. Bounds: `Step`; `MaxTime`, the clock and the deadlines; `MaxPokes`, client
messages of the kinds in `Requests`; `MaxBacklog`, the queue length at which the maintenance timer holds back; `MaxFaults`.

| run | instance | shows |
|---|---|---|
| `wf_revive` | 1 step, 2 deadlines, one request of any kind, any two faults | `TypeOK`, `EarlierTasksRest`, `ResultsHaveTasks`, `StatesAgree` over the attempts before and after a revival |
| `wf_settles` | 2 steps, every accepted graph, a cancellation, a lost poke, fairness, no notification owed | `ParentsFirst`, `RunningSettles`, `SettlesInTime` |
| `wf_lateCancel`, `wf_drains` | the smallest instance | violations, section 6 |

The other three components have a run each.

| run | instance | shows |
|---|---|---|
| `np_feed` | 2 producers, 4 entries of which the first and the third cannot be routed, batches of 2, 2 channels an entry, one fault of any kind, fairness | `NoPhantom`, `StampedWasHeard`, `CopiesBounded`, `ProducerImplementsFeed`, `FeedIsLive` |
| `mq_readers` | 2 readers, 4 messages of which one is poison, 3 faults of any kind, fairness | `OnePlace`, `OwnBuffer`, `RedeliveryBounded`, `LostOnlyInRecovery`, `FreshInOrder`, `EverySentIsHandled` |
| `retry_delays` | every policy of up to 40 seconds, 6 retries and three factors, in words of 7 bits with 4 units to a second and a cap of 30 | `StopsOnlyWhenSpent`, `NeverHastier` |

Why the bounds are enough to be of use. Tasks do not share rows, and meet only in queue order and in the sweep, so one task
with its own duplicates shows most interleavings; two tasks are used where the second fills a queue differently. One retry makes first, middle and last attempts differ:
a budget of one with three ids lets a wrong third attempt happen. The sweep supplies pokes without bound, so
client pokes add only early duplicates and cancels. One fault at any step, with all duplicates it leads to, reaches
each recovery path; the runs `workers` and `readcommitted` allow two, which a duplicate of a pending instance on two workers needs. In `readcommitted` one
makes the duplicate, and the other lets its claim overwrite what the first has led to.

Four entries and batches of two give a batch that is full, one that is not, an entry behind both, and ids that commit out of
order; the two producers may hold the same batch. The second entry has one before it that cannot be routed, and is stamped; the last has two, and
is not if both commit before it is published (section 6): without `Starved`, `FeedIsLive` is violated. Four messages and three faults let a reader go down with a message handled and not deleted, recover it behind another reader's
back, and go down again. In `retry_delays` the words of 7 bits hold 15 seconds; longer delays and caps wrap to negative ones, at 32 seconds to zero, and from 33 on to
short ones. The code's words hold 292 years. Growth passes the word's range, and the caps, within the six retries.

In the workflow engine two steps give every relation a step can have to another: parent, child, unrelated. One step is
enough where the question is how attempts of a step follow each other. A second deadline is what a revival after a
time-out needs. The timer holds back only while a message waits, and the sweep it starts adds the pokes it finds missing, so a
backlog of one still lets sweeps fall between any two other messages. The safety properties do not depend on these bounds, nor on the kinds of fault a run enables: they are proved
for any number of steps, requests, deadlines and faults (section 5).

## 4. Fairness

*Task engine.* Weak fairness on: each execution that waits becoming due (its time comes), the scheduler's step (a process that is
down is started again, a loop that is up goes on), the maintenance timer, each
receiver's step, and each executor's step on each execution (a processor returns: the code gives it a
context with the instance's deadline, and a processor that ignores it is not cut off). That a deadline passes is not
assumed: `TimedTasksRest` speaks of tasks whose deadline has passed. Nothing is assumed
of clients and faults. The scheduler's loop is one goroutine and the receiver's
loops block only on Redis, so weak fairness is what a running process gives; a queue
always has its head taken, so no strong fairness is needed.

*Workflow engine.* Weak fairness on the scheduler's step, on the maintenance timer, and on a step's task coming to rest. The last is
what the task engine's `TimedTasksRest` gives past a deadline; before it, it assumes that no execution is stranded in one
of the two ways of `OnlyStrandedLinger`. No notification is owed, the clock owes nothing, and clients owe nothing: `RunningSettles` holds by
the sweep alone. `SettlesInTime` allows for the deadline, as `wf_drains` shows it must.

*Notification producer.* Weak fairness on each producer's step: its timer ticks, a cycle goes on, one that is down is started
again. A transaction may stay open for good, and faults are bounded.

*Message queue.* Weak fairness on each reader's step: the loop polls, a reader that is down is started again. Senders owe nothing.
A reader that lost the reply of a dequeue does not know of the message in its buffer until it is started again, and
nothing obliges it to be; `EverySentIsHandled` says so (`Unnoticed`).

## 5. Proofs

TLAPS proves, for every set of tasks and workers and every value of the bounds:

* `TaskEngineSafety!TypeCorrect`: `Spec => []TypeOK`. The inductive invariant is
  `TypeInv == TypeOK /\ Holding`: a message is dispatched to a handler of its type only because the loop holds one
  exactly in the states that handle or delete it, so `TypeOK` alone is not inductive.
* `TaskEngineSafety!ActiveHasWorkHolds`, `PendingBareHolds`, `RestingIsFinalHolds`: `Spec => []ActiveHasWork` and so on, with every kind of
  fault, `staleRead` among them.
* `TaskEngineSafety!OneUnsettledHolds`, `RestingQuietHolds`, under the assumption `"staleRead" \notin FaultKinds`: no worker transaction is
  interrupted between its read and its write. SQLite gives that, and so does REPEATABLE READ; PostgreSQL's default does not, and they are
  false there (`stale` in section 6).

What holds however late a worker writes rests on `CoreInv`. A worker writes a row that it has read as ENQUEUED, ACQUIRED or PROCESSING; however
old that reading is, the scheduler has released the row (`Released`, `ReadsReleased`), and what the worker writes is not settled. So a worker's step may take
a row back, and does not settle one or make one (`RowsMove`, `CoreMove`). An ACTIVE task keeps its work, a PENDING one stays bare (`ActiveHasWork`,
`PendingBare`), and what is sent and not committed waits for a row no worker has seen (`Sending`). The handlers decide by the task's
state, which workers never write: that is why a task at rest stays there.

The other two are inductive only together with those and with `NothingRead` (no stale state is held), which lets a worker's write be checked
against the row. A retry keeps `OneUnsettled` because the execution that failed was the only unsettled one; the first execution of a task keeps it because a
PENDING task has no rows. No queue occurs in the invariant: the rows are safe whatever the queues hold, which is the design's claim that a
message is only a poke. Workers enter through one lemma, `WorkersMoveSafe`: an execution that was enqueued stays unsettled and every other
row is left alone. Assumptions used: `TaskAssumption`, `BoundAssumption`, `NoneAssumption` of `TaskTables`, which every run evaluates.

And, for every set of steps, every accepted graph, and every value of the bounds:

* `WorkflowEngineSafety!WorkflowTypeCorrect`: `Spec => []TypeOK`.
* `WorkflowEngineSafety!ParentsFirstHolds`, `EarlierTasksRestHolds`, `ResultsHaveTasksHolds`, `StatesAgreeHolds`.

The type invariant of the workflow engine carries a second invariant, *honesty*: whatever a message in the queue, in the buffer, in the
scheduler's hands or among the pokes it owes says of a task is true of that task (`Honest`, `QueueInv`). It holds through repetition, replay
and delay because a task at rest rests for good (`Grows`); an update can be out of date, it cannot become false. It needs that a
running or cancelling step has a task (`RunningHasTask`: the sweep reads its most recent one), that events waiting to be broadcast are of tasks
at rest (`FeedRests`), and that nothing is dispatched or said before the workflow exists (`TasksNeedWorkflow`).

The four row properties are inductive together, with honesty and one fact more, `NoEarlyTask`: a workflow that has not started
has no tasks. Without it a CANCELLED update could reach a DEFINED step of a PENDING workflow, which the transition table allows, and `StatesAgree`
would fail. `ResultsHaveTasks` is honesty at the moment of the write; `EarlierTasksRest` is the guard of the dispatch, which looks at
all linked tasks; `StatesAgree` needs, of a timed-out workflow, that some step is not complete, or a revival could lead to a running
workflow with nothing left to run. `ReconcileWorkflowSafe` shows on the way that the sweep never finds a workflow to settle: the update that
completed the last step has settled it. Assumptions used: `StepAssumption`, `BoundAssumption` of `WorkflowTables`.

`TaskEngineOutcomes` proves what the rows come to, with no stale reads: `RetryBudgetHolds`, `NonRetryableIsLastHolds`,
`SettledIsFinalHolds`, `FailedHasCauseHolds`, `CompleteHasSuccessHolds`, `OneRunnerHolds`, and `OwnedIsRunningHolds`, which also assumes
`"execAbort" \notin FaultKinds` (an executor whose closing transaction fails lets go of a row it still owns). The argument is in three parts.

* Every step of the engine is one of two moves on the table of executions (`NextMoves`): the rows age, each along the transition table with its
  verdict kept (`Age`), or one task gains its next row while the others age (`Grow`). The budget properties, with `Verdicts`, `IdsUsed`,
  `LastUnsettled` and `LiveWithinBudget` as the strengthening, and the finality of a settled row then follow from the moves alone, whichever handler made them.
* What is reported is true: every EXECUTE_SUCCEEDED in a queue, a buffer, the sweep's list or a worker's hands names a row whose verdict is PROCESSED,
  and every EXECUTE_FAILED one that has no success and will have none (`QueuesTrue`, `JobsTrue`). The first stays true because a verdict is never taken
  back, and COMPLETE is only set by the handler of such a message. The second is subtler: a failure may be reported of a row that was never
  marked FAILED, and it stays true because the row has no worker left that could still succeed with it (`NoSuccess`, `AtWorkOpen`): only the
  worker that runs an execution marks it PROCESSED (`OnlyRunnersProcess`), and one that reports a failure has given it up (`GivenUpFails`).
* A job that runs has its row claimed by the worker that runs it (`Claimed`), and a row has one owner. A worker that is up is at work on each
  row it owns (`OwnInv`).

`TaskEngineRefinement` proves `EngineRefinesService`, with no stale reads: `Spec => EngineImplementsService`, each step of the engine is for each task a
step of `TaskService` or none. What a task's submitter sees depends on its row and on its one unsettled execution (`AttemptOf`, from
`OneUnsettled`), and there is one lemma per handler and per write of a worker, each naming the service's step it makes (`CompleteServes`, `GiveUpServes`,
`StopServes` and so on). The messages matter in one place: a task is completed over a success, and retried over a failure, because the message is true of the
row (`TruthInv`). Two facts the service keeps by itself serve the handlers (`Promised`): no task is CANCELLING, and a COMPLETE task has no attempt left to settle.

`NotifyProducerSafety` proves, for every audit log, routing, batch size and number of producers and faults: `ProducerTypes`, `NoPhantomHolds`, `AtLeastOnce`,
`DuplicatesBounded`, `StampsAreFinal`, and `ProducersImplementFeed`, the refinement of `AuditFeed` step by step. The invariant `Safe` adds
`Held`: what a producer holds is committed, and what it keeps for the stamp was heard. `DuplicatesBounded` is by accounting
(`Account`): the copies of an entry on a channel, and the batches that still hold it, are paid for by the producers and the faults. Assumptions
used: the four of `NotifyProducer`.

`MessageQueueSafety` proves, for any number of messages, readers and faults: `QueueTypes`, `OnePlaceHolds`, `OwnBufferHolds`,
`LostOnlyInRecoveryHolds`, `FreshInOrderHolds`, `RedeliveryBoundedHolds`, all safety properties the queue's run checks.

* `QueueInv` adds to the type that no list holds a message twice (`NothingTwice`; a list is typed as a sequence, and a recovery that stopped
  halfway could have left two copies), and that what was never taken waits in the queue, in the order it was sent, behind all that was put back
  (`FreshWaits`). `OnePlace` and `FreshInOrder` follow: the second is false of a recovery that puts back on the right.
* `WorkInv` adds `OwnBuffer` itself and `HandledWasTaken`. Present at a place before a step and at none after it is then a matter
  of one lemma per kind of move (`PresentStaged`, `PresentRecovered`, `PresentDeleted`).
* The bound on redelivery is by accounting (`Account`): the handlings after a first, and the messages that wait handled and undeleted
  (`Owed`), together never outnumber the faults. A replay pays its debt with the handling it makes; only a failed deletion, a stop, a crash or
  a lost reply opens a new one (`ReaderPaid`).

Assumptions used: the three of `MessageQueue`.

`RetryPolicySafety` proves, for any width of the word, any factors and any number of failures: `PolicyTypes`, `StopsOnlyWhenSpentHolds` and `NeverHastierHolds`, with
no bound on the seconds a policy asks for. All turns on the sign of the initial delay. Where it is positive, the next delay is at least the unit and at most the cap while retries
are left (`NextDelayIs`), so zero says stop and nothing else does. Where it wrapped to zero or below, no delay is positive (`NothingGrows`), and the first failure ends the
task; that happens only to seconds that do not fit the word (`InitialIs`). Growth is monotone through the truncation (`GrownGrows`: the floor of `I * n^r / d^r` does not fall as `r` rises, for `n >= d >= 1`). `Remembers` makes them
an invariant of a task's life: the delay it last waited is the one its failures ask for, and a task that has waited started from a positive one. `Power` is a recursive function, whose definition is shown
to define one (`TimesExists`), and what holds of every power is shown from the least number for which it fails (`AllNats`), as the library's
induction theorems are beyond the installed provers. Assumptions used: the two of `RetryPolicy`.

`QueueLemmas` has what the proofs of three modules need of `ToSet` and of a first occurrence removed.

Every safety property, action property and refinement that a passing run checks is proved. Only model-checked is liveness
under fairness (`TimedTasksRest`, `OnlyStrandedLinger`, `RunningSettles`, `SettlesInTime`, `FeedIsLive`, `EverySentIsHandled`), which is
out of the prover's reach.

## 6. Where the code differs from its documents

Three have a run that finds them, and an entry under `findings`.

* `lost`: an ENQUEUED row whose message was dropped before the row committed is never looked at again, without a
  deadline; `task/DESIGN.md:27` says losing a poke never loses work.
* `wf_lateCancel`: the CANCELLED notification of a timed-out attempt, handled after the workflow was revived, cancels the step of the
  running workflow for good; `workflow/DESIGN.md:316` calls links to earlier attempts harmless.
* `wf_drains`: past its deadline a CANCELLING workflow is not settled by the sweep, whose time-out is refused and
  rolls everything back; `workflow/DESIGN.md:828` says the sweep guarantees it.

Seen while reading or modelling, without a run of their own. In the task engine:

* `stale`: the update of a row names it by id only, and its state was checked by an earlier SELECT of the same transaction with no lock
  (`db/task.go:657`): at PostgreSQL's default isolation a worker's claim or outcome overwrites what committed in between. A settled execution
  is taken back, or claimed by two workers, where `task/DESIGN.md:390` has receivers coordinate through the database claim. What
  survives is `ActiveHasWork`, `PendingBare` and `RestingIsFinal` (proved). Nothing else about the rows does: with `staleRead` and `txAbort` in
  `FaultKinds`, TLC finds `OneRunner`, `OwnedIsRunning`, `RestingQuiet`, `SettledIsFinal`, `CompleteHasSuccess`, `FailedHasCause` and
  `EngineImplementsService` violated in the instance of `readcommitted`, and `OneUnsettled`, `RetryBudget`, `NonRetryableIsLast` with one task, one retry and a failure that is not
  to be retried among the outcomes;
* a sweep that lists an engine-failed execution before its ENGINE_FAILED message is handled retries it
  (`task/scheduler_maintenance.go:135`); `task/DESIGN.md:333` says it is not retried;
* an execution that is PROCESSED when its task is cancelled or times out stays PROCESSED, and every sweep
  tries to finalize it and rolls back; `task/DESIGN.md:49` says every ended execution is finalized;
* an engine-failure message may be sent for a row that is not FAILED; `scheduler_task_exec.go:303` says it is marked before;
* `task/DESIGN.md:199` calls the scheduler the only component that mutates state, and the receiver and the executor
  write execution rows; `task/DESIGN.md:195` says a processor that ignores its context is cut off, and the
  executor waits for it; `task/DESIGN.md:209` has a fatal error leave its message buffered, and both the
  code and `task/DESIGN.md:307` delete it.

In the queue, the producer and the retry policy:

* recovery pops a message off the buffer and then pushes it: a crash or a failed push in between loses it (`LostOnlyInRecovery` says that this is the
  only way); `task/scheduler_ipc.go:125` says "replayed rather than lost";
* `common/queue.go:240` says a message is put back "as the newest one", and it is put back at the end messages are taken from, as the oldest. What the recovery
  needs is the latter (`FreshInOrder`);
* an entry that cannot be routed is skipped without a stamp and listed again: `BatchSize` of them at the head of the log keep every entry behind
  them from being published. `notify/producer.go:204` says the skip keeps a poison row from stalling the batch. `FeedIsLive` names these entries as its exception (`Starved`), and `np_feed` reaches them;
* an initial delay is validated as at least one second and not bounded (`models/task.go:38`): one of more than 292 years wraps to a negative delay, which reads as a
  stop; `models/task_test.go:85` has "never overflows negative". `StopsOnlyWhenSpent` names these policies as its exception (`Overlong`), and `retry_delays` reaches them:
  such a task fails at its first failure with its whole budget left.

In the workflow engine:

* a PENDING or FAILED workflow past its deadline is never TIMED_OUT, the table has no such transition (`workflow/DESIGN.md:781`);
* a late FAILED or COMPLETE update of an earlier attempt is applied to the step's new attempt, like the CANCELLED of `wf_lateCancel`
  (`ResultsHaveTasks` says "one of its tasks", not "its latest"); a late TIMED_OUT times the revived workflow out;
* a COMPLETE or CANCELLED workflow may therefore have a task that still runs (`db/workflow.go:421` says its tasks have ended);
* a workflow that was defined and never submitted is started by the sweep (`workflow/client.go:37`);
* `scheduler_revive.go:33` says a message with a fatal error is left buffered, and the loop deletes it.

## 7. Not modelled, and what is left

Not modelled: the Redis client and gorm, JSON, configuration and validation (no state); migrations, mocks, test
support (generated or doubles); the thread pool (its refusal is the fault `submitFail`); the step runner beyond the
outcome it gives its task (it writes no row); the Redis subscription of the consumer and its reconnection (a scheduler that is not subscribed hears
nothing, as in `NotifyLost`); `DeleteWorkflow` and `DeleteTask`, which no process of the library calls (it is for the application); the graceful `Stop` of the engines' processes, beyond what
`MessageQueue` shows of it.

What would come next:

1. `WorkflowService`: what the submitter of a workflow is promised, with `WorkflowEngine` shown to implement it; a refinement from
   `TaskService` to the tasks of `WorkflowTables`, to make the composition of the engines a checked statement; several workflows
   on one queue.
2. The acceptance of a step graph against reachability, over graphs of more steps than `wf_settles` has.
