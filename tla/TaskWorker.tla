----------------------------- MODULE TaskWorker -----------------------------
(***************************************************************************)
(* Workers.  The receiver claims a pending instance and hands it to the    *)
(* executor, which runs it and reports.  job[w][e] is where worker w is    *)
(* with execution e: "pre" before the executor's first transaction, "run"  *)
(* from there to its last, then the type of the report it owes.            *)
(***************************************************************************)
EXTENDS TaskTables

JobState == {"none", "pre", "run"} \cup ReportTypes

\* A step of one worker alone.
WorkerOnly == UNCHANGED <<taskState, nextExec, audit, clockVars, schedBuf, schedVars,
                          pokes>>

SetJob(w, e, s) == job' = [job EXCEPT ![w][e] = s]
DropBuffered(w, e) == recvBuf' = [recvBuf EXCEPT ![w] = RemoveFirst(@, e)]

\* The state the worker's transaction checks its update against: the row's, or,
\* after WorkerReads, the one it read earlier.
StateRead(w, e) == IF seen[w][e] = None THEN exec[e].state ELSE seen[w][e]
Forget(w, e) == seen' = [seen EXCEPT ![w][e] = None]

\* The first half of a worker's read-then-write transaction at READ COMMITTED:
\* the claim, the executor's first or its last.
WorkerReads(w, e) ==
  /\ Fault("staleRead")
  /\ claim[w] = e \/ job[w][e] \in {"pre", "run"}
  /\ seen[w][e] = None
  /\ exec[e].state # "NONE"
  /\ seen' = [seen EXCEPT ![w][e] = exec[e].state]
  /\ WorkerOnly
  /\ UNCHANGED <<exec, schedQ, execQ, recvBuf, wpc, popped, claim, job>>

\* One message to the scheduler; a failed enqueue is logged and forgotten.
Report(type, e) ==
  \/ schedQ' = Append(schedQ, Msg(type, e)) /\ UNCHANGED faults
  \/ Fault("lostReport") /\ UNCHANGED schedQ

ReceiverDequeue(w) ==
  /\ wpc[w] = "up" /\ claim[w] = None /\ execQ # <<>>
  /\ claim' = [claim EXCEPT ![w] = Head(execQ)]
  /\ recvBuf' = [recvBuf EXCEPT ![w] = Append(@, Head(execQ))]
  /\ execQ' = Tail(execQ)
  /\ WorkerOnly
  /\ UNCHANGED <<exec, schedQ, wpc, popped, job, seen, faults>>

\* Mutant: the claim does not look at the row's state.
ReceiverClaim_Blind(w) ==
  LET e == claim[w]
  IN /\ e # None
     /\ exec[e].state \in ExecLive
     /\ exec' = [exec EXCEPT ![e] = [Mark(@, "ACQUIRED") EXCEPT !.worker = w]]
     /\ claim' = [claim EXCEPT ![w] = None]
     /\ SetJob(w, e, "pre")
     /\ Forget(w, e)
     /\ WorkerOnly
     /\ UNCHANGED <<schedQ, execQ, recvBuf, wpc, popped, faults>>

\* processOneIPCRequest after the dequeue: the claim, and on success the submit
\* to the executor.
ReceiverClaim(w) ==
  LET e == claim[w]
  IN /\ e # None
     /\ ValidExec(StateRead(w, e), "ACQUIRED")
     /\ exec' = [exec EXCEPT ![e] = [Mark(@, "ACQUIRED") EXCEPT !.worker = w]]
     /\ claim' = [claim EXCEPT ![w] = None]
     /\ SetJob(w, e, "pre")
     /\ Forget(w, e)
     /\ WorkerOnly
     /\ UNCHANGED <<schedQ, execQ, recvBuf, wpc, popped, faults>>

\* A claim the row refuses: the message is deleted and an engine failure sent.
ReceiverDrop(w) ==
  LET e == claim[w]
  IN /\ e # None
     /\ ~ ValidExec(StateRead(w, e), "ACQUIRED")
     /\ claim' = [claim EXCEPT ![w] = None]
     /\ DropBuffered(w, e)
     /\ Forget(w, e)
     /\ Report("ENGINE_FAILED", e)
     /\ WorkerOnly
     /\ UNCHANGED <<exec, execQ, wpc, popped, job>>

\* The executor refuses the claimed instance.
SubmitFails(w, e) ==
  /\ Fault("submitFail")
  /\ job[w][e] = "pre"
  /\ exec' = [exec EXCEPT ![e] = IF ValidExec(@.state, "FAILED") THEN Mark(@, "FAILED")
                                 ELSE @]
  /\ SetJob(w, e, "ENGINE_FAILED")
  /\ DropBuffered(w, e)
  /\ Forget(w, e)
  /\ WorkerOnly
  /\ UNCHANGED <<schedQ, execQ, wpc, popped, claim>>

\* Mutant: the row is written whatever its state is.
Update_Blind(w, e, state, row, next) ==
  /\ exec' = [exec EXCEPT ![e] = row] /\ SetJob(w, e, next)
  /\ Forget(w, e)
  /\ WorkerOnly
  /\ UNCHANGED <<schedQ, execQ, recvBuf, wpc, popped, claim, faults>>

\* A worker's transaction on the row of e moves its job on to `next`, or, when
\* the row refuses the new state, to reporting a failed execution.
Update(w, e, state, row, next) ==
  /\ IF ValidExec(StateRead(w, e), state)
     THEN exec' = [exec EXCEPT ![e] = row] /\ SetJob(w, e, next)
     ELSE UNCHANGED exec /\ SetJob(w, e, "EXECUTE_FAILED")
  /\ Forget(w, e)
  /\ WorkerOnly
  /\ UNCHANGED <<schedQ, execQ, recvBuf, wpc, popped, claim, faults>>

ExecutorPre(w, e) ==
  /\ job[w][e] = "pre"
  /\ Update(w, e, "PROCESSING", Mark(exec[e], "PROCESSING"), "run")

\* The processor returns, and the deferred transaction records how.
ExecutorSucceeds(w, e) ==
  /\ job[w][e] = "run"
  /\ "ok" \in Outcomes /\ TaskOf(e) \notin NoProcessor
  /\ Update(w, e, "PROCESSED", Mark(exec[e], "PROCESSED"), "EXECUTE_SUCCEEDED")

ExecutorFails(w, e) ==
  /\ job[w][e] = "run" /\ TaskOf(e) \notin NoProcessor
  /\ \E o \in Outcomes \ {"ok"} :
       Update(w, e, "FAILED",
              [Mark(exec[e], "FAILED") EXCEPT !.nonRetryable = (o = "fatal")],
              "EXECUTE_FAILED")

\* No processor is registered for the task's name: FAILED with no disposition,
\* reported as an engine failure.
ExecutorMissesProcessor(w, e) ==
  /\ job[w][e] = "run" /\ TaskOf(e) \in NoProcessor
  /\ Update(w, e, "FAILED", Mark(exec[e], "FAILED"), "ENGINE_FAILED")

\* One of the executor's two transactions fails on the database.
ExecutorAborts(w, e) ==
  /\ Fault("execAbort")
  /\ job[w][e] \in {"pre", "run"}
  /\ SetJob(w, e, "EXECUTE_FAILED")
  /\ Forget(w, e)
  /\ WorkerOnly
  /\ UNCHANGED <<exec, schedQ, execQ, recvBuf, wpc, popped, claim>>

\* onTaskComplete: report, then delete the message from the buffer.
OnTaskComplete(w, e) ==
  /\ job[w][e] \in ReportTypes
  /\ Report(job[w][e], e)
  /\ DropBuffered(w, e)
  /\ SetJob(w, e, "none")
  /\ WorkerOnly
  /\ UNCHANGED <<exec, execQ, wpc, popped, claim, seen>>

WorkerCrash(w) ==
  /\ Fault("workerCrash")
  /\ wpc[w] # "down"
  /\ wpc' = [wpc EXCEPT ![w] = "down"]
  /\ popped' = [popped EXCEPT ![w] = {}]
  /\ claim' = [claim EXCEPT ![w] = None]
  /\ job' = [job EXCEPT ![w] = [e \in Exec |-> "none"]]
  /\ seen' = [seen EXCEPT ![w] = [e \in Exec |-> None]]
  /\ WorkerOnly
  /\ UNCHANGED <<exec, schedQ, execQ, recvBuf>>

\* Initialize, first part: the whole buffer is popped into memory.
WorkerStart(w) ==
  /\ wpc[w] = "down"
  /\ wpc' = [wpc EXCEPT ![w] = "init"]
  /\ popped' = [popped EXCEPT ![w] = ToSet(recvBuf[w])]
  /\ recvBuf' = [recvBuf EXCEPT ![w] = <<>>]
  /\ WorkerOnly
  /\ UNCHANGED <<exec, schedQ, execQ, claim, job, seen, faults>>

Owned(w) ==
  {e \in Exec : exec[e].state \in {"ACQUIRED", "PROCESSING"} /\ exec[e].worker = w}

\* Mutant: what the worker owned is reported failed and not marked so.
WorkerInit_ReportsOnly(w) ==
  /\ wpc[w] = "init"
  /\ \E owned \in SetToSeqs(Owned(w)) :
       schedQ' = schedQ \o [i \in DOMAIN owned |-> Msg("EXECUTE_FAILED", owned[i])]
  /\ \E retry \in SetToSeqs({e \in popped[w] : exec[e].state = "ENQUEUED"}) :
       execQ' = retry \o execQ
  /\ wpc' = [wpc EXCEPT ![w] = "up"]
  /\ popped' = [popped EXCEPT ![w] = {}]
  /\ WorkerOnly
  /\ UNCHANGED <<exec, recvBuf, claim, job, seen, faults>>

\* Initialize, second part: one transaction fails what this worker owned, then
\* the reports and the re-enqueues go out. What was popped in any other state
\* is dropped.
WorkerInit(w) ==
  /\ wpc[w] = "init"
  /\ \A e \in popped[w] : exec[e].state # "NONE"
  /\ exec' = [e \in Exec |-> IF e \in Owned(w) THEN Mark(exec[e], "FAILED") ELSE exec[e]]
  /\ \E again \in SetToSeqs(popped[w] \cap Owned(w)), owned \in SetToSeqs(Owned(w)) :
       LET failed == again \o owned
       IN schedQ' = schedQ \o [i \in DOMAIN failed |-> Msg("EXECUTE_FAILED", failed[i])]
  /\ \E retry \in SetToSeqs({e \in popped[w] : exec[e].state = "ENQUEUED"}) :
       execQ' = retry \o execQ
  /\ wpc' = [wpc EXCEPT ![w] = "up"]
  /\ popped' = [popped EXCEPT ![w] = {}]
  /\ WorkerOnly
  /\ UNCHANGED <<recvBuf, claim, job, seen, faults>>

\* A popped id with no row fails Initialize as a whole; the process ends, and
\* everything it popped is gone from Redis.
WorkerInitFails(w) ==
  /\ wpc[w] = "init"
  /\ \E e \in popped[w] : exec[e].state = "NONE"
  /\ wpc' = [wpc EXCEPT ![w] = "down"]
  /\ popped' = [popped EXCEPT ![w] = {}]
  /\ WorkerOnly
  /\ UNCHANGED <<exec, schedQ, execQ, recvBuf, claim, job, seen, faults>>

ReceiverStep(w) ==
  ReceiverDequeue(w) \/ ReceiverClaim(w) \/ ReceiverDrop(w)
    \/ WorkerStart(w) \/ WorkerInit(w) \/ WorkerInitFails(w)

ExecutorStep(w, e) ==
  ExecutorPre(w, e) \/ ExecutorSucceeds(w, e) \/ ExecutorFails(w, e)
    \/ ExecutorMissesProcessor(w, e) \/ OnTaskComplete(w, e)

WorkerFault(w) ==
  \/ WorkerCrash(w)
  \/ \E e \in Exec : WorkerReads(w, e) \/ SubmitFails(w, e) \/ ExecutorAborts(w, e)
=============================================================================
