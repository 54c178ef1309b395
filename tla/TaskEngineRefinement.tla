------------------------ MODULE TaskEngineRefinement ------------------------
(***************************************************************************)
(* TaskEngine implements TaskService for every task, for every set of      *)
(* tasks and workers and every budget: each step of the scheduler, of a    *)
(* worker, of a client, and each fault, is for each task a step of its     *)
(* service or none.                                                        *)
(*                                                                         *)
(* The rows decide: what a task's submitter sees is the state of the task  *)
(* and of its one unsettled execution.  The messages enter in one place:   *)
(* a task is completed over a success, and retried over a failure, only    *)
(* because what the message says of the execution is true (TruthInv).      *)
(***************************************************************************)
EXTENDS TaskEngineOutcomes, TaskEngineService

HasIn(rows, t, states) == \E e \in Exec : TaskOf(e) = t /\ rows[e].state \in states

\* Attempt, as a function of the rows.
AttemptIn(rows, t) ==
  CASE HasIn(rows, t, ExecLive) -> "live"
    [] HasIn(rows, t, {"PROCESSED"}) -> "succeeded"
    [] HasIn(rows, t, {"FAILED"}) -> "failed"
    [] OTHER -> "none"

\* What the state of an unsettled execution is to the submitter.
Seen(s) ==
  CASE s \in ExecLive -> "live" [] s = "PROCESSED" -> "succeeded" [] OTHER -> "failed"

RowsKept(t) == \A e \in Exec : TaskOf(e) = t => exec'[e] = exec[e]

\* What the service promises of every state, and the handlers rely on.
Promised(t) ==
  /\ Outcome(t) # "CANCELLING"
  /\ Outcome(t) = "COMPLETE" => Attempt(t) = "none"

-----------------------------------------------------------------------------
\* The mapping

\* The attempt is read off the rows, before a step and after it.
LEMMA AttemptIs ==
  ASSUME NEW t \in Task
  PROVE  Attempt(t) = AttemptIn(exec, t) /\ Attempt(t)' = AttemptIn(exec', t)
BY DEF Attempt, HasExec, AttemptIn, HasIn

\* With one execution unsettled, the attempt is that execution's.
LEMMA AttemptOf ==
  ASSUME NEW rows, NEW t, NEW e \in Exec, TaskOf(e) = t, rows[e].state \in ExecUnsettled,
         \A d \in Exec : TaskOf(d) = t /\ d # e => rows[d].state \notin ExecUnsettled
  PROVE  AttemptIn(rows, t) = Seen(rows[e].state)
<1>1. \A states \in SUBSET ExecUnsettled :
        HasIn(rows, t, states) <=> rows[e].state \in states
  BY DEF HasIn
<1>2. /\ HasIn(rows, t, ExecLive) <=> rows[e].state \in ExecLive
      /\ HasIn(rows, t, {"PROCESSED"}) <=> rows[e].state = "PROCESSED"
      /\ HasIn(rows, t, {"FAILED"}) <=> rows[e].state = "FAILED"
  BY <1>1 DEF ExecUnsettled
<1> QED BY <1>2 DEF AttemptIn, Seen, ExecUnsettled, ExecLive

\* With none unsettled there is no attempt.
LEMMA NoAttempt ==
  ASSUME NEW rows, NEW t, \A d \in Exec : TaskOf(d) = t => rows[d].state \notin ExecUnsettled
  PROVE  AttemptIn(rows, t) = "none"
BY DEF AttemptIn, HasIn, ExecUnsettled

\* With some execution unsettled there is one.
LEMMA SomeAttempt ==
  ASSUME NEW rows, NEW e \in Exec, rows[e].state \in ExecUnsettled
  PROVE  AttemptIn(rows, TaskOf(e)) # "none"
BY DEF AttemptIn, HasIn, ExecUnsettled

\* A task whose state and rows are left alone is at the same place of its service.
LEMMA KeptIsQuiet ==
  ASSUME NEW t \in Task, RowsKept(t), Outcome(t)' = Outcome(t)
  PROVE  ServiceStep(t)
<1>1. Attempt(t)' = Attempt(t)
  BY AttemptIs DEF AttemptIn, HasIn, RowsKept
<1>2. FailedExecs(t)' = FailedExecs(t)
  BY DEF FailedExecs, RowsKept
<1> QED BY <1>1, <1>2 DEF ServiceStep, Service!vars

\* A step that leaves both tables alone is no step of any service.
LEMMA StillIsQuiet ==
  ASSUME UNCHANGED <<taskState, exec>>
  PROVE  \A t \in Task : ServiceStep(t)
BY KeptIsQuiet DEF RowsKept, Outcome

\* The failures of a task, when one of its rows changes.
LEMMA OneRowFailures ==
  ASSUME TypeOK, NEW t, NEW e \in Exec, TaskOf(e) = t,
         \A d \in Exec : TaskOf(d) = t /\ d # e =>
           (exec'[d].terminal = "FAILED" <=> exec[d].terminal = "FAILED")
  PROVE  /\ (exec'[e].terminal = "FAILED" <=> exec[e].terminal = "FAILED") =>
              Cardinality(FailedExecs(t))' = Cardinality(FailedExecs(t))
         /\ exec'[e].terminal = "FAILED" /\ exec[e].terminal # "FAILED" =>
              Cardinality(FailedExecs(t))' = Cardinality(FailedExecs(t)) + 1
<1>1. ASSUME exec'[e].terminal = "FAILED" <=> exec[e].terminal = "FAILED"
      PROVE  FailedExecs(t)' = FailedExecs(t)
  BY <1>1 DEF FailedExecs
<1>2. ASSUME exec'[e].terminal = "FAILED", exec[e].terminal # "FAILED"
      PROVE  Cardinality(FailedExecs(t))' = Cardinality(FailedExecs(t)) + 1
  <2> DEFINE F == FailedExecs(t)
             G == FailedExecs(t)'
  <2>1. G = F \cup {e} /\ e \notin F /\ IsFiniteSet(F)
    <3>1. IsFiniteSet(F)
      BY FailedFinite
    <3>2. G = F \cup {e} /\ e \notin F
      BY <1>2 DEF FailedExecs
    <3> QED BY <3>1, <3>2
  <2>2. \A S : IsFiniteSet(S) /\ e \notin S => Cardinality(S \cup {e}) = Cardinality(S) + 1
    BY FS_AddElement
  <2> HIDE DEF F, G
  <2>3. Cardinality(G) = Cardinality(F) + 1
    BY <2>1, <2>2
  <2> QED BY <2>3 DEF F, G
<1> QED BY <1>1, <1>2

-----------------------------------------------------------------------------
\* The workers

\* A worker's step takes the attempts of some tasks on, or to their ends.
LEMMA WorkersServe ==
  ASSUME TypeOK, RowsInv, Verdicts, Verdicts', WorkersMove, NEW t \in Task, Promised(t)
  PROVE  ServiceStep(t)
<1>1. CASE RowsKept(t)
  BY <1>1, KeptIsQuiet DEF WorkersMove, Outcome
<1>2. CASE ~ RowsKept(t)
  <2>1. PICK e \in Exec : TaskOf(e) = t /\ exec'[e] # exec[e]
    BY <1>2 DEF RowsKept
  <2>2. /\ exec[e].state \in {"ENQUEUED", "ACQUIRED", "PROCESSING"}
        /\ exec'[e].state \in {"ACQUIRED", "PROCESSING", "PROCESSED", "FAILED"}
    BY <2>1 DEF WorkersMove
  <2>3. \A d \in Exec : TaskOf(d) = t /\ d # e =>
          exec[d].state \notin ExecUnsettled /\ exec'[d] = exec[d]
    <3>1. \A d \in Exec : TaskOf(d) = t /\ d # e => exec[d].state \notin ExecUnsettled
      BY <2>1, <2>2 DEF RowsInv, OneUnsettled, Unsettled, ExecUnsettled, ExecLive
    <3> QED BY <3>1 DEF WorkersMove, ExecUnsettled, ExecLive
  <2>4. taskState[t] = "ACTIVE" /\ UNCHANGED taskState
    BY <2>1, <2>2 DEF RowsInv, RestingQuiet, PendingBare, TaskResting, ExecLive, Promised, Outcome,
                      WorkersMove, TypeOK, TaskState
  <2>5. Outcome(t) = "open" /\ Outcome(t)' = "open"
    BY <2>4 DEF Outcome
  <2>6. Attempt(t) = "live"
    BY <2>1, <2>2, <2>3, AttemptIs, AttemptOf DEF Seen, ExecUnsettled, ExecLive
  <2>7. Attempt(t)' = Seen(exec'[e].state)
    BY <2>1, <2>2, <2>3, AttemptIs, AttemptOf DEF ExecUnsettled, ExecLive
  <2>8. /\ exec[e].terminal # "FAILED"
        /\ exec'[e].terminal = "FAILED" <=> exec'[e].state = "FAILED"
    BY <2>2, NoneAssumption DEF Verdicts, VerdictOK, ExecLive, ExecState
  <2>9. /\ exec'[e].state # "FAILED" =>
             Cardinality(FailedExecs(t))' = Cardinality(FailedExecs(t))
        /\ exec'[e].state = "FAILED" =>
             Cardinality(FailedExecs(t))' = Cardinality(FailedExecs(t)) + 1
    BY <2>1, <2>3, <2>8, OneRowFailures
  <2>10. CASE exec'[e].state \in {"ACQUIRED", "PROCESSING"}
    BY <2>5, <2>6, <2>7, <2>9, <2>10 DEF Seen, ExecLive, ServiceStep, Service!vars
  <2>11. CASE exec'[e].state = "PROCESSED"
    BY <2>5, <2>6, <2>7, <2>9, <2>11
       DEF Seen, ExecLive, ServiceStep, Service!Next, Service!Succeed
  <2>12. CASE exec'[e].state = "FAILED"
    BY <2>5, <2>6, <2>7, <2>9, <2>12
       DEF Seen, ExecLive, ServiceStep, Service!Next, Service!Fail
  <2> QED BY <2>2, <2>10, <2>11, <2>12
<1> QED BY <1>1, <1>2

-----------------------------------------------------------------------------
\* The scheduler

\* A task's first execution starts its first attempt.
LEMMA FirstAttempt ==
  ASSUME TypeOK, RowsInv, Verdicts, NEW t \in Task, taskState[t] = "PENDING",
         NEW n \in Exec, TaskOf(n) = t, NEW s \in ExecLive,
         taskState' = [taskState EXCEPT ![t] = "ACTIVE"],
         exec' = [exec EXCEPT ![n] = NewRow(s)]
  PROVE  \A u \in Task : ServiceStep(u)
<1>1. ASSUME NEW u \in Task, u # t PROVE ServiceStep(u)
  BY <1>1, KeptIsQuiet DEF RowsKept, Outcome, TypeOK
<1>2. \A d \in Exec : TaskOf(d) = t => exec[d].state = "NONE" /\ exec[d].terminal = None
  BY DEF RowsInv, PendingBare, Verdicts, VerdictOK
<1>3. /\ exec'[n].state = s /\ exec'[n].terminal = None
      /\ \A d \in Exec : d # n => exec'[d] = exec[d]
  BY DEF TypeOK, NewRow, NoRow
<1>4. Outcome(t) = "open" /\ Outcome(t)' = "open"
  BY DEF Outcome, TypeOK
<1>5. Attempt(t) = "none"
  BY <1>2, AttemptIs, NoAttempt DEF ExecUnsettled, ExecLive
<1>6. Attempt(t)' = "live"
  <2>1. /\ exec'[n].state \in ExecUnsettled /\ exec'[n].state \in ExecLive
        /\ \A d \in Exec : TaskOf(d) = t /\ d # n => exec'[d].state \notin ExecUnsettled
    BY <1>2, <1>3 DEF ExecUnsettled, ExecLive
  <2>2. AttemptIn(exec', t) = Seen(exec'[n].state)
    BY <2>1, AttemptOf
  <2>3. Seen(exec'[n].state) = "live"
    BY <2>1 DEF Seen, ExecLive
  <2> QED BY <2>2, <2>3, AttemptIs
<1>7. FailedExecs(t) = {} /\ FailedExecs(t)' = {}
  BY <1>2, <1>3, NoneAssumption DEF FailedExecs, ExecState
<1>8. ServiceStep(t)
  BY <1>4, <1>5, <1>6, <1>7, FS_EmptySet DEF ServiceStep, Service!Next, Service!Start
<1> QED BY <1>1, <1>8

\* What a handler that settles e finds: e is its task's attempt, and has ended.
LEMMA SettledRow ==
  ASSUME TypeOK, RowsInv, NEW e \in Exec, NEW t \in Task, TaskOf(e) = t, CanFinalize(e)
  PROVE  /\ exec[e].state \in {"PROCESSED", "FAILED"}
         /\ Attempt(t) = IF exec[e].state = "PROCESSED" THEN "succeeded" ELSE "failed"
         /\ \A d \in Exec : TaskOf(d) = t /\ d # e => exec[d].state \notin ExecUnsettled
         /\ Mark(exec[e], "FINALIZED").state = "FINALIZED"
         /\ Mark(exec[e], "FINALIZED").terminal = exec[e].terminal
<1>1. exec[e].state \in {"PROCESSED", "FAILED"}
  BY FinalizeFrom
<1>2. \A d \in Exec : TaskOf(d) = t /\ d # e => exec[d].state \notin ExecUnsettled
  BY <1>1 DEF RowsInv, OneUnsettled, Unsettled, ExecUnsettled
<1>3. Attempt(t) = Seen(exec[e].state)
  BY <1>1, <1>2, AttemptIs, AttemptOf DEF ExecUnsettled
<1>4. /\ Mark(exec[e], "FINALIZED").state = "FINALIZED"
      /\ Mark(exec[e], "FINALIZED").terminal = exec[e].terminal
  BY DEF Mark, TypeOK, ExecRow
<1> QED BY <1>1, <1>2, <1>3, <1>4 DEF Seen, ExecLive

\* Settling leaves no attempt, and the failures as they were.
LEMMA SettlingEnds ==
  ASSUME TypeOK, RowsInv, NEW e \in Exec, NEW t \in Task, TaskOf(e) = t, CanFinalize(e),
         exec' = [exec EXCEPT ![e] = Mark(@, "FINALIZED")]
  PROVE  /\ Attempt(t)' = "none"
         /\ Cardinality(FailedExecs(t))' = Cardinality(FailedExecs(t))
         /\ \A u \in Task \ {t} : RowsKept(u)
<1>1. /\ exec'[e].state = "FINALIZED" /\ exec'[e].terminal = exec[e].terminal
      /\ \A d \in Exec \ {e} : exec'[d] = exec[d]
      /\ \A d \in Exec : TaskOf(d) = t /\ d # e => exec[d].state \notin ExecUnsettled
  BY SettledRow DEF TypeOK
<1>2. Attempt(t)' = "none"
  <2>1. \A d \in Exec : TaskOf(d) = t => exec'[d].state \notin ExecUnsettled
    BY <1>1 DEF ExecUnsettled, ExecLive
  <2>2. AttemptIn(exec', t) = "none"
    BY <2>1, NoAttempt
  <2> QED BY <2>2, AttemptIs
<1>3. Cardinality(FailedExecs(t))' = Cardinality(FailedExecs(t))
  BY <1>1, OneRowFailures
<1> QED BY <1>1, <1>2, <1>3 DEF RowsKept

\* processTaskExecutionComplete completes an open task over a success.
LEMMA CompleteServes ==
  ASSUME TypeOK, RowsInv, Verdicts, NEW e \in Exec, exec[e].terminal = "PROCESSED",
         ProcessTaskExecutionComplete(e)
  PROVE  \A u \in Task : ServiceStep(u)
<1>0. PICK t \in Task : t = TaskOf(e)
  BY TaskOfType
<1>1. CASE NoEffect
  BY <1>1, StillIsQuiet DEF NoEffect, rowVars
<1>2. CASE CanFinalize(e) /\ ValidTask(taskState[t], "COMPLETE")
  <2>1. /\ exec' = [exec EXCEPT ![e] = Mark(@, "FINALIZED")]
        /\ taskState' = [taskState EXCEPT ![t] = "COMPLETE"]
    BY <1>0, <1>2 DEF ProcessTaskExecutionComplete
  <2>2. taskState[t] = "ACTIVE"
    <3>1. exec[e].state \in {"PROCESSED", "FAILED"}
      BY <1>0, <1>2, SettledRow
    <3>2. taskState[t] \in TaskState
      BY <1>0, <3>1, TaskOfRow DEF RowsInv
    <3> QED BY <1>2, <3>2, TaskFrom
  <2>3. Outcome(t) = "open" /\ Outcome(t)' = "COMPLETE"
    BY <2>1, <2>2 DEF Outcome, TypeOK
  <2>4. Attempt(t) = "succeeded"
    BY <1>0, <1>2, SettledRow DEF Verdicts, VerdictOK
  <2>5. /\ Attempt(t)' = "none"
        /\ Cardinality(FailedExecs(t))' = Cardinality(FailedExecs(t))
        /\ \A u \in Task \ {t} : RowsKept(u)
    BY <1>0, <1>2, <2>1, SettlingEnds
  <2>6. ServiceStep(t)
    BY <2>3, <2>4, <2>5 DEF ServiceStep, Service!Next, Service!Complete
  <2>7. \A u \in Task \ {t} : ServiceStep(u)
    BY <2>1, <2>5, KeptIsQuiet DEF Outcome, TypeOK
  <2> QED BY <2>6, <2>7
<1> QED BY <1>0, <1>1, <1>2 DEF ProcessTaskExecutionComplete

\* Giving an open task up settles its attempt with it.
LEMMA GiveUpServes ==
  ASSUME TypeOK, RowsInv, NEW e \in Exec, NEW t \in Task, TaskOf(e) = t, CanFinalize(e),
         taskState[t] = "ACTIVE",
         exec' = [exec EXCEPT ![e] = Mark(@, "FINALIZED")],
         taskState' = [taskState EXCEPT ![t] = "FAILED"]
  PROVE  \A u \in Task : ServiceStep(u)
<1>1. Outcome(t) = "open" /\ Outcome(t)' = "FAILED"
  BY DEF Outcome, TypeOK
<1>2. Attempt(t) \in {"succeeded", "failed"}
  BY SettledRow
<1>3. /\ Attempt(t)' = "none"
      /\ Cardinality(FailedExecs(t))' = Cardinality(FailedExecs(t))
      /\ \A u \in Task \ {t} : RowsKept(u)
  BY SettlingEnds
<1>4. ServiceStep(t)
  BY <1>1, <1>2, <1>3 DEF ServiceStep, Service!Next, Service!GiveUp
<1>5. \A u \in Task \ {t} : ServiceStep(u)
  BY <1>3, KeptIsQuiet DEF Outcome, TypeOK
<1> QED BY <1>4, <1>5

\* processTaskExecutionEngineFailed gives the task up, or does nothing.
LEMMA EngineFailedServes ==
  ASSUME TypeOK, RowsInv, NEW e \in Exec, ProcessTaskExecutionEngineFailed(e)
  PROVE  \A u \in Task : ServiceStep(u)
<1>0. PICK t \in Task : t = TaskOf(e)
  BY TaskOfType
<1>1. CASE NoEffect
  BY <1>1, StillIsQuiet DEF NoEffect, rowVars
<1>2. CASE CanFinalize(e) /\ ValidTask(taskState[t], "FAILED")
  <2>1. /\ exec' = [exec EXCEPT ![e] = Mark(@, "FINALIZED")]
        /\ taskState' = [taskState EXCEPT ![t] = "FAILED"]
    BY <1>0, <1>2 DEF ProcessTaskExecutionEngineFailed
  <2>2. taskState[t] = "ACTIVE"
    <3>1. exec[e].state \in {"PROCESSED", "FAILED"}
      BY <1>0, <1>2, SettledRow
    <3>2. taskState[t] \in TaskState
      BY <1>0, <3>1, TaskOfRow DEF RowsInv
    <3> QED BY <1>2, <3>2, TaskFrom
  <2> QED BY <1>0, <1>2, <2>1, <2>2, GiveUpServes
<1> QED BY <1>0, <1>1, <1>2 DEF ProcessTaskExecutionEngineFailed

\* processTaskExecutionFailed of what did not succeed: another attempt within the
\* budget, or the end of the task, or, of a task at rest, the end of the attempt.
LEMMA FailedServes ==
  ASSUME TypeOK, RowsInv, BudgetInv, NEW e \in Exec, NoSuccess(e),
         \A t \in Task : Promised(t), ProcessTaskExecutionFailed(e)
  PROVE  \A u \in Task : ServiceStep(u)
<1>0. PICK t \in Task : t = TaskOf(e)
  BY TaskOfType
<1> DEFINE finalized == [exec EXCEPT ![e] = Mark(@, "FINALIZED")]
<1>1. CASE NoEffect
  BY <1>1, StillIsQuiet DEF NoEffect, rowVars
<1>2. ASSUME CanFinalize(e) PROVE exec[e].state = "FAILED" /\ Attempt(t) = "failed"
  <2>1. exec[e].state # "PROCESSED"
    BY <1>2 DEF NoSuccess, BudgetInv, Verdicts, VerdictOK
  <2> QED BY <1>0, <1>2, <2>1, SettledRow
<1>3. CASE CanFinalize(e) /\ taskState[t] = "ACTIVE" /\ DecideExecutionRetry(e)
  <2>1. PICK n : n = NewExec(t)
    OBVIOUS
  <2>2. /\ UseExecId(t) /\ exec' = [finalized EXCEPT ![n] = NewRow("SCHEDULED")]
        /\ UNCHANGED taskState
    BY <1>0, <1>3, <2>1 DEF ProcessTaskExecutionFailed
  <2>3. n \in Exec /\ TaskOf(n) = t /\ n[2] = nextExec[t]
    BY <2>1, <2>2, UseExecIdType DEF NewExec, TaskOf
  <2>4. exec[n].state = "NONE" /\ n # e
    BY <1>2, <1>3, <2>3, BoundAssumption DEF BudgetInv, IdsUsed, Exec, TypeOK
  <2>5. /\ exec'[n].state = "SCHEDULED" /\ exec'[n].terminal = None
        /\ exec'[e] = Mark(exec[e], "FINALIZED")
        /\ \A d \in Exec \ {n, e} : exec'[d] = exec[d]
    BY <2>2, <2>3, <2>4 DEF TypeOK, NewRow, NoRow
  <2>6. /\ exec'[e].state = "FINALIZED" /\ exec'[e].terminal = exec[e].terminal
        /\ \A d \in Exec : TaskOf(d) = t /\ d # e => exec[d].state \notin ExecUnsettled
    BY <1>0, <1>3, <2>5, SettledRow
  <2>7. Attempt(t)' = "live"
    BY <2>3, <2>5, <2>6, AttemptIs, AttemptOf DEF Seen, ExecUnsettled, ExecLive
  <2>8. Cardinality(FailedExecs(t))' = Cardinality(FailedExecs(t))
    <3>1. exec[n].terminal = None
      BY <2>3, <2>4 DEF BudgetInv, Verdicts, VerdictOK
    <3>2. \A d \in Exec : exec'[d].terminal = exec[d].terminal
      BY <2>5, <2>6, <3>1
    <3> QED BY <3>2 DEF FailedExecs
  <2>9. MaxRetries < 0 \/ Cardinality(FailedExecs(t)) <= MaxRetries
    BY <1>0, <1>3, FailedFinite, BoundAssumption DEF DecideExecutionRetry
  <2>10. Outcome(t) = "open" /\ Outcome(t)' = "open"
    BY <1>3, <2>2 DEF Outcome
  <2>11. ServiceStep(t)
    BY <1>2, <1>3, <2>7, <2>8, <2>9, <2>10 DEF ServiceStep, Service!Next, Service!Start
  <2>12. \A u \in Task \ {t} : ServiceStep(u)
    BY <1>0, <2>2, <2>3, <2>5, KeptIsQuiet DEF RowsKept, Outcome
  <2> QED BY <2>11, <2>12
<1>4. CASE CanFinalize(e) /\ taskState[t] = "ACTIVE" /\ ~ DecideExecutionRetry(e)
  <2>1. exec' = finalized /\ taskState' = [taskState EXCEPT ![t] = "FAILED"]
    BY <1>0, <1>4 DEF ProcessTaskExecutionFailed
  <2> QED BY <1>0, <1>4, <2>1, GiveUpServes
<1>5. CASE CanFinalize(e) /\ taskState[t] # "ACTIVE"
  <2>1. exec' = finalized /\ UNCHANGED taskState
    BY <1>0, <1>5 DEF ProcessTaskExecutionFailed
  <2>2. /\ Attempt(t)' = "none"
        /\ Cardinality(FailedExecs(t))' = Cardinality(FailedExecs(t))
        /\ \A u \in Task \ {t} : RowsKept(u)
    BY <1>0, <1>5, <2>1, SettlingEnds
  <2>3. Outcome(t) \in {"FAILED", "CANCELLED", "TIMED_OUT"} /\ Outcome(t)' = Outcome(t)
    <3>1. taskState[t] \in TaskState \ {"PENDING"}
      BY <1>0, <1>2, <1>5, TaskOfRow DEF RowsInv
    <3> QED BY <1>2, <1>5, <2>1, <3>1 DEF Outcome, Promised, TaskState
  <2>4. ServiceStep(t)
    BY <1>2, <1>5, <2>2, <2>3 DEF ServiceStep, Service!Next, Service!Settle
  <2>5. \A u \in Task \ {t} : ServiceStep(u)
    BY <2>1, <2>2, KeptIsQuiet DEF Outcome
  <2> QED BY <2>4, <2>5
<1> QED BY <1>0, <1>1, <1>3, <1>4, <1>5 DEF ProcessTaskExecutionFailed

\* An open task that is stopped takes its live attempt with it, and leaves one that
\* ended to be settled.
LEMMA StopServes ==
  ASSUME TypeOK, RowsInv, Verdicts, NEW t \in Task, taskState[t] \in {"PENDING", "ACTIVE"},
         NEW s \in {"CANCELLED", "TIMED_OUT"},
         taskState' = [taskState EXCEPT ![t] = s], exec' = CancelOngoing(exec, t)
  PROVE  \A u \in Task : ServiceStep(u)
<1>1. ASSUME NEW u \in Task, u # t PROVE ServiceStep(u)
  BY <1>1, KeptIsQuiet DEF RowsKept, Outcome, CancelOngoing, TypeOK
<1>2. Outcome(t) = "open" /\ Outcome(t)' = s
  BY DEF Outcome, TypeOK
<1>3. CASE \E e \in Exec : TaskOf(e) = t /\ exec[e].state \in ExecLive
  <2>1. PICK e \in Exec : TaskOf(e) = t /\ exec[e].state \in ExecLive
    BY <1>3
  <2>2. \A d \in Exec : TaskOf(d) = t /\ d # e => exec[d].state \notin ExecUnsettled
    BY <2>1 DEF RowsInv, OneUnsettled, Unsettled, ExecUnsettled
  <2>3. \A d \in Exec : TaskOf(d) = t /\ d # e => exec'[d] = exec[d]
    BY <2>2 DEF CancelOngoing, ExecUnsettled
  <2>4. exec'[e].state = "CANCELLED" /\ exec'[e].terminal = "CANCELLED"
    <3>1. exec'[e] = Mark(exec[e], "CANCELLED") /\ exec[e] \in ExecRow
      BY <2>1 DEF CancelOngoing, TypeOK
    <3> QED BY <3>1 DEF Mark, ExecRow
  <2>5. Attempt(t) = "live"
    <3>1. AttemptIn(exec, t) = Seen(exec[e].state)
      BY <2>1, <2>2, AttemptOf DEF ExecUnsettled
    <3> QED BY <2>1, <3>1, AttemptIs DEF Seen, ExecLive
  <2>6. Attempt(t)' = "none"
    <3>1. \A d \in Exec : TaskOf(d) = t => exec'[d].state \notin ExecUnsettled
      BY <2>2, <2>3, <2>4 DEF ExecUnsettled, ExecLive
    <3>2. AttemptIn(exec', t) = "none"
      BY <3>1, NoAttempt
    <3> QED BY <3>2, AttemptIs
  <2>7. Cardinality(FailedExecs(t))' = Cardinality(FailedExecs(t))
    <3>1. exec[e].terminal = None
      BY <2>1 DEF Verdicts, VerdictOK
    <3> QED BY <2>1, <2>3, <2>4, <3>1, OneRowFailures, NoneAssumption DEF ExecState
  <2>8. ServiceStep(t)
    BY <1>2, <2>5, <2>6, <2>7 DEF ServiceStep, Service!Next, Service!Stop
  <2> QED BY <1>1, <2>8
<1>4. CASE ~ \E e \in Exec : TaskOf(e) = t /\ exec[e].state \in ExecLive
  <2>1. RowsKept(t)
    BY <1>4 DEF RowsKept, CancelOngoing
  <2>2. Attempt(t)' = Attempt(t)
    BY <2>1, AttemptIs DEF AttemptIn, HasIn, RowsKept
  <2>3. Cardinality(FailedExecs(t))' = Cardinality(FailedExecs(t))
    <3>1. FailedExecs(t)' = FailedExecs(t)
      BY <2>1 DEF FailedExecs, RowsKept
    <3> QED BY <3>1
  <2>4. Attempt(t) # "live"
    <3>1. ~ HasIn(exec, t, ExecLive)
      BY <1>4 DEF HasIn
    <3> QED BY <3>1, AttemptIs DEF AttemptIn
  <2>5. ServiceStep(t)
    BY <1>2, <2>2, <2>3, <2>4 DEF ServiceStep, Service!Next, Service!Stop
  <2> QED BY <1>1, <2>5
<1> QED BY <1>1, <1>3, <1>4

\* The cancellation of a task, and its deadline when it has no execution under way,
\* stop it.
LEMMA CancelServes ==
  ASSUME TypeOK, RowsInv, Verdicts, NEW t \in Task, Promised(t),
         ProcessCancelTask(t) \/ ProcessTaskTimeout(t)
  PROVE  \A u \in Task : ServiceStep(u)
<1>1. CASE NoEffect
  BY <1>1, StillIsQuiet DEF NoEffect, rowVars
<1>2. taskState[t] # "CANCELLING"
  BY DEF Promised, Outcome
<1>3. CASE /\ taskState[t] \in {"PENDING", "ACTIVE"} /\ exec' = CancelOngoing(exec, t)
           /\ \E s \in {"CANCELLED", "TIMED_OUT"} : taskState' = [taskState EXCEPT ![t] = s]
  BY <1>3, StopServes
<1> QED BY <1>1, <1>2, <1>3 DEF ProcessCancelTask, ProcessTaskTimeout

\* processTaskExecutionTimedOut ends the live attempt of an open task as a failure,
\* and the task with it.
LEMMA TimedOutServes ==
  ASSUME TypeOK, RowsInv, Verdicts, NEW e \in Exec, ProcessTaskExecutionTimedOut(e)
  PROVE  \A u \in Task : ServiceStep(u)
<1>0. PICK t \in Task : t = TaskOf(e)
  BY TaskOfType
<1> DEFINE settled == [exec EXCEPT ![e] = Mark(Mark(@, "FAILED"), "FINALIZED")]
<1>1. CASE NoEffect
  BY <1>1, StillIsQuiet DEF NoEffect, rowVars
<1>2. CASE ValidExec(exec[e].state, "FAILED") /\ ValidTask(taskState[t], "TIMED_OUT") /\ ~ NoEffect
  <2>1. /\ taskState' = [taskState EXCEPT ![t] = "TIMED_OUT"]
        /\ exec' = CancelOngoing(settled, t)
    BY <1>0, <1>2 DEF ProcessTaskExecutionTimedOut
  <2>2. exec[e].state \in ExecLive /\ exec[e].state # "NONE"
    BY <1>2, OutcomeFrom DEF ExecLive
  <2>3. taskState[t] = "ACTIVE"
    <3>1. taskState[t] \in TaskState
      BY <1>0, <2>2, TaskOfRow DEF RowsInv
    <3> QED BY <1>2, <3>1, TaskFrom
  <2>4. \A d \in Exec : TaskOf(d) = t /\ d # e => exec[d].state \notin ExecUnsettled
    BY <1>0, <2>2 DEF RowsInv, OneUnsettled, Unsettled, ExecUnsettled
  <2>5. settled[e].state = "FINALIZED" /\ settled[e].terminal = "FAILED"
    <3>0. \A r \in ExecRow : /\ Mark(r, "FAILED") \in ExecRow
                             /\ Mark(r, "FAILED").terminal = "FAILED"
      <4>1. \A r \in ExecRow : Mark(r, "FAILED") \in ExecRow
        BY MarkType DEF ExecState
      <4>2. \A r \in ExecRow : Mark(r, "FAILED").terminal = "FAILED"
        BY DEF Mark, ExecRow
      <4> QED BY <4>1, <4>2
    <3>1. /\ Mark(exec[e], "FAILED") \in ExecRow
          /\ Mark(exec[e], "FAILED").terminal = "FAILED"
      BY <3>0 DEF TypeOK
    <3>2. \A r \in ExecRow : /\ Mark(r, "FINALIZED").state = "FINALIZED"
                             /\ Mark(r, "FINALIZED").terminal = r.terminal
      BY DEF Mark, ExecRow
    <3>3. settled[e] = Mark(Mark(exec[e], "FAILED"), "FINALIZED")
      BY DEF TypeOK
    <3> HIDE DEF settled
    <3> QED BY <3>1, <3>2, <3>3
  <2>6. /\ exec'[e] = settled[e]
        /\ \A d \in Exec : d # e /\ (TaskOf(d) = t => exec[d].state \notin ExecLive)
             => exec'[d] = exec[d]
    <3>1. \A d \in Exec : d # e => settled[d] = exec[d]
      BY DEF TypeOK
    <3> HIDE DEF settled
    <3> QED BY <2>1, <2>5, <3>1 DEF CancelOngoing, ExecLive
  <2> HIDE DEF settled
  <2>7. /\ exec'[e].state = "FINALIZED" /\ exec'[e].terminal = "FAILED"
        /\ \A d \in Exec : d # e => exec'[d] = exec[d]
    BY <2>4, <2>5, <2>6 DEF ExecUnsettled
  <2>8. Outcome(t) = "open" /\ Outcome(t)' = "TIMED_OUT"
    BY <2>1, <2>3 DEF Outcome, TypeOK
  <2>9. Attempt(t) = "live"
    <3>1. AttemptIn(exec, t) = Seen(exec[e].state)
      BY <1>0, <2>2, <2>4, AttemptOf DEF ExecUnsettled
    <3> QED BY <2>2, <3>1, AttemptIs DEF Seen, ExecLive
  <2>10. Attempt(t)' = "none"
    <3>1. \A d \in Exec : TaskOf(d) = t => exec'[d].state \notin ExecUnsettled
      BY <2>4, <2>7 DEF ExecUnsettled, ExecLive
    <3>2. AttemptIn(exec', t) = "none"
      BY <3>1, NoAttempt
    <3> QED BY <3>2, AttemptIs
  <2>11. Cardinality(FailedExecs(t))' = Cardinality(FailedExecs(t)) + 1
    <3>1. exec[e].terminal # "FAILED"
      BY <2>2, NoneAssumption DEF Verdicts, VerdictOK, ExecState
    <3> QED BY <1>0, <2>7, <3>1, OneRowFailures
  <2>12. ServiceStep(t)
    BY <2>8, <2>9, <2>10, <2>11 DEF ServiceStep, Service!Next, Service!Stop
  <2>13. \A u \in Task \ {t} : ServiceStep(u)
    BY <1>0, <2>1, <2>7, KeptIsQuiet DEF RowsKept, Outcome, TypeOK
  <2> QED BY <2>12, <2>13
<1> QED BY <1>0, <1>1, <1>2 DEF ProcessTaskExecutionTimedOut

\* processNewPendingTask starts a scheduled task's first attempt; an immediate one's
\* starts at the commit.
LEMMA NewPendingServes ==
  ASSUME TypeOK, RowsInv, Verdicts, NEW t \in Task, ProcessNewPendingTask(t)
  PROVE  \A u \in Task : ServiceStep(u)
<1>1. CASE taskState[t] = "PENDING" /\ t \in Scheduled
  <2>1. PICK n : n = NewExec(t)
    OBVIOUS
  <2>2. /\ UseExecId(t) /\ exec' = [exec EXCEPT ![n] = NewRow("SCHEDULED")]
        /\ taskState' = [taskState EXCEPT ![t] = "ACTIVE"]
    BY <1>1, <2>1 DEF ProcessNewPendingTask
  <2>3. n \in Exec /\ TaskOf(n) = t
    BY <2>1, <2>2, UseExecIdType DEF NewExec, TaskOf
  <2> QED BY <1>1, <2>2, <2>3, FirstAttempt DEF ExecLive
<1>2. CASE ~ (taskState[t] = "PENDING" /\ t \in Scheduled)
  <2>1. UNCHANGED <<taskState, exec>>
    BY <1>2 DEF ProcessNewPendingTask, NoEffect, rowVars
  <2> QED BY <2>1, StillIsQuiet
<1> QED BY <1>1, <1>2

\* Whatever handler a truthful message or a sweep item is dispatched to serves every
\* task.
LEMMA HandleServes ==
  ASSUME TypeOK, RowsInv, BudgetInv, \A t \in Task : Promised(t),
         NEW m \in SchedMsg \cup SweepItem, m.type # "TASK_MAINTENANCE", Truthful(m), Handle(m)
  PROVE  \A u \in Task : ServiceStep(u)
<1>0. Verdicts
  BY DEF BudgetInv
<1>1. ASSUME NEW t \in Task,
             ProcessNewPendingTask(t) \/ ProcessCancelTask(t) \/ ProcessTaskTimeout(t)
      PROVE  \A u \in Task : ServiceStep(u)
  BY <1>0, <1>1, NewPendingServes, CancelServes
<1>2. ASSUME m.id \in Exec, m.type = "EXECUTE_SUCCEEDED", ProcessTaskExecutionComplete(m.id)
      PROVE  \A u \in Task : ServiceStep(u)
  BY <1>0, <1>2, CompleteServes DEF Truthful
<1>3. ASSUME m.id \in Exec, m.type = "EXECUTE_FAILED", ProcessTaskExecutionFailed(m.id)
      PROVE  \A u \in Task : ServiceStep(u)
  BY <1>3, FailedServes DEF Truthful
<1>4. ASSUME NEW e \in Exec, ProcessTaskExecutionStarting(e)
      PROVE  \A u \in Task : ServiceStep(u)
  BY <1>4, StillIsQuiet DEF ProcessTaskExecutionStarting, NoEffect, rowVars
<1>5. ASSUME NEW e \in Exec,
             ProcessTaskExecutionEngineFailed(e) \/ ProcessTaskExecutionTimedOut(e)
      PROVE  \A u \in Task : ServiceStep(u)
  BY <1>0, <1>5, EngineFailedServes, TimedOutServes
<1> QED BY <1>1, <1>2, <1>3, <1>4, <1>5, HandleCases

\* The commit of what was sent starts a first attempt, or moves a live one on.
LEMMA CommitServes ==
  ASSUME TypeOK, RowsInv, Verdicts, SchedCommit
  PROVE  \A u \in Task : ServiceStep(u)
<1>0. pend # None /\ CommitRows
  BY DEF SchedCommit
<1>1. PICK n \in Exec : n = pend
  BY <1>0 DEF TypeOK
<1>2. PICK t \in Task : t = TaskOf(n)
  BY TaskOfType
<1>3. CASE exec[n].state = "NONE"
  <2>1. /\ exec' = [exec EXCEPT ![n] = NewRow("ENQUEUED")]
        /\ taskState' = [taskState EXCEPT ![t] = "ACTIVE"]
        /\ taskState[t] = "PENDING"
    BY <1>0, <1>1, <1>2, <1>3 DEF CommitRows, RowsInv, Sending
  <2> QED BY <1>2, <2>1, FirstAttempt DEF ExecLive
<1>4. CASE exec[n].state # "NONE"
  <2>1. exec' = [exec EXCEPT ![n] = Mark(@, "ENQUEUED")] /\ UNCHANGED taskState
    BY <1>0, <1>1, <1>4 DEF CommitRows
  <2>2. exec[n].state \in ExecLive
    BY <1>0, <1>1, <1>4 DEF RowsInv, Sending, ExecLive
  <2>3. /\ exec'[n].state = "ENQUEUED" /\ exec'[n].terminal = exec[n].terminal
        /\ \A d \in Exec \ {n} : exec'[d] = exec[d]
    BY <2>1 DEF Mark, TypeOK, ExecRow
  <2>4. \A d \in Exec : TaskOf(d) = t /\ d # n => exec[d].state \notin ExecUnsettled
    BY <1>2, <2>2 DEF RowsInv, OneUnsettled, Unsettled, ExecUnsettled
  <2>5. Attempt(t) = "live" /\ Attempt(t)' = "live"
    <3>1. AttemptIn(exec, t) = Seen(exec[n].state)
      BY <1>2, <2>2, <2>4, AttemptOf DEF ExecUnsettled
    <3>2. /\ exec'[n].state \in ExecUnsettled
          /\ \A d \in Exec : TaskOf(d) = t /\ d # n => exec'[d].state \notin ExecUnsettled
      BY <2>3, <2>4 DEF ExecUnsettled, ExecLive
    <3>3. AttemptIn(exec', t) = Seen(exec'[n].state)
      BY <1>2, <3>2, AttemptOf
    <3> QED BY <2>2, <2>3, <3>1, <3>3, AttemptIs DEF Seen, ExecLive
  <2>6. FailedExecs(t)' = FailedExecs(t)
    BY <2>3 DEF FailedExecs
  <2>7. ServiceStep(t)
    BY <2>1, <2>5, <2>6 DEF Outcome, ServiceStep, Service!vars
  <2>8. \A u \in Task \ {t} : ServiceStep(u)
    BY <1>2, <2>1, <2>3, KeptIsQuiet DEF RowsKept, Outcome
  <2> QED BY <2>7, <2>8
<1> QED BY <1>3, <1>4

-----------------------------------------------------------------------------
\* The engine

\* Every step of the engine serves every task.
LEMMA NextServes ==
  ASSUME "staleRead" \notin FaultKinds, TruthInv, \A t \in Task : Promised(t), [Next]_vars
  PROVE  \A u \in Task : ServiceStep(u)
<1>0. /\ TypeInv /\ TypeOK /\ NothingRead /\ RowsInv /\ BudgetInv /\ Verdicts /\ Verdicts'
      /\ QueuesTrue
  BY OutcomeNext DEF TruthInv, WorkInv, OutcomeInv, SafetyInv, TypeInv, BudgetInv
<1>1. CASE UNCHANGED <<taskState, exec>>
  BY <1>1, StillIsQuiet
<1>2. CASE SchedHandle
  <2>1. /\ cur \in SchedMsg /\ cur.type # "TASK_MAINTENANCE" /\ Handle(cur)
        /\ cur \in TrueMsg
    BY <1>0, <1>2 DEF SchedHandle, TypeInv, Holding, QueuesTrue
  <2> QED BY <1>0, <2>1, HandleServes DEF TrueMsg
<1>3. CASE SweepOne
  <2>1. PICK m \in todo : Handle(m)
    BY <1>3 DEF SweepOne
  <2>2. m \in SweepItem /\ m.type # "TASK_MAINTENANCE" /\ Truthful(m)
    BY <1>0 DEF TypeOK, SweepItem, TaskMsgTypes, QueuesTrue
  <2> QED BY <1>0, <2>1, <2>2, HandleServes
<1>4. CASE SchedulerStep \/ MaintenanceTick \/ HandlerAborts \/ SweepItemAborts \/ SchedCrash
  BY <1>0, <1>1, <1>2, <1>3, <1>4, CommitServes
     DEF SchedulerStep, SchedStart, RecoverPop, RecoverPush, RecoverDone, MaintenanceTick,
         SchedDequeue, SweepBegin, SweepNext, SweepEnd, SchedDelete, HandlerAborts,
         SweepItemAborts, SchedCrash, rowVars
<1>5. ASSUME NEW t \in Task, DefineTask(t) PROVE \A u \in Task : ServiceStep(u)
  <2>1. /\ taskState[t] = "ABSENT" /\ taskState' = [taskState EXCEPT ![t] = "PENDING"]
        /\ UNCHANGED exec
    BY <1>5 DEF DefineTask
  <2>2. Outcome(t) = "absent" /\ Outcome(t)' = "open"
    BY <1>0, <2>1 DEF Outcome, TypeOK
  <2>3. Attempt(t)' = Attempt(t) /\ FailedExecs(t)' = FailedExecs(t)
    BY <2>1 DEF Attempt, HasExec, FailedExecs
  <2>4. ServiceStep(t)
    BY <2>2, <2>3 DEF ServiceStep, Service!Next, Service!Accept
  <2>5. \A u \in Task \ {t} : ServiceStep(u)
    BY <1>0, <2>1, KeptIsQuiet DEF RowsKept, Outcome, TypeOK
  <2> QED BY <2>4, <2>5
<1>6. CASE ClientStep \/ ClockStep \/ UNCHANGED vars
  BY <1>1, <1>5, <1>6 DEF ClientStep, ClockStep, SubmitTask, CancelTask, Poke,
                          DeadlinePasses, BecomesDue, rowVars, vars
<1>7. ASSUME \/ \E w \in Worker : ReceiverStep(w) \/ WorkerFault(w)
             \/ \E w \in Worker, e \in Exec : ExecutorStep(w, e)
      PROVE  \A u \in Task : ServiceStep(u)
  <2>1. WorkersMove
    BY <1>0, <1>7, IsolatedMoves
  <2> QED BY <1>0, <2>1, WorkersServe
<1> QED BY <1>4, <1>6, <1>7 DEF Next

\* The service keeps what it promises of every state.
LEMMA PromisedNext ==
  ASSUME NEW t \in Task, Promised(t), ServiceStep(t)
  PROVE  Promised(t)'
BY DEF Promised, ServiceStep, Service!vars, Service!Next, Service!Accept, Service!Start,
       Service!Succeed, Service!Fail, Service!Complete, Service!GiveUp, Service!Stop,
       Service!Settle

\* The empty database is the service's first state, for every task.
LEMMA ServiceInit == Init => \A t \in Task : Service(t)!Init /\ Promised(t)
<1> SUFFICES ASSUME Init, NEW t \in Task PROVE Service(t)!Init /\ Promised(t)
  OBVIOUS
<1>1. \A e \in Exec : exec[e].state = "NONE" /\ exec[e].terminal = None
  BY DEF Init, NoRow
<1>2. Outcome(t) = "absent"
  BY DEF Init, Outcome
<1>3. Attempt(t) = "none"
  BY <1>1, AttemptIs, NoAttempt DEF ExecUnsettled, ExecLive
<1>4. FailedExecs(t) = {}
  BY <1>1, NoneAssumption DEF FailedExecs, ExecState
<1> QED BY <1>2, <1>3, <1>4, FS_EmptySet DEF Service!Init, Promised

\* To its submitter a task is what TaskService promises, through every interleaving,
\* duplicate, loss, crash and abort that the engine goes through: no attempt beside a
\* live one, none after the task has come to rest or over its budget, completion over
\* a success only, and an outcome once and for good.
THEOREM EngineRefinesService ==
  ASSUME "staleRead" \notin FaultKinds
  PROVE  Spec => EngineImplementsService
<1>1. Init => \A t \in Task : Service(t)!Init
  BY ServiceInit
<1>2. Init => \A t \in Task : Promised(t)
  BY ServiceInit
<1>3. TruthInv /\ (\A t \in Task : Promised(t)) /\ [Next]_vars
      => (\A t \in Task : Promised(t))'
  BY NextServes, PromisedNext
<1>4. Spec => [](TruthInv /\ \A t \in Task : Promised(t))
  BY <1>2, <1>3, TruthHolds, PTL DEF Spec
<1>5. TruthInv /\ (\A t \in Task : Promised(t)) /\ [Next]_vars
      => [\A t \in Task : ServiceStep(t)]_vars
  BY NextServes
<1> QED BY <1>1, <1>4, <1>5, PTL DEF Spec, EngineImplementsService
=============================================================================
