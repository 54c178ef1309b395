------------------------- MODULE TaskEngineOutcomes -------------------------
(***************************************************************************)
(* The outcomes of the task engine's tasks, for every set of tasks and     *)
(* workers: the retry budget, the causes of a failure, the last word of a  *)
(* non-retryable failure, who runs an execution, and that what the         *)
(* messages report of an execution is true of it.                          *)
(*                                                                         *)
(* The proof sorts the steps by what they do to the executions table.  In  *)
(* most of them rows only Age: a row moves on in its life and no row       *)
(* appears.  In the others one row is inserted, and it is the newest of    *)
(* its task (Grow).  The invariants are proved once for each kind.         *)
(***************************************************************************)
EXTENDS TaskEngineSafety

\* The verdict on an execution is recorded when it ends, and with it how.
VerdictOK(r) ==
  /\ r.state \in ExecLive \cup {"NONE"} <=> r.terminal = None
  /\ r.nonRetryable => r.terminal = "FAILED"
  /\ r.state = "PROCESSED" => r.terminal = "PROCESSED"
  /\ r.state = "FAILED" => r.terminal = "FAILED"

Verdicts == \A e \in Exec : VerdictOK(exec[e])

\* What is unsettled is the newest of its task.
LastUnsettled ==
  \A d, e \in Exec :
    TaskOf(d) = TaskOf(e) /\ Unsettled(d) /\ e[2] > d[2] => exec[e].state = "NONE"

\* While an execution is live there is room for its failure.
LiveWithinBudget ==
  MaxRetries >= 0 =>
    \A e \in Exec :
      exec[e].state \in ExecLive => Cardinality(FailedExecs(TaskOf(e))) <= MaxRetries

BudgetInv ==
  Verdicts /\ IdsUsed /\ LastUnsettled /\ LiveWithinBudget /\ RetryBudget /\ NonRetryableIsLast

\* The states of an execution some worker has claimed, or that has ended.
Started == ExecState \ {"DEFINED", "SCHEDULED", "ENQUEUED"}

\* How a row may move on: never into life, never out of its verdict or to another
\* owner.
RowAges(r, s) ==
  /\ VerdictOK(s)
  /\ s.state = "NONE" <=> r.state = "NONE"
  /\ s.state \in ExecLive => r.state \in ExecLive
  /\ s.state \in ExecUnsettled => r.state \in ExecUnsettled
  /\ r.state \in {"FINALIZED", "CANCELLED"} => s = r
  /\ r.terminal # None => s.terminal = r.terminal /\ s.nonRetryable = r.nonRetryable
  /\ r.state \in Started => s.state \in Started /\ s.worker = r.worker

\* Every row stays or moves on.
Age == IdsAge /\ \A e \in Exec : RowAges(exec[e], exec'[e])

\* One row is inserted: the newest of its task, when nothing of the task is
\* unsettled, not to be retried, or over the budget.
Grow(n) ==
  /\ IdsAge
  /\ \A e \in Exec \ {n} : RowAges(exec[e], exec'[e])
  /\ exec[n].state = "NONE" /\ exec'[n].state \in ExecLive /\ VerdictOK(exec'[n])
  /\ n[2] < nextExec'[TaskOf(n)]
  /\ \A e \in Exec : TaskOf(e) = TaskOf(n) /\ e # n =>
       /\ ~ Unsettled(e)'
       /\ ~ exec'[e].nonRetryable
       /\ e[2] > n[2] => exec[e].state = "NONE"
  /\ MaxRetries >= 0 => Cardinality(FailedExecs(TaskOf(n))') <= MaxRetries

-----------------------------------------------------------------------------

\* The failed executions of a task can be counted.
LEMMA FailedFinite ==
  ASSUME NEW t
  PROVE  IsFiniteSet(FailedExecs(t)) /\ Cardinality(FailedExecs(t)) \in Nat
<1>1. FailedExecs(t) \subseteq Exec
  BY DEF FailedExecs
<1> QED BY <1>1, ExecFinite, FS_Subset, FS_CardinalityType

\* A subset of a task's failed executions is no larger, one more execution makes
\* it larger by at most one.
LEMMA FailedBound ==
  ASSUME NEW t, NEW S \in SUBSET Exec, NEW e, S \subseteq FailedExecs(t) \cup {e}
  PROVE  /\ Cardinality(S) \in Nat
         /\ Cardinality(S) <= Cardinality(FailedExecs(t)) + 1
         /\ S \subseteq FailedExecs(t) => Cardinality(S) <= Cardinality(FailedExecs(t))
<1>1. IsFiniteSet(FailedExecs(t)) /\ Cardinality(FailedExecs(t)) \in Nat
  BY FailedFinite
<1>2. /\ IsFiniteSet(FailedExecs(t) \cup {e})
      /\ Cardinality(FailedExecs(t) \cup {e}) <= Cardinality(FailedExecs(t)) + 1
  <2> DEFINE F == FailedExecs(t)
             G == F \cup {e}
  <2> HIDE DEF F
  <2>1. IsFiniteSet(F) /\ Cardinality(F) \in Nat
    BY <1>1 DEF F
  <2>2. IsFiniteSet(G) /\ Cardinality(G) = IF e \in F THEN Cardinality(F) ELSE Cardinality(F) + 1
    BY <2>1, FS_AddElement
  <2> HIDE DEF G
  <2>3. Cardinality(G) <= Cardinality(F) + 1
    BY <2>1, <2>2
  <2> QED BY <2>2, <2>3 DEF F, G
<1>3. IsFiniteSet(S) /\ Cardinality(S) <= Cardinality(FailedExecs(t) \cup {e})
  BY <1>2, FS_Subset
<1>4. S \subseteq FailedExecs(t) => Cardinality(S) <= Cardinality(FailedExecs(t))
  BY <1>1, FS_Subset
<1>5. Cardinality(S) \in Nat /\ Cardinality(FailedExecs(t) \cup {e}) \in Nat
  BY <1>2, <1>3, FS_CardinalityType
<1> QED BY <1>1, <1>2, <1>3, <1>4, <1>5

\* A row that has failed since, and only aged, was live.
LEMMA AgedFailure ==
  ASSUME NEW r \in ExecRow, NEW s \in ExecRow, VerdictOK(r), RowAges(r, s),
         s.terminal = "FAILED", r.terminal # "FAILED"
  PROVE  r.state \in ExecLive
BY NoneAssumption DEF RowAges, VerdictOK, ExecState, ExecLive

\* A task whose rows only age keeps its budget.
LEMMA AgedTaskKeepsBudget ==
  ASSUME TypeOK, TypeOK', OneUnsettled, BudgetInv, MaxRetries >= 0, NEW t \in Task,
         \A e \in Exec : TaskOf(e) = t => RowAges(exec[e], exec'[e])
  PROVE  /\ Cardinality(FailedExecs(t)') <= MaxRetries + 1
         /\ (\E e \in Exec : TaskOf(e) = t /\ exec'[e].state \in ExecLive)
              => Cardinality(FailedExecs(t)') <= MaxRetries
<1> USE DEF BudgetInv
<1>0. FailedExecs(t)' \in SUBSET Exec /\ MaxRetries \in Int
  BY BoundAssumption DEF FailedExecs
<1>1. \A e \in FailedExecs(t)' \ FailedExecs(t) :
        e \in Exec /\ TaskOf(e) = t /\ exec[e].state \in ExecLive
  BY AgedFailure DEF FailedExecs, TypeOK, Verdicts
<1>2. CASE FailedExecs(t)' \subseteq FailedExecs(t)
  <2>1. Cardinality(FailedExecs(t)') <= Cardinality(FailedExecs(t))
    BY <1>0, <1>2, FailedBound
  <2>2. \A e \in Exec : TaskOf(e) = t /\ exec'[e].state \in ExecLive => exec[e].state \in ExecLive
    BY DEF RowAges
  <2>3. Cardinality(FailedExecs(t)) \in Nat /\ Cardinality(FailedExecs(t)') \in Nat
    BY <1>0, <1>2, FailedFinite, FailedBound
  <2> QED BY <1>0, <2>1, <2>2, <2>3 DEF RetryBudget, LiveWithinBudget
<1>3. CASE ~ (FailedExecs(t)' \subseteq FailedExecs(t))
  <2>1. PICK e \in FailedExecs(t)' \ FailedExecs(t) : TRUE
    BY <1>3
  <2>2. e \in Exec /\ TaskOf(e) = t /\ exec[e].state \in ExecLive /\ exec'[e].terminal = "FAILED"
    BY <1>1, <2>1 DEF FailedExecs
  <2>3. FailedExecs(t)' \subseteq FailedExecs(t) \cup {e}
    BY <1>1, <2>2 DEF OneUnsettled, Unsettled, ExecUnsettled
  <2>4. Cardinality(FailedExecs(t)') <= Cardinality(FailedExecs(t)) + 1
        /\ Cardinality(FailedExecs(t)') \in Nat /\ Cardinality(FailedExecs(t)) \in Nat
    BY <1>0, <2>3, FailedBound, FailedFinite
  <2>5. Cardinality(FailedExecs(t)) <= MaxRetries
    BY <2>2 DEF LiveWithinBudget
  <2>6. \A d \in Exec : TaskOf(d) = t => exec'[d].state \notin ExecLive
    <3>1. exec'[e].state \notin ExecLive
      BY <2>2, NoneAssumption DEF RowAges, VerdictOK, ExecState
    <3> QED BY <2>2, <3>1 DEF RowAges, OneUnsettled, Unsettled, ExecUnsettled
  <2> QED BY <1>0, <2>4, <2>5, <2>6
<1> QED BY <1>2, <1>3

\* Ageing keeps the invariants of the budget.
LEMMA AgeKeepsBudget ==
  ASSUME TypeOK, TypeOK', OneUnsettled, BudgetInv, Age
  PROVE  BudgetInv'
<1> USE DEF BudgetInv
<1>0. \A e \in Exec : TaskOf(e) \in Task /\ e[2] \in Nat
  BY TaskOfType DEF Exec
<1>1. Verdicts'
  BY DEF Age, RowAges, Verdicts
<1>2. IdsUsed'
  BY IdsStayUsed DEF Age, RowAges
<1>3. LastUnsettled'
  BY DEF Age, RowAges, LastUnsettled, Unsettled
<1>4. NonRetryableIsLast'
  <2> SUFFICES ASSUME NEW d \in Exec, NEW e \in Exec, TaskOf(d) = TaskOf(e),
                      exec'[d].nonRetryable, e[2] > d[2]
               PROVE  exec'[e].state = "NONE"
    BY DEF NonRetryableIsLast
  <2>1. CASE exec[d].terminal # None
    BY <2>1 DEF Age, RowAges, NonRetryableIsLast
  <2>2. CASE exec[d].terminal = None
    <3>1. exec'[d].terminal = "FAILED"
      BY DEF Age, RowAges, VerdictOK
    <3>2. exec[d].state \in ExecLive
      BY <2>2, <3>1, NoneAssumption, AgedFailure DEF TypeOK, ExecState, Verdicts, Age
    <3> QED BY <3>2 DEF Age, RowAges, LastUnsettled, Unsettled, ExecUnsettled
  <2> QED BY <2>1, <2>2
<1>5. ASSUME MaxRetries >= 0, NEW t \in Task
      PROVE  /\ Cardinality(FailedExecs(t)') <= MaxRetries + 1
             /\ (\E e \in Exec : TaskOf(e) = t /\ exec'[e].state \in ExecLive)
                  => Cardinality(FailedExecs(t)') <= MaxRetries
  BY <1>5, AgedTaskKeepsBudget DEF Age
<1>6. RetryBudget'
  BY <1>5 DEF RetryBudget
<1>7. LiveWithinBudget'
  BY <1>0, <1>5 DEF LiveWithinBudget
<1> QED BY <1>1, <1>2, <1>3, <1>4, <1>6, <1>7

\* The insertion of a newest row keeps the invariants of the budget.
LEMMA GrowKeepsBudget ==
  ASSUME TypeOK, TypeOK', OneUnsettled, BudgetInv, NEW n \in Exec, Grow(n)
  PROVE  BudgetInv'
<1> USE DEF BudgetInv
<1> DEFINE t == TaskOf(n)
<1>0. /\ \A e \in Exec : TaskOf(e) \in Task /\ e[2] \in Nat
      /\ \A e, d \in Exec : TaskOf(e) = TaskOf(d) /\ e[2] = d[2] => e = d
  BY TaskOfType DEF Exec, TaskOf
<1>1. Verdicts'
  BY DEF Grow, RowAges, Verdicts
<1>2. IdsUsed'
  <2>1. ASSUME NEW e \in Exec, exec[e].state = "NONE"
        PROVE  exec'[e].state = "NONE" \/ e[2] < nextExec'[TaskOf(e)]
    BY <2>1 DEF Grow, RowAges
  <2> QED BY <2>1, IdsStayUsed DEF Grow
<1>3. LastUnsettled'
  BY <1>0 DEF Grow, RowAges, LastUnsettled, Unsettled
<1>4. ~ exec'[n].nonRetryable
  BY NoneAssumption DEF Grow, VerdictOK, ExecState
<1>5. FailedExecs(t)' \in SUBSET Exec /\ Cardinality(FailedExecs(t)') \in Nat
  <2>1. FailedExecs(t)' \in SUBSET Exec
    BY DEF FailedExecs
  <2> QED BY <2>1, ExecFinite, FS_Subset, FS_CardinalityType
<1>6. NonRetryableIsLast'
  <2> SUFFICES ASSUME NEW d \in Exec, NEW e \in Exec, TaskOf(d) = TaskOf(e),
                      exec'[d].nonRetryable, e[2] > d[2]
               PROVE  exec'[e].state = "NONE"
    BY DEF NonRetryableIsLast
  <2>1. d # n /\ TaskOf(d) # t
    BY <1>4 DEF Grow
  <2>2. d \in Exec \ {n} /\ e \in Exec \ {n}
    BY <2>1
  <2>3. RowAges(exec[d], exec'[d]) /\ RowAges(exec[e], exec'[e])
    BY <2>2 DEF Grow
  <2>4. exec'[d].terminal = "FAILED" /\ exec'[d] \in ExecRow
    BY <2>3 DEF RowAges, VerdictOK, TypeOK
  <2>5. CASE exec[d].terminal # None
    BY <2>3, <2>5 DEF RowAges, NonRetryableIsLast
  <2>6. CASE exec[d].terminal = None
    <3>1. exec[d].state \in ExecLive
      BY <2>3, <2>4, <2>6, NoneAssumption, AgedFailure DEF TypeOK, ExecState, Verdicts
    <3> QED BY <2>3, <3>1 DEF RowAges, LastUnsettled, Unsettled, ExecUnsettled
  <2> QED BY <2>5, <2>6
<1>7. ASSUME MaxRetries >= 0, NEW u \in Task
      PROVE  /\ Cardinality(FailedExecs(u)') <= MaxRetries + 1
             /\ (\E e \in Exec : TaskOf(e) = u /\ exec'[e].state \in ExecLive)
                  => Cardinality(FailedExecs(u)') <= MaxRetries
  <2>1. CASE u = t
    BY <1>5, <1>7, <2>1, BoundAssumption DEF Grow
  <2>2. CASE u # t
    <3>1. \A e \in Exec : TaskOf(e) = u => RowAges(exec[e], exec'[e])
      BY <2>2 DEF Grow
    <3> QED BY <1>7, <3>1, AgedTaskKeepsBudget
  <2> QED BY <2>1, <2>2
<1>8. RetryBudget'
  BY <1>7 DEF RetryBudget
<1>9. LiveWithinBudget'
  BY <1>0, <1>7 DEF LiveWithinBudget
<1> QED BY <1>1, <1>2, <1>3, <1>6, <1>8, <1>9

-----------------------------------------------------------------------------
\* How a row ages

\* A row that is left alone ages.
LEMMA RowStays == ASSUME NEW r, VerdictOK(r) PROVE RowAges(r, r)
BY DEF RowAges, VerdictOK

\* A live row that moves on or ends ages, and so does an ended one that is finalized.
LEMMA MarkAges ==
  ASSUME NEW r \in ExecRow, VerdictOK(r), NEW s,
         \/ r.state \in {"DEFINED", "SCHEDULED"} /\ s = "ENQUEUED"
         \/ r.state \in ExecLive /\ s \in {"PROCESSING", "PROCESSED", "FAILED", "CANCELLED"}
         \/ r.state \in {"PROCESSED", "FAILED"} /\ s = "FINALIZED"
  PROVE  RowAges(r, Mark(r, s)) /\ Mark(r, s) \in ExecRow
<1>1. s \in ExecState /\ Mark(r, s) \in ExecRow
  BY MarkType DEF ExecState
<1>2. /\ Mark(r, s).state = s
      /\ Mark(r, s).nonRetryable = r.nonRetryable /\ Mark(r, s).worker = r.worker
      /\ Mark(r, s).terminal = IF s \in {"PROCESSED", "FAILED", "CANCELLED"} THEN s ELSE r.terminal
  BY DEF Mark, ExecRow
<1>3. r.state \in ExecLive => r.terminal = None
  BY DEF VerdictOK
<1>4. CASE r.state \in ExecLive
  BY <1>1, <1>2, <1>3, <1>4, NoneAssumption
     DEF RowAges, VerdictOK, ExecLive, ExecUnsettled, ExecState, Started
<1>5. CASE r.state \notin ExecLive
  BY <1>1, <1>2, <1>5, NoneAssumption DEF RowAges, VerdictOK, ExecLive, ExecUnsettled, ExecState, Started
<1> QED BY <1>1, <1>4, <1>5

\* A live row ages when a worker claims it, when a processor's failure is recorded,
\* and when its task's deadline ends it.
LEMMA LiveAges ==
  ASSUME NEW r \in ExecRow, VerdictOK(r), r.state \in ExecLive, NEW w, NEW b \in BOOLEAN
  PROVE  /\ r.state = "ENQUEUED" => RowAges(r, [Mark(r, "ACQUIRED") EXCEPT !.worker = w])
         /\ RowAges(r, [Mark(r, "FAILED") EXCEPT !.nonRetryable = b])
         /\ RowAges(r, Mark(Mark(r, "FAILED"), "FINALIZED"))
<1> USE NoneAssumption
<1>0. r.terminal = None
  BY DEF VerdictOK
<1>1. r.state = "ENQUEUED" => RowAges(r, [Mark(r, "ACQUIRED") EXCEPT !.worker = w])
  BY <1>0 DEF Mark, ExecRow, RowAges, VerdictOK, ExecLive, ExecUnsettled, ExecState, Started
<1>2. RowAges(r, [Mark(r, "FAILED") EXCEPT !.nonRetryable = b])
  BY <1>0 DEF Mark, ExecRow, RowAges, VerdictOK, ExecLive, ExecUnsettled, ExecState, Started
<1>3. RowAges(r, Mark(Mark(r, "FAILED"), "FINALIZED"))
  <2> DEFINE failed == Mark(r, "FAILED")
  <2>0. failed \in ExecRow
    BY MarkType DEF ExecState
  <2>1. /\ failed.terminal = "FAILED"
        /\ failed.worker = r.worker /\ failed.nonRetryable = r.nonRetryable
    BY DEF Mark, ExecRow
  <2> HIDE DEF failed
  <2>2. /\ Mark(failed, "FINALIZED").state = "FINALIZED"
        /\ Mark(failed, "FINALIZED").terminal = "FAILED"
        /\ Mark(failed, "FINALIZED").worker = r.worker
        /\ Mark(failed, "FINALIZED").nonRetryable = r.nonRetryable
    BY <2>0, <2>1 DEF Mark, ExecRow
  <2>3. RowAges(r, Mark(failed, "FINALIZED"))
    BY <1>0, <2>2 DEF RowAges, VerdictOK, ExecLive, ExecUnsettled, ExecState, Started
  <2> QED BY <2>3 DEF failed
<1> QED BY <1>1, <1>2, <1>3

\* A step that changes no row and gives out no id.
LEMMA StillAges ==
  ASSUME TypeOK, Verdicts, UNCHANGED <<exec, nextExec>>, pend' \in {pend, None}
  PROVE  Age
BY RowStays DEF Age, IdsAge, Verdicts, TypeOK

\* A step in which one row ages.
LEMMA OneRowAges ==
  ASSUME TypeOK, Verdicts, NEW e \in Exec, NEW row, RowAges(exec[e], row),
         exec' = [exec EXCEPT ![e] = row], UNCHANGED nextExec, pend' \in {pend, None}
  PROVE  Age
BY RowStays DEF Age, IdsAge, Verdicts, TypeOK

\* What cancelOngoingExecInstancesOfTask does to rows is ageing.
LEMMA CancelAges ==
  ASSUME TypeOK, Verdicts, NEW t, NEW rows \in [Exec -> ExecRow],
         \A d \in Exec : rows[d] = exec[d] \/ rows[d].state \notin ExecLive,
         \A d \in Exec : RowAges(exec[d], rows[d]),
         exec' = CancelOngoing(rows, t), UNCHANGED nextExec, pend' \in {pend, None}
  PROVE  Age
<1>1. ASSUME NEW d \in Exec PROVE RowAges(exec[d], exec'[d])
  <2>1. CASE TaskOf(d) = t /\ rows[d].state \in ExecLive
    <3>1. rows[d] = exec[d] /\ exec'[d] = Mark(exec[d], "CANCELLED")
      BY <2>1 DEF CancelOngoing
    <3> QED BY <2>1, <3>1, MarkAges DEF Verdicts, TypeOK
  <2>2. CASE ~ (TaskOf(d) = t /\ rows[d].state \in ExecLive)
    BY <2>2 DEF CancelOngoing
  <2> QED BY <2>1, <2>2
<1> QED BY <1>1 DEF Age, IdsAge, TypeOK

-----------------------------------------------------------------------------
\* The handlers

\* The first row of a task.
LEMMA FirstGrows ==
  ASSUME TypeOK, Verdicts, IdsAge, NEW n \in Exec, NEW s \in ExecLive,
         \A e \in Exec : TaskOf(e) = TaskOf(n) => exec[e].state = "NONE",
         exec' = [exec EXCEPT ![n] = NewRow(s)], n[2] < nextExec'[TaskOf(n)]
  PROVE  Grow(n)
<1>1. /\ NewRow(s).state = s /\ NewRow(s).terminal = None /\ ~ NewRow(s).nonRetryable
      /\ VerdictOK(NewRow(s))
  BY DEF NewRow, NoRow, VerdictOK, ExecLive
<1>2. exec'[n] = NewRow(s) /\ \A e \in Exec \ {n} : exec'[e] = exec[e]
  BY DEF TypeOK
<1>3. \A e \in Exec \ {n} : RowAges(exec[e], exec'[e])
  BY <1>2, RowStays DEF Verdicts
<1>4. \A e \in Exec : TaskOf(e) = TaskOf(n) => exec'[e].terminal = None /\ ~ exec'[e].nonRetryable
  BY <1>1, <1>2, NoneAssumption DEF Verdicts, VerdictOK, ExecState, TypeOK, ExecRow
<1>5. FailedExecs(TaskOf(n))' = {}
  BY <1>4, NoneAssumption DEF FailedExecs, ExecState
<1>6. MaxRetries >= 0 => Cardinality(FailedExecs(TaskOf(n))') <= MaxRetries
  BY <1>5, FS_EmptySet, BoundAssumption
<1>7. \A e \in Exec : TaskOf(e) = TaskOf(n) /\ e # n =>
        ~ Unsettled(e)' /\ ~ exec'[e].nonRetryable /\ exec[e].state = "NONE"
  BY <1>2, <1>4 DEF Unsettled, ExecUnsettled, ExecLive
<1> QED BY <1>1, <1>2, <1>3, <1>6, <1>7 DEF Grow

Moves == Age \/ \E n \in Exec : Grow(n)

\* The use of an id.
LEMMA UseAges ==
  ASSUME TypeOK, NEW t \in Task, UseExecId(t), NEW n, n = NewExec(t),
         pend' \in {pend, None, n}
  PROVE  /\ IdsAge /\ n \in Exec /\ TaskOf(n) = t
         /\ n[2] = nextExec[t] /\ nextExec[t] < nextExec'[t]
<1>1. n \in Exec
  BY UseExecIdType
<1>2. TaskOf(n) = t /\ n[2] = nextExec[t]
  BY DEF NewExec, TaskOf
<1>3. /\ \A u \in Task : nextExec[u] \in Int
      /\ nextExec'[t] = nextExec[t] + 1
      /\ \A u \in Task \ {t} : nextExec'[u] = nextExec[u]
  BY BoundAssumption DEF UseExecId, TypeOK
<1> QED BY <1>1, <1>2, <1>3 DEF IdsAge

\* processNewPendingTask defines the first execution of its task, or sends it.
LEMMA NewPendingMoves ==
  ASSUME TypeOK, RowsInv, Verdicts, pend = None, NEW t \in Task, ProcessNewPendingTask(t)
  PROVE  Moves
<1>1. CASE taskState[t] = "PENDING" /\ t \in Scheduled
  <2>0. PICK n : n = NewExec(t)
    OBVIOUS
  <2>1. UseExecId(t) /\ exec' = [exec EXCEPT ![n] = NewRow("SCHEDULED")] /\ UNCHANGED pend
    BY <1>1, <2>0 DEF ProcessNewPendingTask
  <2>2. \A e \in Exec : TaskOf(e) = t => exec[e].state = "NONE"
    BY <1>1 DEF RowsInv, PendingBare
  <2>3. IdsAge /\ n \in Exec /\ TaskOf(n) = t /\ n[2] < nextExec'[t]
    BY <2>0, <2>1, UseAges
  <2>4. Grow(n)
    BY <2>1, <2>2, <2>3, FirstGrows DEF ExecLive
  <2> QED BY <2>3, <2>4 DEF Moves
<1>2. CASE taskState[t] = "PENDING" /\ t \notin Scheduled /\ t \notin NoSender
  <2>0. PICK n : n = NewExec(t)
    OBVIOUS
  <2>1. UseExecId(t) /\ pend' = n /\ UNCHANGED exec
    BY <1>2, <2>0 DEF ProcessNewPendingTask, SendPending
  <2>2. IdsAge
    BY <2>0, <2>1, UseAges
  <2> QED BY <2>1, <2>2, RowStays DEF Moves, Age, Verdicts
<1>3. CASE NoEffect
  BY <1>3, StillAges DEF Moves, NoEffect, rowVars
<1> QED BY <1>1, <1>2, <1>3 DEF ProcessNewPendingTask

\* processTaskExecutionFailed: a retry is defined only when the failure it follows
\* may be retried and is within the budget.
LEMMA FailedMoves ==
  ASSUME TypeOK, RowsInv, BudgetInv, pend = None, NEW e \in Exec, ProcessTaskExecutionFailed(e)
  PROVE  Moves
<1> DEFINE t == TaskOf(e)
           finalized == [exec EXCEPT ![e] = Mark(@, "FINALIZED")]
<1> USE DEF BudgetInv
<1>0. t \in Task /\ \A d \in Exec : exec[d] \in ExecRow /\ VerdictOK(exec[d])
  BY TaskOfType DEF TypeOK, Verdicts
<1>1. CASE CanFinalize(e) /\ taskState[t] = "ACTIVE" /\ DecideExecutionRetry(e)
  <2>0. PICK n : n = NewExec(t)
    OBVIOUS
  <2>1. /\ UseExecId(t) /\ exec' = [finalized EXCEPT ![n] = NewRow("SCHEDULED")]
        /\ UNCHANGED pend
    BY <1>1, <2>0 DEF ProcessTaskExecutionFailed
  <2>2. /\ IdsAge /\ n \in Exec /\ TaskOf(n) = t
        /\ n[2] = nextExec[t] /\ n[2] < nextExec'[t]
    BY <1>0, <2>0, <2>1, UseAges
  <2>3. exec[e].state \in {"PROCESSED", "FAILED"}
    BY <1>1, FinalizeFrom
  <2>4. exec[n].state = "NONE" /\ n # e
    BY <2>2, <2>3, BoundAssumption DEF IdsUsed, Exec
  <2>5. /\ RowAges(exec[e], Mark(exec[e], "FINALIZED"))
        /\ Mark(exec[e], "FINALIZED").state = "FINALIZED"
        /\ Mark(exec[e], "FINALIZED").terminal = exec[e].terminal
        /\ Mark(exec[e], "FINALIZED").nonRetryable = exec[e].nonRetryable
    <3>1. RowAges(exec[e], Mark(exec[e], "FINALIZED"))
      BY <1>0, <2>3, MarkAges
    <3> QED BY <1>0, <3>1 DEF Mark, ExecRow
  <2>6. /\ exec'[n] = NewRow("SCHEDULED")
        /\ exec'[e] = Mark(exec[e], "FINALIZED")
        /\ \A d \in Exec \ {n, e} : exec'[d] = exec[d]
    BY <2>1, <2>2, <2>4 DEF TypeOK
  <2>7. /\ NewRow("SCHEDULED").state = "SCHEDULED" /\ NewRow("SCHEDULED").terminal = None
        /\ VerdictOK(NewRow("SCHEDULED"))
    BY DEF NewRow, NoRow, VerdictOK, ExecLive
  <2>8. \A d \in Exec \ {n} : RowAges(exec[d], exec'[d])
    BY <1>0, <2>5, <2>6, RowStays
  <2>9. ASSUME NEW d \in Exec, TaskOf(d) = t, d # n
        PROVE  ~ Unsettled(d)' /\ ~ exec'[d].nonRetryable /\ (d[2] > n[2] => exec[d].state = "NONE")
    <3>1. d[2] > n[2] => exec[d].state = "NONE"
      BY <2>2, <2>4, <2>9, BoundAssumption DEF IdsUsed, Exec, TypeOK
    <3>2. CASE d = e
      BY <1>1, <2>5, <2>6, <3>1, <3>2, <2>9
         DEF Unsettled, ExecUnsettled, ExecLive, DecideExecutionRetry
    <3>3. CASE d # e
      <4>1. exec'[d] = exec[d] /\ ~ Unsettled(d)
        BY <2>3, <2>6, <2>9, <3>3 DEF RowsInv, OneUnsettled, Unsettled, ExecUnsettled
      <4>2. d[2] > e[2] => exec[d].state = "NONE"
        BY <2>3, <2>9, <3>3 DEF LastUnsettled, Unsettled, ExecUnsettled
      <4>3. e[2] > d[2] => ~ exec[d].nonRetryable
        BY <2>3, <2>9 DEF NonRetryableIsLast
      <4>4. d[2] > e[2] \/ e[2] > d[2]
        BY <2>9, <3>3 DEF Exec, TaskOf
      <4>5. exec[d].state = "NONE" => ~ exec[d].nonRetryable
        BY <1>0, NoneAssumption DEF VerdictOK, ExecState
      <4> QED BY <3>1, <4>1, <4>2, <4>3, <4>4, <4>5 DEF Unsettled
    <3> QED BY <3>2, <3>3
  <2>10. MaxRetries >= 0 => Cardinality(FailedExecs(t)') <= MaxRetries
    <3>1. FailedExecs(t)' = FailedExecs(t)
      <4>1. \A d \in Exec : exec'[d].terminal = "FAILED" <=> exec[d].terminal = "FAILED"
        BY <1>0, <2>4, <2>5, <2>6, <2>7, NoneAssumption DEF VerdictOK, ExecState
      <4> QED BY <4>1 DEF FailedExecs
    <3>2. MaxRetries >= 0 => Cardinality(FailedExecs(t)) <= MaxRetries
      BY <1>1, FailedFinite, BoundAssumption DEF DecideExecutionRetry
    <3> QED BY <3>1, <3>2
  <2>11. Grow(n)
    BY <2>2, <2>4, <2>6, <2>7, <2>8, <2>9, <2>10 DEF Grow, ExecLive
  <2> QED BY <2>2, <2>11 DEF Moves
<1>2. CASE CanFinalize(e) /\ exec' = finalized /\ UNCHANGED <<nextExec, pend>>
  <2>1. exec[e].state \in {"PROCESSED", "FAILED"}
    BY <1>2, FinalizeFrom
  <2>2. RowAges(exec[e], Mark(exec[e], "FINALIZED"))
    BY <1>0, <2>1, MarkAges
  <2>3. Age
    BY <1>2, <2>2, OneRowAges
  <2> QED BY <2>3 DEF Moves
<1>3. CASE NoEffect
  BY <1>3, StillAges DEF Moves, NoEffect, rowVars
<1> QED BY <1>1, <1>2, <1>3 DEF ProcessTaskExecutionFailed

\* Whatever handler a message or a sweep item is dispatched to ages rows or defines
\* one execution.
LEMMA HandleMoves ==
  ASSUME TypeOK, RowsInv, BudgetInv, pend = None,
         NEW m \in SchedMsg \cup SweepItem, m.type # "TASK_MAINTENANCE", Handle(m)
  PROVE  Moves
<1> USE DEF BudgetInv
<1>0. \A d \in Exec : exec[d] \in ExecRow /\ VerdictOK(exec[d])
  BY DEF TypeOK, Verdicts
<1>1. CASE NoEffect
  BY <1>1, StillAges DEF Moves, NoEffect, rowVars
<1>2. ASSUME NEW e \in Exec, ProcessTaskExecutionComplete(e) \/ ProcessTaskExecutionEngineFailed(e)
      PROVE  Moves
  <2>1. CASE ~ NoEffect
    <3>1. /\ CanFinalize(e) /\ exec' = [exec EXCEPT ![e] = Mark(@, "FINALIZED")]
          /\ UNCHANGED <<nextExec, pend>>
      BY <1>2, <2>1 DEF ProcessTaskExecutionComplete, ProcessTaskExecutionEngineFailed
    <3>2. RowAges(exec[e], Mark(exec[e], "FINALIZED"))
      BY <1>0, <3>1, FinalizeFrom, MarkAges
    <3> QED BY <3>1, <3>2, OneRowAges DEF Moves
  <2> QED BY <1>1, <2>1
<1>3. ASSUME NEW e \in Exec, ProcessTaskExecutionStarting(e)
      PROVE  Moves
  <2>1. CASE ~ NoEffect
    <3>1. pend' = e /\ UNCHANGED <<exec, nextExec>> /\ ValidExec(exec[e].state, "ENQUEUED")
      BY <1>3, <2>1 DEF ProcessTaskExecutionStarting, SendPending, rowVars
    <3>2. exec[e].state # "NONE" /\ TaskOf(e) \in Task
      BY <3>1, EnqueueFrom, TaskOfType
    <3>3. e[2] < nextExec[TaskOf(e)]
      BY <3>2, BoundAssumption DEF IdsUsed, Exec, TypeOK
    <3>4. IdsAge
      BY <3>1, <3>3, BoundAssumption DEF IdsAge, TypeOK
    <3> QED BY <3>1, <3>4, RowStays DEF Moves, Age, Verdicts
  <2> QED BY <1>1, <2>1
<1>4. ASSUME NEW t \in Task, ProcessCancelTask(t) \/ ProcessTaskTimeout(t)
      PROVE  Moves
  <2>1. CASE ~ NoEffect
    <3>1. exec' = CancelOngoing(exec, t) /\ UNCHANGED <<nextExec, pend>>
      BY <1>4, <2>1 DEF ProcessCancelTask, ProcessTaskTimeout
    <3>2. exec \in [Exec -> ExecRow] /\ \A d \in Exec : RowAges(exec[d], exec[d])
      BY <1>0, RowStays DEF TypeOK
    <3> QED BY <3>1, <3>2, CancelAges DEF Moves
  <2> QED BY <1>1, <2>1
<1>5. ASSUME NEW e \in Exec, ProcessTaskExecutionTimedOut(e)
      PROVE  Moves
  <2>1. CASE ~ NoEffect
    <3> DEFINE settled == [exec EXCEPT ![e] = Mark(Mark(@, "FAILED"), "FINALIZED")]
    <3>1. /\ exec' = CancelOngoing(settled, TaskOf(e)) /\ UNCHANGED <<nextExec, pend>>
          /\ ValidExec(exec[e].state, "FAILED")
      BY <1>5, <2>1 DEF ProcessTaskExecutionTimedOut
    <3>2. /\ settled \in [Exec -> ExecRow]
          /\ settled[e] = Mark(Mark(exec[e], "FAILED"), "FINALIZED")
          /\ settled[e].state = "FINALIZED"
          /\ \A d \in Exec \ {e} : settled[d] = exec[d]
      BY MarkType DEF TypeOK, ExecState
    <3> HIDE DEF settled
    <3>3. exec[e].state \in ExecLive
      BY <3>1, OutcomeFrom DEF ExecLive
    <3>4. RowAges(exec[e], settled[e])
      BY <1>0, <3>2, <3>3, LiveAges
    <3>5. \A d \in Exec : RowAges(exec[d], settled[d])
      BY <1>0, <3>2, <3>4, RowStays
    <3>6. \A d \in Exec : settled[d] = exec[d] \/ settled[d].state \notin ExecLive
      BY <3>2 DEF ExecLive
    <3> QED BY <3>1, <3>2, <3>5, <3>6, CancelAges DEF Moves
  <2> QED BY <1>1, <2>1
<1> QED BY <1>2, <1>3, <1>4, <1>5, HandleCases, NewPendingMoves, FailedMoves

\* The commit of what was sent defines the first execution of a task, or moves a
\* scheduled one on.
LEMMA CommitMoves ==
  ASSUME TypeOK, RowsInv, BudgetInv, SchedCommit
  PROVE  Moves
<1> USE DEF BudgetInv
<1>1. /\ pend \in Exec /\ pend # None /\ CommitRows /\ pend' = None
      /\ UNCHANGED nextExec /\ TaskOf(pend) \in Task
  BY TaskOfType DEF SchedCommit, TypeOK
<1>2. PICK n \in Exec : n = pend
  BY <1>1
<1>3. CASE exec[n].state = "NONE"
  <2>1. \A e \in Exec : TaskOf(e) = TaskOf(n) => exec[e].state = "NONE"
    BY <1>1, <1>2, <1>3 DEF RowsInv, Sending, PendingBare
  <2>2. exec' = [exec EXCEPT ![n] = NewRow("ENQUEUED")]
    BY <1>1, <1>2, <1>3 DEF CommitRows
  <2>3. IdsAge /\ n[2] < nextExec'[TaskOf(n)]
    BY <1>1, <1>2 DEF IdsAge, IdsUsed, TypeOK
  <2> QED BY <2>1, <2>2, <2>3, FirstGrows DEF Moves, ExecLive
<1>4. CASE exec[n].state # "NONE"
  <2>1. exec' = [exec EXCEPT ![n] = Mark(@, "ENQUEUED")]
    BY <1>1, <1>2, <1>4 DEF CommitRows
  <2>2. exec[n].state \in {"DEFINED", "SCHEDULED"}
    BY <1>1, <1>2, <1>4 DEF RowsInv, Sending
  <2>3. RowAges(exec[n], Mark(exec[n], "ENQUEUED"))
    BY <2>2, MarkAges DEF Verdicts, TypeOK, ExecLive
  <2> QED BY <1>1, <2>1, <2>3, OneRowAges DEF Moves
<1> QED BY <1>3, <1>4

\* Every step of the scheduler, its failures and its crash.
LEMMA SchedulerMoves ==
  ASSUME TypeInv, RowsInv, BudgetInv,
         SchedulerStep \/ MaintenanceTick \/ HandlerAborts \/ SweepItemAborts \/ SchedCrash
  PROVE  Moves
<1>0. TypeOK
  BY DEF TypeInv
<1>1. CASE SchedHandle
  <2>1. pend = None /\ cur \in SchedMsg /\ cur.type # "TASK_MAINTENANCE" /\ Handle(cur)
    BY <1>1 DEF SchedHandle, TypeInv, Holding
  <2> QED BY <1>0, <2>1, HandleMoves
<1>2. CASE SweepOne
  <2>1. PICK m \in todo : Handle(m)
    BY <1>2 DEF SweepOne
  <2>2. pend = None /\ m \in SweepItem /\ m.type # "TASK_MAINTENANCE"
    BY <1>0, <1>2 DEF SweepOne, TypeOK, SweepItem, TaskMsgTypes
  <2> QED BY <1>0, <2>1, <2>2, HandleMoves
<1>3. CASE SchedCommit
  BY <1>0, <1>3, CommitMoves
<1>4. CASE UNCHANGED <<exec, nextExec>> /\ pend' \in {pend, None}
  BY <1>0, <1>4, StillAges DEF BudgetInv, Moves
<1> QED BY <1>1, <1>2, <1>3, <1>4
        DEF SchedulerStep, SchedStart, RecoverPop, RecoverPush, RecoverDone, MaintenanceTick,
            SchedDequeue, SweepBegin, SweepNext, SweepEnd, SchedDelete, HandlerAborts,
            SweepItemAborts, SchedCrash, rowVars, schedVars

-----------------------------------------------------------------------------
\* The workers

\* An executor's transaction ages its row, if it writes one.
LEMMA UpdateAges ==
  ASSUME TypeOK, NothingRead, Verdicts, NEW w \in Worker, NEW e \in Exec,
         NEW to \in {"PROCESSING", "PROCESSED", "FAILED"}, NEW row,
         exec[e].state \in ExecLive => RowAges(exec[e], row),
         NEW next, Update(w, e, to, row, next)
  PROVE  Age
<1>1. StateRead(w, e) = exec[e].state
  BY DEF StateRead, NothingRead
<1>2. UNCHANGED <<nextExec, pend>>
  BY DEF Update, WorkerOnly, schedVars
<1>3. CASE ValidExec(exec[e].state, to)
  <2>1. exec' = [exec EXCEPT ![e] = row]
    BY <1>1, <1>3 DEF Update
  <2>2. exec[e].state \in ExecLive
    BY <1>3, OutcomeFrom DEF ExecLive
  <2> QED BY <1>2, <2>1, <2>2, OneRowAges
<1>4. CASE ~ ValidExec(exec[e].state, to)
  <2>1. UNCHANGED exec
    BY <1>1, <1>4 DEF Update
  <2> QED BY <1>2, <2>1, StillAges
<1> QED BY <1>3, <1>4

\* Every step of a receiver.
LEMMA ReceiverAges ==
  ASSUME TypeOK, NothingRead, Verdicts, NEW w \in Worker, ReceiverStep(w)
  PROVE  Age
<1>0. \A d \in Exec : exec[d] \in ExecRow /\ VerdictOK(exec[d])
  BY DEF TypeOK, Verdicts
<1>1. CASE ReceiverClaim(w)
  <2>1. PICK e \in Exec : e = claim[w]
    BY <1>1 DEF ReceiverClaim, TypeOK
  <2>2. /\ exec[e].state = "ENQUEUED"
        /\ exec' = [exec EXCEPT ![e] = [Mark(@, "ACQUIRED") EXCEPT !.worker = w]]
        /\ UNCHANGED <<nextExec, pend>>
    BY <1>1, <2>1, AcquireFrom
       DEF ReceiverClaim, StateRead, NothingRead, WorkerOnly, schedVars
  <2>3. RowAges(exec[e], [Mark(exec[e], "ACQUIRED") EXCEPT !.worker = w])
    BY <1>0, <2>2, LiveAges DEF ExecLive
  <2> QED BY <2>2, <2>3, OneRowAges
<1>2. CASE WorkerInit(w)
  <2>1. /\ exec' = [e \in Exec |-> IF e \in Owned(w) THEN Mark(exec[e], "FAILED") ELSE exec[e]]
        /\ UNCHANGED <<nextExec, pend>>
    BY <1>2 DEF WorkerInit, WorkerOnly, schedVars
  <2>2. ASSUME NEW e \in Exec PROVE RowAges(exec[e], exec'[e])
    <3>1. CASE e \in Owned(w)
      BY <1>0, <2>1, <3>1, MarkAges DEF Owned, ExecLive
    <3>2. CASE e \notin Owned(w)
      BY <1>0, <2>1, <3>2, RowStays
    <3> QED BY <3>1, <3>2
  <2> QED BY <2>1, <2>2 DEF Age, IdsAge, TypeOK
<1>3. CASE ReceiverDequeue(w) \/ ReceiverDrop(w) \/ WorkerStart(w) \/ WorkerInitFails(w)
  <2>1. UNCHANGED <<exec, nextExec, pend>>
    BY <1>3 DEF ReceiverDequeue, ReceiverDrop, WorkerStart, WorkerInitFails, WorkerOnly, schedVars
  <2> QED BY <2>1, StillAges
<1> QED BY <1>1, <1>2, <1>3 DEF ReceiverStep

\* Every step of an executor.
LEMMA ExecutorAges ==
  ASSUME TypeOK, NothingRead, Verdicts, NEW w \in Worker, NEW e \in Exec, ExecutorStep(w, e)
  PROVE  Age
<1>0. exec[e] \in ExecRow /\ VerdictOK(exec[e])
  BY DEF TypeOK, Verdicts
<1>a. \A s \in {"PROCESSING", "PROCESSED", "FAILED"} :
        exec[e].state \in ExecLive => RowAges(exec[e], Mark(exec[e], s))
  BY <1>0, MarkAges
<1>1. CASE ExecutorPre(w, e)
  BY <1>a, <1>1, UpdateAges DEF ExecutorPre
<1>2. CASE ExecutorSucceeds(w, e)
  BY <1>a, <1>2, UpdateAges DEF ExecutorSucceeds
<1>3. CASE ExecutorFails(w, e)
  <2>1. PICK o \in Outcomes \ {"ok"} :
          Update(w, e, "FAILED",
                 [Mark(exec[e], "FAILED") EXCEPT !.nonRetryable = (o = "fatal")],
                 "EXECUTE_FAILED")
    BY <1>3 DEF ExecutorFails
  <2> DEFINE row == [Mark(exec[e], "FAILED") EXCEPT !.nonRetryable = (o = "fatal")]
  <2>2. exec[e].state \in ExecLive => RowAges(exec[e], row)
    BY <1>0, LiveAges
  <2>3. Update(w, e, "FAILED", row, "EXECUTE_FAILED")
    BY <2>1
  <2> HIDE DEF row
  <2> QED BY <2>2, <2>3, UpdateAges
<1>4. CASE ExecutorMissesProcessor(w, e)
  BY <1>a, <1>4, UpdateAges DEF ExecutorMissesProcessor
<1>5. CASE OnTaskComplete(w, e)
  <2>1. UNCHANGED <<exec, nextExec, pend>>
    BY <1>5 DEF OnTaskComplete, WorkerOnly, schedVars
  <2> QED BY <2>1, StillAges
<1> QED BY <1>1, <1>2, <1>3, <1>4, <1>5 DEF ExecutorStep

\* A worker's faults, interrupted transactions apart.
LEMMA WorkerFaultAges ==
  ASSUME "staleRead" \notin FaultKinds,
         TypeOK, NothingRead, Verdicts, NEW w \in Worker, WorkerFault(w)
  PROVE  Age
<1>1. CASE UNCHANGED <<exec, nextExec, pend>>
  BY <1>1, StillAges
<1>2. ASSUME NEW e \in Exec, SubmitFails(w, e) PROVE Age
  <2>1. UNCHANGED <<nextExec, pend>>
    BY <1>2 DEF SubmitFails, WorkerOnly, schedVars
  <2>2. CASE ValidExec(exec[e].state, "FAILED")
    <3>1. exec' = [exec EXCEPT ![e] = Mark(@, "FAILED")]
      BY <1>2, <2>2 DEF SubmitFails, TypeOK
    <3>2. exec[e].state \in ExecLive
      BY <2>2, OutcomeFrom DEF ExecLive
    <3>3. RowAges(exec[e], Mark(exec[e], "FAILED"))
      BY <3>2, MarkAges DEF TypeOK, Verdicts
    <3> QED BY <2>1, <3>1, <3>3, OneRowAges
  <2>3. CASE ~ ValidExec(exec[e].state, "FAILED")
    <3>1. UNCHANGED exec
      BY <1>2, <2>3 DEF SubmitFails, TypeOK
    <3> QED BY <2>1, <3>1, StillAges
  <2> QED BY <2>2, <2>3
<1>3. ASSUME NEW e \in Exec, WorkerReads(w, e) PROVE FALSE
  BY <1>3 DEF WorkerReads, Fault
<1>4. CASE WorkerCrash(w) \/ \E e \in Exec : ExecutorAborts(w, e)
  BY <1>1, <1>4 DEF WorkerCrash, ExecutorAborts, WorkerOnly, schedVars
<1> QED BY <1>2, <1>3, <1>4 DEF WorkerFault

\* Every step of the engine ages rows or defines one execution.
LEMMA NextMoves ==
  ASSUME "staleRead" \notin FaultKinds, SafetyInv, BudgetInv, [Next]_vars
  PROVE  Moves
<1>0. TypeInv /\ TypeOK /\ NothingRead /\ RowsInv /\ Verdicts
  BY DEF SafetyInv, TypeInv, BudgetInv
<1>1. CASE UNCHANGED <<exec, nextExec, pend>>
  BY <1>0, <1>1, StillAges DEF Moves
<1>2. CASE ClientStep \/ ClockStep
  BY <1>1, <1>2 DEF ClientStep, ClockStep, DefineTask, SubmitTask, CancelTask, Poke,
                    DeadlinePasses, BecomesDue, rowVars, schedVars
<1>3. CASE UNCHANGED vars
  BY <1>1, <1>3 DEF vars, rowVars, schedVars
<1> QED BY <1>0, <1>2, <1>3, SchedulerMoves, ReceiverAges, ExecutorAges, WorkerFaultAges
        DEF Next, Moves

-----------------------------------------------------------------------------

OutcomeInv == SafetyInv /\ BudgetInv

\* The invariants of the budget hold of the empty database.
LEMMA OutcomeInit == Init => OutcomeInv
<1> SUFFICES ASSUME Init PROVE OutcomeInv
  OBVIOUS
<1>1. SafetyInv
  BY SafetyInit
<1>2. \A e \in Exec : exec[e].state = "NONE" /\ exec[e].terminal = None /\ ~ exec[e].nonRetryable
  BY DEF Init, NoRow
<1>3. Verdicts
  BY <1>2 DEF Verdicts, VerdictOK
<1>4. IdsUsed
  BY <1>2 DEF IdsUsed, Init
<1>5. LastUnsettled /\ NonRetryableIsLast
  BY <1>2 DEF LastUnsettled, NonRetryableIsLast
<1>6. \A t : FailedExecs(t) = {}
  BY <1>2, NoneAssumption DEF FailedExecs, ExecState
<1>7. LiveWithinBudget /\ RetryBudget
  BY <1>6, FS_EmptySet, BoundAssumption DEF LiveWithinBudget, RetryBudget
<1> QED BY <1>1, <1>3, <1>4, <1>5, <1>7 DEF OutcomeInv, BudgetInv

\* Every step of the engine keeps them.
LEMMA OutcomeNext ==
  ASSUME "staleRead" \notin FaultKinds, OutcomeInv, [Next]_vars
  PROVE  OutcomeInv'
<1>0. SafetyInv /\ BudgetInv /\ TypeOK /\ OneUnsettled
  BY DEF OutcomeInv, SafetyInv, TypeInv, RowsInv
<1>1. SafetyInv' /\ TypeOK'
  BY <1>0, SafetyNext DEF SafetyInv, TypeInv
<1>2. Moves
  BY <1>0, NextMoves
<1>3. BudgetInv'
  BY <1>0, <1>1, <1>2, AgeKeepsBudget, GrowKeepsBudget DEF Moves
<1> QED BY <1>1, <1>3 DEF OutcomeInv

\* The invariants of the budget hold in every run without interrupted transactions.
LEMMA OutcomeHolds ==
  ASSUME "staleRead" \notin FaultKinds
  PROVE  Spec => []OutcomeInv
BY OutcomeInit, OutcomeNext, PTL DEF Spec

\* A task is tried at most MaxRetries + 1 times over, in every run: duplicate
\* reports, restarts and sweeps that see a failure again make no attempt of their own.
THEOREM RetryBudgetHolds ==
  ASSUME "staleRead" \notin FaultKinds
  PROVE  Spec => []RetryBudget
<1>1. OutcomeInv => RetryBudget
  BY DEF OutcomeInv, BudgetInv
<1> QED BY <1>1, OutcomeHolds, PTL

\* After a non-retryable failure no execution of the task is defined.
THEOREM NonRetryableIsLastHolds ==
  ASSUME "staleRead" \notin FaultKinds
  PROVE  Spec => []NonRetryableIsLast
<1>1. OutcomeInv => NonRetryableIsLast
  BY DEF OutcomeInv, BudgetInv
<1> QED BY <1>1, OutcomeHolds, PTL

-----------------------------------------------------------------------------

SettledKept ==
  \A e \in Exec :
    /\ exec[e].state \in {"FINALIZED", "CANCELLED"} => exec'[e] = exec[e]
    /\ exec[e].terminal # None =>
         /\ exec'[e].terminal = exec[e].terminal
         /\ exec'[e].nonRetryable = exec[e].nonRetryable

\* A row that ages keeps its verdict, and one that is inserted had none.
LEMMA MovesKeepSettled == ASSUME Verdicts, Moves PROVE SettledKept
<1>1. CASE Age
  BY <1>1 DEF Age, RowAges, SettledKept
<1>2. ASSUME NEW n \in Exec, Grow(n) PROVE SettledKept
  <2>1. exec[n].state = "NONE" /\ exec[n].terminal = None
    BY <1>2 DEF Grow, Verdicts, VerdictOK
  <2> QED BY <1>2, <2>1 DEF Grow, RowAges, SettledKept
<1> QED BY <1>1, <1>2 DEF Moves

\* The row of a settled execution is frozen, and the verdict on an ended one: no
\* late report, duplicate message or restart rewrites how an attempt went.
THEOREM SettledIsFinalHolds ==
  ASSUME "staleRead" \notin FaultKinds
  PROVE  Spec => SettledIsFinal
<1>1. OutcomeInv /\ [Next]_vars => [SettledKept]_vars
  BY NextMoves, MovesKeepSettled DEF OutcomeInv, BudgetInv
<1>2. Spec => [][SettledKept]_vars
  BY <1>1, OutcomeHolds, PTL DEF Spec
<1> QED BY <1>2 DEF SettledIsFinal, SettledKept

-----------------------------------------------------------------------------
\* The causes of a failure

Caused(t) ==
  \/ \E e \in Exec : TaskOf(e) = t /\ (exec[e].nonRetryable \/ e \in audit)
  \/ MaxRetries >= 0 /\ Cardinality(FailedExecs(t)) > MaxRetries

\* A cause that is on record stays there.
LEMMA CauseKept ==
  ASSUME TypeOK, Verdicts, SettledKept, audit \subseteq audit', NEW t, Caused(t)
  PROVE  Caused(t)'
<1>1. \A e \in Exec : exec[e].nonRetryable => exec'[e].nonRetryable
  BY NoneAssumption DEF SettledKept, Verdicts, VerdictOK, ExecState
<1>2. FailedExecs(t) \subseteq FailedExecs(t)'
  BY NoneAssumption DEF FailedExecs, SettledKept, ExecState
<1>3. IsFiniteSet(FailedExecs(t)')
  <2>1. FailedExecs(t)' \subseteq Exec
    BY DEF FailedExecs
  <2> QED BY <2>1, ExecFinite, FS_Subset
<1>4. /\ Cardinality(FailedExecs(t)) <= Cardinality(FailedExecs(t)')
      /\ Cardinality(FailedExecs(t)) \in Nat /\ Cardinality(FailedExecs(t)') \in Nat
  BY <1>2, <1>3, FailedFinite, FS_Subset, FS_CardinalityType
<1>5. CASE \E e \in Exec : TaskOf(e) = t /\ (exec[e].nonRetryable \/ e \in audit)
  BY <1>1, <1>5 DEF Caused
<1>6. CASE MaxRetries >= 0 /\ Cardinality(FailedExecs(t)) > MaxRetries
  BY <1>4, <1>6, BoundAssumption DEF Caused
<1> QED BY <1>5, <1>6 DEF Caused

\* A handler that fails a task has a cause to, and takes none off the record.
LEMMA HandleHasCause ==
  ASSUME TypeOK, RowsInv, BudgetInv, pend = None, FailedHasCause,
         NEW m \in SchedMsg \cup SweepItem, m.type # "TASK_MAINTENANCE", Handle(m)
  PROVE  FailedHasCause'
<1>0. Verdicts /\ SettledKept /\ \A e \in Exec : TaskOf(e) \in Task
  BY HandleMoves, MovesKeepSettled, TaskOfType DEF BudgetInv
<1>1. ASSUME audit \subseteq audit',
             \A t \in Task : taskState'[t] = "FAILED" => taskState[t] = "FAILED" \/ Caused(t) \/ Caused(t)'
      PROVE  FailedHasCause'
  BY <1>0, <1>1, CauseKept DEF FailedHasCause, Caused
<1>2. CASE audit' = audit /\ UNCHANGED taskState
  BY <1>1, <1>2
<1>3. ASSUME NEW t \in Task, NEW s, s # "FAILED", taskState' = [taskState EXCEPT ![t] = s],
             audit' = audit
      PROVE  FailedHasCause'
  BY <1>1, <1>3 DEF TypeOK
<1>4. ASSUME NEW t \in Task,
             ProcessNewPendingTask(t) \/ ProcessCancelTask(t) \/ ProcessTaskTimeout(t)
      PROVE  FailedHasCause'
  BY <1>2, <1>3, <1>4
     DEF ProcessNewPendingTask, ProcessCancelTask, ProcessTaskTimeout, NoEffect, rowVars
<1>5. ASSUME NEW e \in Exec,
             \/ ProcessTaskExecutionComplete(e) \/ ProcessTaskExecutionStarting(e)
             \/ ProcessTaskExecutionTimedOut(e)
      PROVE  FailedHasCause'
  BY <1>0, <1>2, <1>3, <1>5
     DEF ProcessTaskExecutionComplete, ProcessTaskExecutionStarting,
         ProcessTaskExecutionTimedOut, NoEffect, rowVars
<1>6. ASSUME NEW e \in Exec, ProcessTaskExecutionEngineFailed(e) PROVE FailedHasCause'
  <2>1. CASE ~ NoEffect
    <3>1. /\ audit' = audit \cup {e}
          /\ taskState' = [taskState EXCEPT ![TaskOf(e)] = "FAILED"]
      BY <1>6, <2>1 DEF ProcessTaskExecutionEngineFailed
    <3>2. Caused(TaskOf(e))'
      BY <3>1 DEF Caused
    <3> QED BY <1>1, <3>1, <3>2 DEF TypeOK
  <2> QED BY <1>2, <1>6, <2>1 DEF NoEffect, rowVars
<1>7. ASSUME NEW e \in Exec, ProcessTaskExecutionFailed(e) PROVE FailedHasCause'
  <2>1. CASE /\ taskState' = [taskState EXCEPT ![TaskOf(e)] = "FAILED"]
             /\ audit' = audit /\ ~ DecideExecutionRetry(e)
    <3>1. Caused(TaskOf(e))
      BY <2>1, FailedFinite, BoundAssumption DEF DecideExecutionRetry, Caused
    <3> QED BY <1>1, <2>1, <3>1 DEF TypeOK
  <2> QED BY <1>2, <1>7, <2>1 DEF ProcessTaskExecutionFailed, NoEffect, rowVars
<1> QED BY <1>4, <1>5, <1>6, <1>7, HandleCases

\* Every step of the engine keeps the causes of the failures on record.
LEMMA NextHasCause ==
  ASSUME "staleRead" \notin FaultKinds, OutcomeInv, FailedHasCause, [Next]_vars
  PROVE  FailedHasCause'
<1>0. TypeInv /\ TypeOK /\ RowsInv /\ BudgetInv /\ Verdicts /\ SettledKept
  BY NextMoves, MovesKeepSettled DEF OutcomeInv, SafetyInv, TypeInv, BudgetInv
<1>1. CASE UNCHANGED <<taskState, audit>>
  BY <1>0, <1>1, CauseKept DEF FailedHasCause, Caused
<1>2. CASE SchedHandle
  <2>1. pend = None /\ cur \in SchedMsg /\ cur.type # "TASK_MAINTENANCE" /\ Handle(cur)
    BY <1>0, <1>2 DEF SchedHandle, TypeInv, Holding
  <2> QED BY <1>0, <2>1, HandleHasCause
<1>3. CASE SweepOne
  <2>1. PICK m \in todo : Handle(m)
    BY <1>3 DEF SweepOne
  <2>2. pend = None /\ m \in SweepItem /\ m.type # "TASK_MAINTENANCE"
    BY <1>0, <1>3 DEF SweepOne, TypeOK, SweepItem, TaskMsgTypes
  <2> QED BY <1>0, <2>1, <2>2, HandleHasCause
<1>4. ASSUME \A t \in Task : taskState'[t] = "FAILED" => taskState[t] = "FAILED",
             UNCHANGED audit
      PROVE  FailedHasCause'
  BY <1>0, <1>4, CauseKept DEF FailedHasCause, Caused
<1>5. CASE SchedCommit
  BY <1>0, <1>4, <1>5 DEF SchedCommit, CommitRows, TypeOK
<1>6. ASSUME NEW t \in Task, DefineTask(t) PROVE FailedHasCause'
  BY <1>0, <1>4, <1>6 DEF DefineTask, TypeOK
<1>7. CASE SchedulerStep \/ MaintenanceTick \/ HandlerAborts \/ SweepItemAborts \/ SchedCrash
  BY <1>1, <1>2, <1>3, <1>5, <1>7
     DEF SchedulerStep, SchedStart, RecoverPop, RecoverPush, RecoverDone, MaintenanceTick,
         SchedDequeue, SweepBegin, SweepNext, SweepEnd, SchedDelete, HandlerAborts,
         SweepItemAborts, SchedCrash, rowVars
<1>8. ASSUME NEW w \in Worker, ReceiverStep(w) \/ WorkerFault(w)
      PROVE  UNCHANGED <<taskState, audit>>
  BY <1>8 DEF ReceiverStep, ReceiverDequeue, ReceiverClaim, ReceiverDrop, WorkerStart,
              WorkerInit, WorkerInitFails, WorkerFault, WorkerCrash, WorkerReads, SubmitFails,
              ExecutorAborts, WorkerOnly
<1>9. ASSUME NEW w \in Worker, NEW e \in Exec, ExecutorStep(w, e)
      PROVE  UNCHANGED <<taskState, audit>>
  BY <1>9 DEF ExecutorStep, ExecutorPre, ExecutorSucceeds, ExecutorFails,
              ExecutorMissesProcessor, OnTaskComplete, Update, WorkerOnly
<1>10. CASE ClientStep \/ ClockStep
  BY <1>1, <1>6, <1>10 DEF ClientStep, ClockStep, SubmitTask, CancelTask, Poke,
                           DeadlinePasses, BecomesDue, rowVars
<1>11. CASE UNCHANGED vars
  BY <1>1, <1>11 DEF vars, rowVars
<1> QED BY <1>1, <1>7, <1>8, <1>9, <1>10, <1>11 DEF Next

\* No task fails without a cause on record: an execution that must not be retried,
\* an engine failure, or a spent budget.
THEOREM FailedHasCauseHolds ==
  ASSUME "staleRead" \notin FaultKinds
  PROVE  Spec => []FailedHasCause
<1>1. Init => FailedHasCause
  BY DEF Init, FailedHasCause
<1>2. OutcomeInv /\ FailedHasCause /\ [Next]_vars => FailedHasCause'
  BY NextHasCause
<1> QED BY <1>1, <1>2, OutcomeHolds, PTL DEF Spec

-----------------------------------------------------------------------------
\* Who runs an execution

\* What a worker is at work on is claimed, by that worker.
Claimed ==
  \A w \in Worker, e \in Exec :
    job[w][e] \in {"pre", "run"} => exec[e].worker = w /\ exec[e].state \in Started

\* A claimed execution keeps its owner, whatever moves it on.
LEMMA MovesKeepClaims ==
  ASSUME Moves, NEW e \in Exec, exec[e].state \in Started
  PROVE  exec'[e].state \in Started /\ exec'[e].worker = exec[e].worker
<1>1. CASE Age
  BY <1>1 DEF Age, RowAges
<1>2. ASSUME NEW n \in Exec, Grow(n)
      PROVE  exec'[e].state \in Started /\ exec'[e].worker = exec[e].worker
  BY <1>2 DEF Grow, RowAges, Started, ExecState
<1> QED BY <1>1, <1>2 DEF Moves

\* A job that is set on leaves the others.
LEMMA SetJobOnly ==
  ASSUME TypeOK, NEW w \in Worker, NEW e \in Exec, NEW s, SetJob(w, e, s)
  PROVE  \A v \in Worker, d \in Exec :
           job'[v][d] = IF v = w /\ d = e THEN s ELSE job[v][d]
BY DEF SetJob, TypeOK

StartedBy(w, e) ==
  /\ exec[e].state = "ENQUEUED"
  /\ exec'[e].worker = w /\ exec'[e].state = "ACQUIRED"

\* A worker starts on an execution only by claiming it.
LEMMA JobsStart ==
  ASSUME TypeOK, NothingRead, [Next]_vars,
         NEW w \in Worker, NEW e \in Exec, job'[w][e] \in {"pre", "run"}
  PROVE  job[w][e] \in {"pre", "run"} \/ StartedBy(w, e)
<1>1. CASE UNCHANGED job
  BY <1>1
<1>2. ASSUME NEW v \in Worker, NEW d \in Exec, NEW s, SetJob(v, d, s),
             s \in {"pre", "run"} => \/ job[v][d] \in {"pre", "run"}
                                     \/ StartedBy(v, d)
      PROVE  job[w][e] \in {"pre", "run"} \/ StartedBy(w, e)
  BY <1>2, SetJobOnly
<1>3. CASE SchedulerStep \/ MaintenanceTick \/ HandlerAborts \/ SweepItemAborts \/ SchedCrash
  BY <1>1, <1>3
     DEF SchedulerStep, SchedStart, RecoverPop, RecoverPush, RecoverDone, MaintenanceTick,
         SchedDequeue, SchedHandle, SchedCommit, SweepBegin, SweepOne, SweepNext, SweepEnd,
         SchedDelete, HandlerAborts, SweepItemAborts, SchedCrash, SchedulerOnly, workVars
<1>4. CASE ClientStep \/ ClockStep \/ UNCHANGED vars
  BY <1>1, <1>4 DEF ClientStep, ClockStep, DefineTask, SubmitTask, CancelTask, Poke,
                    DeadlinePasses, BecomesDue, workVars, vars
<1>5. ASSUME NEW v \in Worker, ReceiverClaim(v)
      PROVE  job[w][e] \in {"pre", "run"} \/ StartedBy(w, e)
  <2>1. PICK d \in Exec : d = claim[v]
    BY <1>5 DEF ReceiverClaim, TypeOK
  <2>2. /\ SetJob(v, d, "pre") /\ exec[d].state = "ENQUEUED"
        /\ exec'[d] = [Mark(exec[d], "ACQUIRED") EXCEPT !.worker = v]
    BY <1>5, <2>1, AcquireFrom DEF ReceiverClaim, StateRead, NothingRead, TypeOK
  <2>3. StartedBy(v, d)
    BY <2>2 DEF StartedBy, Mark, TypeOK, ExecRow
  <2> QED BY <1>2, <2>2, <2>3
<1>6. ASSUME NEW v \in Worker, ReceiverStep(v), ~ ReceiverClaim(v) PROVE UNCHANGED job
  BY <1>6 DEF ReceiverStep, ReceiverDequeue, ReceiverDrop, WorkerStart, WorkerInit,
              WorkerInitFails
<1>7. ASSUME NEW v \in Worker, NEW d \in Exec, ExecutorStep(v, d)
      PROVE  \E s : /\ SetJob(v, d, s)
                    /\ s \in {"pre", "run"} => job[v][d] \in {"pre", "run"}
  BY <1>7 DEF ExecutorStep, ExecutorPre, ExecutorSucceeds, ExecutorFails,
              ExecutorMissesProcessor, OnTaskComplete, Update
<1>8. ASSUME NEW v \in Worker, WorkerFault(v)
      PROVE  job[w][e] \in {"pre", "run"}
  <2>1. CASE WorkerCrash(v)
    BY <2>1 DEF WorkerCrash, TypeOK
  <2>2. ASSUME NEW d \in Exec, WorkerReads(v, d) \/ SubmitFails(v, d) \/ ExecutorAborts(v, d)
        PROVE  UNCHANGED job \/ SetJob(v, d, "ENGINE_FAILED") \/ SetJob(v, d, "EXECUTE_FAILED")
    BY <2>2 DEF WorkerReads, SubmitFails, ExecutorAborts
  <2> QED BY <1>8, <2>1, <2>2, SetJobOnly DEF WorkerFault
<1> QED BY <1>1, <1>2, <1>3, <1>4, <1>5, <1>6, <1>7, <1>8 DEF Next

\* Every step keeps what is claimed claimed.
LEMMA NextClaimed ==
  ASSUME "staleRead" \notin FaultKinds, OutcomeInv, Claimed, [Next]_vars
  PROVE  Claimed'
<1>1. TypeOK /\ NothingRead /\ Moves
  BY NextMoves DEF OutcomeInv, SafetyInv, TypeInv
<1> QED BY <1>1, MovesKeepClaims, JobsStart DEF StartedBy, Claimed, Started, ExecState

\* What a worker is at work on is claimed by it in every run without interrupted
\* transactions.
LEMMA ClaimedHolds ==
  ASSUME "staleRead" \notin FaultKinds
  PROVE  Spec => []Claimed
<1>1. Init => Claimed
  BY DEF Init, Claimed
<1>2. OutcomeInv /\ Claimed /\ [Next]_vars => Claimed'
  BY NextClaimed
<1> QED BY <1>1, <1>2, OutcomeHolds, PTL DEF Spec

\* Two workers never run the same execution, however often its message is delivered.
THEOREM OneRunnerHolds ==
  ASSUME "staleRead" \notin FaultKinds
  PROVE  Spec => []OneRunner
<1>1. Claimed => OneRunner
  BY DEF Claimed, OneRunner
<1> QED BY <1>1, ClaimedHolds, PTL

-----------------------------------------------------------------------------
\* What becomes of an execution that is run, and of one that is given up

Running(e) == \E w \in Worker : job[w][e] \in {"pre", "run"}

\* What a worker is at work on has no success on record yet.
AtWorkOpen == \A e \in Exec : Running(e) => exec[e].terminal # "PROCESSED"

\* An execution that will not succeed: it ended otherwise, or its worker has let go
\* of it.
NoSuccess(e) ==
  \/ exec[e].terminal \in {"FAILED", "CANCELLED"}
  \/ exec[e].state \in {"ACQUIRED", "PROCESSING"} /\ ~ Running(e)

NoneProcessed ==
  \A e \in Exec : exec'[e].terminal = "PROCESSED" => exec[e].terminal = "PROCESSED"

\* A row is processed only by being marked so.
LEMMA OtherMarks ==
  ASSUME NEW r \in ExecRow, NEW s \in ExecState \ {"PROCESSED"}
  PROVE  /\ Mark(r, s) \in ExecRow
         /\ Mark(r, s).terminal = "PROCESSED" => r.terminal = "PROCESSED"
<1>1. Mark(r, s) \in ExecRow
  BY MarkType
<1>2. Mark(r, s).terminal = "PROCESSED" => r.terminal = "PROCESSED"
  BY DEF Mark, ExecRow
<1> QED BY <1>1, <1>2

\* The shapes of a step that gives no execution a success.
LEMMA OneMarkProcessesNone ==
  ASSUME TypeOK, NEW e \in Exec, NEW row, row.terminal = "PROCESSED" => exec[e].terminal = "PROCESSED",
         exec' = [exec EXCEPT ![e] = row]
  PROVE  NoneProcessed
BY DEF NoneProcessed, TypeOK

\* A cancellation gives none.
LEMMA CancelProcessesNone ==
  ASSUME NEW rows \in [Exec -> ExecRow], NEW t, exec' = CancelOngoing(rows, t),
         \A e \in Exec : rows[e].terminal = "PROCESSED" => exec[e].terminal = "PROCESSED"
  PROVE  NoneProcessed
<1> SUFFICES ASSUME NEW e \in Exec, exec'[e].terminal = "PROCESSED"
             PROVE  exec[e].terminal = "PROCESSED"
  BY DEF NoneProcessed
<1>1. exec'[e] = rows[e] \/ exec'[e] = Mark(rows[e], "CANCELLED")
  BY DEF CancelOngoing
<1> QED BY <1>1, OtherMarks DEF ExecState

\* No handler gives an execution a success.
LEMMA HandleProcessesNone ==
  ASSUME TypeOK, NEW m \in SchedMsg \cup SweepItem, m.type # "TASK_MAINTENANCE", Handle(m)
  PROVE  NoneProcessed
<1>0. \A e \in Exec : exec[e] \in ExecRow /\ TaskOf(e) \in Task
  BY TaskOfType DEF TypeOK
<1>1. CASE UNCHANGED exec
  BY <1>1 DEF NoneProcessed
<1>2. ASSUME NEW e \in Exec, exec' = [exec EXCEPT ![e] = Mark(@, "FINALIZED")]
      PROVE  NoneProcessed
  <2>1. exec' = [exec EXCEPT ![e] = Mark(exec[e], "FINALIZED")]
    BY <1>2
  <2>2. Mark(exec[e], "FINALIZED").terminal = "PROCESSED" => exec[e].terminal = "PROCESSED"
    BY <1>0, OtherMarks DEF ExecState
  <2> QED BY <2>1, <2>2, OneMarkProcessesNone
<1>3. NewRow("SCHEDULED").terminal # "PROCESSED"
  BY NoneAssumption DEF NewRow, NoRow, ExecState
<1>4. ASSUME NEW t \in Task, ProcessNewPendingTask(t) PROVE NoneProcessed
  <2>1. CASE taskState[t] = "PENDING" /\ t \in Scheduled
    <3>1. exec' = [exec EXCEPT ![NewExec(t)] = NewRow("SCHEDULED")] /\ UseExecId(t)
      BY <1>4, <2>1 DEF ProcessNewPendingTask
    <3>2. NewExec(t) \in Exec
      BY <3>1, UseExecIdType
    <3> QED BY <1>3, <3>1, <3>2, OneMarkProcessesNone
  <2>2. CASE ~ (taskState[t] = "PENDING" /\ t \in Scheduled)
    BY <1>1, <1>4, <2>2 DEF ProcessNewPendingTask, NoEffect, rowVars
  <2> QED BY <2>1, <2>2
<1>5. ASSUME NEW t \in Task, ProcessCancelTask(t) \/ ProcessTaskTimeout(t) PROVE NoneProcessed
  <2>1. CASE exec' = CancelOngoing(exec, t)
    BY <2>1, CancelProcessesNone DEF TypeOK
  <2> QED BY <1>1, <1>5, <2>1 DEF ProcessCancelTask, ProcessTaskTimeout, NoEffect, rowVars
<1>6. ASSUME NEW e \in Exec,
             ProcessTaskExecutionComplete(e) \/ ProcessTaskExecutionEngineFailed(e)
      PROVE  NoneProcessed
  BY <1>1, <1>2, <1>6
     DEF ProcessTaskExecutionComplete, ProcessTaskExecutionEngineFailed, NoEffect, rowVars
<1>7. ASSUME NEW e \in Exec, ProcessTaskExecutionStarting(e) PROVE NoneProcessed
  BY <1>1, <1>7 DEF ProcessTaskExecutionStarting, NoEffect, rowVars
<1>8. ASSUME NEW e \in Exec, ProcessTaskExecutionFailed(e) PROVE NoneProcessed
  <2> DEFINE t == TaskOf(e)
             finalized == [exec EXCEPT ![e] = Mark(@, "FINALIZED")]
  <2>1. CASE CanFinalize(e) /\ taskState[t] = "ACTIVE" /\ DecideExecutionRetry(e)
    <3>1. exec' = [finalized EXCEPT ![NewExec(t)] = NewRow("SCHEDULED")] /\ UseExecId(t)
      BY <1>8, <2>1 DEF ProcessTaskExecutionFailed
    <3>2. \A d \in Exec : finalized[d].terminal = "PROCESSED" => exec[d].terminal = "PROCESSED"
      BY <1>0, OtherMarks DEF ExecState, TypeOK
    <3>3. \A d \in Exec : exec'[d] = finalized[d] \/ exec'[d] = NewRow("SCHEDULED")
      BY <3>1 DEF TypeOK
    <3> QED BY <1>3, <3>2, <3>3 DEF NoneProcessed
  <2>2. CASE exec' = finalized
    BY <1>2, <2>2
  <2>3. CASE NoEffect
    BY <1>1, <2>3 DEF NoEffect, rowVars
  <2> QED BY <1>8, <2>1, <2>2, <2>3 DEF ProcessTaskExecutionFailed
<1>9. ASSUME NEW e \in Exec, ProcessTaskExecutionTimedOut(e) PROVE NoneProcessed
  <2> DEFINE settled == [exec EXCEPT ![e] = Mark(Mark(@, "FAILED"), "FINALIZED")]
  <2>1. CASE exec' = CancelOngoing(settled, TaskOf(e))
    <3>1. Mark(exec[e], "FAILED") \in ExecRow
      BY <1>0, OtherMarks DEF ExecState
    <3>2. /\ Mark(Mark(exec[e], "FAILED"), "FINALIZED") \in ExecRow
          /\ Mark(Mark(exec[e], "FAILED"), "FINALIZED").terminal = "PROCESSED"
             => exec[e].terminal = "PROCESSED"
      BY <1>0, <3>1, OtherMarks DEF ExecState
    <3>3. /\ settled \in [Exec -> ExecRow]
          /\ \A d \in Exec : settled[d].terminal = "PROCESSED" => exec[d].terminal = "PROCESSED"
      BY <3>2 DEF TypeOK
    <3> HIDE DEF settled
    <3> QED BY <2>1, <3>3, CancelProcessesNone
  <2> QED BY <1>1, <1>9, <2>1 DEF ProcessTaskExecutionTimedOut, NoEffect, rowVars
<1> QED BY <1>4, <1>5, <1>6, <1>7, <1>8, <1>9, HandleCases

\* Only the worker that runs an execution gives it a success.
LEMMA OnlyRunnersProcess ==
  ASSUME "staleRead" \notin FaultKinds, TypeInv, [Next]_vars, ~ NoneProcessed
  PROVE  \E w \in Worker, e \in Exec :
           /\ job[w][e] = "run" /\ SetJob(w, e, "EXECUTE_SUCCEEDED")
           /\ \A d \in Exec \ {e} : exec'[d] = exec[d]
<1>0. TypeOK /\ \A e \in Exec : exec[e] \in ExecRow
  BY DEF TypeInv, TypeOK
<1>1. CASE UNCHANGED exec
  BY <1>1 DEF NoneProcessed
<1>2. \A e \in Exec : \A s \in ExecState \ {"PROCESSED"} :
        Mark(exec[e], s).terminal = "PROCESSED" => exec[e].terminal = "PROCESSED"
  BY <1>0, OtherMarks
<1>3. ASSUME SchedulerStep \/ MaintenanceTick \/ HandlerAborts \/ SweepItemAborts \/ SchedCrash
      PROVE  NoneProcessed
  <2>1. CASE SchedHandle
    BY <1>0, <2>1, HandleProcessesNone DEF SchedHandle, TypeInv, Holding
  <2>2. CASE SweepOne
    <3>1. PICK m \in todo : Handle(m)
      BY <2>2 DEF SweepOne
    <3>2. m \in SweepItem /\ m.type # "TASK_MAINTENANCE"
      BY <1>0 DEF TypeOK, SweepItem, TaskMsgTypes
    <3> QED BY <1>0, <3>1, <3>2, HandleProcessesNone
  <2>3. CASE SchedCommit
    <3>1. PICK e \in Exec : e = pend
      BY <1>0, <2>3 DEF SchedCommit, TypeOK
    <3>2. \/ exec' = [exec EXCEPT ![e] = NewRow("ENQUEUED")]
          \/ exec' = [exec EXCEPT ![e] = Mark(exec[e], "ENQUEUED")]
      BY <2>3, <3>1 DEF SchedCommit, CommitRows
    <3>3. NewRow("ENQUEUED").terminal # "PROCESSED" /\ "ENQUEUED" \in ExecState \ {"PROCESSED"}
      BY NoneAssumption DEF NewRow, NoRow, ExecState
    <3> QED BY <1>0, <1>2, <3>2, <3>3, OneMarkProcessesNone
  <2>4. CASE UNCHANGED exec
    BY <2>4 DEF NoneProcessed
  <2> QED BY <1>3, <2>1, <2>2, <2>3, <2>4
          DEF SchedulerStep, SchedStart, RecoverPop, RecoverPush, RecoverDone, MaintenanceTick,
              SchedDequeue, SweepBegin, SweepNext, SweepEnd, SchedDelete, HandlerAborts,
              SweepItemAborts, SchedCrash, rowVars
<1>4. ASSUME NEW w \in Worker, ReceiverStep(w) PROVE NoneProcessed
  <2>1. CASE ReceiverClaim(w)
    <3>1. PICK e \in Exec : e = claim[w]
      BY <1>0, <2>1 DEF ReceiverClaim, TypeOK
    <3> DEFINE row == [Mark(exec[e], "ACQUIRED") EXCEPT !.worker = w]
    <3>2. row.terminal = Mark(exec[e], "ACQUIRED").terminal
      BY <1>0 DEF Mark, ExecRow
    <3>3. exec' = [exec EXCEPT ![e] = row]
      BY <2>1, <3>1 DEF ReceiverClaim
    <3> HIDE DEF row
    <3> QED BY <1>0, <1>2, <3>2, <3>3, OneMarkProcessesNone DEF ExecState
  <2>2. CASE WorkerInit(w)
    <3>1. \A e \in Exec : exec'[e] = exec[e] \/ exec'[e] = Mark(exec[e], "FAILED")
      BY <2>2 DEF WorkerInit
    <3> QED BY <1>2, <3>1 DEF NoneProcessed, ExecState
  <2>3. CASE UNCHANGED exec
    BY <2>3 DEF NoneProcessed
  <2> QED BY <1>4, <2>1, <2>2, <2>3
          DEF ReceiverStep, ReceiverDequeue, ReceiverDrop, WorkerStart, WorkerInitFails
<1>5. ASSUME NEW w \in Worker, WorkerFault(w) PROVE NoneProcessed
  <2>1. ASSUME NEW e \in Exec, SubmitFails(w, e) PROVE NoneProcessed
    <3>1. \/ UNCHANGED exec
          \/ exec' = [exec EXCEPT ![e] = Mark(exec[e], "FAILED")]
      BY <1>0, <2>1 DEF SubmitFails, TypeOK
    <3> QED BY <1>0, <1>2, <3>1, OneMarkProcessesNone DEF ExecState, NoneProcessed
  <2>2. CASE UNCHANGED exec
    BY <2>2 DEF NoneProcessed
  <2> QED BY <1>5, <2>1, <2>2 DEF WorkerFault, WorkerCrash, WorkerReads, ExecutorAborts
<1>6. ASSUME NEW w \in Worker, NEW e \in Exec, ExecutorStep(w, e)
      PROVE  \/ NoneProcessed
             \/ /\ job[w][e] = "run" /\ SetJob(w, e, "EXECUTE_SUCCEEDED")
                /\ \A d \in Exec \ {e} : exec'[d] = exec[d]
  <2>1. CASE UNCHANGED exec
    BY <2>1 DEF NoneProcessed
  <2>2. CASE ExecutorSucceeds(w, e)
    BY <1>0, <2>1, <2>2 DEF ExecutorSucceeds, Update, TypeOK
  <2>3. CASE ExecutorFails(w, e)
    <3>1. PICK o \in Outcomes \ {"ok"} :
            Update(w, e, "FAILED",
                   [Mark(exec[e], "FAILED") EXCEPT !.nonRetryable = (o = "fatal")],
                   "EXECUTE_FAILED")
      BY <2>3 DEF ExecutorFails
    <3> DEFINE row == [Mark(exec[e], "FAILED") EXCEPT !.nonRetryable = (o = "fatal")]
    <3>2. row.terminal = Mark(exec[e], "FAILED").terminal
      BY <1>0 DEF Mark, ExecRow
    <3>3. UNCHANGED exec \/ exec' = [exec EXCEPT ![e] = row]
      BY <3>1 DEF Update
    <3> HIDE DEF row
    <3> QED BY <1>0, <1>2, <2>1, <3>2, <3>3, OneMarkProcessesNone DEF ExecState
  <2>4. ASSUME NEW s \in {"PROCESSING", "FAILED"},
               UNCHANGED exec \/ exec' = [exec EXCEPT ![e] = Mark(exec[e], s)]
        PROVE  NoneProcessed
    BY <1>0, <1>2, <2>1, <2>4, OneMarkProcessesNone DEF ExecState, NoneProcessed
  <2>5. CASE ExecutorPre(w, e) \/ ExecutorMissesProcessor(w, e) \/ OnTaskComplete(w, e)
    BY <2>4, <2>5 DEF ExecutorPre, ExecutorMissesProcessor, OnTaskComplete, Update
  <2> QED BY <1>6, <2>2, <2>3, <2>5 DEF ExecutorStep
<1>7. CASE ClientStep \/ ClockStep \/ UNCHANGED vars
  BY <1>1, <1>7 DEF ClientStep, ClockStep, DefineTask, SubmitTask, CancelTask, Poke,
                    DeadlinePasses, BecomesDue, rowVars, vars
<1> QED BY <1>3, <1>4, <1>5, <1>6, <1>7 DEF Next

\* A success is given by its runner, who then is at work on it no more.
LEMMA SuccessEndsWork ==
  ASSUME "staleRead" \notin FaultKinds, OutcomeInv, Claimed, [Next]_vars, NEW e \in Exec,
         exec[e].terminal # "PROCESSED", exec'[e].terminal = "PROCESSED"
  PROVE  /\ Running(e) /\ ~ Running(e)'
         /\ \A w \in Worker : job'[w][e] # "EXECUTE_FAILED" \/ job[w][e] = "EXECUTE_FAILED"
<1>1. TypeInv /\ TypeOK /\ NothingRead
  BY DEF OutcomeInv, SafetyInv, TypeInv
<1>2. PICK v \in Worker : job[v][e] = "run" /\ SetJob(v, e, "EXECUTE_SUCCEEDED")
  BY <1>1, OnlyRunnersProcess DEF NoneProcessed
<1>3. \A w \in Worker : job'[w][e] = IF w = v THEN "EXECUTE_SUCCEEDED" ELSE job[w][e]
  BY <1>1, <1>2, SetJobOnly
<1>4. \A w \in Worker : job[w][e] \in {"pre", "run"} => w = v
  BY <1>2 DEF Claimed
<1> QED BY <1>2, <1>3, <1>4 DEF Running

\* Work starts on what has no success, and ends with it.
LEMMA AtWorkOpenNext ==
  ASSUME "staleRead" \notin FaultKinds, OutcomeInv, Claimed, AtWorkOpen, [Next]_vars
  PROVE  AtWorkOpen'
<1>1. TypeOK /\ NothingRead /\ Verdicts'
  BY OutcomeNext DEF OutcomeInv, SafetyInv, TypeInv, BudgetInv
<1>2. ASSUME NEW e \in Exec, NEW w \in Worker, job'[w][e] \in {"pre", "run"},
             exec'[e].terminal = "PROCESSED"
      PROVE  FALSE
  <2>1. exec[e].terminal = "PROCESSED"
    BY <1>2, SuccessEndsWork DEF Running
  <2>2. StartedBy(w, e)
    BY <1>1, <1>2, <2>1, JobsStart DEF AtWorkOpen, Running
  <2> QED BY <1>1, <1>2, <2>2, NoneAssumption DEF StartedBy, Verdicts, VerdictOK, ExecLive, ExecState
<1> QED BY <1>2 DEF AtWorkOpen, Running

WorkInv == OutcomeInv /\ Claimed /\ AtWorkOpen

\* The invariants of the rows and of who works on them, together.
LEMMA WorkInit == Init => WorkInv
<1> SUFFICES ASSUME Init PROVE WorkInv
  OBVIOUS
<1>1. \A w \in Worker, e \in Exec : job[w][e] = "none"
  BY DEF Init
<1> QED BY <1>1, OutcomeInit DEF WorkInv, Claimed, AtWorkOpen, Running

\* Every step of the engine keeps them.
LEMMA WorkNext ==
  ASSUME "staleRead" \notin FaultKinds, WorkInv, [Next]_vars
  PROVE  WorkInv'
BY OutcomeNext, NextClaimed, AtWorkOpenNext DEF WorkInv

\* They hold in every run without interrupted transactions.
LEMMA WorkHolds ==
  ASSUME "staleRead" \notin FaultKinds
  PROVE  Spec => []WorkInv
BY WorkInit, WorkNext, PTL DEF Spec

\* What will not succeed never does: nobody claims it again.
LEMMA NoSuccessKept ==
  ASSUME "staleRead" \notin FaultKinds, WorkInv, [Next]_vars, NEW e \in Exec, NoSuccess(e)
  PROVE  NoSuccess(e)'
<1>0. OutcomeInv /\ Claimed /\ TypeOK /\ NothingRead /\ Verdicts /\ Moves
  BY NextMoves DEF WorkInv, OutcomeInv, SafetyInv, TypeInv, BudgetInv
<1>1. TypeOK' /\ Verdicts'
  BY <1>0, OutcomeNext DEF OutcomeInv, SafetyInv, TypeInv, BudgetInv
<1>2. CASE exec[e].terminal \in {"FAILED", "CANCELLED"}
  BY <1>0, <1>2, MovesKeepSettled, NoneAssumption DEF SettledKept, NoSuccess, ExecState
<1>3. CASE exec[e].state \in {"ACQUIRED", "PROCESSING"} /\ ~ Running(e)
  <2>1. exec'[e].state \in Started
    BY <1>0, <1>3, MovesKeepClaims DEF Started, ExecState
  <2>2. ~ Running(e)'
    BY <1>0, <1>3, JobsStart DEF Running, StartedBy
  <2>3. exec'[e].terminal # "PROCESSED"
    <3>1. exec[e].terminal = None
      BY <1>0, <1>3 DEF Verdicts, VerdictOK, ExecLive
    <3> QED BY <1>0, <1>3, <3>1, SuccessEndsWork, NoneAssumption DEF ExecState
  <2>4. exec'[e].terminal \in {None, "FAILED", "CANCELLED"}
    BY <1>1, <2>3 DEF TypeOK, ExecRow
  <2>5. exec'[e].terminal = None => exec'[e].state \in ExecLive \cup {"NONE"}
    BY <1>1 DEF Verdicts, VerdictOK
  <2> QED BY <2>1, <2>2, <2>4, <2>5 DEF NoSuccess, Started, ExecState, ExecLive
<1> QED BY <1>2, <1>3 DEF NoSuccess

\* A worker that gives an execution up as failed has let go of it, and it is not
\* processed.
LEMMA GivenUpFails ==
  ASSUME "staleRead" \notin FaultKinds, WorkInv, [Next]_vars, NEW w \in Worker, NEW e \in Exec,
         job[w][e] \in {"pre", "run"}, SetJob(w, e, "EXECUTE_FAILED")
  PROVE  NoSuccess(e)'
<1>0. OutcomeInv /\ Claimed /\ TypeOK /\ Moves
  BY NextMoves DEF WorkInv, OutcomeInv, SafetyInv, TypeInv, BudgetInv
<1>1. TypeOK' /\ Verdicts'
  BY <1>0, OutcomeNext DEF OutcomeInv, SafetyInv, TypeInv, BudgetInv
<1>2. \A v \in Worker : job'[v][e] = IF v = w THEN "EXECUTE_FAILED" ELSE job[v][e]
  BY <1>0, SetJobOnly
<1>3. exec[e].worker = w /\ exec[e].state \in Started /\ exec'[e].state \in Started
  BY <1>0, MovesKeepClaims DEF Claimed
<1>4. ~ Running(e)'
  BY <1>0, <1>2, <1>3 DEF Running, Claimed
<1>5. exec'[e].terminal # "PROCESSED"
  BY <1>0, <1>2, SuccessEndsWork DEF WorkInv, AtWorkOpen, Running
<1>6. exec'[e].terminal \in {None, "FAILED", "CANCELLED"}
  BY <1>1, <1>5 DEF TypeOK, ExecRow
<1>7. exec'[e].terminal = None => exec'[e].state \in ExecLive \cup {"NONE"}
  BY <1>1 DEF Verdicts, VerdictOK
<1> QED BY <1>3, <1>4, <1>6, <1>7 DEF NoSuccess, Started, ExecState, ExecLive

-----------------------------------------------------------------------------
\* Success is reported only of what was processed, failure of what was not

Truthful(m) ==
  /\ m.type = "EXECUTE_SUCCEEDED" => exec[m.id].terminal = "PROCESSED"
  /\ m.type = "EXECUTE_FAILED" => NoSuccess(m.id)

TrueMsg == {m \in SchedMsg : Truthful(m)}

QueuesTrue ==
  /\ schedQ \in Seq(TrueMsg) /\ schedBuf \in Seq(TrueMsg)
  /\ cur \in TrueMsg \cup {None} /\ (spc = "handle" => cur \in TrueMsg)
  /\ \A m \in todo : Truthful(m)

JobsTrue ==
  \A w \in Worker, e \in Exec :
    /\ job[w][e] = "EXECUTE_SUCCEEDED" => exec[e].terminal = "PROCESSED"
    /\ job[w][e] = "EXECUTE_FAILED" => NoSuccess(e)

\* How an execution went does not change.
TruthsKept ==
  \A e \in Exec :
    /\ exec[e].terminal = "PROCESSED" => exec'[e].terminal = "PROCESSED"
    /\ NoSuccess(e) => NoSuccess(e)'

\* A worker takes up a report only of what it is true of.
ReportsTrue ==
  \A w \in Worker, e \in Exec :
    /\ job'[w][e] = "EXECUTE_SUCCEEDED" =>
         job[w][e] = "EXECUTE_SUCCEEDED" \/ exec'[e].terminal = "PROCESSED"
    /\ job'[w][e] = "EXECUTE_FAILED" => job[w][e] = "EXECUTE_FAILED" \/ NoSuccess(e)'

\* A report of how an execution went names an execution.
LEMMA ReportOf ==
  ASSUME NEW m \in SchedMsg \cup SweepItem, m.type \in {"EXECUTE_SUCCEEDED", "EXECUTE_FAILED"}
  PROVE  m.id \in Exec
BY DEF SchedMsg, SweepItem, TaskMsgTypes, ReportTypes, Msg

\* What was truthful stays so.
LEMMA TruthKept ==
  ASSUME TruthsKept
  PROVE  /\ TrueMsg \subseteq TrueMsg'
         /\ \A m \in SweepItem : Truthful(m) => Truthful(m)'
<1>1. \A m \in SchedMsg \cup SweepItem : Truthful(m) => Truthful(m)'
  BY ReportOf DEF Truthful, TruthsKept
<1> QED BY <1>1 DEF TrueMsg

\* The verdicts on the rows stay true, whatever the engine does.
LEMMA NextKeepsTruths ==
  ASSUME "staleRead" \notin FaultKinds, WorkInv, [Next]_vars
  PROVE  TruthsKept
<1>1. SettledKept
  BY NextMoves, MovesKeepSettled DEF WorkInv, OutcomeInv, BudgetInv
<1> QED BY <1>1, NoSuccessKept, NoneAssumption DEF TruthsKept, SettledKept, ExecState

\* A worker's step sets no report that is not true.
LEMMA NextReportsTrue ==
  ASSUME "staleRead" \notin FaultKinds, WorkInv, [Next]_vars
  PROVE  ReportsTrue
<1>0. TypeOK /\ TypeInv /\ NothingRead
  BY DEF WorkInv, OutcomeInv, SafetyInv, TypeInv
<1>1. CASE UNCHANGED job
  BY <1>1 DEF ReportsTrue
<1>2. ASSUME NEW v \in Worker, NEW d \in Exec, NEW s, SetJob(v, d, s),
             s = "EXECUTE_SUCCEEDED" => exec'[d].terminal = "PROCESSED",
             s = "EXECUTE_FAILED" => job[v][d] \in {"pre", "run"}
      PROVE  ReportsTrue
  <2>1. s = "EXECUTE_FAILED" => NoSuccess(d)'
    BY <1>2, GivenUpFails
  <2> QED BY <1>0, <1>2, <2>1, SetJobOnly DEF ReportsTrue
<1>3. CASE SchedulerStep \/ MaintenanceTick \/ HandlerAborts \/ SweepItemAborts \/ SchedCrash
  BY <1>1, <1>3
     DEF SchedulerStep, SchedStart, RecoverPop, RecoverPush, RecoverDone, MaintenanceTick,
         SchedDequeue, SchedHandle, SchedCommit, SweepBegin, SweepOne, SweepNext, SweepEnd,
         SchedDelete, HandlerAborts, SweepItemAborts, SchedCrash, SchedulerOnly, workVars
<1>4. CASE ClientStep \/ ClockStep \/ UNCHANGED vars
  BY <1>1, <1>4 DEF ClientStep, ClockStep, DefineTask, SubmitTask, CancelTask, Poke,
                    DeadlinePasses, BecomesDue, workVars, vars
<1>5. ASSUME NEW w \in Worker, ReceiverStep(w) PROVE ReportsTrue
  <2>1. CASE ReceiverClaim(w)
    <3>1. claim[w] \in Exec /\ SetJob(w, claim[w], "pre")
      BY <1>0, <2>1 DEF ReceiverClaim, TypeOK
    <3> QED BY <1>2, <3>1
  <2>2. CASE ~ ReceiverClaim(w)
    BY <1>1, <1>5, <2>2 DEF ReceiverStep, ReceiverDequeue, ReceiverDrop, WorkerStart,
                            WorkerInit, WorkerInitFails
  <2> QED BY <2>1, <2>2
<1>6. ASSUME NEW w \in Worker, NEW e \in Exec, ExecutorStep(w, e) PROVE ReportsTrue
  <2>1. ASSUME NEW s, NEW row, NEW next, Update(w, e, s, row, next), job[w][e] \in {"pre", "run"},
               next = "EXECUTE_SUCCEEDED" => row.terminal = "PROCESSED"
        PROVE  ReportsTrue
    <3>1. CASE exec' = [exec EXCEPT ![e] = row] /\ SetJob(w, e, next)
      <4>1. exec'[e] = row
        BY <1>0, <3>1 DEF TypeOK
      <4> QED BY <1>2, <2>1, <3>1, <4>1
    <3>2. CASE SetJob(w, e, "EXECUTE_FAILED")
      BY <1>2, <2>1, <3>2
    <3> QED BY <2>1, <3>1, <3>2 DEF Update
  <2>2. CASE ExecutorSucceeds(w, e)
    <3>1. Mark(exec[e], "PROCESSED").terminal = "PROCESSED"
      BY <1>0 DEF Mark, TypeOK, ExecRow
    <3> QED BY <2>1, <2>2, <3>1 DEF ExecutorSucceeds
  <2>3. CASE ExecutorPre(w, e) \/ ExecutorFails(w, e) \/ ExecutorMissesProcessor(w, e)
    BY <2>1, <2>3 DEF ExecutorPre, ExecutorFails, ExecutorMissesProcessor
  <2>4. CASE OnTaskComplete(w, e)
    BY <1>2, <2>4 DEF OnTaskComplete
  <2> QED BY <1>6, <2>2, <2>3, <2>4 DEF ExecutorStep
<1>7. ASSUME NEW w \in Worker, WorkerFault(w) PROVE ReportsTrue
  <2>1. CASE WorkerCrash(w)
    BY <1>0, <2>1 DEF WorkerCrash, ReportsTrue, TypeOK
  <2>2. ASSUME NEW e \in Exec, WorkerReads(w, e) \/ SubmitFails(w, e) \/ ExecutorAborts(w, e)
        PROVE  ReportsTrue
    BY <1>1, <1>2, <2>2 DEF WorkerReads, SubmitFails, ExecutorAborts
  <2> QED BY <1>7, <2>1, <2>2 DEF WorkerFault
<1> QED BY <1>3, <1>4, <1>5, <1>6, <1>7 DEF Next

\* A sweep lists as succeeded what was processed, and as failed what was not.
LEMMA ListedTrue ==
  ASSUME TypeOK, Verdicts, NEW p \in 1..5, NEW m \in Listed(p)
  PROVE  Truthful(m)
BY DEF Listed, ListedEnded, TasksIn, ExecsIn, Msg, Truthful, NoSuccess, Verdicts, VerdictOK

\* The scheduler's steps put no untruthful message anywhere.
LEMMA SchedulerTrue ==
  ASSUME TypeInv, Verdicts, TruthsKept, QueuesTrue, JobsTrue,
         SchedulerStep \/ MaintenanceTick \/ HandlerAborts \/ SweepItemAborts \/ SchedCrash
  PROVE  QueuesTrue' /\ JobsTrue'
<1> DEFINE T == TrueMsg'
<1>0. TypeOK
  BY DEF TypeInv
<1>1. /\ schedQ \in Seq(T) /\ schedBuf \in Seq(T) /\ cur \in T \cup {None}
      /\ spc = "handle" => cur \in T
      /\ \A m \in todo : Truthful(m)'
  BY <1>0, TruthKept, SeqMonotonic DEF QueuesTrue, TypeOK
<1>2. JobsTrue'
  <2>1. UNCHANGED job
    BY DEF SchedulerStep, SchedStart, RecoverPop, RecoverPush, RecoverDone, MaintenanceTick,
           SchedDequeue, SchedHandle, SchedCommit, SweepBegin, SweepOne, SweepNext, SweepEnd,
           SchedDelete, HandlerAborts, SweepItemAborts, SchedCrash, SchedulerOnly, workVars
  <2> QED BY <2>1 DEF JobsTrue, TruthsKept
<1>3. Msg("TASK_MAINTENANCE", None) \in T
  BY DEF Msg, SchedMsg, TrueMsg, Truthful
<1>4. ASSUME schedQ' \in Seq(T), schedBuf' \in Seq(T), cur' \in T \cup {None},
             spc' = "handle" => cur' \in T,
             \A m \in todo' : Truthful(m)'
      PROVE  QueuesTrue' /\ JobsTrue'
  BY <1>2, <1>4 DEF QueuesTrue
<1> HIDE DEF T
<1> USE DEF SchedulerOnly
<1>5. CASE RecoverPop
  BY <1>1, <1>4, <1>5, HeadTailProperties DEF RecoverPop
<1>6. CASE RecoverPush
  BY <1>1, <1>4, <1>6, ConcatProperties DEF RecoverPush
<1>7. CASE MaintenanceTick
  BY <1>1, <1>3, <1>4, <1>7, AppendProperties DEF MaintenanceTick, schedVars
<1>8. CASE SchedDequeue
  BY <1>1, <1>4, <1>8, HeadTailProperties, AppendProperties DEF SchedDequeue
<1>9. CASE SweepBegin \/ SweepNext
  <2>1. PICK p \in 1..5 : todo' = Listed(p)
    BY <1>0, <1>9 DEF SweepBegin, SweepNext, TypeOK
  <2>2. \A m \in todo' : Truthful(m)'
    <3>1. \A m \in Listed(p) : Truthful(m)
      BY <1>0, ListedTrue
    <3> QED BY <1>9, <2>1, <3>1
            DEF SweepBegin, SweepNext, rowVars, workVars, Truthful, NoSuccess, Running
  <2> QED BY <1>1, <1>4, <1>9, <2>2 DEF SweepBegin, SweepNext
<1>10. CASE SchedDelete \/ HandlerAborts
  BY <1>1, <1>4, <1>10, RemoveFirstInSeq DEF SchedDelete, HandlerAborts
<1>11. CASE \/ SchedStart \/ RecoverDone \/ SchedHandle \/ SchedCommit \/ SweepOne \/ SweepEnd
            \/ SweepItemAborts \/ SchedCrash
  <2>1. /\ UNCHANGED <<schedQ, schedBuf>> /\ cur' \in {cur, None} /\ todo' \subseteq todo
        /\ spc' = "handle" => spc = "handle" /\ cur' = cur
    BY <1>11 DEF SchedStart, RecoverDone, SchedHandle, SchedCommit, SweepOne, SweepEnd,
                 SweepItemAborts, SchedCrash
  <2> QED BY <1>1, <1>4, <2>1
<1> QED BY <1>5, <1>6, <1>7, <1>8, <1>9, <1>10, <1>11 DEF SchedulerStep

\* A worker's message to the scheduler, truthful when its job is.
LEMMA ReportTrue ==
  ASSUME TypeOK, NEW T, schedQ \in Seq(T), NEW type, NEW e, Msg(type, e) \in T, Report(type, e)
  PROVE  schedQ' \in Seq(T)
BY AppendProperties DEF Report

\* A worker's step that leaves the scheduler alone and sends it the truth.
LEMMA WorkerTrue ==
  ASSUME TypeOK, TruthsKept, ReportsTrue, QueuesTrue, JobsTrue,
         UNCHANGED <<schedBuf, schedVars>>, schedQ' \in Seq(TrueMsg')
  PROVE  QueuesTrue' /\ JobsTrue'
<1>1. JobsTrue'
  BY DEF JobsTrue, TruthsKept, ReportsTrue
<1>2. /\ schedBuf \in Seq(TrueMsg') /\ cur \in TrueMsg' \cup {None}
      /\ spc = "handle" => cur \in TrueMsg'
      /\ \A m \in todo : Truthful(m)'
  BY TruthKept, SeqMonotonic DEF QueuesTrue, TypeOK
<1> QED BY <1>1, <1>2 DEF QueuesTrue, schedVars

\* The receivers.
LEMMA ReceiverTrue ==
  ASSUME TypeOK, TruthsKept, ReportsTrue, QueuesTrue, JobsTrue, NEW w \in Worker, ReceiverStep(w)
  PROVE  QueuesTrue' /\ JobsTrue'
<1> DEFINE T == TrueMsg'
<1>1. schedQ \in Seq(T)
  BY TruthKept, SeqMonotonic DEF QueuesTrue
<1>2. \A e \in Exec : /\ Msg("ENGINE_FAILED", e) \in T
                      /\ exec'[e].terminal = "FAILED" => Msg("EXECUTE_FAILED", e) \in T
  BY DEF Msg, SchedMsg, ReportTypes, TrueMsg, Truthful, NoSuccess
<1>3. UNCHANGED <<schedBuf, schedVars>>
  BY DEF ReceiverStep, ReceiverDequeue, ReceiverClaim, ReceiverDrop, WorkerStart, WorkerInit,
         WorkerInitFails, WorkerOnly
<1> HIDE DEF T
<1>4. schedQ' \in Seq(T)
  <2>1. CASE ReceiverDrop(w)
    <3>1. claim[w] \in Exec /\ Report("ENGINE_FAILED", claim[w])
      BY <2>1 DEF ReceiverDrop, TypeOK
    <3> QED BY <1>1, <1>2, <3>1, ReportTrue
  <2>2. CASE WorkerInit(w)
    <3>1. \A S \in SUBSET Exec : SetToSeqs(S) \subseteq Seq(S)
      BY ExecFinite, FS_Subset, SetToSeqsInSeq
    <3>2. PICK again \in SetToSeqs(popped[w] \cap Owned(w)), owned \in SetToSeqs(Owned(w)) :
            LET failed == again \o owned
            IN schedQ' = schedQ \o [i \in DOMAIN failed |-> Msg("EXECUTE_FAILED", failed[i])]
      BY <2>2 DEF WorkerInit
    <3>3. again \in Seq(Owned(w)) /\ owned \in Seq(Owned(w))
      BY <3>1, <3>2, SeqMonotonic DEF Owned
    <3> DEFINE failed == again \o owned
               reports == [i \in DOMAIN failed |-> Msg("EXECUTE_FAILED", failed[i])]
    <3>4. failed \in Seq(Owned(w))
      BY <3>3, ConcatProperties
    <3>5. \A e \in Owned(w) : e \in Exec /\ exec'[e].terminal = "FAILED"
      <4>1. \A e \in Owned(w) : /\ e \in Exec /\ exec[e] \in ExecRow
                                /\ exec'[e] = Mark(exec[e], "FAILED")
        BY <2>2 DEF WorkerInit, Owned, TypeOK
      <4>2. \A r \in ExecRow : Mark(r, "FAILED").terminal = "FAILED"
        BY DEF Mark, ExecRow
      <4> QED BY <4>1, <4>2
    <3>6. reports \in Seq(T)
      <4> HIDE DEF failed
      <4>1. DOMAIN failed = 1..Len(failed) /\ Len(failed) \in Nat
        BY <3>4, LenProperties
      <4>2. \A i \in 1..Len(failed) : Msg("EXECUTE_FAILED", failed[i]) \in T
        BY <1>2, <3>4, <3>5, ElementOfSeq
      <4> QED BY <4>1, <4>2, IsASeq
    <3>7. schedQ' = schedQ \o reports
      BY <3>2
    <3> HIDE DEF reports
    <3> QED BY <1>1, <3>6, <3>7, ConcatProperties
  <2>3. CASE ReceiverDequeue(w) \/ ReceiverClaim(w) \/ WorkerStart(w) \/ WorkerInitFails(w)
    BY <1>1, <2>3 DEF ReceiverDequeue, ReceiverClaim, WorkerStart, WorkerInitFails
  <2> QED BY <2>1, <2>2, <2>3 DEF ReceiverStep
<1> QED BY <1>3, <1>4, WorkerTrue DEF T

\* The executors.
LEMMA ExecutorTrue ==
  ASSUME TypeOK, TruthsKept, ReportsTrue, QueuesTrue, JobsTrue, NEW w \in Worker, NEW e \in Exec,
         ExecutorStep(w, e)
  PROVE  QueuesTrue' /\ JobsTrue'
<1>1. schedQ \in Seq(TrueMsg')
  BY TruthKept, SeqMonotonic DEF QueuesTrue
<1>2. UNCHANGED <<schedBuf, schedVars>>
  BY DEF ExecutorStep, ExecutorPre, ExecutorSucceeds, ExecutorFails, ExecutorMissesProcessor,
         OnTaskComplete, Update, WorkerOnly
<1>3. CASE OnTaskComplete(w, e)
  <2>1. job[w][e] \in ReportTypes /\ Report(job[w][e], e)
    BY <1>3 DEF OnTaskComplete
  <2>2. Msg(job[w][e], e) \in TrueMsg'
    BY <2>1 DEF Msg, SchedMsg, TrueMsg, Truthful, JobsTrue, TruthsKept
  <2> QED BY <1>1, <1>2, <2>1, <2>2, ReportTrue, WorkerTrue
<1>4. CASE UNCHANGED schedQ
  BY <1>1, <1>2, <1>4, WorkerTrue
<1> QED BY <1>3, <1>4 DEF ExecutorStep, ExecutorPre, ExecutorSucceeds, ExecutorFails,
                          ExecutorMissesProcessor, Update

\* The workers' faults.
LEMMA WorkerFaultTrue ==
  ASSUME TypeOK, TruthsKept, ReportsTrue, QueuesTrue, JobsTrue, NEW w \in Worker, WorkerFault(w)
  PROVE  QueuesTrue' /\ JobsTrue'
<1>1. schedQ \in Seq(TrueMsg')
  BY TruthKept, SeqMonotonic DEF QueuesTrue
<1>2. UNCHANGED <<schedBuf, schedVars, schedQ>>
  BY DEF WorkerFault, WorkerCrash, WorkerReads, SubmitFails, ExecutorAborts, WorkerOnly
<1> QED BY <1>1, <1>2, WorkerTrue

\* Clients send no reports.
LEMMA EnvironmentTrue ==
  ASSUME TypeOK, TruthsKept, ReportsTrue, QueuesTrue, JobsTrue, ClientStep \/ ClockStep
  PROVE  QueuesTrue' /\ JobsTrue'
<1>1. schedQ \in Seq(TrueMsg')
  BY TruthKept, SeqMonotonic DEF QueuesTrue
<1>2. UNCHANGED <<schedBuf, schedVars>>
  BY DEF ClientStep, ClockStep, DefineTask, SubmitTask, CancelTask, Poke, DeadlinePasses,
         BecomesDue, workVars
<1>3. ASSUME NEW t \in Task, NEW type \in TaskMsgTypes, Poke(Msg(type, t))
      PROVE  schedQ' \in Seq(TrueMsg')
  <2>1. Msg(type, t) \in TrueMsg'
    BY DEF Msg, SchedMsg, TaskMsgTypes, TrueMsg, Truthful
  <2> QED BY <1>1, <1>3, <2>1, AppendProperties DEF Poke
<1>4. schedQ' \in Seq(TrueMsg')
  BY <1>1, <1>3 DEF ClientStep, ClockStep, DefineTask, SubmitTask, CancelTask, TaskMsgTypes,
                    DeadlinePasses, BecomesDue
<1> QED BY <1>2, <1>4, WorkerTrue

\* Every step of the engine.
LEMMA NextTrue ==
  ASSUME "staleRead" \notin FaultKinds, WorkInv, QueuesTrue, JobsTrue, [Next]_vars
  PROVE  QueuesTrue' /\ JobsTrue'
<1>0. TypeInv /\ TypeOK /\ Verdicts /\ TruthsKept /\ ReportsTrue
  BY NextKeepsTruths, NextReportsTrue DEF WorkInv, OutcomeInv, SafetyInv, TypeInv, BudgetInv
<1>1. CASE UNCHANGED vars
  <2>1. schedQ \in Seq(TrueMsg')
    BY <1>0, TruthKept, SeqMonotonic DEF QueuesTrue
  <2> QED BY <1>0, <1>1, <2>1, WorkerTrue DEF vars
<1> QED BY <1>0, <1>1, SchedulerTrue, ReceiverTrue, ExecutorTrue, WorkerFaultTrue,
           EnvironmentTrue DEF Next

TruthInv == WorkInv /\ QueuesTrue /\ JobsTrue

\* The queues start empty.
LEMMA TruthInit == Init => TruthInv
<1> SUFFICES ASSUME Init PROVE TruthInv
  OBVIOUS
<1>1. WorkInv
  BY WorkInit
<1>2. QueuesTrue /\ JobsTrue
  BY EmptySeq DEF Init, QueuesTrue, JobsTrue
<1> QED BY <1>1, <1>2 DEF TruthInv

\* What is said of executions is true in every run without interrupted transactions.
LEMMA TruthHolds ==
  ASSUME "staleRead" \notin FaultKinds
  PROVE  Spec => []TruthInv
<1>1. TruthInv /\ [Next]_vars => TruthInv'
  BY WorkNext, NextTrue DEF TruthInv
<1> QED BY <1>1, TruthInit, PTL DEF Spec

\* A task that is COMPLETE has its success on record, and one that completes comes by it.
LEMMA HandleHasSuccess ==
  ASSUME TypeOK, RowsInv, BudgetInv, pend = None, CompleteHasSuccess,
         NEW m \in SchedMsg \cup SweepItem, m.type # "TASK_MAINTENANCE", Truthful(m), Handle(m)
  PROVE  CompleteHasSuccess'
<1>0. SettledKept /\ \A e \in Exec : TaskOf(e) \in Task
  BY HandleMoves, MovesKeepSettled, TaskOfType DEF BudgetInv
<1>1. ASSUME \A t \in Task : taskState'[t] = "COMPLETE" => taskState[t] = "COMPLETE"
      PROVE  CompleteHasSuccess'
  BY <1>0, <1>1 DEF CompleteHasSuccess, SettledKept
<1>2. CASE UNCHANGED taskState
  BY <1>1, <1>2
<1>3. ASSUME NEW t \in Task, NEW s, s # "COMPLETE", taskState' = [taskState EXCEPT ![t] = s]
      PROVE  CompleteHasSuccess'
  BY <1>1, <1>3 DEF TypeOK
<1>4. ASSUME NEW t \in Task,
             ProcessNewPendingTask(t) \/ ProcessCancelTask(t) \/ ProcessTaskTimeout(t)
      PROVE  CompleteHasSuccess'
  BY <1>2, <1>3, <1>4
     DEF ProcessNewPendingTask, ProcessCancelTask, ProcessTaskTimeout, NoEffect, rowVars
<1>5. ASSUME NEW e \in Exec,
             \/ ProcessTaskExecutionFailed(e) \/ ProcessTaskExecutionEngineFailed(e)
             \/ ProcessTaskExecutionStarting(e) \/ ProcessTaskExecutionTimedOut(e)
      PROVE  CompleteHasSuccess'
  BY <1>0, <1>2, <1>3, <1>5
     DEF ProcessTaskExecutionFailed, ProcessTaskExecutionEngineFailed,
         ProcessTaskExecutionStarting, ProcessTaskExecutionTimedOut, NoEffect, rowVars
<1>6. ASSUME NEW e \in Exec, e = m.id, m.type = "EXECUTE_SUCCEEDED",
             ProcessTaskExecutionComplete(e)
      PROVE  CompleteHasSuccess'
  <2>1. CASE ~ NoEffect
    <3>1. /\ exec' = [exec EXCEPT ![e] = Mark(@, "FINALIZED")]
          /\ taskState' = [taskState EXCEPT ![TaskOf(e)] = "COMPLETE"]
      BY <1>6, <2>1 DEF ProcessTaskExecutionComplete
    <3>2. exec'[e].state = "FINALIZED" /\ exec'[e].terminal = "PROCESSED"
      BY <1>6, <3>1 DEF Truthful, Mark, TypeOK, ExecRow
    <3> QED BY <1>0, <3>1, <3>2 DEF CompleteHasSuccess, SettledKept, TypeOK
  <2> QED BY <1>2, <1>6, <2>1 DEF NoEffect, rowVars
<1> QED BY <1>4, <1>5, <1>6, HandleCases

\* Every step of the engine keeps the successes of the complete tasks on record.
LEMMA NextHasSuccess ==
  ASSUME "staleRead" \notin FaultKinds, OutcomeInv, QueuesTrue, CompleteHasSuccess, [Next]_vars
  PROVE  CompleteHasSuccess'
<1>0. TypeInv /\ TypeOK /\ RowsInv /\ BudgetInv /\ SettledKept
  BY NextMoves, MovesKeepSettled DEF OutcomeInv, SafetyInv, TypeInv, BudgetInv
<1>1. ASSUME \A t \in Task : taskState'[t] = "COMPLETE" => taskState[t] = "COMPLETE"
      PROVE  CompleteHasSuccess'
  BY <1>0, <1>1 DEF CompleteHasSuccess, SettledKept
<1>2. CASE UNCHANGED taskState
  BY <1>1, <1>2
<1>3. CASE SchedHandle
  <2>1. /\ pend = None /\ cur \in SchedMsg /\ cur.type # "TASK_MAINTENANCE" /\ Handle(cur)
        /\ cur \in TrueMsg
    BY <1>0, <1>3 DEF SchedHandle, TypeInv, Holding, QueuesTrue
  <2> QED BY <1>0, <2>1, HandleHasSuccess DEF TrueMsg
<1>4. CASE SweepOne
  <2>1. PICK m \in todo : Handle(m)
    BY <1>4 DEF SweepOne
  <2>2. pend = None /\ m \in SweepItem /\ m.type # "TASK_MAINTENANCE" /\ Truthful(m)
    BY <1>0, <1>4 DEF SweepOne, TypeOK, SweepItem, TaskMsgTypes, QueuesTrue
  <2> QED BY <1>0, <2>1, <2>2, HandleHasSuccess
<1>5. CASE SchedCommit
  BY <1>0, <1>1, <1>5 DEF SchedCommit, CommitRows, TypeOK
<1>6. ASSUME NEW t \in Task, DefineTask(t) PROVE CompleteHasSuccess'
  BY <1>0, <1>1, <1>6 DEF DefineTask, TypeOK
<1>7. CASE SchedulerStep \/ MaintenanceTick \/ HandlerAborts \/ SweepItemAborts \/ SchedCrash
  BY <1>2, <1>3, <1>4, <1>5, <1>7
     DEF SchedulerStep, SchedStart, RecoverPop, RecoverPush, RecoverDone, MaintenanceTick,
         SchedDequeue, SweepBegin, SweepNext, SweepEnd, SchedDelete, HandlerAborts,
         SweepItemAborts, SchedCrash, rowVars
<1>8. ASSUME NEW w \in Worker, ReceiverStep(w) \/ WorkerFault(w) PROVE UNCHANGED taskState
  BY <1>8 DEF ReceiverStep, ReceiverDequeue, ReceiverClaim, ReceiverDrop, WorkerStart,
              WorkerInit, WorkerInitFails, WorkerFault, WorkerCrash, WorkerReads, SubmitFails,
              ExecutorAborts, WorkerOnly
<1>9. ASSUME NEW w \in Worker, NEW e \in Exec, ExecutorStep(w, e) PROVE UNCHANGED taskState
  BY <1>9 DEF ExecutorStep, ExecutorPre, ExecutorSucceeds, ExecutorFails,
              ExecutorMissesProcessor, OnTaskComplete, Update, WorkerOnly
<1>10. CASE ClientStep \/ ClockStep
  BY <1>2, <1>6, <1>10 DEF ClientStep, ClockStep, SubmitTask, CancelTask, Poke,
                           DeadlinePasses, BecomesDue, rowVars
<1>11. CASE UNCHANGED vars
  BY <1>2, <1>11 DEF vars, rowVars
<1> QED BY <1>2, <1>7, <1>8, <1>9, <1>10, <1>11 DEF Next

\* A task is COMPLETE only over an execution that was processed: whatever the queues
\* duplicate, delay or reorder, no report completes a task that did not succeed.
THEOREM CompleteHasSuccessHolds ==
  ASSUME "staleRead" \notin FaultKinds
  PROVE  Spec => []CompleteHasSuccess
<1>1. Init => CompleteHasSuccess
  BY DEF Init, CompleteHasSuccess
<1>2. TruthInv /\ CompleteHasSuccess /\ [Next]_vars => CompleteHasSuccess'
  BY NextHasSuccess DEF TruthInv, WorkInv
<1> QED BY <1>1, <1>2, TruthHolds, PTL DEF Spec

-----------------------------------------------------------------------------
Own(w, e) == exec[e].worker = w /\ exec[e].state \in {"ACQUIRED", "PROCESSING"}

AtWork(w, e) ==
  \/ job[w][e] = "pre" /\ exec[e].state = "ACQUIRED"
  \/ job[w][e] = "run" /\ exec[e].state = "PROCESSING"

\* The worker's row and its executor agree on how far they are.
OwnInv ==
  \A w \in Worker : wpc[w] = "up" => \A e \in Exec : Own(w, e) => AtWork(w, e)

\* The scheduler never writes a row that a worker then owns.
LEMMA HandleOwns ==
  ASSUME TypeOK, RowsInv, pend = None,
         NEW m \in SchedMsg \cup SweepItem, m.type # "TASK_MAINTENANCE", Handle(m),
         NEW d \in Exec, exec'[d].state \in {"ACQUIRED", "PROCESSING"}
  PROVE  exec'[d] = exec[d]
<1>1. \A r \in ExecRow, s \in {"ENQUEUED", "FINALIZED", "CANCELLED"} :
        Mark(r, s).state \notin {"ACQUIRED", "PROCESSING"}
  BY DEF Mark, ExecRow
<1>2. NewRow("SCHEDULED").state = "SCHEDULED"
  BY DEF NewRow, NoRow
<1>3. CASE UNCHANGED exec
  BY <1>3
<1>4. ASSUME NEW t \in Task, NEW rows \in [Exec -> ExecRow], exec' = CancelOngoing(rows, t)
      PROVE  exec'[d] = rows[d]
  BY <1>1, <1>4 DEF CancelOngoing
<1>5. ASSUME NEW t \in Task, ProcessCancelTask(t) \/ ProcessTaskTimeout(t)
      PROVE  exec'[d] = exec[d]
  BY <1>3, <1>4, <1>5 DEF ProcessCancelTask, ProcessTaskTimeout, NoEffect, rowVars, TypeOK
<1>6. ASSUME NEW t \in Task, ProcessNewPendingTask(t)
      PROVE  exec'[d] = exec[d]
  BY <1>2, <1>3, <1>6 DEF ProcessNewPendingTask, NoEffect, rowVars, TypeOK
<1>7. ASSUME NEW e \in Exec,
             \/ ProcessTaskExecutionComplete(e) \/ ProcessTaskExecutionEngineFailed(e)
             \/ ProcessTaskExecutionStarting(e)
      PROVE  exec'[d] = exec[d]
  BY <1>1, <1>3, <1>7
     DEF ProcessTaskExecutionComplete, ProcessTaskExecutionEngineFailed,
         ProcessTaskExecutionStarting, NoEffect, rowVars, TypeOK
<1>8. ASSUME NEW e \in Exec, ProcessTaskExecutionFailed(e)
      PROVE  exec'[d] = exec[d]
  <2> DEFINE finalized == [exec EXCEPT ![e] = Mark(@, "FINALIZED")]
  <2>1. /\ finalized \in [Exec -> ExecRow]
        /\ finalized[d].state \in {"ACQUIRED", "PROCESSING"} => finalized[d] = exec[d]
    BY <1>1, MarkType DEF TypeOK, ExecState
  <2>2. \/ UNCHANGED exec \/ exec' = finalized
        \/ exec' = [finalized EXCEPT ![NewExec(TaskOf(e))] = NewRow("SCHEDULED")]
    BY <1>8 DEF ProcessTaskExecutionFailed, NoEffect, rowVars
  <2> HIDE DEF finalized
  <2> QED BY <1>2, <2>1, <2>2
<1>9. ASSUME NEW e \in Exec, ProcessTaskExecutionTimedOut(e)
      PROVE  exec'[d] = exec[d]
  <2> DEFINE settled == [exec EXCEPT ![e] = Mark(Mark(@, "FAILED"), "FINALIZED")]
  <2>1. Mark(exec[e], "FAILED") \in ExecRow
    BY MarkType DEF TypeOK, ExecState
  <2>2. /\ settled \in [Exec -> ExecRow]
        /\ settled[d].state \in {"ACQUIRED", "PROCESSING"} => settled[d] = exec[d]
    BY <1>1, <2>1, MarkType DEF TypeOK, ExecState
  <2>3. UNCHANGED exec \/ exec' = CancelOngoing(settled, TaskOf(e))
    BY <1>9 DEF ProcessTaskExecutionTimedOut, NoEffect, rowVars
  <2> HIDE DEF settled
  <2> QED BY <1>4, <2>2, <2>3, TaskOfType
<1> QED BY <1>5, <1>6, <1>7, <1>8, <1>9, HandleCases

\* A step of the scheduler takes rows from workers and gives them none.
LEMMA SchedulerOwns ==
  ASSUME TypeInv, RowsInv, OwnInv,
         SchedulerStep \/ MaintenanceTick \/ HandlerAborts \/ SweepItemAborts \/ SchedCrash
  PROVE  OwnInv'
<1>0. TypeOK /\ UNCHANGED <<job, wpc>>
  BY DEF TypeInv, SchedulerStep, SchedStart, RecoverPop, RecoverPush, RecoverDone,
         MaintenanceTick, SchedDequeue, SchedHandle, SchedCommit, SweepBegin, SweepOne,
         SweepNext, SweepEnd, SchedDelete, HandlerAborts, SweepItemAborts, SchedCrash,
         SchedulerOnly, workVars
<1>1. ASSUME \A d \in Exec : exec'[d].state \in {"ACQUIRED", "PROCESSING"} => exec'[d] = exec[d]
      PROVE  OwnInv'
  BY <1>0, <1>1 DEF OwnInv, Own, AtWork
<1>2. CASE SchedHandle
  <2>1. pend = None /\ cur \in SchedMsg /\ cur.type # "TASK_MAINTENANCE" /\ Handle(cur)
    BY <1>2 DEF SchedHandle, TypeInv, Holding
  <2> QED BY <1>0, <1>1, <2>1, HandleOwns
<1>3. CASE SweepOne
  <2>1. PICK m \in todo : Handle(m)
    BY <1>3 DEF SweepOne
  <2>2. pend = None /\ m \in SweepItem /\ m.type # "TASK_MAINTENANCE"
    BY <1>0, <1>3 DEF SweepOne, TypeOK, SweepItem, TaskMsgTypes
  <2> QED BY <1>0, <1>1, <2>1, <2>2, HandleOwns
<1>4. CASE SchedCommit
  <2>1. pend \in Exec /\ CommitRows
    BY <1>0, <1>4 DEF SchedCommit, TypeOK
  <2>2. Mark(exec[pend], "ENQUEUED").state = "ENQUEUED" /\ NewRow("ENQUEUED").state = "ENQUEUED"
    BY <1>0, <2>1 DEF TypeOK, Mark, NewRow, NoRow, ExecRow
  <2> QED BY <1>0, <1>1, <2>1, <2>2 DEF CommitRows, TypeOK
<1>5. CASE UNCHANGED exec
  BY <1>1, <1>5
<1> QED BY <1>2, <1>3, <1>4, <1>5
        DEF SchedulerStep, SchedStart, RecoverPop, RecoverPush, RecoverDone, MaintenanceTick,
            SchedDequeue, SweepBegin, SweepNext, SweepEnd, SchedDelete, HandlerAborts,
            SweepItemAborts, SchedCrash, rowVars

\* A step of worker w on its job with e: nothing of the other workers changes.
LEMMA OneJobOwns ==
  ASSUME TypeOK, OwnInv, NEW w \in Worker, NEW e \in Exec, NEW s, SetJob(w, e, s),
         UNCHANGED wpc, \A d \in Exec \ {e} : exec'[d] = exec[d],
         \A v \in Worker \ {w} : Own(v, e)' => exec'[e] = exec[e],
         wpc[w] = "up" /\ Own(w, e)' => AtWork(w, e)'
  PROVE  OwnInv'
<1>1. \A v \in Worker, d \in Exec :
        job'[v][d] = IF v = w /\ d = e THEN s ELSE job[v][d]
  BY SetJobOnly
<1> QED BY <1>1 DEF OwnInv, Own, AtWork

\* A step that changes no row and no job, and brings no worker up.
LEMMA StillOwns ==
  ASSUME OwnInv, UNCHANGED <<exec, job>>, \A v \in Worker : wpc'[v] = "up" => wpc[v] = "up"
  PROVE  OwnInv'
BY DEF OwnInv, Own, AtWork

\* The receivers.
LEMMA ReceiverOwns ==
  ASSUME TypeOK, NothingRead, OwnInv, NEW w \in Worker, ReceiverStep(w)
  PROVE  OwnInv'
<1>1. CASE ReceiverClaim(w)
  <2>1. PICK e \in Exec : e = claim[w]
    BY <1>1 DEF ReceiverClaim, TypeOK
  <2>2. /\ SetJob(w, e, "pre") /\ UNCHANGED wpc
        /\ exec' = [exec EXCEPT ![e] = [Mark(@, "ACQUIRED") EXCEPT !.worker = w]]
    BY <1>1, <2>1 DEF ReceiverClaim
  <2>3. /\ exec'[e].worker = w /\ exec'[e].state = "ACQUIRED"
        /\ \A d \in Exec \ {e} : exec'[d] = exec[d]
    BY <2>2 DEF Mark, TypeOK, ExecRow
  <2>4. job'[w][e] = "pre"
    BY <2>2, SetJobOnly
  <2> QED BY <2>2, <2>3, <2>4, OneJobOwns DEF Own, AtWork
<1>2. CASE WorkerInit(w)
  <2>1. /\ exec' = [e \in Exec |-> IF e \in Owned(w) THEN Mark(exec[e], "FAILED") ELSE exec[e]]
        /\ UNCHANGED job /\ \A v \in Worker \ {w} : wpc'[v] = wpc[v]
    BY <1>2 DEF WorkerInit, TypeOK
  <2>2. ASSUME NEW d \in Exec
        PROVE  \/ exec'[d] = exec[d] /\ ~ Own(w, d)
               \/ exec'[d].state = "FAILED"
    <3>1. exec[d] \in ExecRow /\ (Own(w, d) <=> d \in Owned(w))
      BY DEF TypeOK, Owned, Own
    <3>2. Mark(exec[d], "FAILED").state = "FAILED"
      BY <3>1 DEF Mark, ExecRow
    <3> QED BY <2>1, <3>1, <3>2
  <2> QED BY <2>1, <2>2 DEF OwnInv, Own, AtWork
<1>3. CASE ReceiverDequeue(w) \/ ReceiverDrop(w) \/ WorkerStart(w) \/ WorkerInitFails(w)
  BY <1>3, StillOwns
     DEF ReceiverDequeue, ReceiverDrop, WorkerStart, WorkerInitFails, TypeOK
<1> QED BY <1>1, <1>2, <1>3 DEF ReceiverStep

\* An executor's transaction on a row: it goes with its job.
LEMMA UpdateOwns ==
  ASSUME TypeOK, NothingRead, OwnInv, Claimed, NEW w \in Worker, NEW e \in Exec,
         job[w][e] \in {"pre", "run"}, NEW to, NEW row, row.state = to,
         row.worker = exec[e].worker, NEW next, Update(w, e, to, row, next),
         AtWork(w, e) => ValidExec(exec[e].state, to),
         \/ to \notin {"ACQUIRED", "PROCESSING"}
         \/ to = "PROCESSING" /\ next = "run"
  PROVE  OwnInv'
<1>1. StateRead(w, e) = exec[e].state /\ exec[e].worker = w
  BY DEF StateRead, NothingRead, Claimed
<1>2. UNCHANGED wpc
  BY DEF Update
<1>3. CASE ValidExec(exec[e].state, to)
  <2>1. exec' = [exec EXCEPT ![e] = row] /\ SetJob(w, e, next)
    BY <1>1, <1>3 DEF Update
  <2>2. exec'[e] = row /\ \A d \in Exec \ {e} : exec'[d] = exec[d]
    BY <2>1 DEF TypeOK
  <2>3. job'[w][e] = next
    BY <2>1, SetJobOnly
  <2>4. \A v \in Worker \ {w} : ~ Own(v, e)'
    BY <1>1, <2>2 DEF Own
  <2>5. wpc[w] = "up" /\ Own(w, e)' => AtWork(w, e)'
    BY <2>2, <2>3 DEF Own, AtWork
  <2> QED BY <1>2, <2>1, <2>2, <2>4, <2>5, OneJobOwns
<1>4. CASE ~ ValidExec(exec[e].state, to)
  <2>1. UNCHANGED exec /\ SetJob(w, e, "EXECUTE_FAILED")
    BY <1>1, <1>4 DEF Update
  <2>2. wpc[w] = "up" => ~ Own(w, e)
    BY <1>4 DEF OwnInv
  <2> QED BY <1>2, <2>1, <2>2, OneJobOwns DEF Own
<1> QED BY <1>3, <1>4

\* The executors.
LEMMA ExecutorOwns ==
  ASSUME TypeOK, NothingRead, OwnInv, Claimed, NEW w \in Worker, NEW e \in Exec,
         ExecutorStep(w, e)
  PROVE  OwnInv'
<1>a. \A s \in ExecState : Mark(exec[e], s).state = s /\ Mark(exec[e], s).worker = exec[e].worker
  BY DEF Mark, TypeOK, ExecRow
<1>b. /\ "PROCESSING" \in ExecState /\ "PROCESSED" \in ExecState /\ "FAILED" \in ExecState
      /\ ValidExec("ACQUIRED", "PROCESSING")
      /\ ValidExec("PROCESSING", "PROCESSED") /\ ValidExec("PROCESSING", "FAILED")
  BY DEF ValidExec, ExecNext, ExecState
<1>1. CASE ExecutorPre(w, e)
  BY <1>a, <1>b, <1>1, UpdateOwns DEF ExecutorPre, AtWork
<1>2. CASE ExecutorSucceeds(w, e)
  BY <1>a, <1>b, <1>2, UpdateOwns DEF ExecutorSucceeds, AtWork
<1>3. CASE ExecutorFails(w, e)
  <2>1. PICK o \in Outcomes \ {"ok"} :
          Update(w, e, "FAILED",
                 [Mark(exec[e], "FAILED") EXCEPT !.nonRetryable = (o = "fatal")],
                 "EXECUTE_FAILED")
    BY <1>3 DEF ExecutorFails
  <2> DEFINE row == [Mark(exec[e], "FAILED") EXCEPT !.nonRetryable = (o = "fatal")]
  <2>2. row.state = "FAILED" /\ row.worker = exec[e].worker
    BY DEF Mark, TypeOK, ExecRow
  <2>3. Update(w, e, "FAILED", row, "EXECUTE_FAILED")
    BY <2>1
  <2> HIDE DEF row
  <2> QED BY <1>b, <1>3, <2>2, <2>3, UpdateOwns DEF ExecutorFails, AtWork
<1>4. CASE ExecutorMissesProcessor(w, e)
  BY <1>a, <1>b, <1>4, UpdateOwns DEF ExecutorMissesProcessor, AtWork
<1>5. CASE OnTaskComplete(w, e)
  <2>1. SetJob(w, e, "none") /\ UNCHANGED <<exec, wpc>> /\ job[w][e] \in ReportTypes
    BY <1>5 DEF OnTaskComplete
  <2>2. wpc[w] = "up" => ~ Own(w, e)
    BY <2>1 DEF OwnInv, AtWork, ReportTypes
  <2> QED BY <2>1, <2>2, OneJobOwns DEF Own
<1> QED BY <1>1, <1>2, <1>3, <1>4, <1>5 DEF ExecutorStep

\* The workers' faults, but for a transaction of the executor that fails.
LEMMA WorkerFaultOwns ==
  ASSUME "staleRead" \notin FaultKinds, "execAbort" \notin FaultKinds,
         TypeOK, NothingRead, OwnInv, Claimed, NEW w \in Worker, WorkerFault(w)
  PROVE  OwnInv'
<1>1. CASE WorkerCrash(w)
  <2>1. /\ UNCHANGED exec /\ wpc'[w] = "down"
        /\ \A v \in Worker \ {w} : wpc'[v] = wpc[v] /\ job'[v] = job[v]
    BY <1>1 DEF WorkerCrash, TypeOK
  <2> QED BY <2>1 DEF OwnInv, Own, AtWork
<1>2. ASSUME NEW e \in Exec, WorkerReads(w, e) \/ ExecutorAborts(w, e) PROVE FALSE
  BY <1>2 DEF WorkerReads, ExecutorAborts, Fault
<1>3. ASSUME NEW e \in Exec, SubmitFails(w, e) PROVE OwnInv'
  <2>1. /\ SetJob(w, e, "ENGINE_FAILED") /\ UNCHANGED wpc
        /\ job[w][e] = "pre" /\ exec[e].worker = w
        /\ exec' = [exec EXCEPT ![e] = IF ValidExec(@.state, "FAILED") THEN Mark(@, "FAILED")
                                       ELSE @]
    BY <1>3 DEF SubmitFails, Claimed
  <2>2. \A d \in Exec \ {e} : exec'[d] = exec[d]
    BY <2>1 DEF TypeOK
  <2>3. CASE ValidExec(exec[e].state, "FAILED")
    <3>1. exec'[e].state = "FAILED"
      BY <2>1, <2>3 DEF Mark, TypeOK, ExecRow
    <3> QED BY <2>1, <2>2, <3>1, OneJobOwns DEF Own
  <2>4. CASE ~ ValidExec(exec[e].state, "FAILED")
    <3>1. exec'[e] = exec[e]
      BY <2>1, <2>4 DEF TypeOK
    <3>2. exec[e].state \notin {"ACQUIRED", "PROCESSING"}
      BY <2>4 DEF ValidExec, ExecNext, ExecState
    <3> QED BY <2>1, <2>2, <3>1, <3>2, OneJobOwns DEF Own
  <2> QED BY <2>3, <2>4
<1> QED BY <1>1, <1>2, <1>3 DEF WorkerFault

\* Every step of the engine, but for a transaction of an executor that fails.
LEMMA NextOwns ==
  ASSUME "staleRead" \notin FaultKinds, "execAbort" \notin FaultKinds,
         SafetyInv, OwnInv, Claimed, [Next]_vars
  PROVE  OwnInv'
<1>0. TypeInv /\ TypeOK /\ NothingRead /\ RowsInv
  BY DEF SafetyInv, TypeInv
<1>1. CASE ClientStep \/ ClockStep \/ UNCHANGED vars
  <2>1. UNCHANGED <<exec, job, wpc>>
    BY <1>1 DEF ClientStep, ClockStep, DefineTask, SubmitTask, CancelTask, Poke,
                DeadlinePasses, BecomesDue, rowVars, workVars, vars
  <2> QED BY <2>1, StillOwns
<1> QED BY <1>0, <1>1, SchedulerOwns, ReceiverOwns, ExecutorOwns, WorkerFaultOwns DEF Next

\* What a running worker owns is with its executor, as long as the executor's own
\* transactions succeed: no crash, restart, cancel or timeout leaves a row with an
\* owner that is not at work on it.
THEOREM OwnedIsRunningHolds ==
  ASSUME "staleRead" \notin FaultKinds, "execAbort" \notin FaultKinds
  PROVE  Spec => []OwnedIsRunning
<1>1. Init => OwnInv
  BY DEF Init, OwnInv
<1>2. SafetyInv /\ OwnInv /\ Claimed /\ [Next]_vars => OwnInv'
  BY NextOwns
<1>3. Spec => []OwnInv
  BY <1>1, <1>2, SafetyHolds, ClaimedHolds, PTL DEF Spec
<1>4. OwnInv => OwnedIsRunning
  BY DEF OwnInv, OwnedIsRunning, Owned, Own, AtWork
<1> QED BY <1>3, <1>4, PTL
=============================================================================
