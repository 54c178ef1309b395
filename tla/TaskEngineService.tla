------------------------- MODULE TaskEngineService -------------------------
(***************************************************************************)
(* TaskEngine implements TaskService for each task: the mapping from a     *)
(* task's rows to the outcome, attempt and failures its submitter sees.    *)
(***************************************************************************)
EXTENDS TaskEngine

Outcome(t) ==
  CASE taskState[t] = "ABSENT" -> "absent"
    [] taskState[t] \in {"PENDING", "ACTIVE"} -> "open"
    [] OTHER -> taskState[t]

HasExec(t, states) == \E e \in Exec : TaskOf(e) = t /\ exec[e].state \in states

Attempt(t) ==
  CASE HasExec(t, ExecLive) -> "live"
    [] HasExec(t, {"PROCESSED"}) -> "succeeded"
    [] HasExec(t, {"FAILED"}) -> "failed"
    [] OTHER -> "none"

Service(t) == INSTANCE TaskService WITH
  outcome <- Outcome(t), attempt <- Attempt(t), failures <- Cardinality(FailedExecs(t))

ServiceStep(t) == Service(t)!Next \/ UNCHANGED Service(t)!vars

\* What the engine does to a task's rows, step by step and through faults, is
\* what TaskService promises of that task: every engine step is, for each task,
\* a step of its service or none.
EngineImplementsService ==
  /\ \A t \in Task : Service(t)!Init
  /\ [][\A t \in Task : ServiceStep(t)]_vars
=============================================================================
