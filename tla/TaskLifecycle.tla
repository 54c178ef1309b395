--------------------------- MODULE TaskLifecycle ---------------------------
(***************************************************************************)
(* The two row state machines of the task engine (models/task.go): which   *)
(* states a task row and an execution row may hold, which transitions the  *)
(* database layer accepts, and the two predicates the scheduler's          *)
(* idempotency guards are built from, IsStateAtOrPast and HasEnded.        *)
(* A constant module: the engine modules extend it.                        *)
(***************************************************************************)

TaskState ==
  {"PENDING", "ACTIVE", "COMPLETE", "FAILED", "CANCELLING", "CANCELLED", "TIMED_OUT"}

\* The states nothing leaves: ValidNextState has no entry for them.
TaskResting == {"COMPLETE", "FAILED", "CANCELLED", "TIMED_OUT"}

TaskNext ==
  [s \in TaskState |->
     CASE s = "PENDING"    -> {"PENDING", "ACTIVE", "CANCELLING"}
       [] s = "ACTIVE"     -> {"ACTIVE", "COMPLETE", "FAILED", "CANCELLING", "TIMED_OUT"}
       [] s = "CANCELLING" -> {"CANCELLING", "CANCELLED"}
       [] OTHER            -> {}]

ValidTask(from, to) == to \in TaskNext[from]

ExecState ==
  {"DEFINED", "SCHEDULED", "ENQUEUED", "ACQUIRED", "PROCESSING",
   "PROCESSED", "FAILED", "FINALIZED", "CANCELLED"}

ExecNext ==
  [s \in ExecState |->
     CASE s = "DEFINED"    -> {"SCHEDULED", "ENQUEUED", "CANCELLED"}
       [] s = "SCHEDULED"  -> {"ENQUEUED", "CANCELLED"}
       [] s = "ENQUEUED"   -> {"ACQUIRED", "FAILED", "CANCELLED"}
       [] s = "ACQUIRED"   -> {"PROCESSING", "PROCESSED", "FAILED", "CANCELLED"}
       [] s = "PROCESSING" -> {"PROCESSED", "FAILED", "CANCELLED"}
       [] s = "PROCESSED"  -> {"FINALIZED"}
       [] s = "FAILED"     -> {"FINALIZED"}
       [] OTHER            -> {}]

\* An identifier with no row behind it ("NONE") makes every update fail: the
\* row is fetched before the transition is checked.
ValidExec(from, to) == from \in ExecState /\ to \in ExecNext[from]

\* The states that count as "at or past" a reference: the least set that holds
\* it and is closed under the transition table (the code searches the table
\* breadth first).
AtOrPast ==
  [ref \in ExecState |->
     {s \in ExecState :
        \A C \in SUBSET ExecState :
           (ref \in C /\ \A x \in C : ExecNext[x] \subseteq C) => s \in C}]

IsStateAtOrPast(s, ref) == s \in AtOrPast[ref]

HasEnded(s) ==
  \E ref \in {"PROCESSED", "FAILED", "CANCELLED"} : IsStateAtOrPast(s, ref)

\* Where an execution still may run or is running: what a cancel or a timeout
\* of the task sweeps up, and what the deadline sweep lists.
ExecLive == {"DEFINED", "SCHEDULED", "ENQUEUED", "ACQUIRED", "PROCESSING"}

\* An execution the scheduler still owes a decision: live, or ended and waiting
\* to be finalized.
ExecUnsettled == ExecLive \cup {"PROCESSED", "FAILED"}
=============================================================================
