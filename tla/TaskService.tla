---------------------------- MODULE TaskService ----------------------------
(***************************************************************************)
(* What the engine promises the submitter of one task, with no queues, no  *)
(* processes and no rows: the task is open until it has an outcome; while  *)
(* it is open at most one attempt is on at a time; an outcome never        *)
(* changes, and no attempt starts after it; a failed attempt is followed   *)
(* by another only within the retry budget.                                *)
(*                                                                         *)
(* TaskEngine implements this for each of its tasks.                       *)
(***************************************************************************)
EXTENDS Integers

CONSTANT MaxRetries    \* -1 for no limit

VARIABLES
  outcome,    \* "absent", "open", or how the task ended
  attempt,    \* "none", "live", "succeeded" or "failed": the unsettled attempt
  failures    \* the attempts that failed so far

vars == <<outcome, attempt, failures>>

Init == outcome = "absent" /\ attempt = "none" /\ failures = 0

Accept == outcome = "absent" /\ outcome' = "open" /\ UNCHANGED <<attempt, failures>>

\* The first attempt, or the one that replaces a failed attempt.
Start ==
  /\ outcome = "open"
  /\ \/ attempt = "none" /\ failures = 0
     \/ attempt = "failed" /\ (MaxRetries < 0 \/ failures <= MaxRetries)
  /\ attempt' = "live"
  /\ UNCHANGED <<outcome, failures>>

\* Only a live attempt ends, and its task is open: one that was stopped with
\* its task has no end of its own.
Succeed ==
  /\ outcome = "open" /\ attempt = "live"
  /\ attempt' = "succeeded"
  /\ UNCHANGED <<outcome, failures>>

Fail ==
  /\ outcome = "open" /\ attempt = "live"
  /\ attempt' = "failed" /\ failures' = failures + 1
  /\ UNCHANGED outcome

Complete ==
  /\ outcome = "open" /\ attempt = "succeeded"
  /\ outcome' = "COMPLETE" /\ attempt' = "none"
  /\ UNCHANGED failures

\* The engine may give a task up over a failed attempt, and, when a duplicate of
\* the attempt's message is reported as an engine failure, over a succeeded one.
GiveUp ==
  /\ outcome = "open" /\ attempt \in {"failed", "succeeded"}
  /\ outcome' = "FAILED" /\ attempt' = "none"
  /\ UNCHANGED failures

\* A stop ends a live attempt with the task; an attempt that already ended is
\* left to be settled.
Stop ==
  /\ outcome = "open"
  /\ outcome' \in {"CANCELLED", "TIMED_OUT"}
  /\ attempt' = IF attempt = "live" THEN "none" ELSE attempt
  /\ failures' \in IF attempt = "live" THEN {failures, failures + 1} ELSE {failures}

\* The failed attempt of a task that is at rest is settled, and nothing follows.
Settle ==
  /\ outcome \in {"FAILED", "CANCELLED", "TIMED_OUT"} /\ attempt = "failed"
  /\ attempt' = "none"
  /\ UNCHANGED <<outcome, failures>>

Next ==
  Accept \/ Start \/ Succeed \/ Fail \/ Complete \/ GiveUp \/ Stop \/ Settle

Spec == Init /\ [][Next]_vars
=============================================================================
