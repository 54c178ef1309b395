---------------------------- MODULE MCTaskEngine ----------------------------
(***************************************************************************)
(* TaskEngine and its refinement of TaskService, for TLC.                  *)
(***************************************************************************)
EXTENDS TaskEngineService, TLC

CONSTANTS t1, t2, w1, w2

\* Workers are interchangeable: no action and no safety property names one.
WorkerSymmetry == Permutations(Worker)
=============================================================================
