-------------------------- MODULE MCWorkflowEngine --------------------------
(***************************************************************************)
(* Instances of WorkflowEngine for TLC.                                    *)
(***************************************************************************)
EXTENDS WorkflowEngine

CONSTANTS s1, s2
=============================================================================
