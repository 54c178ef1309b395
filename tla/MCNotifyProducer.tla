-------------------------- MODULE MCNotifyProducer --------------------------
(***************************************************************************)
(* Instances of NotifyProducer for TLC.                                    *)
(***************************************************************************)
EXTENDS NotifyProducerFeed

CONSTANTS p1, p2

TaskFields == {"task_id", "creator"}

Unknown == [class |-> "unknown", fields |-> TaskFields, about |-> "t1"]

\* Two entries cannot be routed. With batches of two, the second entry is never held
\* up by them; the last one is, if both commit.
MCEntry == <<Unknown,
             [class |-> "task",     fields |-> TaskFields, about |-> "t2"],
             Unknown,
             [class |-> "workflow", fields |-> {"workflow_id", "creator"}, about |-> "wf"]>>
=============================================================================
