---------------------------- MODULE MCMessageQueue ----------------------------
(* Instances of MessageQueue for TLC. *)
EXTENDS MessageQueue

CONSTANTS r1, r2

MCReaderName == [r \in Reader |-> r]
=============================================================================
