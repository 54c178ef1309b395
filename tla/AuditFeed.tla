----------------------------- MODULE AuditFeed -----------------------------
(***************************************************************************)
(* What the notification producer promises those who listen, with no       *)
(* polls, batches or channels: an entry of the audit log is announced only *)
(* after it is recorded, maybe more than once, and is closed, for good,    *)
(* only after it was announced.  That it is closed in the end depends on   *)
(* the batches, and is stated of the producer (FeedIsLive).                *)
(***************************************************************************)
CONSTANTS
  Entry,
  Silent        \* the entries no channel is configured for: nothing to announce

VARIABLES recorded, announced, closed

vars == <<recorded, announced, closed>>

Init == recorded = {} /\ announced = {} /\ closed = {}

Record(e) ==
  /\ e \in Entry \ recorded
  /\ recorded' = recorded \cup {e}
  /\ UNCHANGED <<announced, closed>>

Announce(e) ==
  /\ e \in recorded
  /\ announced' = announced \cup {e}
  /\ UNCHANGED <<recorded, closed>>

Close(S) ==
  /\ S \subseteq recorded
  /\ S \subseteq announced \cup Silent
  /\ closed' = closed \cup S
  /\ UNCHANGED <<recorded, announced>>

Next ==
  \/ \E e \in Entry : Record(e) \/ Announce(e)
  \/ \E S \in SUBSET Entry : Close(S)

Spec == Init /\ [][Next]_vars
=============================================================================
