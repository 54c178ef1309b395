------------------------- MODULE NotifyProducerFeed -------------------------
(***************************************************************************)
(* NotifyProducer implements AuditFeed: an entry is recorded when its      *)
(* transaction commits, announced once each of its channels took it, and   *)
(* closed when it is stamped.                                              *)
(***************************************************************************)
EXTENDS NotifyProducer

SilentEntries == {e \in Event : Routable(e) /\ Channels(e) = {}}

Committed == {e \in Event : row[e] = "committed"}

Feed == INSTANCE AuditFeed WITH
  Entry <- Event,
  Silent <- SilentEntries,
  recorded <- Committed,
  announced <- {e \in Committed : Channels(e) # {} /\ Heard(e)},
  closed <- {e \in Event : stamp[e] # None}

\* Every step of the producers is a step of the feed or none, through faults and
\* overlapping producers.
ProducerImplementsFeed == Feed!Spec

\* A batch of entries that cannot be routed, and so are never stamped, comes before
\* this one whenever the log is listed.
Starved(e) ==
  Cardinality({d \in Committed : d < e /\ ~ Routable(d)}) >= BatchSize

\* What is committed and can be routed is stamped in the end, through faults, late
\* commits and entries that cannot be routed, as long as those do not fill a batch
\* before it (produceNotifications, the entries it skips).
FeedIsLive ==
  \A e \in Event : Routable(e) =>
    (e \in Committed ~> stamp[e] # None \/ Starved(e))
=============================================================================
