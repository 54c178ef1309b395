--------------------------- MODULE NotifyProducer ---------------------------
(***************************************************************************)
(* The notification producer: it polls the audit log for entries that are  *)
(* not yet stamped, publishes each on its channels and stamps those that   *)
(* went out.                                                               *)
(*                                                                         *)
(*   transactions --entry--> audit log --batch--> producer --> channels    *)
(*                               ^------- stamp -----'                     *)
(*                                                                         *)
(* An entry takes its id (a ULID) when it is written and becomes visible   *)
(* when its transaction commits, so a lower id may appear after a higher   *)
(* one.  Nothing but the stamp column coordinates producers.               *)
(***************************************************************************)
EXTENDS Integers, FiniteSets

CONSTANTS
  Event,          \* audit ids, in their order
  Entry,          \* what an entry holds: its class, metadata fields and subject
  EmitFirehose, EmitTypeChan, EmitCreator,
  Producer,
  BatchSize,
  MaxFaults,      \* bound
  None

ASSUME EventAssumption == Event \subseteq Nat /\ IsFiniteSet(Event)
ASSUME BatchAssumption == BatchSize \in Nat \ {0}
ASSUME FaultsAssumption == MaxFaults \in Nat
ASSUME ProducerAssumption == IsFiniteSet(Producer) /\ None \notin Producer

VARIABLES
  row,      \* entry -> "none", "open" (uncommitted), "committed", "aborted"
  stamp,    \* entry -> the producer whose broadcast_at it carries, or None
  pc,       \* producer -> "down", "idle", "publish", "stamp"
  batch,    \* producer -> what is left of the batch it listed
  clean,    \* producer -> publishedIDs
  copies,   \* entry, channel -> how often it was published there
  faults    \* faults so far

vars == <<row, stamp, pc, batch, clean, copies, faults>>

-----------------------------------------------------------------------------
\* Routing

\* Metadata each class of event must carry to be parsed.
Required == [task     |-> {"task_id", "creator"},
             engine   |-> {"task_id", "instance_id", "creator"},
             invalid  |-> {"receiver"},
             workflow |-> {"workflow_id", "creator"},
             step     |-> {"step_id", "workflow_id", "creator"}]

Routable(e) ==
  /\ Entry[e].class \in DOMAIN Required
  /\ Required[Entry[e].class] \subseteq Entry[e].fields

HasCreator(e) == Entry[e].class # "invalid"
HasSubject(e) == Entry[e].class # "invalid"

Channels(e) ==
  {c \in {<<"all">>, <<"type", Entry[e].class>>, <<"creator">>,
          <<"creator", Entry[e].class>>, <<"subject", Entry[e].about>>} :
     CASE c[1] = "all"     -> EmitFirehose
       [] c[1] = "type"    -> EmitTypeChan
       [] c[1] = "creator" -> EmitCreator /\ HasCreator(e)
       [] c[1] = "subject" -> HasSubject(e)}

-----------------------------------------------------------------------------
Init ==
  /\ row = [e \in Event |-> "none"]
  /\ stamp = [e \in Event |-> None]
  /\ pc = [p \in Producer |-> "down"]
  /\ batch = [p \in Producer |-> {}]
  /\ clean = [p \in Producer |-> {}]
  /\ copies = [e \in Event |-> [c \in Channels(e) |-> 0]]
  /\ faults = 0

producerVars == <<pc, batch, clean>>

Fault == faults < MaxFaults /\ faults' = faults + 1

-----------------------------------------------------------------------------
\* The engines' transactions

Write(e) ==
  /\ row[e] = "none"
  /\ row' = [row EXCEPT ![e] = "open"]
  /\ UNCHANGED <<stamp, producerVars, copies, faults>>

Finish(e) ==
  /\ row[e] = "open"
  /\ \E r \in {"committed", "aborted"} : row' = [row EXCEPT ![e] = r]
  /\ UNCHANGED <<stamp, producerVars, copies, faults>>

-----------------------------------------------------------------------------
\* A producer

Start(p) ==
  /\ pc[p] = "down"
  /\ pc' = [pc EXCEPT ![p] = "idle"]
  /\ UNCHANGED <<row, stamp, batch, clean, copies, faults>>

\* Mutant: what other transactions have not committed is listed too.
Unstamped_Dirty == {e \in Event : row[e] \in {"open", "committed"} /\ stamp[e] = None}

\* Mutant: a cursor, the highest id stamped, in place of the stamps.
Unstamped_Cursor ==
  {e \in Event : row[e] = "committed" /\ \A f \in Event : stamp[f] # None => f < e}

\* Mutant: stamped entries are listed again.
Unstamped_All == {e \in Event : row[e] = "committed"}

Unstamped == {e \in Event : row[e] = "committed" /\ stamp[e] = None}

\* ORDER BY id LIMIT BatchSize.
FirstOf(S) ==
  {e \in S : Cardinality({f \in S : f < e}) < BatchSize}

Poll(p) ==
  /\ pc[p] = "idle" /\ Unstamped # {}
  /\ batch' = [batch EXCEPT ![p] = FirstOf(Unstamped)]
  /\ pc' = [pc EXCEPT ![p] = "publish"]
  /\ UNCHANGED <<row, stamp, clean, copies, faults>>

\* The batch is gone through in id order.
NextInBatch(p, e) == e \in batch[p] /\ \A f \in batch[p] : e <= f

\* What follows an entry: the next one, or the stamping of what went out.
Advance(p, e, published) ==
  /\ batch' = [batch EXCEPT ![p] = @ \ {e}]
  /\ clean' = [clean EXCEPT ![p] = published]
  /\ pc' = [pc EXCEPT ![p] = IF batch[p] # {e} THEN "publish"
                             ELSE IF published = {} THEN "idle" ELSE "stamp"]

\* Mutant: one channel that took the entry is enough.
CleanAfter_AnyChannel(p, e, ok) ==
  clean[p] \cup (IF ok # {} \/ ok = Channels(e) THEN {e} ELSE {})

\* A channel that fails does not keep the others from being tried; the entry is
\* kept for the stamp only if each channel took it.
CleanAfter(p, e, ok) == clean[p] \cup (IF ok = Channels(e) THEN {e} ELSE {})

Copied(e, ok) ==
  [copies EXCEPT ![e] = [c \in Channels(e) |-> @[c] + (IF c \in ok THEN 1 ELSE 0)]]

Publish(p, e) ==
  /\ pc[p] = "publish" /\ NextInBatch(p, e)
  /\ Routable(e)
  /\ copies' = Copied(e, Channels(e))
  /\ Advance(p, e, CleanAfter(p, e, Channels(e)))
  /\ UNCHANGED <<row, stamp, faults>>

\* An entry that cannot be routed is skipped, and stays without a stamp.
Skip(p, e) ==
  /\ pc[p] = "publish" /\ NextInBatch(p, e)
  /\ ~ Routable(e)
  /\ Advance(p, e, clean[p])
  /\ UNCHANGED <<row, stamp, copies, faults>>

PublishFails(p, e, ok) ==
  /\ Fault
  /\ pc[p] = "publish" /\ NextInBatch(p, e)
  /\ Routable(e) /\ ok # Channels(e)
  /\ copies' = Copied(e, ok)
  /\ Advance(p, e, CleanAfter(p, e, ok))
  /\ UNCHANGED <<row, stamp>>

\* Mutant: broadcast_at is overwritten.
Stamped_Overwrite(p) == [e \in Event |-> IF e \in clean[p] THEN p ELSE stamp[e]]

\* An entry another producer stamped in the meantime keeps its first stamp.
Stamped(p) == [e \in Event |-> IF e \in clean[p] /\ stamp[e] = None THEN p ELSE stamp[e]]

\* Mutant: publishedIDs is kept for the next cycle.
EndCycle_KeepsClean(p, next) ==
  /\ pc' = [pc EXCEPT ![p] = next]
  /\ batch' = [batch EXCEPT ![p] = {}]
  /\ UNCHANGED clean

EndCycle(p, next) ==
  /\ pc' = [pc EXCEPT ![p] = next]
  /\ batch' = [batch EXCEPT ![p] = {}]
  /\ clean' = [clean EXCEPT ![p] = {}]

MarkBroadcast(p) ==
  /\ pc[p] = "stamp"
  /\ stamp' = Stamped(p)
  /\ EndCycle(p, "idle")
  /\ UNCHANGED <<row, copies, faults>>

\* The stamping transaction fails: the batch is polled again on the next tick.
MarkFails(p) ==
  /\ Fault
  /\ pc[p] = "stamp"
  /\ EndCycle(p, "idle")
  /\ UNCHANGED <<row, stamp, copies>>

\* The process dies, or is stopped, wherever it is in its cycle.
Crash(p) ==
  /\ Fault
  /\ pc[p] # "down"
  /\ EndCycle(p, "down")
  /\ UNCHANGED <<row, stamp, copies>>

\* It dies within an entry, which is out on some of its channels only.
CrashInEntry(p, e, ok) ==
  /\ Fault
  /\ pc[p] = "publish" /\ NextInBatch(p, e) /\ Routable(e)
  /\ copies' = Copied(e, ok)
  /\ EndCycle(p, "down")
  /\ UNCHANGED <<row, stamp>>

ProducerStep(p) ==
  \/ Start(p) \/ Poll(p) \/ MarkBroadcast(p)
  \/ \E e \in Event : Publish(p, e) \/ Skip(p, e)

ProducerFault(p) ==
  \/ MarkFails(p) \/ Crash(p)
  \/ \E e \in Event : \E ok \in SUBSET Channels(e) : PublishFails(p, e, ok) \/ CrashInEntry(p, e, ok)

Next ==
  \/ \E e \in Event : Write(e) \/ Finish(e)
  \/ \E p \in Producer : ProducerStep(p) \/ ProducerFault(p)

Spec == Init /\ [][Next]_vars

\* A producer that runs goes on with its cycle, its timer ticks, and one that went
\* down is started again.  Transactions owe nothing: one may stay open for good.
Fairness == \A p \in Producer : WF_vars(ProducerStep(p))

FairSpec == Spec /\ Fairness

-----------------------------------------------------------------------------
(* Type invariant *)

\* A producer holds a batch only while it publishes, and something to stamp
\* only until the end of its cycle.
TypeOK ==
  /\ row \in [Event -> {"none", "open", "committed", "aborted"}]
  /\ stamp \in [Event -> Producer \cup {None}]
  /\ pc \in [Producer -> {"down", "idle", "publish", "stamp"}]
  /\ batch \in [Producer -> SUBSET Event]
  /\ clean \in [Producer -> SUBSET Event]
  /\ \A p \in Producer :
       /\ pc[p] = "publish" <=> batch[p] # {}
       /\ pc[p] = "stamp" => clean[p] # {}
       /\ pc[p] \in {"down", "idle"} => clean[p] = {}
  /\ copies = [e \in Event |-> [c \in Channels(e) |-> copies[e][c]]]
  /\ \A e \in Event : \A c \in Channels(e) : copies[e][c] \in Nat
  /\ faults \in 0..MaxFaults

(* Safety *)

\* What a transaction rolled back is never announced, and what is announced never
\* goes away: the entry and the change it tells of are one transaction.
NoPhantom == \A e \in Event : row[e] # "committed" => \A c \in Channels(e) : copies[e][c] = 0

Heard(e) == \A c \in Channels(e) : copies[e][c] > 0

\* At least once (notify/DESIGN.md): an entry is stamped only after each channel it
\* is routed to took it, whatever failed, crashed or overlapped in between.
StampedWasHeard == \A e \in Event : stamp[e] # None => row[e] = "committed" /\ Heard(e)

\* Duplicates have a cause: a channel carries an entry once, and once more for
\* each further producer and each fault.
CopiesBounded ==
  \A e \in Event : \A c \in Channels(e) : copies[e][c] <= Cardinality(Producer) + faults

\* A stamp stays as it was first set, whoever else held the entry in its batch.
StampIsFinal == [][\A e \in Event : stamp[e] # None => stamp'[e] = stamp[e]]_vars

=============================================================================
