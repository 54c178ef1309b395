------------------------ MODULE NotifyProducerSafety ------------------------
(***************************************************************************)
(* Proofs about NotifyProducer, for every audit log, batch size, number of *)
(* producers and number of faults.                                         *)
(***************************************************************************)
EXTENDS NotifyProducerFeed, FiniteSetTheorems, WellFoundedInduction, NaturalsInduction, TLAPS

\* What a producer holds it listed: committed entries, each either still to be
\* published or out on all its channels.
Held ==
  \A p \in Producer :
    /\ batch[p] \cap clean[p] = {}
    /\ \A e \in batch[p] : row[e] = "committed"
    /\ \A e \in clean[p] : row[e] = "committed" /\ Routable(e) /\ Heard(e)

\* The producers that have e out, not stamped yet; and those about to publish it.
CleanAt(e) == {p \in Producer : e \in clean[p]}
QueuedAt(e) == {p \in Producer : e \in batch[p]}

\* The account behind CopiesBounded. Before e is stamped each copy is owed to a
\* fault or to a producer that has e out; from then on each producer that may
\* still publish e has not done so yet.
Account ==
  \A e \in Event : \A c \in Channels(e) :
    IF stamp[e] = None
    THEN copies[e][c] <= faults + Cardinality(CleanAt(e))
    ELSE copies[e][c] + Cardinality(QueuedAt(e)) <= faults + Cardinality(Producer)

Safe == TypeOK /\ NoPhantom /\ Held /\ StampedWasHeard

-----------------------------------------------------------------------------
\* A batch is a part of what is listed, and not empty unless that is.
LEMMA FirstOfPart ==
  ASSUME NEW S, S \subseteq Event, S # {}
  PROVE  FirstOf(S) \subseteq S /\ FirstOf(S) # {}
<1>1. PICK m \in S : \A f \in S : ~ (f < m)
  <2>1. S \subseteq Nat  BY EventAssumption
  <2>2. \E m \in S : \A f \in S : ~ (<<f, m>> \in OpToRel(<, Nat))
    BY <2>1, NatLessThanWellFounded, WFMin
  <2> QED  BY <2>1, <2>2 DEF OpToRel
<1>2. {f \in S : f < m} = {}  BY <1>1
<1>3. Cardinality({f \in S : f < m}) = 0  BY <1>2, FS_EmptySet
<1>4. m \in FirstOf(S)
  <2>1. 0 < BatchSize  BY BatchAssumption
  <2> QED  BY <1>1, <1>3, <2>1 DEF FirstOf
<1> QED  BY <1>4 DEF FirstOf

\* A publication adds at most one copy, of the one entry, and leaves the rest.
LEMMA CopiedIs ==
  ASSUME TypeOK, NEW e \in Event, NEW ok
  PROVE  /\ Copied(e, ok) = [f \in Event |-> [c \in Channels(f) |-> Copied(e, ok)[f][c]]]
         /\ \A f \in Event : \A c \in Channels(f) :
              Copied(e, ok)[f][c] = copies[f][c] + (IF f = e /\ c \in ok THEN 1 ELSE 0)
         /\ \A f \in Event : \A c \in Channels(f) : Copied(e, ok)[f][c] \in Nat
<1> DEFINE new == [c \in Channels(e) |-> copies[e][c] + (IF c \in ok THEN 1 ELSE 0)]
<1>1. Copied(e, ok) = [f \in Event |-> IF f = e THEN new ELSE copies[f]]
  BY DEF Copied, TypeOK
<1>2. \A f \in Event : \A c \in Channels(f) : copies[f][c] \in Nat  BY DEF TypeOK
<1>3. \A f \in Event : \A c \in Channels(f) :
        Copied(e, ok)[f][c] = copies[f][c] + (IF f = e /\ c \in ok THEN 1 ELSE 0)
  BY <1>1, <1>2
<1>4. \A f \in Event : copies[f] = [c \in Channels(f) |-> copies[f][c]]  BY DEF TypeOK
<1>5. \A f \in Event : Copied(e, ok)[f] = [c \in Channels(f) |-> Copied(e, ok)[f][c]]
  <2> TAKE f \in Event
  <2>1. CASE f = e
    <3>1. Copied(e, ok)[f] = new  BY <1>1, <2>1
    <3> QED  BY <3>1, <2>1
  <2>2. CASE f # e
    <3>1. Copied(e, ok)[f] = copies[f]  BY <1>1, <2>2
    <3> QED  BY <3>1, <1>4
  <2> QED  BY <2>1, <2>2
<1>6. Copied(e, ok) = [f \in Event |-> Copied(e, ok)[f]]  BY <1>1
<1>7. Copied(e, ok) = [f \in Event |-> [c \in Channels(f) |-> Copied(e, ok)[f][c]]]
  BY <1>5, <1>6
<1> QED  BY <1>2, <1>3, <1>7

-----------------------------------------------------------------------------
\* How one producer's variables move on within a batch, and at its end.
LEMMA AdvanceIs ==
  ASSUME TypeOK, NEW p \in Producer, NEW e \in Event, NEW published \in SUBSET Event,
         pc[p] = "publish", e \in batch[p], Advance(p, e, published)
  PROVE  /\ batch' = [q \in Producer |-> IF q = p THEN batch[p] \ {e} ELSE batch[q]]
         /\ clean' = [q \in Producer |-> IF q = p THEN published ELSE clean[q]]
         /\ pc' \in [Producer -> {"down", "idle", "publish", "stamp"}]
         /\ \A q \in Producer : /\ pc'[q] = "publish" <=> batch'[q] # {}
                                /\ pc'[q] = "stamp" => clean'[q] # {}
                                /\ pc'[q] \in {"down", "idle"} => clean'[q] = {}
<1>1. /\ batch' = [q \in Producer |-> IF q = p THEN batch[p] \ {e} ELSE batch[q]]
      /\ clean' = [q \in Producer |-> IF q = p THEN published ELSE clean[q]]
      /\ pc' = [q \in Producer |->
                  IF q = p THEN IF batch[p] # {e} THEN "publish"
                                ELSE IF published = {} THEN "idle" ELSE "stamp"
                  ELSE pc[q]]
  BY DEF Advance, TypeOK
<1>2. batch[p] \ {e} # {} <=> batch[p] # {e}  OBVIOUS
<1> QED  BY <1>1, <1>2 DEF TypeOK

LEMMA EndCycleIs ==
  ASSUME TypeOK, NEW p \in Producer, NEW next \in {"down", "idle"}, EndCycle(p, next)
  PROVE  /\ batch' = [q \in Producer |-> IF q = p THEN {} ELSE batch[q]]
         /\ clean' = [q \in Producer |-> IF q = p THEN {} ELSE clean[q]]
         /\ pc' = [q \in Producer |-> IF q = p THEN next ELSE pc[q]]
BY DEF EndCycle, TypeOK

-----------------------------------------------------------------------------
\* The parts of TypeOK those steps are about.
LoopType ==
  /\ pc \in [Producer -> {"down", "idle", "publish", "stamp"}]
  /\ batch \in [Producer -> SUBSET Event]
  /\ clean \in [Producer -> SUBSET Event]
  /\ \A p \in Producer : /\ pc[p] = "publish" <=> batch[p] # {}
                         /\ pc[p] = "stamp" => clean[p] # {}
                         /\ pc[p] \in {"down", "idle"} => clean[p] = {}

CopiesType ==
  /\ copies = [e \in Event |-> [c \in Channels(e) |-> copies[e][c]]]
  /\ \A e \in Event : \A c \in Channels(e) : copies[e][c] \in Nat

LEMMA AdvanceTypes ==
  ASSUME TypeOK, NEW p \in Producer, NEW e \in Event, NEW published \in SUBSET Event,
         pc[p] = "publish", e \in batch[p], Advance(p, e, published)
  PROVE  LoopType'
<1>1. batch \in [Producer -> SUBSET Event] /\ clean \in [Producer -> SUBSET Event]
  BY DEF TypeOK
<1>2. /\ batch' = [q \in Producer |-> IF q = p THEN batch[p] \ {e} ELSE batch[q]]
      /\ clean' = [q \in Producer |-> IF q = p THEN published ELSE clean[q]]
  BY AdvanceIs
<1>3. batch' \in [Producer -> SUBSET Event] /\ clean' \in [Producer -> SUBSET Event]
  BY <1>1, <1>2
<1>4. /\ pc' \in [Producer -> {"down", "idle", "publish", "stamp"}]
      /\ \A q \in Producer : /\ pc'[q] = "publish" <=> batch'[q] # {}
                             /\ pc'[q] = "stamp" => clean'[q] # {}
                             /\ pc'[q] \in {"down", "idle"} => clean'[q] = {}
  BY AdvanceIs
<1> QED  BY <1>3, <1>4 DEF LoopType

LEMMA CopiedTypes ==
  ASSUME TypeOK, NEW e \in Event, NEW ok, copies' = Copied(e, ok)
  PROVE  CopiesType'
BY CopiedIs DEF CopiesType

LEMMA TypeStep ==
  ASSUME TypeOK, [Next]_vars
  PROVE  TypeOK'
<1> USE FaultsAssumption
<1>1. ASSUME NEW e \in Event, Write(e) \/ Finish(e)  PROVE TypeOK'
  BY <1>1 DEF Write, Finish, TypeOK, producerVars
<1>2. ASSUME NEW p \in Producer, Start(p)  PROVE TypeOK'
  BY <1>2 DEF Start, TypeOK
<1>3. ASSUME NEW p \in Producer, Poll(p)  PROVE TypeOK'
  <2>1. Unstamped \subseteq Event  BY DEF Unstamped
  <2>2. FirstOf(Unstamped) \subseteq Event /\ FirstOf(Unstamped) # {}
    BY <1>3, <2>1, FirstOfPart DEF Poll
  <2> QED  BY <1>3, <2>2 DEF Poll, TypeOK
<1>4. ASSUME NEW p \in Producer, MarkBroadcast(p)  PROVE TypeOK'
  <2>1. Stamped(p) \in [Event -> Producer \cup {None}]  BY DEF Stamped, TypeOK
  <2>2. UNCHANGED <<row, copies, faults>> /\ stamp' = Stamped(p) /\ EndCycle(p, "idle")
    BY <1>4 DEF MarkBroadcast
  <2> QED  BY <2>1, <2>2, EndCycleIs DEF TypeOK
<1>5. ASSUME NEW p \in Producer, NEW e \in Event, Publish(p, e)  PROVE TypeOK'
  <2>1. /\ pc[p] = "publish" /\ e \in batch[p] /\ UNCHANGED <<row, stamp, faults>>
        /\ Advance(p, e, CleanAfter(p, e, Channels(e))) /\ copies' = Copied(e, Channels(e))
    BY <1>5 DEF Publish, NextInBatch
  <2>2. CleanAfter(p, e, Channels(e)) \in SUBSET Event  BY DEF CleanAfter, TypeOK
  <2>3. LoopType' /\ CopiesType'  BY <2>1, <2>2, AdvanceTypes, CopiedTypes
  <2> QED  BY <2>1, <2>3 DEF TypeOK, LoopType, CopiesType
<1>6. ASSUME NEW p \in Producer, NEW e \in Event, Skip(p, e)  PROVE TypeOK'
  <2>1. /\ pc[p] = "publish" /\ e \in batch[p] /\ UNCHANGED <<row, stamp, copies, faults>>
        /\ Advance(p, e, clean[p]) /\ clean[p] \in SUBSET Event
    BY <1>6 DEF Skip, NextInBatch, TypeOK
  <2>2. LoopType'  BY <2>1, AdvanceTypes
  <2> QED  BY <2>1, <2>2 DEF TypeOK, LoopType
<1>7. ASSUME NEW p \in Producer, MarkFails(p) \/ Crash(p)  PROVE TypeOK'
  <2>1. UNCHANGED <<row, stamp, copies>> /\ Fault /\ (EndCycle(p, "idle") \/ EndCycle(p, "down"))
    BY <1>7 DEF MarkFails, Crash
  <2>2. faults' \in 0..MaxFaults  BY <2>1 DEF Fault, TypeOK
  <2> QED  BY <2>1, <2>2, EndCycleIs DEF TypeOK
<1>8. ASSUME NEW p \in Producer, NEW e \in Event, NEW ok, PublishFails(p, e, ok)  PROVE TypeOK'
  <2>1. /\ pc[p] = "publish" /\ e \in batch[p] /\ UNCHANGED <<row, stamp>> /\ Fault
        /\ Advance(p, e, CleanAfter(p, e, ok)) /\ copies' = Copied(e, ok)
    BY <1>8 DEF PublishFails, NextInBatch
  <2>2. CleanAfter(p, e, ok) \in SUBSET Event  BY DEF CleanAfter, TypeOK
  <2>3. faults' \in 0..MaxFaults  BY <2>1 DEF Fault, TypeOK
  <2>4. LoopType' /\ CopiesType'  BY <2>1, <2>2, AdvanceTypes, CopiedTypes
  <2> QED  BY <2>1, <2>3, <2>4 DEF TypeOK, LoopType, CopiesType
<1>9. ASSUME NEW p \in Producer, NEW e \in Event, NEW ok, CrashInEntry(p, e, ok)  PROVE TypeOK'
  <2>1. /\ UNCHANGED <<row, stamp>> /\ Fault /\ EndCycle(p, "down") /\ copies' = Copied(e, ok)
    BY <1>9 DEF CrashInEntry
  <2>2. faults' \in 0..MaxFaults  BY <2>1 DEF Fault, TypeOK
  <2> QED  BY <2>1, <2>2, EndCycleIs, CopiedIs DEF TypeOK
<1>10. CASE UNCHANGED vars  BY <1>10 DEF vars, TypeOK
<1> QED
  BY <1>1, <1>2, <1>3, <1>4, <1>5, <1>6, <1>7, <1>8, <1>9, <1>10
  DEF Next, ProducerStep, ProducerFault

LEMMA TypeInit == Init => TypeOK
BY FaultsAssumption DEF Init, TypeOK

\* Rows, stamps, the producers' loops and the counters hold what the code puts
\* there: a producer holds a batch only while it publishes, and events to stamp
\* only until its cycle ends.
THEOREM ProducerTypes == Spec => []TypeOK
BY TypeInit, TypeStep, PTL DEF Spec

-----------------------------------------------------------------------------
\* What the steps share: a publication is of an entry the producer holds.
LEMMA PublishingIs ==
  ASSUME TypeOK, NEW p \in Producer, NEW e \in Event, NEW ok,
         pc[p] = "publish", NextInBatch(p, e),
         Advance(p, e, CleanAfter(p, e, ok)), copies' = Copied(e, ok)
  PROVE  /\ e \in batch[p]
         /\ batch' = [q \in Producer |-> IF q = p THEN batch[p] \ {e} ELSE batch[q]]
         /\ clean' = [q \in Producer |-> IF q = p THEN CleanAfter(p, e, ok) ELSE clean[q]]
         /\ \A f \in Event : \A c \in Channels(f) :
              copies'[f][c] = copies[f][c] + (IF f = e /\ c \in ok THEN 1 ELSE 0)
<1>1. e \in batch[p]  BY DEF NextInBatch
<1>2. CleanAfter(p, e, ok) \in SUBSET Event  BY DEF CleanAfter, TypeOK
<1> QED  BY <1>1, <1>2, AdvanceIs, CopiedIs

LEMMA SafeStep ==
  ASSUME Safe, [Next]_vars
  PROVE  NoPhantom' /\ Held' /\ StampedWasHeard'
<1> USE DEF Safe
<1> TypeOK'  BY TypeStep
<1>0. /\ \A e \in Event : \A c \in Channels(e) : copies[e][c] \in Nat
      /\ \A p \in Producer : batch[p] \subseteq Event /\ clean[p] \subseteq Event
  BY DEF TypeOK
<1>1. ASSUME NEW e \in Event, Write(e) \/ Finish(e)
      PROVE  NoPhantom' /\ Held' /\ StampedWasHeard'
  <2>1. /\ UNCHANGED <<stamp, batch, clean, copies>> /\ row[e] \in {"none", "open"}
        /\ \A f \in Event : f # e => row'[f] = row[f]
    BY <1>1 DEF Write, Finish, producerVars, TypeOK
  <2>2. NoPhantom'  BY <2>1 DEF NoPhantom
  <2>3. Held'  BY <1>0, <2>1 DEF Held, Heard
  <2>4. StampedWasHeard'  BY <2>1 DEF StampedWasHeard, Heard
  <2> QED  BY <2>2, <2>3, <2>4
<1>2. ASSUME NEW p \in Producer, Start(p)
      PROVE  NoPhantom' /\ Held' /\ StampedWasHeard'
  BY <1>2 DEF Start, NoPhantom, Held, StampedWasHeard, Heard
<1>3. ASSUME NEW p \in Producer, Poll(p)
      PROVE  NoPhantom' /\ Held' /\ StampedWasHeard'
  <2>1. Unstamped \subseteq Event  BY DEF Unstamped
  <2>2. FirstOf(Unstamped) \subseteq Unstamped  BY <1>3, <2>1, FirstOfPart DEF Poll
  <2>3. clean[p] = {}  BY <1>3 DEF Poll, TypeOK
  <2>4. /\ batch' = [q \in Producer |-> IF q = p THEN FirstOf(Unstamped) ELSE batch[q]]
        /\ UNCHANGED <<row, stamp, clean, copies>>
    BY <1>3 DEF Poll, TypeOK
  <2>5. \A e \in Unstamped : row[e] = "committed"  BY DEF Unstamped
  <2>6. Held'  BY <2>2, <2>3, <2>4, <2>5 DEF Held, Heard
  <2> QED  BY <2>4, <2>6 DEF NoPhantom, StampedWasHeard, Heard
<1>4. ASSUME NEW p \in Producer, MarkBroadcast(p)
      PROVE  NoPhantom' /\ Held' /\ StampedWasHeard'
  <2>1. UNCHANGED <<row, copies>> /\ stamp' = Stamped(p) /\ EndCycle(p, "idle")
    BY <1>4 DEF MarkBroadcast
  <2>2. \A e \in Event : stamp'[e] # None => stamp[e] # None \/ e \in clean[p]
    BY <2>1 DEF Stamped
  <2>3. StampedWasHeard'  BY <2>1, <2>2 DEF StampedWasHeard, Held, Heard
  <2>4. Held'  BY <2>1, EndCycleIs DEF Held, Heard
  <2> QED  BY <2>1, <2>3, <2>4 DEF NoPhantom
<1>5. ASSUME NEW p \in Producer, NEW e \in Event, NEW ok, ok \subseteq Channels(e),
             pc[p] = "publish", NextInBatch(p, e), Routable(e), UNCHANGED <<row, stamp>>,
             Advance(p, e, CleanAfter(p, e, ok)), copies' = Copied(e, ok)
      PROVE  NoPhantom' /\ Held' /\ StampedWasHeard'
  <2>1. /\ e \in batch[p]
        /\ batch' = [q \in Producer |-> IF q = p THEN batch[p] \ {e} ELSE batch[q]]
        /\ clean' = [q \in Producer |-> IF q = p THEN CleanAfter(p, e, ok) ELSE clean[q]]
        /\ \A f \in Event : \A c \in Channels(f) :
             copies'[f][c] = copies[f][c] + (IF f = e /\ c \in ok THEN 1 ELSE 0)
    BY <1>5, PublishingIs
  <2>2. row[e] = "committed"  BY <2>1 DEF Held
  <2>3. NoPhantom'  BY <1>0, <1>5, <2>1, <2>2 DEF NoPhantom
  <2>4. \A f \in Event : Heard(f) => Heard(f)'  BY <1>0, <2>1 DEF Heard
  <2>5. ok = Channels(e) => Heard(e)'  BY <1>0, <2>1 DEF Heard
  <2>6. Held'
    <3> SUFFICES ASSUME NEW q \in Producer
                 PROVE  /\ batch'[q] \cap clean'[q] = {}
                        /\ \A f \in batch'[q] : row'[f] = "committed"
                        /\ \A f \in clean'[q] : row'[f] = "committed" /\ Routable(f) /\ Heard(f)'
      BY DEF Held
    <3>1. CASE q # p  BY <1>0, <1>5, <2>1, <2>4, <3>1 DEF Held
    <3>2. CASE q = p
      <4>1. batch'[q] = batch[p] \ {e} /\ clean'[q] = CleanAfter(p, e, ok)
        BY <2>1, <3>2
      <4>2. \A f \in clean'[q] : f \in clean[p] \/ (f = e /\ ok = Channels(e))
        BY <4>1 DEF CleanAfter
      <4> QED  BY <1>0, <1>5, <2>2, <2>4, <2>5, <4>1, <4>2 DEF Held
    <3> QED  BY <3>1, <3>2
  <2>7. StampedWasHeard'  BY <1>5, <2>4 DEF StampedWasHeard
  <2> QED  BY <2>3, <2>6, <2>7
<1>6. ASSUME NEW p \in Producer, NEW e \in Event, Skip(p, e)
      PROVE  NoPhantom' /\ Held' /\ StampedWasHeard'
  <2>1. /\ pc[p] = "publish" /\ e \in batch[p] /\ UNCHANGED <<row, stamp, copies>>
        /\ Advance(p, e, clean[p]) /\ clean[p] \in SUBSET Event
    BY <1>0, <1>6 DEF Skip, NextInBatch
  <2>2. /\ batch' = [q \in Producer |-> IF q = p THEN batch[p] \ {e} ELSE batch[q]]
        /\ clean' = [q \in Producer |-> IF q = p THEN clean[p] ELSE clean[q]]
    BY <2>1, AdvanceIs
  <2>3. Held'  BY <2>1, <2>2 DEF Held, Heard
  <2> QED  BY <2>1, <2>3 DEF NoPhantom, StampedWasHeard, Heard
<1>7. ASSUME NEW p \in Producer, MarkFails(p) \/ Crash(p)
      PROVE  NoPhantom' /\ Held' /\ StampedWasHeard'
  <2>1. UNCHANGED <<row, stamp, copies>> /\ (EndCycle(p, "idle") \/ EndCycle(p, "down"))
    BY <1>7 DEF MarkFails, Crash
  <2>2. Held'  BY <2>1, EndCycleIs DEF Held, Heard
  <2> QED  BY <2>1, <2>2 DEF NoPhantom, StampedWasHeard, Heard
<1>8. ASSUME NEW p \in Producer, NEW e \in Event, NEW ok, ok \subseteq Channels(e), CrashInEntry(p, e, ok)
      PROVE  NoPhantom' /\ Held' /\ StampedWasHeard'
  <2>1. /\ e \in batch[p] /\ UNCHANGED <<row, stamp>> /\ EndCycle(p, "down")
        /\ copies' = Copied(e, ok)
    BY <1>8 DEF CrashInEntry, NextInBatch
  <2>2. \A f \in Event : \A c \in Channels(f) :
          copies'[f][c] = copies[f][c] + (IF f = e /\ c \in ok THEN 1 ELSE 0)
    BY <2>1, CopiedIs
  <2>3. row[e] = "committed"  BY <2>1 DEF Held
  <2>4. NoPhantom'  BY <1>0, <2>1, <2>2, <2>3 DEF NoPhantom
  <2>5. \A f \in Event : Heard(f) => Heard(f)'  BY <1>0, <2>2 DEF Heard
  <2>6. Held'  BY <1>0, <2>1, <2>5, EndCycleIs DEF Held
  <2>7. StampedWasHeard'  BY <2>1, <2>5 DEF StampedWasHeard
  <2> QED  BY <2>4, <2>6, <2>7
<1>9. CASE UNCHANGED vars  BY <1>9 DEF vars, NoPhantom, Held, StampedWasHeard, Heard
<1>10. ASSUME NEW p \in Producer, NEW e \in Event, Publish(p, e)
       PROVE  NoPhantom' /\ Held' /\ StampedWasHeard'
  BY <1>5, <1>10 DEF Publish
<1>11. ASSUME NEW p \in Producer, NEW e \in Event, NEW ok \in SUBSET Channels(e), PublishFails(p, e, ok)
       PROVE  NoPhantom' /\ Held' /\ StampedWasHeard'
  BY <1>5, <1>11 DEF PublishFails
<1> QED
  BY <1>1, <1>2, <1>3, <1>4, <1>6, <1>7, <1>8, <1>9, <1>10, <1>11
  DEF Next, ProducerStep, ProducerFault

LEMMA SafeInit == Init => Safe
BY TypeInit DEF Init, Safe, NoPhantom, Held, StampedWasHeard, Heard

LEMMA SafeHolds == Spec => []Safe
<1>1. Safe /\ [Next]_vars => Safe'  BY SafeStep, TypeStep DEF Safe
<1> QED  BY SafeInit, <1>1, PTL DEF Spec

\* What a transaction rolled back is never announced: a producer publishes only
\* what it listed, and it lists only what is committed.
THEOREM NoPhantomHolds == Spec => []NoPhantom
<1>1. Safe => NoPhantom  BY DEF Safe
<1> QED  BY SafeHolds, <1>1, PTL

\* At least once: an entry is stamped only after each of its channels took it.
THEOREM AtLeastOnce == Spec => []StampedWasHeard
<1>1. Safe => StampedWasHeard  BY DEF Safe
<1> QED  BY SafeHolds, <1>1, PTL

-----------------------------------------------------------------------------
(* Duplicates *)

\* Counting producers.
LEMMA CountSubset ==
  ASSUME NEW S \in SUBSET Producer, NEW T \in SUBSET S
  PROVE  Cardinality(S) \in Nat /\ Cardinality(T) \in Nat /\ Cardinality(T) <= Cardinality(S)
<1>1. IsFiniteSet(S)  BY ProducerAssumption, FS_Subset
<1> QED  BY <1>1, FS_Subset, FS_CardinalityType

LEMMA CountWithout ==
  ASSUME NEW S \in SUBSET Producer, NEW p
  PROVE  /\ Cardinality(S) \in Nat /\ Cardinality(S \ {p}) \in Nat
         /\ Cardinality(S) <= Cardinality(S \ {p}) + 1
         /\ p \in S => Cardinality(S) = Cardinality(S \ {p}) + 1
<1>1. IsFiniteSet(S)  BY ProducerAssumption, FS_Subset
<1>2. IsFiniteSet(S \ {p}) /\ Cardinality(S) \in Nat /\ Cardinality(S \ {p}) \in Nat
  BY <1>1, FS_RemoveElement, FS_CardinalityType, FS_Subset
<1>3. p \in S => Cardinality(S \ {p}) = Cardinality(S) - 1  BY <1>1, FS_RemoveElement
<1>4. CASE p \in S  BY <1>2, <1>3, <1>4
<1>5. CASE p \notin S
  <2>1. S \ {p} = S  BY <1>5
  <2>2. Cardinality(S \ {p}) = Cardinality(S)  BY <2>1
  <2> QED  BY <1>2, <1>5, <2>2
<1> QED  BY <1>4, <1>5

\* The two counts of Account, of one entry.
LEMMA CountsAre ==
  ASSUME NEW e
  PROVE  /\ Cardinality(CleanAt(e)) \in Nat /\ Cardinality(QueuedAt(e)) \in Nat
         /\ Cardinality(Producer) \in Nat
<1>1. CleanAt(e) \in SUBSET Producer /\ QueuedAt(e) \in SUBSET Producer
  BY DEF CleanAt, QueuedAt
<1> QED  BY <1>1, CountSubset

\* A step that leaves e's stamp and copies alone, and takes e from at most one
\* producer, at the price of a fault if it had e out.
LEMMA AccountKept ==
  ASSUME NEW e \in Event, NEW p \in Producer, TypeOK, TypeOK',
         stamp'[e] = stamp[e], \A c \in Channels(e) : copies'[e][c] = copies[e][c],
         \A q \in Producer : q # p => batch'[q] = batch[q] /\ clean'[q] = clean[q],
         stamp[e] # None => (e \in batch'[p] => e \in batch[p]),
         \/ faults' = faults /\ (e \in clean[p] => e \in clean'[p])
         \/ faults' = faults + 1,
         NEW c \in Channels(e),
         IF stamp[e] = None
         THEN copies[e][c] <= faults + Cardinality(CleanAt(e))
         ELSE copies[e][c] + Cardinality(QueuedAt(e)) <= faults + Cardinality(Producer)
  PROVE  IF stamp'[e] = None
         THEN copies'[e][c] <= faults' + Cardinality(CleanAt(e)')
         ELSE copies'[e][c] + Cardinality(QueuedAt(e)') <= faults' + Cardinality(Producer)
<1>0. /\ copies[e][c] \in Nat /\ faults \in Nat
      /\ CleanAt(e) \in SUBSET Producer /\ QueuedAt(e) \in SUBSET Producer
      /\ CleanAt(e)' \in SUBSET Producer /\ QueuedAt(e)' \in SUBSET Producer
  BY FaultsAssumption DEF TypeOK, CleanAt, QueuedAt
<1>1. CASE stamp[e] = None
  <2>1. CleanAt(e) \ {p} \subseteq CleanAt(e)'  BY DEF CleanAt
  <2>2. faults' = faults => CleanAt(e) \subseteq CleanAt(e)'  BY <1>0 DEF CleanAt
  <2>3. /\ Cardinality(CleanAt(e)') \in Nat /\ Cardinality(CleanAt(e)) \in Nat
        /\ Cardinality(CleanAt(e)) <= Cardinality(CleanAt(e)') + 1
        /\ faults' = faults => Cardinality(CleanAt(e)) <= Cardinality(CleanAt(e)')
    <3>1. Cardinality(CleanAt(e) \ {p}) <= Cardinality(CleanAt(e)')
      BY <1>0, <2>1, CountSubset
    <3>2. /\ Cardinality(CleanAt(e)) \in Nat /\ Cardinality(CleanAt(e) \ {p}) \in Nat
          /\ Cardinality(CleanAt(e)) <= Cardinality(CleanAt(e) \ {p}) + 1
      BY <1>0, CountWithout
    <3>3. Cardinality(CleanAt(e)') \in Nat  BY <1>0, CountSubset
    <3>4. faults' = faults => Cardinality(CleanAt(e)) <= Cardinality(CleanAt(e)')
      BY <1>0, <2>2, CountSubset
    <3> QED  BY <3>1, <3>2, <3>3, <3>4
  <2> QED  BY <1>0, <1>1, <2>3
<1>2. CASE stamp[e] # None
  <2>1. QueuedAt(e)' \subseteq QueuedAt(e)  BY <1>2 DEF QueuedAt
  <2>2. /\ Cardinality(QueuedAt(e)') <= Cardinality(QueuedAt(e))
        /\ Cardinality(QueuedAt(e)') \in Nat /\ Cardinality(QueuedAt(e)) \in Nat
    BY <1>0, <2>1, CountSubset
  <2>3. Cardinality(Producer) \in Nat  BY CountSubset
  <2> QED  BY <1>0, <1>2, <2>2, <2>3
<1> QED  BY <1>1, <1>2

LEMMA AccountStep ==
  ASSUME Safe, Account, [Next]_vars
  PROVE  Account'
<1> TypeOK /\ TypeOK'  BY TypeStep DEF Safe
<1>0. /\ \A p \in Producer : batch[p] \subseteq Event /\ clean[p] \subseteq Event
      /\ \A p \in Producer : batch[p] \cap clean[p] = {}
      /\ \A e \in Event : \A c \in Channels(e) : copies[e][c] \in Nat
      /\ faults \in Nat
  BY FaultsAssumption DEF TypeOK, Safe, Held
<1>1. ASSUME NEW e \in Event, Write(e) \/ Finish(e)  PROVE Account'
  BY <1>1 DEF Write, Finish, producerVars, Account, CleanAt, QueuedAt
<1>2. ASSUME NEW p \in Producer, Start(p)  PROVE Account'
  BY <1>2 DEF Start, Account, CleanAt, QueuedAt
<1>3. ASSUME NEW p \in Producer, Poll(p)  PROVE Account'
  <2>1. Unstamped \subseteq Event  BY DEF Unstamped
  <2>2. FirstOf(Unstamped) \subseteq Unstamped  BY <1>3, <2>1, FirstOfPart DEF Poll
  <2>3. /\ batch' = [q \in Producer |-> IF q = p THEN FirstOf(Unstamped) ELSE batch[q]]
        /\ UNCHANGED <<stamp, clean, copies, faults>>
    BY <1>3 DEF Poll, TypeOK
  <2>4. \A e \in Event : stamp[e] # None => e \notin batch'[p]
    BY <2>2, <2>3 DEF Unstamped
  <2>5. ASSUME NEW e \in Event, NEW c \in Channels(e)
        PROVE  IF stamp'[e] = None
               THEN copies'[e][c] <= faults' + Cardinality(CleanAt(e)')
               ELSE copies'[e][c] + Cardinality(QueuedAt(e)') <= faults' + Cardinality(Producer)
    BY <2>3, <2>4, AccountKept DEF Account
  <2> QED  BY <2>5 DEF Account
<1>4. ASSUME NEW p \in Producer, MarkBroadcast(p)  PROVE Account'
  <2>1. UNCHANGED <<row, copies, faults>> /\ stamp' = Stamped(p) /\ EndCycle(p, "idle")
    BY <1>4 DEF MarkBroadcast
  <2>2. /\ batch' = [q \in Producer |-> IF q = p THEN {} ELSE batch[q]]
        /\ clean' = [q \in Producer |-> IF q = p THEN {} ELSE clean[q]]
    BY <2>1, EndCycleIs
  <2>3. ASSUME NEW e \in Event, NEW c \in Channels(e)
        PROVE  IF stamp'[e] = None
               THEN copies'[e][c] <= faults' + Cardinality(CleanAt(e)')
               ELSE copies'[e][c] + Cardinality(QueuedAt(e)') <= faults' + Cardinality(Producer)
    <3>1. CASE stamp[e] = None /\ e \in clean[p]
      <4>1. stamp'[e] # None  BY <2>1, <3>1, ProducerAssumption DEF Stamped
      <4>2. copies[e][c] <= faults + Cardinality(CleanAt(e))  BY <3>1 DEF Account
      <4>3. /\ CleanAt(e) \subseteq Producer \ QueuedAt(e)
            /\ QueuedAt(e)' \subseteq QueuedAt(e)
            /\ QueuedAt(e) \subseteq Producer
        BY <1>0, <2>2 DEF CleanAt, QueuedAt
      <4>4. Cardinality(Producer \ QueuedAt(e)) = Cardinality(Producer) - Cardinality(QueuedAt(e))
        <5>1. Producer \cap QueuedAt(e) = QueuedAt(e)  BY <4>3
        <5> QED  BY <5>1, ProducerAssumption, FS_Difference
      <4>5. /\ Cardinality(CleanAt(e)) <= Cardinality(Producer \ QueuedAt(e))
            /\ Cardinality(CleanAt(e)) \in Nat /\ Cardinality(Producer \ QueuedAt(e)) \in Nat
        BY <4>3, CountSubset
      <4>6. /\ Cardinality(QueuedAt(e)') <= Cardinality(QueuedAt(e))
            /\ Cardinality(QueuedAt(e)') \in Nat /\ Cardinality(QueuedAt(e)) \in Nat
        BY <4>3, CountSubset
      <4>7. Cardinality(Producer) \in Nat  BY CountSubset
      <4>8. copies'[e][c] = copies[e][c] /\ faults' = faults  BY <2>1
      <4> QED  BY <1>0, <4>1, <4>2, <4>4, <4>5, <4>6, <4>7, <4>8
    <3>2. CASE ~ (stamp[e] = None /\ e \in clean[p])
      <4>1. stamp'[e] = stamp[e]  BY <2>1, <3>2 DEF Stamped
      <4>2. CASE e \notin clean[p]  BY <2>1, <2>2, <4>1, <4>2, AccountKept DEF Account
      <4>3. CASE stamp[e] # None
        <5>1. QueuedAt(e)' \subseteq QueuedAt(e) /\ QueuedAt(e) \subseteq Producer
          BY <2>2 DEF QueuedAt
        <5>2. /\ Cardinality(QueuedAt(e)') <= Cardinality(QueuedAt(e))
              /\ Cardinality(QueuedAt(e)') \in Nat /\ Cardinality(QueuedAt(e)) \in Nat
          BY <5>1, CountSubset
        <5>3. copies[e][c] + Cardinality(QueuedAt(e)) <= faults + Cardinality(Producer)
          BY <4>3 DEF Account
        <5>4. Cardinality(Producer) \in Nat  BY CountSubset
        <5>5. copies'[e][c] = copies[e][c] /\ faults' = faults  BY <2>1
        <5> QED  BY <1>0, <4>1, <4>3, <5>2, <5>3, <5>4, <5>5
      <4> QED  BY <3>2, <4>2, <4>3
    <3> QED  BY <3>1, <3>2
  <2> QED  BY <2>3 DEF Account
<1>5. ASSUME NEW p \in Producer, NEW e \in Event, Publish(p, e)  PROVE Account'
  <2>1. /\ e \in batch[p] /\ e \notin clean[p] /\ UNCHANGED <<stamp, faults>>
        /\ batch' = [q \in Producer |-> IF q = p THEN batch[p] \ {e} ELSE batch[q]]
        /\ clean' = [q \in Producer |-> IF q = p THEN clean[p] \cup {e} ELSE clean[q]]
        /\ \A f \in Event : \A c \in Channels(f) :
             copies'[f][c] = copies[f][c] + (IF f = e THEN 1 ELSE 0)
    <3>1. CleanAfter(p, e, Channels(e)) = clean[p] \cup {e}  BY DEF CleanAfter
    <3>2. /\ e \in batch[p] /\ UNCHANGED <<stamp, faults>>
          /\ batch' = [q \in Producer |-> IF q = p THEN batch[p] \ {e} ELSE batch[q]]
          /\ clean' = [q \in Producer |->
                        IF q = p THEN CleanAfter(p, e, Channels(e)) ELSE clean[q]]
          /\ \A f \in Event : \A c \in Channels(f) :
               copies'[f][c] = copies[f][c] + (IF f = e /\ c \in Channels(e) THEN 1 ELSE 0)
      BY <1>5, PublishingIs DEF Publish
    <3>3. e \notin clean[p]  BY <1>0, <3>2
    <3>4. \A f \in Event : \A c \in Channels(f) :
            copies'[f][c] = copies[f][c] + (IF f = e THEN 1 ELSE 0)
      BY <3>2
    <3> QED  BY <3>1, <3>2, <3>3, <3>4
  <2>2. ASSUME NEW f \in Event, NEW c \in Channels(f)
        PROVE  IF stamp'[f] = None
               THEN copies'[f][c] <= faults' + Cardinality(CleanAt(f)')
               ELSE copies'[f][c] + Cardinality(QueuedAt(f)') <= faults' + Cardinality(Producer)
    <3>1. CASE f # e
      <4>1. \A d \in Channels(f) : copies'[f][d] = copies[f][d]  BY <1>0, <2>1, <3>1
      <4> QED  BY <2>1, <3>1, <4>1, AccountKept DEF Account
    <3>2. CASE f = e
      <4>1. copies'[e][c] = copies[e][c] + 1 /\ faults' = faults  BY <2>1, <3>2
      <4>2. CASE stamp[e] = None
        <5>1. /\ CleanAt(e)' \in SUBSET Producer /\ p \in CleanAt(e)'
              /\ CleanAt(e)' \ {p} = CleanAt(e)
          BY <2>1 DEF CleanAt
        <5>2. Cardinality(CleanAt(e)') = Cardinality(CleanAt(e)) + 1
          BY <5>1, CountWithout
        <5>3. copies[e][c] <= faults + Cardinality(CleanAt(e))  BY <3>2, <4>2 DEF Account
        <5> QED  BY <1>0, <2>1, <3>2, <4>1, <4>2, <5>2, <5>3, CountsAre
      <4>3. CASE stamp[e] # None
        <5>1. /\ QueuedAt(e) \in SUBSET Producer /\ p \in QueuedAt(e)
              /\ QueuedAt(e)' = QueuedAt(e) \ {p}
          BY <2>1 DEF QueuedAt
        <5>2. /\ Cardinality(QueuedAt(e)) = Cardinality(QueuedAt(e)') + 1
              /\ Cardinality(QueuedAt(e)') \in Nat
          BY <5>1, CountWithout
        <5>3. copies[e][c] + Cardinality(QueuedAt(e)) <= faults + Cardinality(Producer)
          BY <3>2, <4>3 DEF Account
        <5> QED  BY <1>0, <2>1, <3>2, <4>1, <4>3, <5>2, <5>3, CountsAre
      <4> QED  BY <4>2, <4>3
    <3> QED  BY <3>1, <3>2
  <2> QED  BY <2>2 DEF Account
<1>6. ASSUME NEW p \in Producer, NEW e \in Event, Skip(p, e)  PROVE Account'
  <2>1. /\ pc[p] = "publish" /\ e \in batch[p] /\ UNCHANGED <<row, stamp, copies, faults>>
        /\ Advance(p, e, clean[p]) /\ clean[p] \in SUBSET Event
    BY <1>0, <1>6 DEF Skip, NextInBatch
  <2>2. /\ batch' = [q \in Producer |-> IF q = p THEN batch[p] \ {e} ELSE batch[q]]
        /\ clean' = [q \in Producer |-> IF q = p THEN clean[p] ELSE clean[q]]
    BY <2>1, AdvanceIs
  <2>3. ASSUME NEW f \in Event, NEW c \in Channels(f)
        PROVE  IF stamp'[f] = None
               THEN copies'[f][c] <= faults' + Cardinality(CleanAt(f)')
               ELSE copies'[f][c] + Cardinality(QueuedAt(f)') <= faults' + Cardinality(Producer)
    BY <2>1, <2>2, AccountKept DEF Account
  <2> QED  BY <2>3 DEF Account
<1>7. ASSUME NEW p \in Producer, MarkFails(p) \/ Crash(p)  PROVE Account'
  <2>1. /\ UNCHANGED <<row, stamp, copies>> /\ faults' = faults + 1
        /\ EndCycle(p, "idle") \/ EndCycle(p, "down")
    BY <1>7 DEF MarkFails, Crash, Fault
  <2>2. /\ batch' = [q \in Producer |-> IF q = p THEN {} ELSE batch[q]]
        /\ clean' = [q \in Producer |-> IF q = p THEN {} ELSE clean[q]]
    BY <2>1, EndCycleIs
  <2>3. ASSUME NEW f \in Event, NEW c \in Channels(f)
        PROVE  IF stamp'[f] = None
               THEN copies'[f][c] <= faults' + Cardinality(CleanAt(f)')
               ELSE copies'[f][c] + Cardinality(QueuedAt(f)') <= faults' + Cardinality(Producer)
    BY <2>1, <2>2, AccountKept DEF Account
  <2> QED  BY <2>3 DEF Account
<1>8. ASSUME NEW p \in Producer, NEW e \in Event, NEW ok,
             e \in batch[p], UNCHANGED stamp, faults' = faults + 1,
             \A q \in Producer : q # p => batch'[q] = batch[q] /\ clean'[q] = clean[q],
             batch'[p] \subseteq batch[p],
             \A f \in Event : \A c \in Channels(f) :
               copies'[f][c] = copies[f][c] + (IF f = e /\ c \in ok THEN 1 ELSE 0)
      PROVE  Account'
  <2>1. ASSUME NEW f \in Event, NEW c \in Channels(f)
        PROVE  IF stamp'[f] = None
               THEN copies'[f][c] <= faults' + Cardinality(CleanAt(f)')
               ELSE copies'[f][c] + Cardinality(QueuedAt(f)') <= faults' + Cardinality(Producer)
    <3>1. CASE f # e
      <4>1. \A d \in Channels(f) : copies'[f][d] = copies[f][d]  BY <1>0, <1>8, <3>1
      <4> QED  BY <1>8, <3>1, <4>1, AccountKept DEF Account
    <3>2. CASE f = e
      <4>1. copies'[e][c] \in Nat /\ copies'[e][c] <= copies[e][c] + 1  BY <1>0, <1>8, <3>2
      <4>2. /\ CleanAt(e) \subseteq CleanAt(e)' /\ CleanAt(e)' \in SUBSET Producer
            /\ QueuedAt(e)' \subseteq QueuedAt(e) /\ QueuedAt(e) \in SUBSET Producer
        BY <1>0, <1>8 DEF CleanAt, QueuedAt
      <4>3. /\ Cardinality(CleanAt(e)) <= Cardinality(CleanAt(e)')
            /\ Cardinality(CleanAt(e)) \in Nat /\ Cardinality(CleanAt(e)') \in Nat
            /\ Cardinality(QueuedAt(e)') <= Cardinality(QueuedAt(e))
            /\ Cardinality(QueuedAt(e)) \in Nat /\ Cardinality(QueuedAt(e)') \in Nat
            /\ Cardinality(Producer) \in Nat
        BY <4>2, CountSubset
      <4>4. IF stamp[e] = None
            THEN copies[e][c] <= faults + Cardinality(CleanAt(e))
            ELSE copies[e][c] + Cardinality(QueuedAt(e)) <= faults + Cardinality(Producer)
        BY <3>2 DEF Account
      <4>5. copies[e][c] \in Nat  BY <1>0, <3>2
      <4> QED  BY <1>0, <1>8, <3>2, <4>1, <4>3, <4>4, <4>5
    <3> QED  BY <3>1, <3>2
  <2> QED  BY <2>1 DEF Account
<1>9. ASSUME NEW p \in Producer, NEW e \in Event, NEW ok, PublishFails(p, e, ok)  PROVE Account'
  <2>1. /\ UNCHANGED stamp /\ faults' = faults + 1 /\ e \in batch[p]
        /\ batch' = [q \in Producer |-> IF q = p THEN batch[p] \ {e} ELSE batch[q]]
        /\ clean' = [q \in Producer |-> IF q = p THEN CleanAfter(p, e, ok) ELSE clean[q]]
        /\ \A f \in Event : \A c \in Channels(f) :
             copies'[f][c] = copies[f][c] + (IF f = e /\ c \in ok THEN 1 ELSE 0)
    BY <1>9, PublishingIs DEF PublishFails, Fault
  <2> QED  BY <1>8, <2>1
<1>10. ASSUME NEW p \in Producer, NEW e \in Event, NEW ok, CrashInEntry(p, e, ok)  PROVE Account'
  <2>1. /\ UNCHANGED stamp /\ faults' = faults + 1 /\ e \in batch[p]
        /\ EndCycle(p, "down") /\ copies' = Copied(e, ok)
    BY <1>10 DEF CrashInEntry, NextInBatch, Fault
  <2>2. /\ batch' = [q \in Producer |-> IF q = p THEN {} ELSE batch[q]]
        /\ clean' = [q \in Producer |-> IF q = p THEN {} ELSE clean[q]]
    BY <2>1, EndCycleIs
  <2>3. \A f \in Event : \A c \in Channels(f) :
          copies'[f][c] = copies[f][c] + (IF f = e /\ c \in ok THEN 1 ELSE 0)
    BY <2>1, CopiedIs
  <2> QED  BY <1>8, <2>1, <2>2, <2>3
<1>11. CASE UNCHANGED vars  BY <1>11 DEF vars, Account, CleanAt, QueuedAt
<1> QED
  BY <1>1, <1>2, <1>3, <1>4, <1>5, <1>6, <1>7, <1>9, <1>10, <1>11
  DEF Next, ProducerStep, ProducerFault

LEMMA AccountInit == Init => Account
<1> SUFFICES ASSUME Init  PROVE Account  OBVIOUS
<1>1. TypeOK /\ faults = 0 /\ \A e \in Event : stamp[e] = None
  BY TypeInit DEF Init
<1>2. \A e \in Event : \A c \in Channels(e) : copies[e][c] = 0  BY DEF Init
<1>3. \A e \in Event : Cardinality(CleanAt(e)) \in Nat  BY CountsAre
<1> QED  BY <1>1, <1>2, <1>3 DEF Account

\* Duplicates have a cause: a channel carries an entry once, and once more for
\* each further producer and each fault.
THEOREM DuplicatesBounded == Spec => []CopiesBounded
<1>1. Safe /\ Account /\ [Next]_vars => Safe' /\ Account'
  BY SafeStep, TypeStep, AccountStep DEF Safe
<1>2. Safe /\ Account => CopiesBounded
  <2> SUFFICES ASSUME Safe, Account, NEW e \in Event, NEW c \in Channels(e)
               PROVE  copies[e][c] <= Cardinality(Producer) + faults
    BY DEF CopiesBounded
  <2>1. copies[e][c] \in Nat /\ faults \in Nat  BY FaultsAssumption DEF Safe, TypeOK
  <2>2. CleanAt(e) \in SUBSET Producer  BY DEF CleanAt
  <2>3. /\ Cardinality(CleanAt(e)) <= Cardinality(Producer)
        /\ Cardinality(CleanAt(e)) \in Nat /\ Cardinality(QueuedAt(e)) \in Nat
        /\ Cardinality(Producer) \in Nat
    BY <2>2, CountSubset, CountsAre
  <2>4. IF stamp[e] = None
        THEN copies[e][c] <= faults + Cardinality(CleanAt(e))
        ELSE copies[e][c] + Cardinality(QueuedAt(e)) <= faults + Cardinality(Producer)
    BY DEF Account
  <2> QED  BY <2>1, <2>3, <2>4
<1> QED  BY SafeInit, AccountInit, <1>1, <1>2, PTL DEF Spec

-----------------------------------------------------------------------------
(* Steps *)

\* An entry's stamp stays as it was first set.
THEOREM StampsAreFinal == Spec => StampIsFinal
<1>1. TypeOK /\ [Next]_vars => [\A e \in Event : stamp[e] # None => stamp'[e] = stamp[e]]_vars
  BY DEF TypeOK, Next, ProducerStep, ProducerFault, Write, Finish, Start, Poll, Publish, Skip,
         PublishFails, MarkBroadcast, MarkFails, Crash, CrashInEntry, Stamped, producerVars, vars
<1> QED  BY ProducerTypes, <1>1, PTL DEF Spec, StampIsFinal

\* Nothing the feed is made of changes.
LEMMA FeedStutters ==
  ASSUME UNCHANGED <<row, stamp, copies>>
  PROVE  UNCHANGED Feed!vars
BY DEF Feed!vars, Committed, Heard

\* A publication announces its entry, or leaves the feed as it was.
LEMMA PublicationAnnounces ==
  ASSUME Safe, NEW e \in Event, NEW ok, row[e] = "committed",
         UNCHANGED <<row, stamp>>, copies' = Copied(e, ok)
  PROVE  Feed!Announce(e) \/ UNCHANGED Feed!vars
<1> DEFINE announced == {f \in Committed : Channels(f) # {} /\ Heard(f)}
           closed == {f \in Event : stamp[f] # None}
<1>0. TypeOK  BY DEF Safe
<1>1. \A f \in Event : \A c \in Channels(f) :
        /\ copies[f][c] \in Nat
        /\ copies'[f][c] = copies[f][c] + (IF f = e /\ c \in ok THEN 1 ELSE 0)
  <2>1. \A f \in Event : \A c \in Channels(f) : copies[f][c] \in Nat  BY <1>0 DEF TypeOK
  <2> QED  BY <1>0, <2>1, CopiedIs
<1>2. \A f \in Event : Heard(f) => Heard(f)'  BY <1>1 DEF Heard
<1>3. \A f \in Event : f # e => (Heard(f) <=> Heard(f)')  BY <1>1 DEF Heard
<1>4. Committed' = Committed /\ closed' = closed  BY DEF Committed
<1>5. announced' = announced \/ announced' = announced \cup {e}
  <2>1. \A f \in Event : f # e => (f \in announced' <=> f \in announced)
    BY <1>3, <1>4
  <2>2. e \in announced => e \in announced'  BY <1>2, <1>4
  <2>3. announced \subseteq Event /\ announced' \subseteq Event  BY DEF Committed
  <2> QED  BY <2>1, <2>2, <2>3
<1>6. e \in Committed  BY DEF Committed
<1>7. CASE announced' = announced  BY <1>4, <1>7 DEF Feed!vars
<1>8. CASE announced' = announced \cup {e}
  BY <1>4, <1>6, <1>8 DEF Feed!Announce
<1> QED  BY <1>5, <1>7, <1>8

LEMMA FeedStep ==
  ASSUME Safe, [Next]_vars
  PROVE  [Feed!Next]_(Feed!vars)
<1> DEFINE announced == {f \in Committed : Channels(f) # {} /\ Heard(f)}
           closed == {f \in Event : stamp[f] # None}
<1> TypeOK  BY DEF Safe
<1>1. ASSUME NEW e \in Event, Write(e)  PROVE UNCHANGED Feed!vars
  <2>1. UNCHANGED <<stamp, copies>> /\ Committed' = Committed
    BY <1>1 DEF Write, Committed, TypeOK
  <2> QED  BY <2>1 DEF Feed!vars, Heard
<1>2. ASSUME NEW e \in Event, Finish(e)  PROVE [Feed!Next]_(Feed!vars)
  <2>1. /\ UNCHANGED <<stamp, copies>> /\ row[e] = "open"
        /\ row'[e] \in {"committed", "aborted"} /\ \A f \in Event : f # e => row'[f] = row[f]
    BY <1>2 DEF Finish, TypeOK
  <2>2. closed' = closed  BY <2>1
  <2>3. announced' = announced
    <3>1. \A f \in Event : Heard(f)' <=> Heard(f)  BY <2>1 DEF Heard
    <3>2. ~ (Channels(e) # {} /\ Heard(e))  BY <2>1 DEF Safe, NoPhantom, Heard
    <3>3. \A f \in Event : f # e => (f \in Committed' <=> f \in Committed)
      BY <2>1 DEF Committed
    <3>4. \A f \in Event : f \in announced' <=> f \in announced  BY <3>1, <3>2, <3>3
    <3> QED  BY <3>4 DEF Committed
  <2>4. CASE row'[e] = "committed"
    <3>1. e \notin Committed /\ Committed' = Committed \cup {e}
      BY <2>1, <2>4 DEF Committed
    <3>2. Feed!Record(e)  BY <2>2, <2>3, <3>1 DEF Feed!Record
    <3> QED  BY <3>2 DEF Feed!Next
  <2>5. CASE row'[e] = "aborted"
    <3>1. Committed' = Committed  BY <2>1, <2>5 DEF Committed
    <3> QED  BY <2>2, <2>3, <3>1 DEF Feed!vars
  <2> QED  BY <2>1, <2>4, <2>5
<1>3. ASSUME NEW p \in Producer, MarkBroadcast(p)  PROVE [Feed!Next]_(Feed!vars)
  <2>1. UNCHANGED <<row, copies>> /\ stamp' = Stamped(p) /\ clean[p] \in SUBSET Event
    BY <1>3 DEF MarkBroadcast, TypeOK
  <2>2. Committed' = Committed /\ announced' = announced  BY <2>1 DEF Committed, Heard
  <2>3. closed' = closed \cup clean[p]
    <3>1. \A e \in Event : stamp'[e] # None <=> stamp[e] # None \/ e \in clean[p]
      BY <2>1, ProducerAssumption DEF Stamped
    <3> QED  BY <2>1, <3>1
  <2>4. \A e \in clean[p] : row[e] = "committed" /\ Heard(e)  BY DEF Safe, Held
  <2>5. clean[p] \subseteq Committed  BY <2>1, <2>4 DEF Committed
  <2>6. \A e \in clean[p] : Routable(e)  BY DEF Safe, Held
  <2>7. clean[p] \subseteq announced \cup SilentEntries
    BY <2>1, <2>4, <2>5, <2>6 DEF SilentEntries
  <2>8. \E S \in SUBSET Event : Feed!Close(S)
    BY <2>1, <2>2, <2>3, <2>5, <2>7 DEF Feed!Close
  <2> QED  BY <2>8 DEF Feed!Next
<1>4. ASSUME NEW p \in Producer, NEW e \in Event, NEW ok,
             Publish(p, e) \/ PublishFails(p, e, ok) \/ CrashInEntry(p, e, ok)
      PROVE  [Feed!Next]_(Feed!vars)
  <2>1. /\ e \in batch[p] /\ UNCHANGED <<row, stamp>>
        /\ \E k : copies' = Copied(e, k)
    BY <1>4 DEF Publish, PublishFails, CrashInEntry, NextInBatch
  <2>2. row[e] = "committed"  BY <2>1 DEF Safe, Held
  <2>3. Feed!Announce(e) \/ UNCHANGED Feed!vars  BY <2>1, <2>2, PublicationAnnounces
  <2> QED  BY <2>3 DEF Feed!Next
<1>5. ASSUME NEW p \in Producer, NEW e \in Event,
             Start(p) \/ Poll(p) \/ Skip(p, e) \/ MarkFails(p) \/ Crash(p)
      PROVE  UNCHANGED Feed!vars
  BY <1>5, FeedStutters DEF Start, Poll, Skip, MarkFails, Crash
<1>6. ASSUME NEW p \in Producer, Start(p) \/ Poll(p) \/ MarkFails(p) \/ Crash(p)
      PROVE  UNCHANGED Feed!vars
  BY <1>6, FeedStutters DEF Start, Poll, MarkFails, Crash
<1>7. CASE UNCHANGED vars  BY <1>7, FeedStutters DEF vars
<1> QED
  BY <1>1, <1>2, <1>3, <1>4, <1>5, <1>6, <1>7 DEF Next, ProducerStep, ProducerFault

LEMMA FeedInit == Init => Feed!Init
<1> SUFFICES ASSUME Init  PROVE Feed!Init  OBVIOUS
<1>1. Committed = {}  BY DEF Init, Committed
<1>2. {e \in Event : stamp[e] # None} = {}  BY DEF Init
<1> QED  BY <1>1, <1>2 DEF Feed!Init

\* The producers implement the feed's promise of safety, for every log and every
\* number of producers: recorded, then announced, then closed.
THEOREM ProducersImplementFeed == Spec => ProducerImplementsFeed
BY FeedInit, FeedStep, SafeHolds, PTL DEF Spec, ProducerImplementsFeed, Feed!Spec
=============================================================================
