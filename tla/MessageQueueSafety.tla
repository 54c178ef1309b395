------------------------- MODULE MessageQueueSafety -------------------------
(***************************************************************************)
(* Proofs about MessageQueue, for any number of readers, messages and      *)
(* faults: what the queues and a recovering reader hold is disjoint and in *)
(* order, a reader works on what its own buffer holds, nothing goes        *)
(* missing outside a recovery, and every replay is paid for by a fault.    *)
(*                                                                         *)
(* No reader counts copies, so the invariants speak of the queues as sets  *)
(* (QueueLemmas) and of memory; OnePlace is what they come to.             *)
(***************************************************************************)
EXTENDS MessageQueue, QueueLemmas

\* Two readers never share a buffer.
LEMMA OneBufferEach ==
  /\ \A r \in Reader : BufferName(r) \in Buffers
  /\ \A r, q \in Reader : BufferName(r) = BufferName(q) => r = q
BY NameAssumption DEF Buffers, BufferName

\* No message is no message.
LEMMA NoneIsNoMessage == None \notin Message /\ Message \subseteq Nat /\ Poison \subseteq Message
BY BoundAssumption DEF Message

\* A set whose elements are all the same has at most one.
LEMMA AtMostOne ==
  ASSUME NEW S, \A x, y \in S : x = y
  PROVE  /\ Cardinality(S) \in Nat /\ Cardinality(S) <= 1
         /\ S = {} => Cardinality(S) = 0
<1>1. CASE S = {}
  BY <1>1, FS_EmptySet
<1>2. CASE S # {}
  <2>1. PICK x : x \in S  BY <1>2
  <2>2. S = {x}  BY <2>1
  <2> QED BY <1>2, <2>2, FS_Singleton
<1> QED BY <1>1, <1>2

-----------------------------------------------------------------------------
(* Types *)

\* The fault budget.
LEMMA FaultType ==
  ASSUME TypeOK, NEW kind, Fault(kind)
  PROVE  faults' \in 0..MaxFaults /\ faults' = faults + 1
BY BoundAssumption DEF TypeOK, Fault

-----------------------------------------------------------------------------
(* Order: what was never taken waits at the far end, in the order it was sent *)

\* In q, whatever follows a message above k was sent after it.
InOrder(q, k) == \A i, j \in 1..Len(q) : i < j /\ q[i] > k => q[j] > q[i]

LEMMA InOrderAppend ==
  ASSUME NEW q \in Seq(Message), NEW k \in Nat, NEW m \in Message,
         InOrder(q, k), \A x \in ToSet(q) : x < m
  PROVE  InOrder(Append(q, m), k)
<1> DEFINE c == Append(q, m)
<1>1. /\ Len(c) = Len(q) + 1 /\ Len(q) \in Nat
      /\ \A i \in 1..Len(q) : c[i] = q[i] /\ q[i] \in Message /\ q[i] \in ToSet(q)
      /\ c[Len(q) + 1] = m
  BY AppendProperties, LenProperties, ToSetMembers, ElementOfSeq
<1> HIDE DEF c
<1>2. ASSUME NEW i \in 1..Len(c), NEW j \in 1..Len(c), i < j, c[i] > k  PROVE c[j] > c[i]
  <2>1. i \in 1..Len(q)  BY <1>1, <1>2
  <2>2. CASE j \in 1..Len(q)
    BY <2>1, <2>2, <1>1, <1>2 DEF InOrder
  <2>3. CASE j = Len(q) + 1
    <3>1. q[i] < m  BY <2>1, <1>1
    <3> QED BY <3>1, <2>1, <2>3, <1>1, NoneIsNoMessage
  <2> QED BY <2>2, <2>3, <1>1
<1> QED BY <1>2 DEF InOrder, c

LEMMA InOrderCons ==
  ASSUME NEW q \in Seq(Message), NEW k \in Nat, NEW m \in Message,
         InOrder(q, k), m <= k
  PROVE  InOrder(<<m>> \o q, k)
<1> DEFINE c == <<m>> \o q
<1>1. /\ Len(c) = Len(q) + 1 /\ Len(q) \in Nat /\ c[1] = m
      /\ \A i \in 1..Len(q) : c[i + 1] = q[i]
  BY ToSetCons, LenProperties
<1> HIDE DEF c
<1>2. ASSUME NEW i \in 1..Len(c), NEW j \in 1..Len(c), i < j, c[i] > k  PROVE c[j] > c[i]
  <2>1. i # 1
    BY <1>1, <1>2, NoneIsNoMessage
  <2>2. /\ i - 1 \in 1..Len(q) /\ j - 1 \in 1..Len(q) /\ i - 1 < j - 1
        /\ (i - 1) + 1 = i /\ (j - 1) + 1 = j
    BY <2>1, <1>1, <1>2
  <2>3. c[i] = q[i - 1] /\ c[j] = q[j - 1]
    BY <2>2, <1>1
  <2> QED BY <2>2, <2>3, <1>2 DEF InOrder
<1> QED BY <1>2 DEF InOrder, c

LEMMA InOrderTail ==
  ASSUME NEW q \in Seq(Message), NEW k \in Nat, NEW n \in Nat,
         InOrder(q, k), k <= n, q # <<>>
  PROVE  /\ InOrder(Tail(q), n)
         /\ Head(q) > k => \A x \in ToSet(Tail(q)) : x > Head(q)
<1> DEFINE u == Tail(q)
<1>1. /\ u \in Seq(Message) /\ Len(u) = Len(q) - 1 /\ Len(q) \in Nat
      /\ \A i \in 1..Len(u) : u[i] = q[i + 1] /\ i + 1 \in 1..Len(q)
      /\ 1 \in 1..Len(q) /\ Head(q) = q[1]
  BY HeadTailProperties, LenProperties, EmptySeq, ToSetTail
<1>2. ToSet(u) = {u[i] : i \in 1..Len(u)} /\ \A i \in 1..Len(u) : u[i] \in Message
  BY <1>1, ToSetMembers, ElementOfSeq
<1> HIDE DEF u
<1>3. ASSUME NEW i \in 1..Len(u), NEW j \in 1..Len(u), i < j, u[i] > n  PROVE u[j] > u[i]
  <2>0. u[i] \in Nat /\ u[i] = q[i + 1]
    BY <1>1, <1>2, NoneIsNoMessage
  <2>1. q[i + 1] > k
    BY <2>0, <1>3
  <2>2. i + 1 < j + 1  BY <1>3
  <2> QED BY <2>1, <2>2, <1>1 DEF InOrder
<1>4. ASSUME Head(q) > k, NEW i \in 1..Len(u)  PROVE u[i] > Head(q)
  <2>1. 1 < i + 1  BY <1>1
  <2> QED BY <2>1, <1>1, <1>4 DEF InOrder
<1> QED BY <1>2, <1>3, <1>4 DEF InOrder, u

-----------------------------------------------------------------------------
(* The invariant of the queues *)

\* What the main queue, the buffers and the recovering readers hold is disjoint.
NothingTwice ==
  /\ IsInjective(main)
  /\ \A b \in Buffers : IsInjective(buffer[b]) /\ ToSet(buffer[b]) \cap ToSet(main) = {}
  /\ \A b, c \in Buffers : b # c => ToSet(buffer[b]) \cap ToSet(buffer[c]) = {}
  /\ \A r \in Reader : rpc[r] = "recover" =>
       held[r] \notin ToSet(main) /\ \A b \in Buffers : held[r] \notin ToSet(buffer[b])
  /\ \A r, q \in Reader :
       rpc[r] = "recover" /\ rpc[q] = "recover" /\ held[r] = held[q] /\ held[r] # None => r = q

\* What was never taken is in the main queue behind whatever was put back, and
\* nothing else was never taken.
FreshWaits ==
  /\ InOrder(main, taken)
  /\ (taken + 1)..sent \subseteq ToSet(main)
  /\ ToSet(main) \subseteq 1..sent
  /\ \A b \in Buffers : ToSet(buffer[b]) \subseteq 1..taken
  /\ \A r \in Reader : held[r] # None => held[r] <= taken

QueueInv == TypeOK /\ NothingTwice /\ FreshWaits

\* In a state of QueueInv the queues are what they hold.
LEMMA QueuesHold ==
  ASSUME QueueInv
  PROVE  /\ main \in Seq(Message) /\ ToSet(main) \subseteq Message
         /\ \A b \in Buffers : buffer[b] \in Seq(Message) /\ ToSet(buffer[b]) \subseteq Message
         /\ sent \in Nat /\ taken \in Nat /\ taken <= sent /\ sent <= MaxSent /\ MaxSent \in Nat
BY ToSetMembers, BoundAssumption DEF QueueInv, TypeOK

LEMMA QueueInvInit == Init => QueueInv
<1> SUFFICES ASSUME Init PROVE QueueInv
  OBVIOUS
<1>1. <<>> \in Seq(Message) /\ Len(<<>>) = 0 /\ ToSet(<<>>) = {} /\ IsInjective(<<>>)
  BY EmptySeq, ToSetEmpty
<1>2. TypeOK
  BY <1>1, BoundAssumption DEF Init, TypeOK
<1>3. NothingTwice
  BY <1>1 DEF Init, NothingTwice
<1>4. FreshWaits
  BY <1>1, BoundAssumption DEF Init, FreshWaits, InOrder
<1> QED BY <1>2, <1>3, <1>4 DEF QueueInv

-----------------------------------------------------------------------------
(* What each queue operation does to what the queues hold *)

\* One buffer is written and the others are left alone.
LEMMA BufferWritten ==
  ASSUME QueueInv, NEW r \in Reader, NEW q \in Seq(Message), BufferIs(r, q)
  PROVE  /\ buffer' \in [Buffers -> Seq(Message)]
         /\ buffer'[BufferName(r)] = q
         /\ \A b \in Buffers : b # BufferName(r) => buffer'[b] = buffer[b]
BY OneBufferEach DEF QueueInv, TypeOK, BufferIs

\* A message taken off the main queue is in its reader's buffer.
LEMMA StagedHolds ==
  ASSUME QueueInv, NEW r \in Reader, main # <<>>, BufferIs(r, Staged(r)), main' = Tail(main)
  PROVE  /\ Head(main) \in Message /\ Head(main) \in ToSet(main)
         /\ main' \in Seq(Message) /\ IsInjective(main') /\ ToSet(main') = ToSet(main) \ {Head(main)}
         /\ buffer' \in [Buffers -> Seq(Message)]
         /\ IsInjective(buffer'[BufferName(r)])
         /\ ToSet(buffer'[BufferName(r)]) = ToSet(buffer[BufferName(r)]) \cup {Head(main)}
         /\ \A b \in Buffers : b # BufferName(r) => buffer'[b] = buffer[b]
<1>1. /\ IsInjective(main) /\ main \in Seq(Message)
      /\ BufferName(r) \in Buffers /\ buffer[BufferName(r)] \in Seq(Message)
      /\ IsInjective(buffer[BufferName(r)])
      /\ ToSet(buffer[BufferName(r)]) \cap ToSet(main) = {}
  BY QueuesHold, OneBufferEach DEF QueueInv, NothingTwice
<1>2. /\ Head(main) \in Message /\ Head(main) \in ToSet(main)
      /\ main' \in Seq(Message) /\ IsInjective(main') /\ ToSet(main') = ToSet(main) \ {Head(main)}
  BY <1>1, ToSetTail
<1>3. Staged(r) = Append(buffer[BufferName(r)], Head(main))
  BY DEF Staged, Buffered
<1>4. /\ Staged(r) \in Seq(Message) /\ IsInjective(Staged(r))
      /\ ToSet(Staged(r)) = ToSet(buffer[BufferName(r)]) \cup {Head(main)}
  BY <1>1, <1>2, <1>3, ToSetAppend
<1> QED BY <1>2, <1>4, BufferWritten

\* A message popped off a buffer is in none.
LEMMA PoppedHolds ==
  ASSUME QueueInv, NEW r \in Reader, Buffered(r) # <<>>, BufferIs(r, Tail(Buffered(r)))
  PROVE  /\ Head(Buffered(r)) \in Message /\ Head(Buffered(r)) \in ToSet(buffer[BufferName(r)])
         /\ buffer' \in [Buffers -> Seq(Message)]
         /\ IsInjective(buffer'[BufferName(r)])
         /\ ToSet(buffer'[BufferName(r)]) = ToSet(buffer[BufferName(r)]) \ {Head(Buffered(r))}
         /\ \A b \in Buffers : b # BufferName(r) => buffer'[b] = buffer[b]
<1>1. /\ Buffered(r) = buffer[BufferName(r)] /\ Buffered(r) \in Seq(Message)
      /\ IsInjective(Buffered(r))
  BY QueuesHold, OneBufferEach DEF QueueInv, NothingTwice, Buffered
<1>2. /\ Head(Buffered(r)) \in Message /\ Head(Buffered(r)) \in ToSet(Buffered(r))
      /\ Tail(Buffered(r)) \in Seq(Message) /\ IsInjective(Tail(Buffered(r)))
      /\ ToSet(Tail(Buffered(r))) = ToSet(Buffered(r)) \ {Head(Buffered(r))}
  BY <1>1, ToSetTail
<1> QED BY <1>1, <1>2, BufferWritten

\* A message deleted from a buffer is in none.
LEMMA DeletedHolds ==
  ASSUME QueueInv, NEW r \in Reader, BufferIs(r, RemoveFirst(Buffered(r), held[r]))
  PROVE  /\ buffer' \in [Buffers -> Seq(Message)]
         /\ IsInjective(buffer'[BufferName(r)])
         /\ ToSet(buffer'[BufferName(r)]) = ToSet(buffer[BufferName(r)]) \ {held[r]}
         /\ \A b \in Buffers : b # BufferName(r) => buffer'[b] = buffer[b]
<1>1. /\ Buffered(r) = buffer[BufferName(r)] /\ Buffered(r) \in Seq(Message)
      /\ IsInjective(Buffered(r))
  BY QueuesHold, OneBufferEach DEF QueueInv, NothingTwice, Buffered
<1>2. /\ RemoveFirst(Buffered(r), held[r]) \in Seq(Message)
      /\ ToSet(RemoveFirst(Buffered(r), held[r])) = ToSet(Buffered(r)) \ {held[r]}
      /\ IsInjective(RemoveFirst(Buffered(r), held[r]))
  BY <1>1, RemoveFirstInSeq, ToSetRemoveFirst
<1> QED BY <1>1, <1>2, BufferWritten

-----------------------------------------------------------------------------
(* The invariant of the queues, action by action *)

LEMMA EnqueueQueue == QueueInv /\ Enqueue => QueueInv'
<1> SUFFICES ASSUME QueueInv, Enqueue  PROVE QueueInv'
  OBVIOUS
<1>1. /\ sent < MaxSent /\ sent' = sent + 1 /\ main' = Append(main, sent + 1)
      /\ UNCHANGED <<buffer, rpc, held, taken, handled, faults>>
  BY DEF Enqueue, readVars
<1>2. sent + 1 \in Message /\ sent' \in 0..MaxSent /\ taken \in 0..sent'
  BY <1>1, QueuesHold DEF Message
<1>3. \A x \in ToSet(main) : x < sent + 1 /\ x \in Nat
  BY QueuesHold, NoneIsNoMessage DEF QueueInv, FreshWaits
<1>4. /\ main' \in Seq(Message) /\ ToSet(main') = ToSet(main) \cup {sent + 1}
      /\ IsInjective(main') /\ InOrder(main', taken)
  <2>1. /\ main \in Seq(Message) /\ taken \in Nat /\ sent + 1 \in Message /\ sent + 1 \notin ToSet(main)
        /\ IsInjective(main) /\ InOrder(main, taken) /\ \A x \in ToSet(main) : x < sent + 1
    <3>1. IsInjective(main) /\ InOrder(main, taken)
      BY DEF QueueInv, NothingTwice, FreshWaits
    <3>2. sent + 1 \notin ToSet(main)
      BY <1>3, QueuesHold
    <3> QED BY <3>1, <3>2, <1>2, <1>3, QueuesHold
  <2>2. InOrder(main', taken)
    BY <1>1, <2>1, InOrderAppend
  <2> QED BY <1>1, <2>1, <2>2, ToSetAppend
<1>5. TypeOK'
  BY <1>1, <1>2, <1>4 DEF QueueInv, TypeOK
<1>6. /\ \A b \in Buffers : sent + 1 \notin ToSet(buffer[b])
      /\ \A r \in Reader : held[r] # sent + 1
  <2>1. sent \in Nat /\ taken \in Nat /\ taken <= sent
    BY QueuesHold
  <2>2. \A b \in Buffers : ToSet(buffer[b]) \subseteq 1..taken
    BY DEF QueueInv, FreshWaits
  <2>3. \A r \in Reader : held[r] # None => held[r] <= taken
    BY DEF QueueInv, FreshWaits
  <2>4. sent + 1 # None
    BY <1>2, NoneIsNoMessage
  <2> QED BY <2>1, <2>2, <2>3, <2>4
<1>7. NothingTwice'
  BY <1>1, <1>4, <1>6 DEF QueueInv, NothingTwice
<1>8. FreshWaits'
  BY <1>1, <1>2, <1>4, QueuesHold DEF QueueInv, FreshWaits
<1> QED BY <1>5, <1>7, <1>8 DEF QueueInv

\* The steps that touch neither the queues nor what was taken.
LEMMA MemoryQueue ==
  ASSUME QueueInv, TypeOK', UNCHANGED <<main, buffer, sent, taken>>,
         \A r \in Reader : held'[r] \in {held[r], None}
                          /\ (rpc'[r] = "recover" => rpc[r] = "recover" \/ held'[r] = None)
  PROVE  QueueInv'
<1>1. None \notin Message
  BY NoneIsNoMessage
<1>2. \A b \in Buffers : None \notin ToSet(buffer[b])
  BY <1>1, QueuesHold
<1>3. None \notin ToSet(main)
  BY <1>1, QueuesHold
<1>4. NothingTwice'
  BY <1>2, <1>3 DEF QueueInv, NothingTwice
<1>5. FreshWaits'
  BY DEF QueueInv, FreshWaits
<1> QED BY <1>4, <1>5 DEF QueueInv

\* Taking a message: the head of the queue moves into the buffer of its reader.
LEMMA StageQueue ==
  ASSUME QueueInv, TypeOK', NEW r \in Reader,
         main # <<>>, BufferIs(r, Staged(r)), main' = Tail(main), Taken, sent' = sent,
         \A q \in Reader : /\ held'[q] \in {held[q], Head(main)}
                           /\ (rpc'[q] = "recover" => rpc[q] = "recover" /\ held'[q] = held[q])
  PROVE  QueueInv'
<1> DEFINE h == Head(main)
           n == IF h > taken THEN h ELSE taken
<1>1. /\ h \in Message /\ h \in ToSet(main)
      /\ main' \in Seq(Message) /\ IsInjective(main') /\ ToSet(main') = ToSet(main) \ {h}
      /\ buffer' \in [Buffers -> Seq(Message)]
      /\ IsInjective(buffer'[BufferName(r)])
      /\ ToSet(buffer'[BufferName(r)]) = ToSet(buffer[BufferName(r)]) \cup {h}
      /\ \A b \in Buffers : b # BufferName(r) => buffer'[b] = buffer[b]
  BY StagedHolds
<1>2. /\ taken' = n /\ h \in 1..sent /\ taken \in Nat /\ taken <= n /\ n \in Nat /\ sent \in Nat
      /\ h <= n /\ h \in Nat
  BY <1>1, QueuesHold, NoneIsNoMessage DEF Taken, QueueInv, FreshWaits
<1>3. /\ InOrder(main', n)
      /\ h > taken => \A x \in ToSet(main') : x > h
  BY <1>2, QueuesHold, InOrderTail DEF QueueInv, FreshWaits
<1> HIDE DEF h, n
<1>4. NothingTwice'
  <2>1. ASSUME NEW b \in Buffers
        PROVE  IsInjective(buffer'[b]) /\ ToSet(buffer'[b]) \cap ToSet(main') = {}
    <3>1. IsInjective(buffer[b]) /\ ToSet(buffer[b]) \cap ToSet(main) = {}
      BY DEF QueueInv, NothingTwice
    <3>2. CASE b = BufferName(r)
      BY <3>1, <3>2, <1>1
    <3>3. CASE b # BufferName(r)
      <4>1. buffer'[b] = buffer[b]
        BY <3>3, <1>1
      <4> QED BY <4>1, <3>1, <1>1
    <3> QED BY <3>2, <3>3
  <2>2. ASSUME NEW b \in Buffers, NEW c \in Buffers, b # c
        PROVE  ToSet(buffer'[b]) \cap ToSet(buffer'[c]) = {}
    <3>1. /\ ToSet(buffer[b]) \cap ToSet(buffer[c]) = {}
          /\ h \notin ToSet(buffer[b]) /\ h \notin ToSet(buffer[c])
      BY <2>2, <1>1 DEF QueueInv, NothingTwice
    <3>2. \A d \in {b, c} : \/ d # BufferName(r) /\ buffer'[d] = buffer[d]
                            \/ d = BufferName(r) /\ ToSet(buffer'[d]) = ToSet(buffer[d]) \cup {h}
      BY <1>1
    <3> QED BY <3>1, <3>2, <2>2
  <2>3. ASSUME NEW q \in Reader, rpc'[q] = "recover"
        PROVE  held'[q] \notin ToSet(main') /\ \A b \in Buffers : held'[q] \notin ToSet(buffer'[b])
    <3>1. /\ held'[q] = held[q] /\ held[q] \notin ToSet(main)
          /\ \A b \in Buffers : held[q] \notin ToSet(buffer[b])
      BY <2>3 DEF QueueInv, NothingTwice
    <3> QED BY <3>1, <1>1
  <2>4. \A q, p \in Reader :
          rpc'[q] = "recover" /\ rpc'[p] = "recover" /\ held'[q] = held'[p] /\ held'[q] # None => q = p
    BY DEF QueueInv, NothingTwice
  <2> QED BY <1>1, <2>1, <2>2, <2>3, <2>4 DEF NothingTwice
<1>5. FreshWaits'
  <2>1. (n + 1)..sent \subseteq ToSet(main')
    <3>1. ASSUME NEW x \in (n + 1)..sent  PROVE x \in ToSet(main) /\ x # h
      BY <1>2 DEF QueueInv, FreshWaits
    <3> QED BY <3>1, <1>1
  <2>2. ToSet(main') \subseteq 1..sent
    BY <1>1 DEF QueueInv, FreshWaits
  <2>3. ASSUME NEW b \in Buffers  PROVE ToSet(buffer'[b]) \subseteq 1..n
    <3>1. ToSet(buffer[b]) \subseteq 1..n
      BY <1>2 DEF QueueInv, FreshWaits
    <3>2. h \in 1..n
      BY <1>2
    <3> QED BY <3>1, <3>2, <1>1
  <2>4. ASSUME NEW q \in Reader, held'[q] # None  PROVE held'[q] <= n
    <3>1. CASE held'[q] = h
      BY <3>1, <1>2
    <3>2. CASE held'[q] = held[q]
      <4>1. held[q] <= taken /\ held[q] \in Nat
        BY <3>2, <2>4, NoneIsNoMessage DEF QueueInv, FreshWaits, TypeOK
      <4> QED BY <4>1, <3>2, <1>2
    <3> QED BY <3>1, <3>2 DEF h
  <2> QED BY <2>1, <2>2, <2>3, <2>4, <1>2, <1>3 DEF FreshWaits
<1> QED BY <1>4, <1>5 DEF QueueInv

\* Deleting what is held from the buffer, and letting it go.
LEMMA DeleteQueue ==
  ASSUME QueueInv, TypeOK', NEW r \in Reader,
         BufferIs(r, RemoveFirst(Buffered(r), held[r])), Holds(r, None), rpc'[r] # "recover",
         \A q \in Reader : q # r => rpc'[q] = rpc[q], UNCHANGED <<main, sent, taken>>
  PROVE  QueueInv'
<1>1. /\ buffer' \in [Buffers -> Seq(Message)]
      /\ IsInjective(buffer'[BufferName(r)])
      /\ ToSet(buffer'[BufferName(r)]) = ToSet(buffer[BufferName(r)]) \ {held[r]}
      /\ \A b \in Buffers : b # BufferName(r) => buffer'[b] = buffer[b]
  BY DeletedHolds
<1>2. \A b \in Buffers : IsInjective(buffer'[b]) /\ ToSet(buffer'[b]) \subseteq ToSet(buffer[b])
  BY <1>1 DEF QueueInv, NothingTwice
<1>3. \A q \in Reader : held'[q] = IF q = r THEN None ELSE held[q]
  BY DEF Holds, QueueInv, TypeOK
<1>4. NothingTwice'
  BY <1>2, <1>3 DEF QueueInv, NothingTwice
<1>5. FreshWaits'
  BY <1>2, <1>3 DEF QueueInv, FreshWaits
<1> QED BY <1>4, <1>5 DEF QueueInv

LEMMA RecoverPopQueue ==
  ASSUME QueueInv, NEW r \in Reader, RecoverPop(r)  PROVE QueueInv'
<1> DEFINE h == Head(Buffered(r))
<1>1. /\ rpc[r] = "recover" /\ held[r] = None /\ Buffered(r) # <<>>
      /\ Holds(r, h) /\ BufferIs(r, Tail(Buffered(r)))
      /\ UNCHANGED <<main, rpc, sent, taken, handled, faults>>
  BY DEF RecoverPop
<1>2. /\ h \in Message /\ h \in ToSet(buffer[BufferName(r)])
      /\ buffer' \in [Buffers -> Seq(Message)]
      /\ IsInjective(buffer'[BufferName(r)])
      /\ ToSet(buffer'[BufferName(r)]) = ToSet(buffer[BufferName(r)]) \ {h}
      /\ \A b \in Buffers : b # BufferName(r) => buffer'[b] = buffer[b]
      /\ BufferName(r) \in Buffers
  BY <1>1, PoppedHolds, OneBufferEach
<1>3. held' \in [Reader -> Message \cup {None}] /\ \A q \in Reader : held'[q] = IF q = r THEN h ELSE held[q]
  BY <1>1, <1>2 DEF Holds, QueueInv, TypeOK
<1> HIDE DEF h
<1>4. TypeOK'
  BY <1>1, <1>2, <1>3 DEF QueueInv, TypeOK
<1>5. \A b \in Buffers : /\ IsInjective(buffer'[b]) /\ ToSet(buffer'[b]) \subseteq ToSet(buffer[b])
                         /\ h \notin ToSet(buffer'[b])
  BY <1>2 DEF QueueInv, NothingTwice
<1>6. h \notin ToSet(main)
  BY <1>2 DEF QueueInv, NothingTwice
<1>7. \A q \in Reader : rpc[q] = "recover" => held[q] # h
  BY <1>2 DEF QueueInv, NothingTwice
<1>8. NothingTwice'
  <2>1. /\ IsInjective(main')
        /\ \A b \in Buffers : IsInjective(buffer'[b]) /\ ToSet(buffer'[b]) \cap ToSet(main') = {}
        /\ \A b, c \in Buffers : b # c => ToSet(buffer'[b]) \cap ToSet(buffer'[c]) = {}
    BY <1>1, <1>5 DEF QueueInv, NothingTwice
  <2>2. ASSUME NEW q \in Reader, rpc'[q] = "recover"
        PROVE  held'[q] \notin ToSet(main') /\ \A b \in Buffers : held'[q] \notin ToSet(buffer'[b])
    <3>1. CASE q = r
      BY <3>1, <1>1, <1>3, <1>5, <1>6
    <3>2. CASE q # r
      BY <3>2, <2>2, <1>1, <1>3, <1>5 DEF QueueInv, NothingTwice
    <3> QED BY <3>1, <3>2
  <2>3. \A q, p \in Reader :
          rpc'[q] = "recover" /\ rpc'[p] = "recover" /\ held'[q] = held'[p] /\ held'[q] # None => q = p
    BY <1>1, <1>3, <1>7 DEF QueueInv, NothingTwice
  <2> QED BY <2>1, <2>2, <2>3 DEF NothingTwice
<1>9. h <= taken
  BY <1>2, QueuesHold DEF QueueInv, FreshWaits
<1>10. FreshWaits'
  BY <1>1, <1>3, <1>5, <1>9 DEF QueueInv, FreshWaits
<1> QED BY <1>4, <1>8, <1>10 DEF QueueInv

LEMMA RecoverPushQueue ==
  ASSUME QueueInv, NEW r \in Reader, RecoverPush(r)  PROVE QueueInv'
<1> DEFINE h == held[r]
<1>1. /\ rpc[r] = "recover" /\ h \in Message
      /\ main' = <<h>> \o main /\ Holds(r, None)
      /\ UNCHANGED <<buffer, rpc, sent, taken, handled, faults>>
  BY DEF RecoverPush
<1>2. /\ h \notin ToSet(main) /\ \A b \in Buffers : h \notin ToSet(buffer[b])
      /\ h <= taken /\ taken \in Nat /\ h \in Nat /\ taken <= sent /\ sent \in Nat
      /\ \A q \in Reader : q # r /\ rpc[q] = "recover" => held[q] # h
  BY <1>1, NoneIsNoMessage, QueuesHold DEF QueueInv, NothingTwice, FreshWaits
<1>3. /\ main' \in Seq(Message) /\ ToSet(main') = ToSet(main) \cup {h} /\ IsInjective(main')
      /\ InOrder(main', taken)
  <2>1. main \in Seq(Message) /\ IsInjective(main) /\ InOrder(main, taken)
    BY QueuesHold DEF QueueInv, NothingTwice, FreshWaits
  <2>2. InOrder(main', taken)
    BY <1>1, <1>2, <2>1, InOrderCons
  <2>3. IsInjective(main) /\ h \notin ToSet(main) => IsInjective(<<h>> \o main)
    BY <1>1, <2>1, ToSetCons
  <2> QED BY <1>1, <1>2, <2>1, <2>2, <2>3, ToSetCons
<1>4. held' \in [Reader -> Message \cup {None}] /\ \A q \in Reader : held'[q] = IF q = r THEN None ELSE held[q]
  BY <1>1 DEF Holds, QueueInv, TypeOK
<1> HIDE DEF h
<1>5. TypeOK'
  BY <1>1, <1>3, <1>4 DEF QueueInv, TypeOK
<1>6. None \notin ToSet(main') /\ \A b \in Buffers : None \notin ToSet(buffer[b])
  BY <1>1, <1>3, QueuesHold, NoneIsNoMessage
<1>7. NothingTwice'
  BY <1>1, <1>2, <1>3, <1>4, <1>6 DEF QueueInv, NothingTwice
<1>8. h \in 1..sent
  BY <1>1, <1>2 DEF Message
<1>9. FreshWaits'
  BY <1>1, <1>3, <1>4, <1>8 DEF QueueInv, FreshWaits
<1> QED BY <1>5, <1>7, <1>9 DEF QueueInv

\* Handling is counted once.
LEMMA CountedTyped ==
  ASSUME TypeOK, NEW m \in Message, Counted(m)
  PROVE  /\ handled' \in [Message -> Nat] /\ handled'[m] = handled[m] + 1
         /\ \A n \in Message : n # m => handled'[n] = handled[n]
BY DEF TypeOK, Counted

LEMMA ReaderStepQueue ==
  ASSUME QueueInv, NEW r \in Reader, ReaderStep(r)  PROVE QueueInv'
<1> USE DEF At, Holds
<1>1. CASE Start(r)
  <2>1. TypeOK'  BY <1>1 DEF Start, QueueInv, TypeOK
  <2> QED BY <1>1, <2>1, MemoryQueue DEF Start, QueueInv, TypeOK
<1>2. CASE RecoverPop(r)
  BY <1>2, RecoverPopQueue
<1>3. CASE RecoverDrop(r)
  <2>1. held[r] \in Message  BY <1>3, NoneIsNoMessage DEF RecoverDrop
  <2>2. TypeOK'
    BY <1>3, <2>1, CountedTyped DEF RecoverDrop, QueueInv, TypeOK
  <2> QED BY <1>3, <2>2, MemoryQueue DEF RecoverDrop, QueueInv, TypeOK
<1>4. CASE RecoverPush(r)
  BY <1>4, RecoverPushQueue
<1>5. CASE RecoverDone(r)
  <2>1. TypeOK'  BY <1>5 DEF RecoverDone, QueueInv, TypeOK
  <2> QED BY <1>5, <2>1, MemoryQueue DEF RecoverDone, QueueInv, TypeOK
<1>6. CASE Dequeue(r)
  <2>1. /\ main # <<>> /\ rpc[r] = "idle" /\ rpc' = [rpc EXCEPT ![r] = "handle"]
        /\ main' = Tail(main) /\ BufferIs(r, Staged(r)) /\ held' = [held EXCEPT ![r] = Head(main)]
        /\ Taken /\ UNCHANGED <<sent, handled, faults>>
    BY <1>6 DEF Dequeue
  <2>2. TypeOK'
    <3>1. /\ Head(main) \in Message /\ Head(main) \in 1..sent /\ main' \in Seq(Message)
          /\ buffer' \in [Buffers -> Seq(Message)]
      BY <2>1, StagedHolds DEF QueueInv, FreshWaits
    <3>2. taken' \in 0..sent
      BY <2>1, <3>1, QueuesHold DEF Taken
    <3> QED BY <2>1, <3>1, <3>2, NoneIsNoMessage DEF QueueInv, TypeOK
  <2>3. \A q \in Reader : /\ held'[q] \in {held[q], Head(main)}
                          /\ (rpc'[q] = "recover" => rpc[q] = "recover" /\ held'[q] = held[q])
    BY <2>1 DEF QueueInv, TypeOK
  <2> QED BY <2>1, <2>2, <2>3, StageQueue
<1>7. CASE HandleOne(r)
  <2>1. held[r] \in Message  BY <1>7 DEF HandleOne, QueueInv, TypeOK
  <2>2. TypeOK'
    BY <1>7, <2>1, CountedTyped DEF HandleOne, QueueInv, TypeOK
  <2> QED BY <1>7, <2>2, MemoryQueue DEF HandleOne, QueueInv, TypeOK
<1>8. CASE DeleteOne(r)
  <2>1. /\ rpc[r] = "delete" /\ rpc' = [rpc EXCEPT ![r] = "idle"]
        /\ BufferIs(r, RemoveFirst(Buffered(r), held[r])) /\ Holds(r, None)
        /\ UNCHANGED <<main, sent, taken, handled, faults>>
    BY <1>8 DEF DeleteOne
  <2>2. TypeOK'
    <3>1. buffer' \in [Buffers -> Seq(Message)]  BY <2>1, DeletedHolds
    <3> QED BY <2>1, <3>1 DEF QueueInv, TypeOK
  <2>3. rpc'[r] # "recover" /\ \A q \in Reader : q # r => rpc'[q] = rpc[q]
    BY <2>1 DEF QueueInv, TypeOK
  <2> QED BY <2>1, <2>2, <2>3, DeleteQueue
<1> QED BY <1>1, <1>2, <1>3, <1>4, <1>5, <1>6, <1>7, <1>8 DEF ReaderStep

LEMMA ReaderFaultQueue ==
  ASSUME QueueInv, NEW r \in Reader, ReaderFault(r)  PROVE QueueInv'
<1> USE DEF At, Holds
<1>0. TypeOK  BY DEF QueueInv
<1>1. CASE DeleteFails(r)
  <2>1. TypeOK'
    BY <1>0, <1>1, FaultType DEF DeleteFails, TypeOK
  <2> QED BY <1>1, <2>1, MemoryQueue DEF DeleteFails, QueueInv, TypeOK
<1>2. CASE FatalError(r)
  <2>1. /\ rpc[r] = "delete" /\ rpc' = [rpc EXCEPT ![r] = "down"]
        /\ BufferIs(r, RemoveFirst(Buffered(r), held[r])) /\ Holds(r, None)
        /\ UNCHANGED <<main, sent, taken, handled>> /\ faults' \in 0..MaxFaults
    BY <1>0, <1>2, FaultType DEF FatalError
  <2>2. TypeOK'
    <3>1. buffer' \in [Buffers -> Seq(Message)]  BY <2>1, DeletedHolds
    <3> QED BY <2>1, <3>1 DEF QueueInv, TypeOK
  <2>3. rpc'[r] # "recover" /\ \A q \in Reader : q # r => rpc'[q] = rpc[q]
    BY <2>1 DEF QueueInv, TypeOK
  <2> QED BY <2>1, <2>2, <2>3, DeleteQueue
<1>3. CASE ReplyLost(r)
  <2>1. /\ main # <<>> /\ main' = Tail(main) /\ BufferIs(r, Staged(r)) /\ Taken
        /\ UNCHANGED <<rpc, held, sent, handled>> /\ faults' \in 0..MaxFaults
    BY <1>0, <1>3, FaultType DEF ReplyLost
  <2>2. TypeOK'
    <3>1. /\ Head(main) \in Message /\ Head(main) \in 1..sent /\ main' \in Seq(Message)
          /\ buffer' \in [Buffers -> Seq(Message)]
      BY <2>1, StagedHolds DEF QueueInv, FreshWaits
    <3>2. taken' \in 0..sent
      BY <2>1, <3>1, QueuesHold DEF Taken
    <3> QED BY <2>1, <3>1, <3>2 DEF QueueInv, TypeOK
  <2> QED BY <2>1, <2>2, StageQueue
<1>4. CASE Stop(r)
  <2>1. /\ rpc' = [rpc EXCEPT ![r] = "down"] /\ held' = [held EXCEPT ![r] = None]
        /\ IF rpc[r] = "handle" THEN Counted(held[r]) ELSE UNCHANGED handled
        /\ UNCHANGED <<main, buffer, sent, taken>> /\ faults' \in 0..MaxFaults
    BY <1>0, <1>4, FaultType DEF Stop
  <2>2. handled' \in [Message -> Nat]
    <3>1. CASE rpc[r] = "handle"
      <4>1. held[r] \in Message  BY <1>0, <3>1 DEF TypeOK
      <4> QED BY <1>0, <2>1, <3>1, <4>1, CountedTyped
    <3>2. CASE rpc[r] # "handle"
      BY <1>0, <2>1, <3>2 DEF TypeOK
    <3> QED BY <3>1, <3>2
  <2>3. TypeOK'
    BY <2>1, <2>2 DEF QueueInv, TypeOK
  <2>4. \A q \in Reader : /\ held'[q] \in {held[q], None}
                          /\ (rpc'[q] = "recover" => rpc[q] = "recover" \/ held'[q] = None)
    BY <1>0, <2>1 DEF TypeOK
  <2> QED BY <2>1, <2>3, <2>4, MemoryQueue
<1>5. CASE Crash(r)
  <2>1. /\ rpc' = [rpc EXCEPT ![r] = "down"] /\ held' = [held EXCEPT ![r] = None]
        /\ UNCHANGED <<main, buffer, sent, taken, handled>> /\ faults' \in 0..MaxFaults
    BY <1>0, <1>5, FaultType DEF Crash
  <2>2. TypeOK'
    BY <1>0, <2>1 DEF TypeOK
  <2>3. \A q \in Reader : /\ held'[q] \in {held[q], None}
                          /\ (rpc'[q] = "recover" => rpc[q] = "recover" \/ held'[q] = None)
    BY <1>0, <2>1 DEF TypeOK
  <2> QED BY <2>1, <2>2, <2>3, MemoryQueue
<1> QED BY <1>1, <1>2, <1>3, <1>4, <1>5 DEF ReaderFault

LEMMA QueueInvNext == QueueInv /\ [Next]_vars => QueueInv'
<1> SUFFICES ASSUME QueueInv, [Next]_vars  PROVE QueueInv'
  OBVIOUS
<1>1. CASE UNCHANGED vars
  BY <1>1 DEF vars, readVars, QueueInv, TypeOK, NothingTwice, FreshWaits, InOrder
<1>2. CASE Enqueue
  BY <1>2, EnqueueQueue
<1>3. CASE \E r \in Reader : ReaderStep(r) \/ ReaderFault(r)
  BY <1>3, ReaderStepQueue, ReaderFaultQueue
<1> QED BY <1>1, <1>2, <1>3 DEF Next

LEMMA QueueInvHolds == Spec => []QueueInv
BY QueueInvInit, QueueInvNext, PTL DEF Spec

-----------------------------------------------------------------------------
(* The theorems about the queues *)

\* The queues hold messages that were sent, and a reader holds one in memory
\* exactly where its loop works on one (scheduler_ipc.go, processOneIPCRequest).
THEOREM QueueTypes == Spec => []TypeOK
BY QueueInvHolds, PTL DEF QueueInv

\* A message that moves between the queues, the buffers and the memory of a
\* recovering reader is at one of these places at a time.
LEMMA InvOnePlace == QueueInv => OnePlace
<1> SUFFICES ASSUME QueueInv, NEW m \in Message
             PROVE  /\ Copies(main, m) + Cardinality(InBuffers(m)) + Cardinality(Recovering(m)) <= 1
                    /\ \A b \in Buffers : Copies(buffer[b], m) <= 1
  BY DEF OnePlace
<1>0. m # None
  BY NoneIsNoMessage
<1>1. ASSUME NEW q \in Seq(Message), IsInjective(q)
      PROVE  Copies(q, m) \in Nat /\ Copies(q, m) <= 1 /\ (m \notin ToSet(q) => Copies(q, m) = 0)
  <2> DEFINE I == {i \in DOMAIN q : q[i] = m}
  <2>1. \A i, j \in I : i = j
    BY <1>1 DEF IsInjective
  <2>2. m \notin ToSet(q) => I = {}
    BY DEF ToSet
  <2>3. Copies(q, m) = Cardinality(I)
    BY DEF Copies
  <2> HIDE DEF I
  <2> QED BY <2>1, <2>2, <2>3, AtMostOne
<1>2. main \in Seq(Message) /\ IsInjective(main)
      /\ \A b \in Buffers : buffer[b] \in Seq(Message) /\ IsInjective(buffer[b])
  BY QueuesHold DEF QueueInv, NothingTwice
<1>3. /\ \A b \in InBuffers(m) : b \in Buffers /\ m \in ToSet(buffer[b])
      /\ \A r \in Recovering(m) : r \in Reader /\ rpc[r] = "recover" /\ held[r] = m
  BY <1>2, ToSetMembers DEF InBuffers, Recovering
<1>4. /\ Cardinality(InBuffers(m)) \in Nat /\ Cardinality(InBuffers(m)) <= 1
      /\ InBuffers(m) = {} => Cardinality(InBuffers(m)) = 0
  <2>1. \A b, c \in InBuffers(m) : b = c
    BY <1>3 DEF QueueInv, NothingTwice
  <2> QED BY <2>1, AtMostOne
<1>5. /\ Cardinality(Recovering(m)) \in Nat /\ Cardinality(Recovering(m)) <= 1
      /\ Recovering(m) = {} => Cardinality(Recovering(m)) = 0
  <2>1. \A r, q \in Recovering(m) : r = q
    BY <1>0, <1>3 DEF QueueInv, NothingTwice
  <2> QED BY <2>1, AtMostOne
<1>6. /\ InBuffers(m) # {} => m \notin ToSet(main) /\ Recovering(m) = {}
      /\ Recovering(m) # {} => m \notin ToSet(main)
  BY <1>3 DEF QueueInv, NothingTwice
<1> QED BY <1>1, <1>2, <1>4, <1>5, <1>6

\* However a message is moved, put back and redelivered, it is at one place at a
\* time: neither a recovery nor a lost reply duplicates one.
THEOREM OnePlaceHolds == Spec => []OnePlace
BY QueueInvHolds, InvOnePlace, PTL

-----------------------------------------------------------------------------
(* What a reader works on *)

\* A reader's steps leave the other readers and their buffers alone.
LEMMA OthersUntouched ==
  ASSUME QueueInv, NEW r \in Reader, ReaderStep(r) \/ ReaderFault(r), NEW q \in Reader, q # r
  PROVE  rpc'[q] = rpc[q] /\ held'[q] = held[q] /\ buffer'[BufferName(q)] = buffer[BufferName(q)]
<1>1. /\ rpc \in [Reader -> {"down", "recover", "idle", "handle", "delete"}]
      /\ held \in [Reader -> Message \cup {None}] /\ buffer \in [Buffers -> Seq(Message)]
      /\ BufferName(q) \in Buffers /\ BufferName(q) # BufferName(r)
  BY OneBufferEach DEF QueueInv, TypeOK
<1>2. \/ rpc' = rpc \/ \E w \in {"down", "recover", "idle", "handle", "delete"} : rpc' = [rpc EXCEPT ![r] = w]
  BY DEF ReaderStep, ReaderFault, Start, RecoverPop, RecoverDrop, RecoverPush, RecoverDone, Dequeue,
         HandleOne, DeleteOne, DeleteFails, FatalError, ReplyLost, Stop, Crash, At
<1>3. held' = held \/ \E m : Holds(r, m)
  BY DEF ReaderStep, ReaderFault, Start, RecoverPop, RecoverDrop, RecoverPush, RecoverDone, Dequeue,
         HandleOne, DeleteOne, DeleteFails, FatalError, ReplyLost, Stop, Crash
<1>4. buffer' = buffer \/ \E s : BufferIs(r, s)
  BY DEF ReaderStep, ReaderFault, Start, RecoverPop, RecoverDrop, RecoverPush, RecoverDone, Dequeue,
         HandleOne, DeleteOne, DeleteFails, FatalError, ReplyLost, Stop, Crash
<1> QED BY <1>1, <1>2, <1>3, <1>4 DEF Holds, BufferIs

\* A message is counted only for the reader that holds it, once.
LEMMA OnlyHeldCounted ==
  ASSUME QueueInv, NEW r \in Reader, ReaderStep(r) \/ ReaderFault(r)
  PROVE  \/ handled' = handled
         \/ /\ held[r] \in Message /\ Counted(held[r])
            /\ \/ HandleOne(r) \/ RecoverDrop(r)
               \/ Stop(r) /\ rpc[r] = "handle"
BY NoneIsNoMessage DEF QueueInv, TypeOK, ReaderStep, ReaderFault, Start, RecoverPop, RecoverDrop,
   RecoverPush, RecoverDone, Dequeue, HandleOne, DeleteOne, DeleteFails, FatalError, ReplyLost,
   Stop, Crash, At

\* A reader comes to handle a message by a dequeue, and to delete it by handling it.
LEMMA OnlyDequeueHandles ==
  ASSUME QueueInv, NEW r \in Reader, ReaderStep(r) \/ ReaderFault(r),
         rpc'[r] \in {"handle", "delete"}
  PROVE  Dequeue(r) \/ HandleOne(r)
BY DEF QueueInv, TypeOK, ReaderStep, ReaderFault, Start, RecoverPop, RecoverDrop, RecoverPush,
   RecoverDone, DeleteOne, DeleteFails, FatalError, ReplyLost, Stop, Crash, At

\* What was handled was taken, and what is being deleted was handled.
HandledWasTaken ==
  /\ \A m \in Message : handled[m] > 0 => m <= taken
  /\ \A r \in Reader : rpc[r] = "delete" => handled[held[r]] > 0

WorkInv == QueueInv /\ OwnBuffer /\ HandledWasTaken

LEMMA WorkInvInit == Init => WorkInv
<1> SUFFICES ASSUME Init PROVE WorkInv
  OBVIOUS
<1>1. QueueInv  BY QueueInvInit
<1>2. OwnBuffer /\ HandledWasTaken  BY DEF Init, OwnBuffer, HandledWasTaken
<1> QED BY <1>1, <1>2 DEF WorkInv

\* The buffer of a reader, before a step and after it, as a set.
LEMMA BufferedHolds ==
  ASSUME QueueInv, NEW r \in Reader
  PROVE  \A m : Contains(Buffered(r), m) <=> m \in ToSet(buffer[BufferName(r)])
BY QueuesHold, OneBufferEach, ToSetMembers DEF Buffered

LEMMA OwnBufferNext ==
  ASSUME WorkInv, QueueInv', [Next]_vars  PROVE OwnBuffer'
<1>0. QueueInv  BY DEF WorkInv
<1>1. CASE UNCHANGED vars
  BY <1>1 DEF vars, readVars, WorkInv, OwnBuffer, Buffered
<1>2. CASE Enqueue
  BY <1>2 DEF Enqueue, readVars, WorkInv, OwnBuffer, Buffered
<1>3. CASE \E r \in Reader : ReaderStep(r) \/ ReaderFault(r)
  <2>1. PICK r \in Reader : ReaderStep(r) \/ ReaderFault(r)  BY <1>3
  <2> SUFFICES ASSUME NEW q \in Reader, rpc'[q] \in {"handle", "delete"}
               PROVE  Contains(buffer'[BufferName(q)], held'[q])
    BY DEF OwnBuffer, Buffered
  <2>2. CASE q # r
    <3>1. rpc'[q] = rpc[q] /\ held'[q] = held[q] /\ buffer'[BufferName(q)] = buffer[BufferName(q)]
      BY <1>0, <2>1, <2>2, OthersUntouched
    <3> QED BY <3>1 DEF WorkInv, OwnBuffer, Buffered
  <2>3. CASE q = r
    <3>1. CASE Dequeue(r)
      <4>1. /\ held'[r] = Head(main)
            /\ ToSet(buffer'[BufferName(r)]) = ToSet(buffer[BufferName(r)]) \cup {Head(main)}
        BY <1>0, <3>1, StagedHolds DEF Dequeue, QueueInv, TypeOK, Holds
      <4>2. buffer'[BufferName(r)] \in Seq(Message)
        BY OneBufferEach DEF QueueInv, TypeOK
      <4> QED BY <4>1, <4>2, <2>3, ToSetMembers
    <3>2. CASE HandleOne(r)
      <4>1. UNCHANGED <<held, buffer>> /\ rpc[r] = "handle"  BY <3>2 DEF HandleOne, At
      <4> QED BY <4>1, <2>3 DEF WorkInv, OwnBuffer, Buffered
    <3> QED BY <1>0, <2>1, <2>3, <3>1, <3>2, OnlyDequeueHandles
  <2> QED BY <2>2, <2>3
<1> QED BY <1>1, <1>2, <1>3 DEF Next

LEMMA HandledWasTakenNext ==
  ASSUME WorkInv, [Next]_vars  PROVE HandledWasTaken'
<1>0. QueueInv /\ TypeOK /\ HandledWasTaken  BY DEF WorkInv, QueueInv
<1>1. CASE UNCHANGED vars
  BY <1>0, <1>1 DEF vars, readVars, HandledWasTaken
<1>2. CASE Enqueue
  BY <1>0, <1>2 DEF Enqueue, readVars, HandledWasTaken
<1>3. CASE \E r \in Reader : ReaderStep(r) \/ ReaderFault(r)
  <2>1. PICK r \in Reader : ReaderStep(r) \/ ReaderFault(r)  BY <1>3
  <2>2. taken' >= taken /\ taken' \in Nat /\ taken \in Nat
    <3>1. taken' = taken \/ (main # <<>> /\ Taken)
      BY <2>1 DEF ReaderStep, ReaderFault, Start, RecoverPop, RecoverDrop, RecoverPush, RecoverDone,
         Dequeue, HandleOne, DeleteOne, DeleteFails, FatalError, ReplyLost, Stop, Crash
    <3>2. main # <<>> => Head(main) \in Nat
      BY <1>0, QueuesHold, ToSetTail, NoneIsNoMessage
    <3> QED BY <3>1, <3>2, <1>0, QueuesHold DEF Taken
  <2>3. /\ \A m \in Message : handled[m] \in Nat /\ Message \subseteq Nat
        /\ \A q \in Reader : held[q] # None => held[q] <= taken
    BY <1>0, NoneIsNoMessage DEF QueueInv, FreshWaits, TypeOK
  <2>4. \A m \in Message : \/ handled'[m] = handled[m]
                           \/ m = held[r] /\ m # None /\ handled'[m] = handled[m] + 1
    <3>1. CASE handled' = handled
      BY <3>1
    <3>2. CASE held[r] \in Message /\ Counted(held[r])
      <4>1. /\ handled'[held[r]] = handled[held[r]] + 1 /\ held[r] # None
            /\ \A m \in Message : m # held[r] => handled'[m] = handled[m]
        BY <1>0, <3>2, CountedTyped, NoneIsNoMessage
      <4> QED BY <4>1
    <3> QED BY <1>0, <2>1, <3>1, <3>2, OnlyHeldCounted
  <2>5. ASSUME NEW m \in Message, handled'[m] > 0  PROVE m <= taken'
    <3>1. m <= taken  BY <2>3, <2>4, <2>5, <1>0 DEF HandledWasTaken
    <3> QED BY <3>1, <2>2, NoneIsNoMessage
  <2>6. ASSUME NEW q \in Reader, rpc'[q] = "delete"  PROVE handled'[held'[q]] > 0
    <3>1. CASE q # r
      <4>1. rpc[q] = "delete" /\ held'[q] = held[q] /\ held[q] \in Message
        BY <1>0, <2>1, <2>6, <3>1, OthersUntouched DEF TypeOK
      <4>2. handled[held[q]] > 0  BY <4>1, <1>0 DEF HandledWasTaken
      <4> QED BY <4>1, <4>2, <2>3, <2>4
    <3>2. CASE q = r
      <4>1. Dequeue(r) \/ HandleOne(r)
        BY <1>0, <2>1, <2>6, <3>2, OnlyDequeueHandles
      <4>2. ~ Dequeue(r)
        BY <1>0, <2>6, <3>2 DEF Dequeue, At, TypeOK
      <4>3. HandleOne(r)  BY <4>1, <4>2
      <4>4. held' = held /\ held[r] \in Message /\ Counted(held[r])
        BY <1>0, <4>3 DEF HandleOne, At, TypeOK
      <4> QED BY <4>4, <3>2, <1>0, <2>3, CountedTyped
    <3> QED BY <3>1, <3>2
  <2> QED BY <2>5, <2>6 DEF HandledWasTaken
<1> QED BY <1>1, <1>2, <1>3 DEF Next

LEMMA WorkInvNext == WorkInv /\ [Next]_vars => WorkInv'
BY QueueInvNext, OwnBufferNext, HandledWasTakenNext DEF WorkInv

LEMMA WorkInvHolds == Spec => []WorkInv
BY WorkInvInit, WorkInvNext, PTL DEF Spec

\* A reader handles and deletes what its own buffer holds: no restart or recovery
\* of another reader takes a message from under it.
THEOREM OwnBufferHolds == Spec => []OwnBuffer
BY WorkInvHolds, PTL DEF WorkInv

-----------------------------------------------------------------------------
(* Where a message is, before a step and after it *)

InQueues(m) == m \in ToSet(main) \/ \E b \in Buffers : m \in ToSet(buffer[b])
InMemory(m) == \E r \in Reader : rpc[r] = "recover" /\ held[r] = m

LEMMA PresentMeans ==
  ASSUME QueueInv, QueueInv', NEW m \in Message
  PROVE  /\ Present(m) <=> InQueues(m) \/ InMemory(m)
         /\ Present(m)' <=> InQueues(m)' \/ InMemory(m)'
<1>1. /\ main \in Seq(Message) /\ \A b \in Buffers : buffer[b] \in Seq(Message)
      /\ main' \in Seq(Message) /\ \A b \in Buffers : buffer'[b] \in Seq(Message)
  BY DEF QueueInv, TypeOK
<1>2. Present(m) <=> InQueues(m) \/ InMemory(m)
  BY <1>1, ToSetMembers DEF Present, InQueues, InMemory, InBuffers, Recovering
<1>3. Present(m)' <=> InQueues(m)' \/ InMemory(m)'
  BY <1>1, ToSetMembers DEF Present, InQueues, InMemory, InBuffers, Recovering
<1> QED BY <1>2, <1>3

\* A reader's memory of a recovery is its own.
LEMMA MemoryStep ==
  ASSUME QueueInv, NEW r \in Reader, ReaderStep(r) \/ ReaderFault(r), NEW m \in Message
  PROVE  InMemory(m)' <=> \/ \E q \in Reader : q # r /\ rpc[q] = "recover" /\ held[q] = m
                          \/ rpc'[r] = "recover" /\ held'[r] = m
BY OthersUntouched DEF InMemory

\* The steps that leave the queues alone take out of memory what they hold there.
LEMMA PresentInMemory ==
  ASSUME QueueInv, QueueInv', NEW r \in Reader, ReaderStep(r) \/ ReaderFault(r), NEW m \in Message,
         UNCHANGED <<main, buffer>>, held'[r] \in {held[r], None},
         rpc'[r] = "recover" => rpc[r] = "recover" \/ held'[r] = None
  PROVE  /\ Present(m)' => Present(m)
         /\ Present(m) /\ ~ Present(m)' => rpc[r] = "recover" /\ held[r] = m
         /\ rpc[r] = "recover" /\ held[r] = m /\ held'[r] = None => ~ Present(m)'
<1>1. InQueues(m)' <=> InQueues(m)
  BY DEF InQueues
<1>2. m # None
  BY NoneIsNoMessage
<1>3. InMemory(m)' => InMemory(m)
  BY <1>2, MemoryStep DEF InMemory
<1>4. InMemory(m) /\ ~ InMemory(m)' => rpc[r] = "recover" /\ held[r] = m
  BY MemoryStep DEF InMemory
<1>5. rpc[r] = "recover" /\ held[r] = m /\ held'[r] = None => ~ InMemory(m)' /\ ~ InQueues(m)
  BY <1>2, MemoryStep DEF QueueInv, NothingTwice, InQueues
<1> QED BY <1>1, <1>3, <1>4, <1>5, PresentMeans

\* Staging moves a message.
LEMMA PresentStaged ==
  ASSUME QueueInv, QueueInv', NEW r \in Reader, Dequeue(r) \/ ReplyLost(r), NEW m \in Message
  PROVE  Present(m)' <=> Present(m)
<1>1. /\ main # <<>> /\ BufferIs(r, Staged(r)) /\ main' = Tail(main)
      /\ rpc[r] # "recover" /\ rpc'[r] # "recover"
  BY DEF Dequeue, ReplyLost, At, QueueInv, TypeOK
<1>2. /\ Head(main) \in ToSet(main)
      /\ ToSet(main') = ToSet(main) \ {Head(main)}
      /\ ToSet(buffer'[BufferName(r)]) = ToSet(buffer[BufferName(r)]) \cup {Head(main)}
      /\ \A b \in Buffers : b # BufferName(r) => buffer'[b] = buffer[b]
      /\ BufferName(r) \in Buffers
  BY <1>1, StagedHolds, OneBufferEach
<1>3. InQueues(m)' <=> InQueues(m)
  BY <1>2 DEF InQueues
<1>4. InMemory(m)' <=> InMemory(m)
  BY <1>1, MemoryStep DEF InMemory, ReaderStep, ReaderFault
<1> QED BY <1>3, <1>4, PresentMeans

\* So does a recovery, when it pops a message and when it pushes it.
LEMMA PresentRecovered ==
  ASSUME QueueInv, QueueInv', NEW r \in Reader, RecoverPop(r) \/ RecoverPush(r), NEW m \in Message
  PROVE  Present(m)' <=> Present(m)
<1>1. CASE RecoverPop(r)
  <2> DEFINE h == Head(Buffered(r))
  <2>1. /\ rpc[r] = "recover" /\ held[r] = None /\ rpc'[r] = "recover" /\ held'[r] = h
        /\ Buffered(r) # <<>> /\ BufferIs(r, Tail(Buffered(r))) /\ main' = main
    BY <1>1 DEF RecoverPop, Holds, QueueInv, TypeOK
  <2>2. /\ h \in ToSet(buffer[BufferName(r)])
        /\ ToSet(buffer'[BufferName(r)]) = ToSet(buffer[BufferName(r)]) \ {h}
        /\ \A b \in Buffers : b # BufferName(r) => buffer'[b] = buffer[b]
        /\ BufferName(r) \in Buffers
    BY <2>1, PoppedHolds, OneBufferEach
  <2> HIDE DEF h
  <2>3. m # h => (InQueues(m)' <=> InQueues(m))
    BY <2>1, <2>2 DEF InQueues
  <2>4. InMemory(m)' <=> InMemory(m) \/ m = h
    BY <1>1, <2>1, MemoryStep, NoneIsNoMessage DEF InMemory, ReaderStep
  <2>5. m = h => InQueues(m)
    BY <2>2 DEF InQueues
  <2> QED BY <2>3, <2>4, <2>5, PresentMeans
<1>2. CASE RecoverPush(r)
  <2>1. /\ rpc[r] = "recover" /\ held[r] \in Message /\ rpc'[r] = "recover" /\ held'[r] = None
        /\ main' = <<held[r]>> \o main /\ buffer' = buffer
    BY <1>2 DEF RecoverPush, Holds, QueueInv, TypeOK
  <2>2. ToSet(main') = ToSet(main) \cup {held[r]}
    BY <2>1, QueuesHold, ToSetCons
  <2>3. InQueues(m)' <=> InQueues(m) \/ m = held[r]
    BY <2>1, <2>2 DEF InQueues
  <2>4. m # held[r] => (InMemory(m)' <=> InMemory(m))
    BY <1>2, <2>1, MemoryStep, NoneIsNoMessage DEF InMemory, ReaderStep
  <2>5. m = held[r] => InMemory(m)
    BY <2>1 DEF InMemory
  <2> QED BY <2>3, <2>4, <2>5, PresentMeans
<1> QED BY <1>1, <1>2

\* What a reader deletes is gone, and nothing else.
LEMMA PresentDeleted ==
  ASSUME WorkInv, QueueInv', NEW r \in Reader, DeleteOne(r) \/ FatalError(r), NEW m \in Message
  PROVE  Present(m)' <=> Present(m) /\ m # held[r]
<1>1. /\ rpc[r] = "delete" /\ rpc'[r] # "recover" /\ main' = main
      /\ BufferIs(r, RemoveFirst(Buffered(r), held[r]))
  BY DEF DeleteOne, FatalError, At, WorkInv, QueueInv, TypeOK
<1>2. /\ ToSet(buffer'[BufferName(r)]) = ToSet(buffer[BufferName(r)]) \ {held[r]}
      /\ \A b \in Buffers : b # BufferName(r) => buffer'[b] = buffer[b]
      /\ BufferName(r) \in Buffers
  BY <1>1, DeletedHolds, OneBufferEach DEF WorkInv
<1>3. held[r] \in ToSet(buffer[BufferName(r)])
  BY <1>1, BufferedHolds DEF WorkInv, OwnBuffer
<1>4. /\ held[r] \notin ToSet(main) /\ ~ InMemory(held[r])
      /\ \A b \in Buffers : b # BufferName(r) => held[r] \notin ToSet(buffer[b])
  BY <1>2, <1>3 DEF WorkInv, QueueInv, NothingTwice, InMemory
<1>5. InQueues(m)' <=> InQueues(m) /\ m # held[r]
  BY <1>1, <1>2, <1>4 DEF InQueues
<1>6. InMemory(m)' <=> InMemory(m)
  BY <1>1, MemoryStep DEF InMemory, ReaderStep, ReaderFault, WorkInv
<1> QED BY <1>4, <1>5, <1>6, PresentMeans DEF WorkInv

\* Nothing appears in a reader's step, and what goes missing is what it held.
LEMMA PresentStep ==
  ASSUME WorkInv, QueueInv', NEW r \in Reader, ReaderStep(r) \/ ReaderFault(r), NEW m \in Message
  PROVE  /\ Present(m)' => Present(m)
         /\ Present(m) /\ ~ Present(m)' => /\ held[r] = m
                                           /\ \/ rpc[r] = "recover"
                                              \/ DeleteOne(r) \/ FatalError(r)
         /\ held[r] = m /\ (DeleteOne(r) \/ FatalError(r) \/ RecoverDrop(r)) => ~ Present(m)'
<1>0. QueueInv /\ TypeOK  BY DEF WorkInv, QueueInv
<1>1. CASE Dequeue(r) \/ ReplyLost(r)
  <2>1. ~ DeleteOne(r) /\ ~ FatalError(r) /\ ~ RecoverDrop(r)
    BY <1>1 DEF Dequeue, ReplyLost, DeleteOne, FatalError, RecoverDrop, At
  <2> QED BY <1>0, <1>1, <2>1, PresentStaged
<1>2. CASE RecoverPop(r) \/ RecoverPush(r)
  <2>1. ~ DeleteOne(r) /\ ~ FatalError(r) /\ ~ RecoverDrop(r)
    BY <1>2, NoneIsNoMessage DEF RecoverPop, RecoverPush, DeleteOne, FatalError, RecoverDrop, At
  <2> QED BY <1>0, <1>2, <2>1, PresentRecovered
<1>3. CASE DeleteOne(r) \/ FatalError(r)
  BY <1>0, <1>3, PresentDeleted
<1>4. CASE /\ ~ DeleteOne(r) /\ ~ FatalError(r)
           /\ \/ Start(r) \/ RecoverDrop(r) \/ RecoverDone(r) \/ HandleOne(r)
              \/ DeleteFails(r) \/ Stop(r) \/ Crash(r)
  <2>1. /\ UNCHANGED <<main, buffer>> /\ held'[r] \in {held[r], None}
        /\ rpc'[r] = "recover" => rpc[r] = "recover" \/ held'[r] = None
        /\ RecoverDrop(r) => rpc[r] = "recover" /\ held'[r] = None
    <3>1. CASE Start(r)
      BY <1>0, <3>1 DEF Start, RecoverDrop, At, TypeOK
    <3>2. CASE RecoverDrop(r)
      BY <1>0, <3>2 DEF RecoverDrop, Holds, TypeOK
    <3>3. CASE RecoverDone(r)
      BY <1>0, <3>3 DEF RecoverDone, RecoverDrop, At, TypeOK
    <3>4. CASE HandleOne(r)
      BY <1>0, <3>4 DEF HandleOne, RecoverDrop, At, TypeOK
    <3>5. CASE DeleteFails(r)
      BY <1>0, <3>5 DEF DeleteFails, RecoverDrop, At, Holds, TypeOK
    <3>6. CASE Stop(r) \/ Crash(r)
      BY <1>0, <3>6 DEF Stop, Crash, RecoverDrop, Holds, TypeOK
    <3> QED BY <1>4, <3>1, <3>2, <3>3, <3>4, <3>5, <3>6
  <2> QED BY <1>0, <1>4, <2>1, PresentInMemory
<1> QED BY <1>1, <1>2, <1>3, <1>4 DEF ReaderStep, ReaderFault

\* Sending adds the message sent.
LEMMA PresentSent ==
  ASSUME QueueInv, QueueInv', Enqueue, NEW m \in Message
  PROVE  Present(m)' <=> Present(m) \/ m = sent + 1
<1>1. /\ main' = Append(main, sent + 1) /\ sent + 1 \in Message
      /\ UNCHANGED <<buffer, rpc, held>>
  BY QueuesHold DEF Enqueue, readVars, Message
<1>2. ToSet(main') = ToSet(main) \cup {sent + 1}
  BY <1>1, QueuesHold, ToSetAppend
<1>3. InQueues(m)' <=> InQueues(m) \/ m = sent + 1
  BY <1>1, <1>2 DEF InQueues
<1>4. InMemory(m)' <=> InMemory(m)
  BY <1>1 DEF InMemory
<1> QED BY <1>3, <1>4, PresentMeans

-----------------------------------------------------------------------------
(* What the queue promises of each step *)

\* A message no handler has seen goes missing only with the memory of a process that
\* was recovering it: a delete, a lost reply, a stop or a crash anywhere else loses
\* none.
THEOREM LostOnlyInRecoveryHolds == Spec => LostOnlyInRecovery
<1> DEFINE Kept == \A m \in Message : handled[m] = 0 /\ Present(m) /\ Recovering(m) = {} =>
                     Present(m)' \/ handled'[m] = 1
<1>1. WorkInv /\ WorkInv' /\ [Next]_vars => [Kept]_vars
  <2> SUFFICES ASSUME WorkInv, WorkInv', Next,
                      NEW m \in Message, handled[m] = 0, Present(m), Recovering(m) = {}
               PROVE  Present(m)'
    OBVIOUS
  <2>0. QueueInv /\ QueueInv'  BY DEF WorkInv
  <2>1. CASE Enqueue
    BY <2>0, <2>1, PresentSent
  <2>2. CASE \E r \in Reader : ReaderStep(r) \/ ReaderFault(r)
    <3>1. PICK r \in Reader : ReaderStep(r) \/ ReaderFault(r)  BY <2>2
    <3> SUFFICES ASSUME ~ Present(m)'  PROVE FALSE
      OBVIOUS
    <3>2. held[r] = m /\ (rpc[r] = "recover" \/ DeleteOne(r) \/ FatalError(r))
      BY <2>0, <3>1, PresentStep
    <3>3. rpc[r] # "recover"
      BY <3>2 DEF Recovering
    <3>4. rpc[r] = "delete"
      BY <3>2, <3>3 DEF DeleteOne, FatalError, At
    <3> QED BY <3>2, <3>4 DEF WorkInv, HandledWasTaken
  <2> QED BY <2>1, <2>2 DEF Next
<1> QED BY <1>1, WorkInvHolds, PTL DEF Spec, LostOnlyInRecovery

\* A message is taken for the first time in the order it was sent, and not while one
\* that was put back still waits: a replay never lets newer messages overtake.
THEOREM FreshInOrderHolds == Spec => FreshInOrder
<1> DEFINE Ordered == taken' # taken => /\ taken' = taken + 1
                                        /\ \A m \in 1..taken : ~ Contains(main, m)
<1>1. QueueInv /\ [Next]_vars => [Ordered]_vars
  <2> SUFFICES ASSUME QueueInv, Next, taken' # taken  PROVE Ordered
    OBVIOUS
  <2>1. main # <<>> /\ Taken
    BY DEF Next, Enqueue, ReaderStep, ReaderFault, Start, RecoverPop, RecoverDrop, RecoverPush,
       RecoverDone, Dequeue, HandleOne, DeleteOne, DeleteFails, FatalError, ReplyLost, Stop, Crash
  <2> DEFINE h == Head(main)
  <2>2. /\ h \in Message /\ h \in ToSet(main) /\ ToSet(main) = ToSet(Tail(main)) \cup {h}
        /\ h \in Nat /\ taken \in Nat /\ sent \in Nat /\ main \in Seq(Message)
        /\ ToSet(main) \subseteq 1..sent
    BY <2>1, QueuesHold, ToSetTail, NoneIsNoMessage DEF QueueInv, FreshWaits
  <2>3. h > taken /\ taken' = h
    BY <2>1 DEF Taken
  <2>4. \A x \in ToSet(Tail(main)) : x > h
    BY <2>1, <2>2, <2>3, InOrderTail DEF QueueInv, FreshWaits
  <2>5. taken + 1 \in ToSet(main)
    BY <2>2, <2>3 DEF QueueInv, FreshWaits
  <2> HIDE DEF h
  <2>6. h = taken + 1
    <3>1. taken + 1 = h \/ taken + 1 \in ToSet(Tail(main))
      BY <2>2, <2>5
    <3> QED BY <3>1, <2>2, <2>3, <2>4
  <2>7. ASSUME NEW m \in 1..taken  PROVE m \notin ToSet(main)
    <3>1. m < h /\ m \in Nat  BY <2>2, <2>3
    <3> QED BY <3>1, <2>2, <2>4
  <2>8. \A m \in 1..taken : ~ Contains(main, m)
    BY <2>2, <2>7, ToSetMembers
  <2> QED BY <2>3, <2>6, <2>8
<1> QED BY <1>1, QueueInvHolds, PTL DEF Spec, FreshInOrder

-----------------------------------------------------------------------------
(* What a replay costs *)

Deleting(m) == \E r \in Reader : rpc[r] = "delete" /\ held[r] = m

\* The messages that may yet be handled again: each has been, is still there, and
\* no reader is about to delete it. A fault of its own brought each here.
Owed == {m \in Message : handled[m] > 0 /\ Present(m) /\ ~ Deleting(m)}

\* Every replay, and every message that may be replayed, has a fault to pay for it.
Account == IsFiniteSet(Replays) /\ Cardinality(Replays) + Cardinality(Owed) <= faults

LEMMA OwedFinite ==
  IsFiniteSet(Owed) /\ IsFiniteSet(Owed') /\ Owed \subseteq Message /\ Owed' \subseteq Message
<1>1. IsFiniteSet(Message)
  BY BoundAssumption, FS_Interval DEF Message
<1>2. Owed \subseteq Message /\ Owed' \subseteq Message
  BY DEF Owed
<1> QED BY <1>1, <1>2, FS_Subset

\* A fault pays for a message that comes to be owed, or for a replay; a message that
\* was owed pays for its own.
LEMMA Paid ==
  ASSUME NEW R, NEW R2, NEW O, NEW O2, NEW f \in Nat, NEW f2 \in Nat,
         IsFiniteSet(R), IsFiniteSet(O), IsFiniteSet(O2), f <= f2,
         Cardinality(R) + Cardinality(O) <= f,
         \/ R2 = R /\ O2 \subseteq O
         \/ R2 = R /\ (\E m : O2 \subseteq O \cup {m}) /\ f2 = f + 1
         \/ (\E x : R2 = R \cup {x}) /\ (\E m \in O : O2 \subseteq O \ {m})
         \/ (\E x : R2 = R \cup {x}) /\ O2 \subseteq O /\ f2 = f + 1
  PROVE  IsFiniteSet(R2) /\ Cardinality(R2) + Cardinality(O2) <= f2
<1>0. Cardinality(R) \in Nat /\ Cardinality(O) \in Nat /\ Cardinality(O2) \in Nat
  BY FS_CardinalityType
<1>1. O2 \subseteq O => Cardinality(O2) <= Cardinality(O)
  BY FS_Subset
<1>2. ASSUME NEW m, O2 \subseteq O \cup {m}  PROVE Cardinality(O2) <= Cardinality(O) + 1
  <2>1. /\ IsFiniteSet(O \cup {m})
        /\ Cardinality(O \cup {m}) = Cardinality(O) \/ Cardinality(O \cup {m}) = Cardinality(O) + 1
    BY FS_AddElement
  <2>2. Cardinality(O2) <= Cardinality(O \cup {m})
    BY <1>2, <2>1, FS_Subset
  <2> QED BY <1>0, <2>1, <2>2
<1>3. ASSUME NEW m \in O, O2 \subseteq O \ {m}  PROVE Cardinality(O2) <= Cardinality(O) - 1
  <2>1. IsFiniteSet(O \ {m}) /\ Cardinality(O \ {m}) = Cardinality(O) - 1
    BY FS_RemoveElement
  <2>2. Cardinality(O2) <= Cardinality(O \ {m})
    BY <1>3, <2>1, FS_Subset
  <2> QED BY <2>1, <2>2
<1>4. ASSUME NEW x, R2 = R \cup {x}
      PROVE  IsFiniteSet(R2) /\ Cardinality(R2) \in Nat /\ Cardinality(R2) <= Cardinality(R) + 1
  <2>1. /\ IsFiniteSet(R \cup {x})
        /\ Cardinality(R \cup {x}) = Cardinality(R) \/ Cardinality(R \cup {x}) = Cardinality(R) + 1
    BY FS_AddElement
  <2> QED BY <1>0, <1>4, <2>1
<1>5. CASE R2 = R /\ O2 \subseteq O
  BY <1>0, <1>1, <1>5
<1>6. CASE R2 = R /\ (\E m : O2 \subseteq O \cup {m}) /\ f2 = f + 1
  BY <1>0, <1>2, <1>6
<1>7. CASE (\E x : R2 = R \cup {x}) /\ (\E m \in O : O2 \subseteq O \ {m})
  <2>1. PICK m \in O : O2 \subseteq O \ {m}  BY <1>7
  <2>2. Cardinality(O2) <= Cardinality(O) - 1  BY <2>1, <1>3
  <2>3. PICK x : R2 = R \cup {x}  BY <1>7
  <2>4. IsFiniteSet(R2) /\ Cardinality(R2) \in Nat /\ Cardinality(R2) <= Cardinality(R) + 1
    BY <2>3, <1>4
  <2> QED BY <1>0, <2>2, <2>4
<1>8. CASE (\E x : R2 = R \cup {x}) /\ O2 \subseteq O /\ f2 = f + 1
  <2>1. PICK x : R2 = R \cup {x}  BY <1>8
  <2>2. IsFiniteSet(R2) /\ Cardinality(R2) \in Nat /\ Cardinality(R2) <= Cardinality(R) + 1
    BY <2>1, <1>4
  <2> QED BY <1>0, <1>1, <1>8, <2>2
<1> QED BY <1>5, <1>6, <1>7, <1>8

\* A message handled for the first time is no replay, and one handled again is one
\* more.
LEMMA ReplaysCounted ==
  ASSUME TypeOK, NEW h \in Message, Counted(h)
  PROVE  /\ handled[h] = 0 => Replays' = Replays
         /\ handled[h] > 0 => Replays' = Replays \cup {<<h, handled[h] + 1>>}
<1>1. /\ handled'[h] = handled[h] + 1 /\ handled[h] \in Nat
      /\ \A n \in Message : n # h => handled'[n] = handled[n]
  BY CountedTyped DEF TypeOK
<1>2. ASSUME NEW n \in Message, NEW k \in Int
      PROVE  /\ <<n, k>> \in Replays <=> k \in 2..handled[n]
             /\ <<n, k>> \in Replays' <=> k \in 2..handled'[n]
  <2>1. \A m \in Message : /\ <<n, k>> \in {m} \X (2..handled[m]) <=> m = n /\ k \in 2..handled[n]
                           /\ <<n, k>> \in {m} \X (2..handled'[m]) <=> m = n /\ k \in 2..handled'[n]
    OBVIOUS
  <2>2. /\ <<n, k>> \in Replays <=> \E m \in Message : <<n, k>> \in {m} \X (2..handled[m])
        /\ <<n, k>> \in Replays' <=> \E m \in Message : <<n, k>> \in {m} \X (2..handled'[m])
    BY DEF Replays
  <2> QED BY <2>1, <2>2
<1>3. \A p \in Message \X Int : p = <<p[1], p[2]>> /\ p[1] \in Message /\ p[2] \in Int
  OBVIOUS
<1>4. Replays \subseteq Message \X Int /\ Replays' \subseteq Message \X Int
  BY DEF Replays
<1>5. ASSUME handled[h] = 0  PROVE Replays' = Replays
  <2>1. \A n \in Message : 2..handled'[n] = 2..handled[n]
    BY <1>1, <1>5
  <2> QED BY <2>1 DEF Replays
<1>6. ASSUME handled[h] > 0  PROVE Replays' = Replays \cup {<<h, handled[h] + 1>>}
  <2>1. /\ 2..handled'[h] = (2..handled[h]) \cup {handled[h] + 1}
        /\ \A n \in Message : n # h => 2..handled'[n] = 2..handled[n]
    BY <1>1, <1>6
  <2>2. \A n \in Message, k \in Int :
          k \in 2..handled'[n] <=> k \in 2..handled[n] \/ (n = h /\ k = handled[h] + 1)
    BY <2>1
  <2>3. \A n \in Message, k \in Int :
          <<n, k>> \in Replays' <=> <<n, k>> \in Replays \/ <<n, k>> = <<h, handled[h] + 1>>
    BY <1>2, <2>2
  <2>4. <<h, handled[h] + 1>> \in Message \X Int
    BY <1>1
  <2> QED BY <1>3, <1>4, <2>3, <2>4
<1> QED BY <1>5, <1>6

\* What a reader handles or recovers is there, and no reader deletes it.
LEMMA NotBeingDeleted ==
  ASSUME WorkInv, NEW r \in Reader, held[r] \in Message, rpc[r] \in {"handle", "recover"}
  PROVE  Present(held[r]) /\ ~ Deleting(held[r])
<1>1. /\ \A q \in Reader : rpc[q] \in {"handle", "delete"} =>
           BufferName(q) \in Buffers /\ held[q] \in ToSet(buffer[BufferName(q)])
      /\ \A q \in Reader : q # r => BufferName(q) # BufferName(r)
  BY BufferedHolds, OneBufferEach DEF WorkInv, OwnBuffer
<1>2. ~ Deleting(held[r])
  <2> SUFFICES ASSUME NEW q \in Reader, rpc[q] = "delete", held[q] = held[r]  PROVE FALSE
    BY DEF Deleting
  <2>1. q # r /\ held[r] \in ToSet(buffer[BufferName(q)]) /\ BufferName(q) \in Buffers
    BY <1>1
  <2>2. CASE rpc[r] = "recover"
    BY <2>1, <2>2 DEF WorkInv, QueueInv, NothingTwice
  <2>3. CASE rpc[r] = "handle"
    <3>1. held[r] \in ToSet(buffer[BufferName(r)]) /\ BufferName(r) \in Buffers
      BY <1>1, <2>3
    <3>2. BufferName(q) # BufferName(r)
      BY <1>1, <2>1
    <3> QED BY <2>1, <3>1, <3>2 DEF WorkInv, QueueInv, NothingTwice
  <2> QED BY <2>2, <2>3
<1>3. Present(held[r])
  <2>1. CASE rpc[r] = "recover"
    BY <2>1 DEF Present, Recovering
  <2>2. CASE rpc[r] = "handle"
    <3>1. Contains(buffer[BufferName(r)], held[r])
      BY <2>2 DEF WorkInv, OwnBuffer, Buffered
    <3> QED BY <3>1, OneBufferEach DEF Present, InBuffers
  <2> QED BY <2>1, <2>2
<1> QED BY <1>2, <1>3

\* A step that counts nothing owes nothing new, but what a reader no longer deletes.
LEMMA OwedKept ==
  ASSUME WorkInv, QueueInv', NEW r \in Reader, ReaderStep(r) \/ ReaderFault(r),
         NEW m \in Message, handled'[m] = handled[m], m \in Owed', rpc[r] = "delete" => held[r] # m
  PROVE  m \in Owed
<1>1. Present(m)
  BY PresentStep DEF Owed
<1>2. ~ Deleting(m)
  <2> SUFFICES ASSUME NEW q \in Reader, rpc[q] = "delete", held[q] = m  PROVE Deleting(m)'
    BY DEF Owed, Deleting
  <2>1. rpc'[q] = rpc[q] /\ held'[q] = held[q]
    BY OthersUntouched DEF WorkInv
  <2> QED BY <2>1 DEF Deleting
<1> QED BY <1>1, <1>2 DEF Owed

\* The steps of a reader, each with the fault or the owed message that pays for it.
LEMMA ReaderPaid ==
  ASSUME WorkInv, QueueInv', NEW r \in Reader, ReaderStep(r) \/ ReaderFault(r)
  PROVE  /\ faults' = faults \/ faults' = faults + 1
         /\ \/ Replays' = Replays /\ Owed' \subseteq Owed
            \/ Replays' = Replays /\ (\E m : Owed' \subseteq Owed \cup {m}) /\ faults' = faults + 1
            \/ (\E x : Replays' = Replays \cup {x}) /\ (\E m \in Owed : Owed' \subseteq Owed \ {m})
            \/ (\E x : Replays' = Replays \cup {x}) /\ Owed' \subseteq Owed /\ faults' = faults + 1
<1> DEFINE h == held[r]
<1>0. QueueInv /\ TypeOK  BY DEF WorkInv, QueueInv
<1>1. faults' = faults \/ faults' = faults + 1
  BY DEF ReaderStep, ReaderFault, Start, RecoverPop, RecoverDrop, RecoverPush, RecoverDone,
     Dequeue, HandleOne, DeleteOne, DeleteFails, FatalError, ReplyLost, Stop, Crash, Fault
<1>2. Owed' \subseteq Message
  BY DEF Owed
<1>3. handled' = handled => Replays' = Replays
  BY DEF Replays
<1>4. CASE HandleOne(r) \/ RecoverDrop(r)
  <2>1. h \in Message /\ Counted(h) /\ rpc[r] \in {"handle", "recover"}
    BY <1>0, <1>4, NoneIsNoMessage DEF HandleOne, RecoverDrop, At, TypeOK
  <2>2. h \notin Owed'
    <3>1. CASE HandleOne(r)
      <4>1. rpc'[r] = "delete" /\ held'[r] = h
        BY <1>0, <3>1 DEF HandleOne, At, TypeOK
      <4> QED BY <4>1 DEF Owed, Deleting
    <3>2. CASE RecoverDrop(r)
      BY <2>1, <3>2, PresentStep DEF Owed
    <3> QED BY <1>4, <3>1, <3>2
  <2>3. \A m \in Owed' : m # h /\ m \in Owed
    <3> SUFFICES ASSUME NEW m \in Owed'  PROVE m # h /\ m \in Owed
      OBVIOUS
    <3>1. m \in Message /\ m # h  BY <1>2, <2>2
    <3>2. handled'[m] = handled[m]  BY <1>0, <2>1, <3>1, CountedTyped
    <3> QED BY <2>1, <3>1, <3>2, OwedKept
  <2>4. CASE handled[h] = 0
    <3>1. Replays' = Replays  BY <1>0, <2>1, <2>4, ReplaysCounted
    <3> QED BY <1>1, <2>3, <3>1
  <2>5. CASE handled[h] > 0
    <3>1. Replays' = Replays \cup {<<h, handled[h] + 1>>}
      BY <1>0, <2>1, <2>5, ReplaysCounted
    <3>2. h \in Owed
      BY <2>1, <2>5, NotBeingDeleted DEF Owed
    <3>3. Owed' \subseteq Owed \ {h}
      BY <2>3
    <3> QED BY <1>1, <3>1, <3>2, <3>3
  <2>6. handled[h] = 0 \/ handled[h] > 0
    BY <1>0, <2>1 DEF TypeOK
  <2> QED BY <2>4, <2>5, <2>6
<1>5. CASE Stop(r) /\ rpc[r] = "handle"
  <2>1. h \in Message /\ Counted(h) /\ faults' = faults + 1
    BY <1>0, <1>5 DEF Stop, Fault, TypeOK
  <2>2. \A m \in Owed' : m = h \/ m \in Owed
    <3> SUFFICES ASSUME NEW m \in Owed', m # h  PROVE m \in Owed
      OBVIOUS
    <3>1. m \in Message  BY <1>2
    <3>2. handled'[m] = handled[m]  BY <1>0, <2>1, <3>1, CountedTyped
    <3> QED BY <3>1, <3>2, OwedKept
  <2>3. CASE handled[h] = 0
    <3>1. Replays' = Replays  BY <1>0, <2>1, <2>3, ReplaysCounted
    <3>2. Owed' \subseteq Owed \cup {h}  BY <2>2
    <3> QED BY <1>1, <2>1, <3>1, <3>2
  <2>4. CASE handled[h] > 0
    <3>1. Replays' = Replays \cup {<<h, handled[h] + 1>>}
      BY <1>0, <2>1, <2>4, ReplaysCounted
    <3>2. h \in Owed
      BY <1>5, <2>1, <2>4, NotBeingDeleted DEF Owed
    <3>3. Owed' \subseteq Owed  BY <2>2, <3>2
    <3> HIDE DEF h
    <3> QED BY <2>1, <3>1, <3>3
  <2>6. handled[h] = 0 \/ handled[h] > 0
    BY <1>0, <2>1 DEF TypeOK
  <2> QED BY <2>3, <2>4, <2>6
<1>6. CASE handled' = handled /\ rpc[r] = "delete"
  <2>1. \A m \in Owed' : m = h \/ m \in Owed
    BY <1>2, <1>6, OwedKept
  <2>2. CASE DeleteOne(r) \/ FatalError(r)
    <3>1. h \notin Owed'
      BY <1>2, <2>2, PresentStep DEF Owed
    <3> QED BY <1>1, <1>3, <1>6, <2>1, <3>1
  <2>3. CASE DeleteFails(r) \/ Stop(r) \/ Crash(r)
    <3>1. faults' = faults + 1
      BY <2>3 DEF DeleteFails, Stop, Crash, Fault
    <3>2. Owed' \subseteq Owed \cup {h}
      BY <2>1
    <3> QED BY <1>3, <1>6, <3>1, <3>2
  <2>4. DeleteOne(r) \/ FatalError(r) \/ DeleteFails(r) \/ Stop(r) \/ Crash(r)
    BY <1>6 DEF ReaderStep, ReaderFault, Start, RecoverPop, RecoverDrop, RecoverPush, RecoverDone,
       Dequeue, HandleOne, ReplyLost, At
  <2> QED BY <2>2, <2>3, <2>4
<1>7. CASE handled' = handled /\ rpc[r] # "delete"
  <2>1. Owed' \subseteq Owed
    BY <1>2, <1>7, OwedKept
  <2> QED BY <1>1, <1>3, <1>7, <2>1
<1>8. \/ HandleOne(r) \/ RecoverDrop(r) \/ handled' = handled
      \/ Stop(r) /\ rpc[r] = "handle"
  BY <1>0, OnlyHeldCounted
<1> QED BY <1>4, <1>5, <1>6, <1>7, <1>8

\* Sending owes nothing: what is sent was never handled.
LEMMA SentPaid ==
  ASSUME WorkInv, QueueInv', Enqueue
  PROVE  Replays' = Replays /\ Owed' \subseteq Owed /\ faults' = faults
<1>0. QueueInv  BY DEF WorkInv
<1>1. UNCHANGED <<rpc, held, handled, faults>>
  BY DEF Enqueue, readVars
<1>2. Replays' = Replays
  BY <1>1 DEF Replays
<1>3. \A m \in Message : handled[m] > 0 => m # sent + 1
  BY <1>0, QueuesHold, NoneIsNoMessage DEF WorkInv, HandledWasTaken
<1>4. \A m \in Message : m # sent + 1 => (Present(m)' <=> Present(m))
  BY <1>0, PresentSent
<1>5. Owed' \subseteq Owed
  BY <1>1, <1>3, <1>4 DEF Owed, Deleting
<1> QED BY <1>1, <1>2, <1>5

LEMMA AccountNext ==
  ASSUME WorkInv, WorkInv', Account, [Next]_vars  PROVE Account'
<1>0. /\ faults \in Nat /\ faults' \in Nat
      /\ IsFiniteSet(Owed) /\ IsFiniteSet(Owed')
      /\ IsFiniteSet(Replays) /\ Cardinality(Replays) + Cardinality(Owed) <= faults
  BY BoundAssumption, OwedFinite DEF WorkInv, QueueInv, TypeOK, Account
<1>1. CASE UNCHANGED vars
  <2>1. Replays' = Replays /\ Owed' = Owed /\ faults' = faults
    BY <1>1 DEF vars, readVars, Replays, Owed, Present, InBuffers, Recovering, Deleting
  <2> QED BY <1>0, <2>1 DEF Account
<1>2. CASE Enqueue
  <2>1. Replays' = Replays /\ Owed' \subseteq Owed /\ faults' = faults
    BY <1>2, SentPaid DEF WorkInv
  <2> QED BY <1>0, <2>1, Paid DEF Account
<1>3. CASE \E r \in Reader : ReaderStep(r) \/ ReaderFault(r)
  <2>1. PICK r \in Reader : ReaderStep(r) \/ ReaderFault(r)  BY <1>3
  <2>2. QueueInv'  BY DEF WorkInv
  <2>3. /\ faults' = faults \/ faults' = faults + 1
        /\ \/ Replays' = Replays /\ Owed' \subseteq Owed
           \/ Replays' = Replays /\ (\E m : Owed' \subseteq Owed \cup {m}) /\ faults' = faults + 1
           \/ (\E x : Replays' = Replays \cup {x}) /\ (\E m \in Owed : Owed' \subseteq Owed \ {m})
           \/ (\E x : Replays' = Replays \cup {x}) /\ Owed' \subseteq Owed /\ faults' = faults + 1
    BY <2>1, <2>2, ReaderPaid
  <2>4. faults <= faults'  BY <1>0, <2>3
  <2> DEFINE R == Replays  R2 == Replays'  O == Owed  O2 == Owed'
  <2> HIDE DEF R, R2, O, O2
  <2>5. IsFiniteSet(R2) /\ Cardinality(R2) + Cardinality(O2) <= faults'
    BY <1>0, <2>3, <2>4, Paid DEF R, R2, O, O2
  <2> QED BY <2>5 DEF Account, R2, O2
<1> QED BY <1>1, <1>2, <1>3 DEF Next

LEMMA AccountInit == Init => Account
<1> SUFFICES ASSUME Init PROVE Account
  OBVIOUS
<1>1. Replays = {} /\ Owed = {} /\ faults = 0
  BY DEF Init, Replays, Owed
<1> QED BY <1>1, FS_EmptySet DEF Account

LEMMA AccountHolds == Spec => []Account
BY AccountInit, AccountNext, WorkInvHolds, PTL DEF Spec

\* Each handling of a message after its first has a fault of its own to blame: a
\* failed delete, a stop or a crash. A redelivery never brings another with it.
THEOREM RedeliveryBoundedHolds == Spec => []RedeliveryBounded
<1>1. WorkInv /\ Account => RedeliveryBounded
  <2> SUFFICES ASSUME WorkInv, Account  PROVE RedeliveryBounded
    OBVIOUS
  <2>1. Cardinality(Replays) \in Nat /\ Cardinality(Owed) \in Nat /\ faults \in Nat
    BY FS_CardinalityType, OwedFinite, BoundAssumption DEF Account, WorkInv, QueueInv, TypeOK
  <2> QED BY <2>1 DEF Account, RedeliveryBounded
<1> QED BY <1>1, WorkInvHolds, AccountHolds, PTL
=============================================================================
