------------------------------ MODULE QueueLemmas ------------------------------
(***************************************************************************)
(* Facts about the sequence operators the queues of the task engine are    *)
(* built from, for every sequence.                                         *)
(***************************************************************************)
EXTENDS SequencesExt, TLAPS, SequenceTheorems, FiniteSetTheorems, WellFoundedInduction

\* A nonempty set of natural numbers has a least element.
LEMMA MinOfNats ==
  ASSUME NEW S \in SUBSET Nat, S # {}
  PROVE  \E m \in S : \A y \in S : m <= y
<1>1. PICK m \in S : \A y \in S : ~ (<<y, m>> \in OpToRel(<, Nat))
  BY NatLessThanWellFounded, WFMin
<1>2. \A y \in S : ~ (y < m)
  BY <1>1 DEF OpToRel
<1> QED BY <1>2

\* Deleting a message from a buffer (LREM) leaves a queue of the same messages.
LEMMA RemoveFirstInSeq ==
  ASSUME NEW S, NEW s \in Seq(S), NEW e
  PROVE  RemoveFirst(s, e) \in Seq(S)
<1>1. CASE ~ \E i \in 1..Len(s) : s[i] = e
  BY <1>1 DEF RemoveFirst
<1>2. CASE \E i \in 1..Len(s) : s[i] = e
  <2> DEFINE I == {i \in 1..Len(s) : s[i] = e}
  <2>1. I \in SUBSET Nat /\ I # {} /\ I \subseteq 1..Len(s)
    BY <1>2, LenProperties
  <2>2. PICK k \in I : \A y \in I : k <= y
    BY <2>1, MinOfNats
  <2>3. SelectInSeq(s, LAMBDA v : v = e) \in 1..Len(s)
    BY <2>1, <2>2 DEF SelectInSeq, Min
  <2>4. \A i \in 1..Len(s) : SubSeq(s, 1, i - 1) \in Seq(S) /\ SubSeq(s, i + 1, Len(s)) \in Seq(S)
    BY LenProperties, SubSeqProperties
  <2>5. RemoveAt(s, SelectInSeq(s, LAMBDA v : v = e)) \in Seq(S)
    BY <2>3, <2>4, ConcatProperties DEF RemoveAt
  <2> QED BY <1>2, <2>5 DEF RemoveFirst
<1> QED BY <1>1, <1>2

\* A finite set sent in some order is a sequence of its elements.
LEMMA SetToSeqsInSeq ==
  ASSUME NEW S, IsFiniteSet(S), NEW s \in SetToSeqs(S)
  PROVE  s \in Seq(S)
BY FS_CardinalityType DEF SetToSeqs
-----------------------------------------------------------------------------
(* What a queue holds, as a set, when it holds nothing twice *)

LEMMA ToSetMembers ==
  ASSUME NEW S, NEW s \in Seq(S)
  PROVE  /\ ToSet(s) = {s[i] : i \in 1..Len(s)} /\ ToSet(s) \subseteq S
         /\ \A e : Contains(s, e) <=> e \in ToSet(s)
         /\ IsInjective(s) <=> \A i, j \in 1..Len(s) : s[i] = s[j] => i = j
BY LenProperties DEF ToSet, Contains, IsInjective

LEMMA ToSetEmpty ==
  /\ ToSet(<<>>) = {} /\ IsInjective(<<>>)
BY DEF ToSet, IsInjective

\* Enqueueing.
LEMMA ToSetAppend ==
  ASSUME NEW S, NEW s \in Seq(S), NEW e \in S
  PROVE  /\ Append(s, e) \in Seq(S)
         /\ ToSet(Append(s, e)) = ToSet(s) \cup {e}
         /\ IsInjective(s) /\ e \notin ToSet(s) => IsInjective(Append(s, e))
<1> DEFINE c == Append(s, e)
<1>1. /\ c \in Seq(S) /\ Len(c) = Len(s) + 1
      /\ \A i \in 1..Len(s) : c[i] = s[i]
      /\ c[Len(s) + 1] = e
      /\ Len(s) \in Nat
  BY AppendProperties, LenProperties
<1>2. /\ ToSet(c) = {c[i] : i \in 1..Len(c)} /\ ToSet(s) = {s[i] : i \in 1..Len(s)}
      /\ IsInjective(c) <=> \A i, j \in 1..Len(c) : c[i] = c[j] => i = j
      /\ IsInjective(s) <=> \A i, j \in 1..Len(s) : s[i] = s[j] => i = j
  BY <1>1, ToSetMembers
<1> HIDE DEF c
<1>3. \A i \in 1..Len(c) : i \in 1..Len(s) \/ i = Len(s) + 1
  BY <1>1
<1>4. 1..Len(s) \subseteq 1..Len(c) /\ Len(s) + 1 \in 1..Len(c)
  BY <1>1
<1>5. ToSet(c) = ToSet(s) \cup {e}
  BY <1>1, <1>2, <1>3, <1>4
<1>6. IsInjective(s) /\ e \notin ToSet(s) => IsInjective(c)
  BY <1>1, <1>2, <1>3
<1> QED BY <1>1, <1>5, <1>6 DEF c

\* Putting back in front.
LEMMA ToSetCons ==
  ASSUME NEW S, NEW s \in Seq(S), NEW e \in S
  PROVE  /\ <<e>> \o s \in Seq(S)
         /\ Len(<<e>> \o s) = Len(s) + 1
         /\ (<<e>> \o s)[1] = e
         /\ \A i \in 1..Len(s) : (<<e>> \o s)[i + 1] = s[i]
         /\ ToSet(<<e>> \o s) = ToSet(s) \cup {e}
         /\ IsInjective(s) /\ e \notin ToSet(s) => IsInjective(<<e>> \o s)
<1> DEFINE c == <<e>> \o s
<1>1. <<e>> \in Seq(S) /\ Len(<<e>>) = 1 /\ <<e>>[1] = e /\ Len(s) \in Nat
  BY LenProperties
<1>2. /\ c \in Seq(S) /\ Len(c) = Len(s) + 1
      /\ c[1] = e
      /\ \A i \in 1..Len(s) : c[i + 1] = s[i]
      /\ \A i \in 2..Len(c) : i - 1 \in 1..Len(s) /\ c[i] = s[i - 1]
  BY <1>1, ConcatProperties
<1> HIDE DEF c
<1>3. ToSet(c) = ToSet(s) \cup {e}
  <2>1. ToSet(c) = {c[i] : i \in 1..Len(c)} /\ ToSet(s) = {s[i] : i \in 1..Len(s)}
    BY <1>2, ToSetMembers
  <2>2. ASSUME NEW i \in 1..Len(c)  PROVE c[i] \in ToSet(s) \cup {e}
    BY <1>1, <1>2, <2>1
  <2>3. ASSUME NEW i \in 1..Len(s)  PROVE s[i] \in ToSet(c)
    <3>1. i + 1 \in 1..Len(c) /\ c[i + 1] = s[i]  BY <1>1, <1>2
    <3> QED BY <3>1, <2>1
  <2>4. e \in ToSet(c)
    <3>1. 1 \in 1..Len(c)  BY <1>1, <1>2
    <3> QED BY <3>1, <1>2, <2>1
  <2> QED BY <2>1, <2>2, <2>3, <2>4
<1>4. ASSUME IsInjective(s), e \notin ToSet(s)  PROVE IsInjective(c)
  <2>1. \A i, j \in 1..Len(s) : s[i] = s[j] => i = j
    BY <1>4, ToSetMembers
  <2>2. \A i \in 1..Len(s) : s[i] # e
    BY <1>4, ToSetMembers
  <2>3. ASSUME NEW i \in 1..Len(c), NEW j \in 1..Len(c), c[i] = c[j]  PROVE i = j
    <3>1. CASE i = 1 /\ j = 1  BY <3>1
    <3>2. CASE i = 1 /\ j # 1
      <4>1. j \in 2..Len(c)  BY <3>2, <1>1, <1>2
      <4> QED BY <4>1, <3>2, <2>3, <2>2, <1>2
    <3>3. CASE i # 1 /\ j = 1
      <4>1. i \in 2..Len(c)  BY <3>3, <1>1, <1>2
      <4> QED BY <4>1, <3>3, <2>3, <2>2, <1>2
    <3>4. CASE i # 1 /\ j # 1
      <4>1. i \in 2..Len(c) /\ j \in 2..Len(c)  BY <3>4, <1>1, <1>2
      <4>2. i - 1 = j - 1  BY <4>1, <2>3, <2>1, <1>2
      <4> QED BY <4>2
    <3> QED BY <3>1, <3>2, <3>3, <3>4
  <2> QED BY <1>2, <2>3, ToSetMembers
<1> QED BY <1>2, <1>3, <1>4 DEF c

\* Taking the head.
LEMMA ToSetTail ==
  ASSUME NEW S, NEW s \in Seq(S), s # <<>>
  PROVE  /\ Head(s) \in S /\ Head(s) = s[1] /\ Head(s) \in ToSet(s)
         /\ Tail(s) \in Seq(S)
         /\ ToSet(s) = ToSet(Tail(s)) \cup {Head(s)}
         /\ IsInjective(s) => /\ IsInjective(Tail(s))
                             /\ ToSet(Tail(s)) = ToSet(s) \ {Head(s)}
<1> DEFINE u == Tail(s)
<1>1. /\ Head(s) \in S /\ u \in Seq(S) /\ Len(u) = Len(s) - 1
      /\ \A i \in 1..Len(u) : u[i] = s[i + 1] /\ i + 1 \in 1..Len(s)
      /\ Head(s) = s[1] /\ 1 \in 1..Len(s) /\ Len(s) \in Nat
  BY HeadTailProperties, LenProperties, EmptySeq
<1>2. \A i \in 2..Len(s) : i - 1 \in 1..Len(u) /\ u[i - 1] = s[i]
  BY <1>1
<1>3. ToSet(u) = {u[i] : i \in 1..Len(u)} /\ ToSet(s) = {s[i] : i \in 1..Len(s)}
  BY <1>1, ToSetMembers
<1> HIDE DEF u
<1>4. ToSet(u) \subseteq ToSet(s) /\ Head(s) \in ToSet(s)
  BY <1>1, <1>3
<1>5. ASSUME NEW i \in 1..Len(s)  PROVE s[i] \in ToSet(u) \cup {Head(s)}
  <2>1. CASE i = 1  BY <2>1, <1>1
  <2>2. CASE i # 1
    <3>1. i \in 2..Len(s)  BY <2>2, <1>1
    <3> QED BY <3>1, <1>2, <1>3
  <2> QED BY <2>1, <2>2
<1>6. ToSet(s) = ToSet(u) \cup {Head(s)}
  BY <1>3, <1>4, <1>5
<1>7. ASSUME IsInjective(s)  PROVE IsInjective(u) /\ Head(s) \notin ToSet(u)
  <2>1. \A i, j \in 1..Len(s) : s[i] = s[j] => i = j
    BY <1>7, ToSetMembers
  <2>2. ASSUME NEW i \in 1..Len(u), NEW j \in 1..Len(u), u[i] = u[j]  PROVE i = j
    <3>1. i + 1 = j + 1  BY <1>1, <2>1, <2>2
    <3> QED BY <3>1
  <2>3. ASSUME NEW i \in 1..Len(u)  PROVE u[i] # Head(s)
    <3>1. i + 1 # 1 /\ i + 1 \in 1..Len(s) /\ u[i] = s[i + 1]  BY <1>1
    <3> QED BY <3>1, <1>1, <2>1
  <2> QED BY <1>1, <1>3, <2>2, <2>3, ToSetMembers
<1> QED BY <1>1, <1>4, <1>6, <1>7 DEF u

\* Deleting takes one message out and leaves the others as they were.
LEMMA ToSetRemoveFirst ==
  ASSUME NEW S, NEW s \in Seq(S), NEW e, IsInjective(s)
  PROVE  /\ ToSet(RemoveFirst(s, e)) = ToSet(s) \ {e}
         /\ IsInjective(RemoveFirst(s, e))
<1> DEFINE n == Len(s)
<1>1. n \in Nat /\ \A i, j \in 1..n : s[i] = s[j] => i = j
  BY LenProperties, ToSetMembers
<1>2. CASE ~ \E i \in 1..Len(s) : s[i] = e
  <2>1. RemoveFirst(s, e) = s  BY <1>2 DEF RemoveFirst
  <2>2. e \notin ToSet(s)  BY <1>2, ToSetMembers
  <2> QED BY <2>1, <2>2
<1>3. CASE \E i \in 1..Len(s) : s[i] = e
  <2>1. PICK k \in 1..n : s[k] = e  BY <1>3
  <2>2. {i \in 1..Len(s) : s[i] = e} = {k}  BY <1>1, <2>1
  <2>3. SelectInSeq(s, LAMBDA v : v = e) = k
    BY <2>1, <2>2 DEF SelectInSeq, Min
  <2> DEFINE a == SubSeq(s, 1, k - 1)
             b == SubSeq(s, k + 1, n)
             u == RemoveFirst(s, e)
  <2>4. u = a \o b
    BY <1>3, <2>3 DEF RemoveFirst, RemoveAt
  <2>5. \A i \in 1..n : s[i] \in S
    BY LenProperties
  <2>6. a \in Seq(S) /\ Len(a) = k - 1 /\ \A i \in 1..(k - 1) : a[i] = s[i]
    <3>1. \A i \in 1..(k - 1) : s[i] \in S  BY <1>1, <2>1, <2>5
    <3> QED BY <3>1, <1>1, <2>1, SubSeqProperties
  <2>7. b \in Seq(S) /\ Len(b) = n - k /\ \A i \in 1..(n - k) : b[i] = s[k + i]
    <3>1. \A i \in (k + 1)..n : s[i] \in S  BY <1>1, <2>1, <2>5
    <3> QED BY <3>1, <1>1, <2>1, SubSeqProperties
  <2>8. /\ u \in Seq(S) /\ Len(u) = n - 1
        /\ \A i \in 1..(n - 1) : u[i] = IF i < k THEN s[i] ELSE s[i + 1]
    <3> HIDE DEF a, b, u
    <3>0. /\ u \in Seq(S) /\ Len(u) = Len(a) + Len(b)
          /\ \A i \in 1..(Len(a) + Len(b)) :
               u[i] = IF i <= Len(a) THEN a[i] ELSE b[i - Len(a)]
      BY <2>4, <2>6, <2>7, ConcatProperties
    <3>1. /\ u \in Seq(S) /\ Len(u) = n - 1
          /\ \A i \in 1..(n - 1) : u[i] = IF i <= k - 1 THEN a[i] ELSE b[i - (k - 1)]
      BY <3>0, <2>6, <2>7, <1>1, <2>1
    <3>2. ASSUME NEW i \in 1..(n - 1)  PROVE u[i] = IF i < k THEN s[i] ELSE s[i + 1]
      <4>1. CASE i < k
        <5>1. i \in 1..(k - 1)  BY <4>1, <1>1, <2>1
        <5> QED BY <5>1, <3>1, <2>6
      <4>2. CASE ~ (i < k)
        <5>1. i - (k - 1) \in 1..(n - k) /\ k + (i - (k - 1)) = i + 1 /\ ~ (i <= k - 1)
          BY <4>2, <1>1, <2>1
        <5> QED BY <5>1, <4>2, <3>1, <2>7
      <4> QED BY <4>1, <4>2
    <3> QED BY <3>1, <3>2
  <2> HIDE DEF a, b, u
  <2>9. ToSet(u) = ToSet(s) \ {e}
    <3>1. ToSet(u) = {u[i] : i \in 1..Len(u)} /\ ToSet(s) = {s[i] : i \in 1..n}
      BY <2>8, ToSetMembers
    <3>2. ASSUME NEW i \in 1..Len(u)  PROVE u[i] \in ToSet(s) \ {e}
      <4>1. \E j \in 1..n : j # k /\ u[i] = s[j]
        BY <1>1, <2>1, <2>8
      <4> QED BY <4>1, <3>1, <1>1, <2>1
    <3>3. ASSUME NEW j \in 1..n, s[j] # e  PROVE s[j] \in ToSet(u)
      <4>1. CASE j < k
        <5>1. j \in 1..Len(u) /\ u[j] = s[j]  BY <4>1, <1>1, <2>1, <2>8
        <5> QED BY <5>1, <3>1
      <4>2. CASE j > k
        <5>1. j - 1 \in 1..Len(u) /\ ~ (j - 1 < k) /\ (j - 1) + 1 = j
          BY <4>2, <1>1, <2>1, <2>8
        <5>2. u[j - 1] = s[j]  BY <5>1, <2>8
        <5> QED BY <5>1, <5>2, <3>1
      <4>3. j # k  BY <3>3, <2>1
      <4> QED BY <4>1, <4>2, <4>3, <1>1, <2>1
    <3> QED BY <3>1, <3>2, <3>3
  <2>10. IsInjective(u)
    <3>1. ASSUME NEW i \in 1..Len(u), NEW j \in 1..Len(u), u[i] = u[j]  PROVE i = j
      <4> DEFINE at(x) == IF x < k THEN x ELSE x + 1
      <4>1. u[i] = s[at(i)] /\ u[j] = s[at(j)] /\ at(i) \in 1..n /\ at(j) \in 1..n
        BY <1>1, <2>1, <2>8
      <4>2. at(i) = at(j)  BY <4>1, <3>1, <1>1
      <4> QED BY <4>2, <1>1, <2>1, <2>8
    <3> QED BY <3>1, <2>8, ToSetMembers
  <2> QED BY <2>9, <2>10 DEF u
<1> QED BY <1>2, <1>3
=============================================================================
