-------------------------- MODULE RetryPolicySafety --------------------------
(***************************************************************************)
(* The retry policy, at any width of the word, for any factors and for any *)
(* seconds, those included that do not fit the word: nothing but a spent   *)
(* budget stops a retryable task that has begun to wait, and no attempt    *)
(* waits less than the one before it.  All turns on the sign of the        *)
(* initial delay: positive, every delay is; else the first says stop.      *)
(***************************************************************************)
EXTENDS RetryPolicy, QueueLemmas

-----------------------------------------------------------------------------
\* Powers

\* The first n + 1 powers of b.
IsRow(b, n, f) ==
  f \in [0..n -> Nat] /\ f[0] = 1 /\ \A k \in 1..n : f[k] = b * f[k - 1]

Times(b, f) == [k \in Nat |-> IF k = 0 THEN 1 ELSE b * f[k - 1]]

LEMMA ProductNat ==
  ASSUME NEW a \in Nat, NEW b \in Nat
  PROVE  a * b \in Nat
OBVIOUS

\* A set of numbers that has 0, and with any number the next, has them all.
LEMMA AllNats ==
  ASSUME NEW S \in SUBSET Nat, 0 \in S, \A n \in S : n + 1 \in S
  PROVE  S = Nat
<1> SUFFICES ASSUME Nat \ S # {} PROVE FALSE
  OBVIOUS
<1>1. PICK m \in Nat \ S : \A y \in Nat \ S : m <= y
  BY MinOfNats
<1>2. m - 1 \in S
  BY <1>1
<1> QED BY <1>1, <1>2

LEMMA RowExists ==
  ASSUME NEW b \in Nat, NEW n \in Nat
  PROVE  \E f : IsRow(b, n, f)
<1> DEFINE S == {m \in Nat : \E f : IsRow(b, m, f)}
<1>1. 0 \in S
  <2> DEFINE f == [k \in 0..0 |-> 1]
  <2>1. IsRow(b, 0, f)
    BY DEF IsRow
  <2> QED BY <2>1
<1>2. ASSUME NEW m \in S PROVE m + 1 \in S
  <2>1. PICK f : IsRow(b, m, f)
    OBVIOUS
  <2> DEFINE g == [k \in 0..(m + 1) |-> IF k = m + 1 THEN b * f[m] ELSE f[k]]
  <2>2. f[m] \in Nat /\ \A k \in 0..m : f[k] \in Nat /\ g[k] = f[k]
    BY <2>1 DEF IsRow
  <2>3. g[m + 1] = b * f[m]
    OBVIOUS
  <2>4. b * f[m] \in Nat
    BY <2>2, ProductNat
  <2>5. g \in [0..(m + 1) -> Nat]
    <3>1. \A k \in 0..(m + 1) : k = m + 1 \/ k \in 0..m
      OBVIOUS
    <3> QED BY <2>2, <2>4, <3>1
  <2>6. g[0] = 1
    BY <2>1, <2>2 DEF IsRow
  <2> HIDE DEF g
  <2>7. ASSUME NEW k \in 1..(m + 1) PROVE g[k] = b * g[k - 1]
    <3>1. CASE k = m + 1
      BY <3>1, <2>2, <2>3
    <3>2. CASE k \in 1..m
      <4>1. k - 1 \in 0..m /\ k \in 0..m
        BY <3>2
      <4>2. f[k] = b * f[k - 1]
        BY <3>2, <2>1 DEF IsRow
      <4> QED BY <4>1, <4>2, <2>2
    <3> QED BY <3>1, <3>2
  <2>8. IsRow(b, m + 1, g)
    BY <2>5, <2>6, <2>7 DEF IsRow
  <2> QED BY <2>8
<1>3. S = Nat
  <2> HIDE DEF S
  <2>1. S \in SUBSET Nat
    BY DEF S
  <2> QED BY <1>1, <1>2, <2>1, AllNats
<1> QED BY <1>3

\* Two rows agree as far as both go.
LEMMA RowsAgree ==
  ASSUME NEW b \in Nat, NEW n \in Nat, NEW f, NEW g, IsRow(b, n, f), IsRow(b, n + 1, g)
  PROVE  g[n] = f[n]
<1> DEFINE S == {k \in Nat : k <= n => g[k] = f[k]}
<1>1. 0 \in S
  BY DEF IsRow
<1>2. ASSUME NEW k \in S PROVE k + 1 \in S
  <2>1. CASE k + 1 <= n
    <3>1. k + 1 \in 1..n /\ k + 1 \in 1..(n + 1) /\ (k + 1) - 1 = k
      BY <2>1
    <3>2. f[k + 1] = b * f[k] /\ g[k + 1] = b * g[k]
      BY <3>1 DEF IsRow
    <3> QED BY <2>1, <3>2
  <2> QED BY <2>1
<1>3. S = Nat
  <2> HIDE DEF S
  <2>1. S \in SUBSET Nat
    BY DEF S
  <2> QED BY <1>1, <1>2, <2>1, AllNats
<1> QED BY <1>3

\* The recursive definition defines.
LEMMA TimesExists ==
  ASSUME NEW b \in Nat
  PROVE  \E g \in [Nat -> Nat] : g = Times(b, g)
<1> DEFINE Row(n) == CHOOSE f : IsRow(b, n, f)
           g == [n \in Nat |-> Row(n)[n]]
<1>1. \A n \in Nat : IsRow(b, n, Row(n))
  BY RowExists
<1> HIDE DEF Row
<1>2. \A n \in Nat : g[n] = Row(n)[n]
  OBVIOUS
<1>3. \A n \in Nat : Row(n)[n] \in Nat
  BY <1>1 DEF IsRow
<1>4. g[0] = 1
  BY <1>1, <1>2 DEF IsRow
<1>5. ASSUME NEW n \in Nat \ {0} PROVE g[n] = b * g[n - 1]
  <2>1. n - 1 \in Nat /\ (n - 1) + 1 = n
    OBVIOUS
  <2>2. Row(n)[n - 1] = Row(n - 1)[n - 1]
    BY <1>1, <2>1, RowsAgree
  <2>3. Row(n)[n] = b * Row(n)[n - 1]
    BY <1>1 DEF IsRow
  <2> QED BY <1>2, <2>1, <2>2, <2>3
<1>6. g \in [Nat -> Nat]
  BY <1>3
<1>7. g = Times(b, g)
  <2> HIDE DEF g
  <2> QED BY <1>4, <1>5, <1>6 DEF Times
<1> QED BY <1>6, <1>7

LEMMA PowerIs ==
  ASSUME NEW b \in Nat
  PROVE  /\ Power(b, 0) = 1
         /\ \A n \in Nat : Power(b, n) \in Nat /\ Power(b, n + 1) = b * Power(b, n)
<1> DEFINE T(f) == f = Times(b, f)
           p == CHOOSE f : T(f)
<1>1. \A n \in Nat : Power(b, n) = p[n]
  BY DEF Power, Times
<1>2. \E f : T(f)
  BY TimesExists
<1>3. T(p)
  <2> HIDE DEF T
  <2> QED BY <1>2
<1> HIDE DEF p
<1>4. p[0] = 1 /\ \A n \in Nat : p[n + 1] = b * p[n]
  BY <1>3 DEF Times
<1> DEFINE S == {n \in Nat : p[n] \in Nat}
<1>5. S = Nat
  <2>1. 0 \in S
    BY <1>4
  <2>2. ASSUME NEW n \in S PROVE n + 1 \in S
    BY <1>4, ProductNat
  <2>3. S \in SUBSET Nat
    OBVIOUS
  <2> HIDE DEF S
  <2> QED BY <2>1, <2>2, <2>3, AllNats
<1>6. \A n \in Nat : p[n] \in Nat
  BY <1>5
<1> QED BY <1>1, <1>4, <1>6

\* A power of a positive number is positive, and of the larger one no less.
LEMMA PowerGrows ==
  ASSUME NEW a \in Nat, NEW b \in Nat, b >= 1, a >= b
  PROVE  \A n \in Nat : Power(b, n) >= 1 /\ Power(a, n) >= Power(b, n)
<1> DEFINE S == {n \in Nat : Power(b, n) >= 1 /\ Power(a, n) >= Power(b, n)}
<1>1. 0 \in S
  BY PowerIs
<1>2. ASSUME NEW n \in S PROVE n + 1 \in S
  <2>1. /\ Power(a, n) \in Nat /\ Power(b, n) \in Nat
        /\ Power(a, n + 1) = a * Power(a, n) /\ Power(b, n + 1) = b * Power(b, n)
    BY PowerIs
  <2>2. Power(b, n) >= 1 /\ Power(a, n) >= Power(b, n)
    OBVIOUS
  <2>3. \A x, y \in Nat : y >= 1 /\ x >= y => b * y >= 1 /\ a * x >= b * y
    <3> SUFFICES ASSUME NEW x \in Nat, NEW y \in Nat, y >= 1, x >= y
                 PROVE  b * y >= 1 /\ a * x >= b * y
      OBVIOUS
    <3>1. b * y >= y
      OBVIOUS
    <3>2. a * x >= a * y /\ a * y >= b * y
      OBVIOUS
    <3>3. b * y \in Nat /\ a * y \in Nat /\ a * x \in Nat
      OBVIOUS
    <3> QED BY <3>1, <3>2, <3>3
  <2>4. n + 1 \in Nat
    OBVIOUS
  <2> QED BY <2>1, <2>2, <2>3, <2>4
<1>3. S = Nat
  <2>1. S \in SUBSET Nat
    OBVIOUS
  <2> HIDE DEF S
  <2> QED BY <1>1, <1>2, <2>1, AllNats
<1> QED BY <1>3

-----------------------------------------------------------------------------
\* The arithmetic of a delay

LEMMA QuotientIs ==
  ASSUME NEW x \in Nat, NEW d \in Nat, d >= 1
  PROVE  /\ Quotient(x, d) \in Nat
         /\ d * Quotient(x, d) <= x /\ x < d * (Quotient(x, d) + 1)
<1>1. Quotient(x, d) = x \div d
  BY DEF Quotient
<1> QED BY <1>1

\* The quotient is the largest number that goes into x that often.
LEMMA QuotientAtLeast ==
  ASSUME NEW x \in Nat, NEW d \in Nat, d >= 1, NEW k \in Nat, d * k <= x
  PROVE  k <= Quotient(x, d)
<1>1. /\ Quotient(x, d) \in Nat
      /\ x < d * (Quotient(x, d) + 1)
  BY QuotientIs
<1> DEFINE q == Quotient(x, d)
<1> HIDE DEF q
<1>2. ASSUME k >= q + 1 PROVE d * k >= d * (q + 1)
  <2>1. q \in Nat
    BY <1>1 DEF q
  <2> QED BY <1>2, <2>1
<1> QED BY <1>1, <1>2 DEF q

LEMMA QuotientInt ==
  ASSUME NEW x \in Int, NEW d \in Nat, d >= 1
  PROVE  Quotient(x, d) \in Int
BY DEF Quotient

LEMMA HalfIs == Half \in Nat /\ Half >= 2 /\ Low = - Half /\ High = Half - 1
<1>1. Word - 1 \in Nat
  BY WidthAssumption
<1>2. Half \in Nat
  BY <1>1, PowerIs DEF Half
<1>3. High >= 1
  BY <1>2, WidthAssumption DEF High
<1> QED BY <1>2, <1>3 DEF Low, High

\* A word wraps what does not fit it, and only that.
LEMMA WrappedIs ==
  ASSUME NEW x \in Int
  PROVE  Wrapped(x) \in Int /\ (x \in Low..High => Wrapped(x) = x)
<1>1. Wrapped(x) = ((x + Half) % (2 * Half)) - Half
  BY HalfIs DEF Wrapped
<1>2. \A y \in Int, m \in Nat : m >= 1 => y % m \in Int /\ (y \in 0..(m - 1) => y % m = y)
  OBVIOUS
<1>3. x + Half \in Int /\ 2 * Half \in Nat /\ 2 * Half >= 1
  BY HalfIs
<1>4. (x + Half) % (2 * Half) \in Int
  BY <1>2, <1>3
<1>5. x \in Low..High => (x + Half) % (2 * Half) = x + Half
  BY <1>2, <1>3, HalfIs
<1> QED BY <1>1, <1>4, <1>5, HalfIs

LEMMA FactorIs ==
  ASSUME NEW p \in Policy
  PROVE  p.factor[1] \in Nat /\ p.factor[2] \in Nat /\ p.factor[2] >= 1
         /\ p.factor[1] >= p.factor[2]
BY PolicyAssumption DEF Policy

LEMMA PowersOf ==
  ASSUME NEW p \in Policy, NEW n \in Nat
  PROVE  /\ Power(p.factor[1], n) \in Nat /\ Power(p.factor[2], n) \in Nat
         /\ Power(p.factor[2], n) >= 1 /\ Power(p.factor[1], n) >= Power(p.factor[2], n)
<1>1. \A m \in Nat : Power(p.factor[1], m) \in Nat /\ Power(p.factor[2], m) \in Nat
  BY FactorIs, PowerIs
<1> QED BY <1>1, FactorIs, PowerGrows

\* Seconds that fit the word make a positive delay.
LEMMA InitialIs ==
  ASSUME NEW p \in Policy
  PROVE  /\ InitialDelay(p) \in Int
         /\ Overlong(p) \/ InitialDelay(p) >= 1
<1>1. p.initial \in 1..MaxSeconds /\ Second \in Nat \ {0} /\ MaxSeconds \in Nat
  BY WidthAssumption, PolicyAssumption DEF Policy
<1>2. Second * p.initial \in Nat /\ Second * p.initial >= 1
  BY <1>1
<1>3. ~ Overlong(p) => Second * p.initial \in Low..High
  BY <1>2, HalfIs DEF Overlong
<1> QED BY <1>2, <1>3, WrappedIs DEF InitialDelay

LEMMA CeilingIs ==
  ASSUME NEW p \in Policy
  PROVE  Ceiling(p) \in 1..MaxRetryDelay /\ MaxRetryDelay \in Nat
BY WidthAssumption, HalfIs DEF Ceiling

LEMMA GrownInt ==
  ASSUME NEW p \in Policy, NEW n \in Nat
  PROVE  Grown(p, n) \in Int
<1>1. InitialDelay(p) * Power(p.factor[1], n) \in Int
  BY InitialIs, PowersOf
<1> QED BY <1>1, PowersOf, QuotientInt DEF Grown

\* Growth grows, and starts from a positive delay.
LEMMA GrownGrows ==
  ASSUME NEW p \in Policy, NEW n \in Nat, InitialDelay(p) >= 1
  PROVE  /\ Grown(p, n) \in Nat /\ Grown(p, n) >= 1
         /\ Grown(p, n + 1) >= Grown(p, n)
<1> DEFINE I == InitialDelay(p)
           a == p.factor[1]
           b == p.factor[2]
           A == Power(a, n)
           B == Power(b, n)
<1>1. I \in Nat /\ I >= 1
  BY InitialIs
<1>2. a \in Nat /\ b \in Nat /\ b >= 1 /\ a >= b
  BY FactorIs
<1>3. A \in Nat /\ B \in Nat /\ B >= 1 /\ A >= B
  BY PowersOf
<1>4. Grown(p, n) = Quotient(I * A, B)
  BY DEF Grown
<1>5. Grown(p, n + 1) = Quotient(I * (a * A), b * B)
  BY <1>2, PowerIs DEF Grown
<1> HIDE DEF I, a, b, A, B
<1>6. I * A \in Nat /\ a * A \in Nat /\ I * (a * A) \in Nat /\ b * B \in Nat /\ b * B >= 1
  <2>1. I * A \in Nat /\ a * A \in Nat /\ b * B \in Nat
    BY <1>1, <1>2, <1>3, ProductNat
  <2>2. I * (a * A) \in Nat
    BY <1>1, <2>1, ProductNat
  <2>3. b * B >= 1
    BY <1>2, <1>3
  <2> QED BY <2>1, <2>2, <2>3
<1> DEFINE q == Grown(p, n)
<1>7. q \in Nat /\ B * q <= I * A
  BY <1>3, <1>4, <1>6, QuotientIs
<1>8. q >= 1
  <2>1. I * A >= A
    BY <1>1, <1>3
  <2>2. B * 1 <= I * A
    BY <1>3, <1>6, <2>1
  <2> QED BY <1>3, <1>4, <1>6, <2>2, QuotientAtLeast
<1>9. Grown(p, n + 1) >= q
  <2> HIDE DEF q
  <2>1. (b * B) * q <= I * (a * A)
    <3>1. (b * B) * q = b * (B * q) /\ B * q \in Nat
      BY <1>2, <1>3, <1>7
    <3>2. b * (B * q) <= b * (I * A)
      BY <1>2, <1>6, <1>7, <3>1
    <3>3. b * (I * A) <= a * (I * A)
      BY <1>2, <1>6
    <3>4. a * (I * A) = I * (a * A)
      BY <1>1, <1>2, <1>3
    <3>5. /\ (b * B) * q \in Nat /\ b * (B * q) \in Nat
          /\ b * (I * A) \in Nat /\ a * (I * A) \in Nat
      BY <1>2, <1>6, <1>7, <3>1, ProductNat
    <3> QED BY <1>6, <3>1, <3>2, <3>3, <3>4, <3>5
  <2>2. /\ Quotient(I * (a * A), b * B) >= q
    BY <1>6, <1>7, <2>1, QuotientAtLeast
  <2> QED BY <1>5, <2>2
<1> QED BY <1>7, <1>8, <1>9

\* While retries are left the next delay is positive and within the package's cap,
\* and no shorter than the last.
LEMMA NextDelayIs ==
  ASSUME NEW p \in Policy, NEW n \in Nat, InitialDelay(p) >= 1, RetriesLeft(p, n)
  PROVE  /\ NextDelay(p, n) \in 1..MaxRetryDelay
         /\ n > 0 => NextDelay(p, n) >= NextDelay(p, n - 1)
<1>1. \A m \in Nat : /\ Grown(p, m) \in Nat /\ Grown(p, m) >= 1
                     /\ Grown(p, m + 1) >= Grown(p, m)
  BY GrownGrows
<1>2. \A m \in Nat : RetriesLeft(p, m) =>
         NextDelay(p, m) = IF Grown(p, m) >= Ceiling(p) THEN Ceiling(p) ELSE Grown(p, m)
  BY <1>1, HalfIs DEF NextDelay
<1>3. NextDelay(p, n) \in 1..MaxRetryDelay
  BY <1>1, <1>2, CeilingIs
<1>4. ASSUME n > 0 PROVE NextDelay(p, n) >= NextDelay(p, n - 1)
  <2>1. n - 1 \in Nat /\ RetriesLeft(p, n - 1) /\ (n - 1) + 1 = n
    <3>1. p.maxRetries \in Int
      BY PolicyAssumption DEF Policy
    <3> QED BY <1>4, <3>1 DEF RetriesLeft
  <2>2. Grown(p, n) >= Grown(p, n - 1) /\ Grown(p, n - 1) \in Nat /\ Grown(p, n) \in Nat
    BY <1>1, <2>1
  <2> QED BY <1>2, <2>1, <2>2, CeilingIs
<1> QED BY <1>3, <1>4

\* What starts at zero or below stays there, and says stop.
LEMMA NothingGrows ==
  ASSUME NEW p \in Policy, NEW n \in Nat, InitialDelay(p) <= 0
  PROVE  NextDelay(p, n) <= 0
<1> DEFINE x == InitialDelay(p) * Power(p.factor[1], n)
           d == Power(p.factor[2], n)
<1>1. d \in Nat /\ d >= 1
  BY PowersOf
<1>2. x \in Int /\ x <= 0
  <2>1. Power(p.factor[1], n) \in Nat /\ InitialDelay(p) \in Int
    BY PowersOf, InitialIs
  <2> QED BY <2>1
<1>3. Grown(p, n) = Quotient(x, d)
  BY DEF Grown
<1> HIDE DEF x, d
<1>4. Quotient(x, d) \in Int /\ Quotient(x, d) <= 0
  <2>1. CASE x = 0
    BY <1>1, <2>1 DEF Quotient
  <2>2. CASE x < 0
    <3>1. - x \in Nat /\ (- x) \div d \in Nat
      BY <1>1, <1>2, <2>2
    <3> QED BY <1>2, <2>2, <3>1 DEF Quotient
  <2> QED BY <1>2, <2>1, <2>2
<1> QED BY <1>3, <1>4, CeilingIs, HalfIs DEF NextDelay

-----------------------------------------------------------------------------
\* One task's delays

LEMMA PolicyFields ==
  ASSUME NEW p \in Policy
  PROVE  p.maxRetries \in Int /\ p.maxRetries >= -1
BY PolicyAssumption DEF Policy

LEMMA ResolvedType == Resolved \subseteq Policy
BY PolicyAssumption DEF Resolved, Layered, Policy, ByName

LEMMA NextDelayInt ==
  ASSUME NEW p \in Policy, NEW n \in Nat
  PROVE  NextDelay(p, n) \in Int
BY GrownInt, CeilingIs, HalfIs DEF NextDelay

\* A task keeps its types, however its delays wrap (models/task.go, NextDelay).
THEOREM PolicyTypes == Spec => []TypeOK
<1>1. Init => TypeOK
  BY ResolvedType, PolicyAssumption DEF Init, TypeOK
<1>2. TypeOK /\ [Next]_vars => TypeOK'
  <2> SUFFICES ASSUME TypeOK, [Next]_vars PROVE TypeOK'
    OBVIOUS
  <2>1. CASE FailsRetryably
    <3>1. failures \in Nat
      BY PolicyAssumption DEF TypeOK
    <3>2. NextDelay(policy, failures) \in Int
      BY <3>1, NextDelayInt DEF TypeOK
    <3> QED BY <2>1, <3>1, <3>2, PolicyAssumption DEF FailsRetryably, TypeOK
  <2>2. CASE FailsForGood \/ RetryStarts \/ Succeeds \/ UNCHANGED vars
    BY <2>2, PolicyAssumption DEF FailsForGood, RetryStarts, Succeeds, vars, TypeOK
  <2> QED BY <2>1, <2>2 DEF Next
<1> QED BY <1>1, <1>2, PTL DEF Spec

\* A task that goes on remembers the delay it last waited, and has not overspent; one
\* that has waited started from a positive delay.
Remembers ==
  fate \in {"running", "waiting"} =>
    /\ delay = IF failures = 0 THEN 0 ELSE NextDelay(policy, failures - 1)
    /\ IF failures = 0 THEN fate = "running" ELSE InitialDelay(policy) >= 1
    /\ policy.maxRetries = -1 \/ failures <= policy.maxRetries

PolicyInv == TypeOK /\ Remembers /\ StopsOnlyWhenSpent

\* What a failure that may be retried leads to.
LEMMA FailureLeads ==
  ASSUME PolicyInv, FailsRetryably
  PROVE  /\ fate' \in {"waiting", "failed"}
         /\ fate' = "waiting" <=> RetriesLeft(policy, failures) /\ InitialDelay(policy) >= 1
         /\ fate' = "waiting" => delay' >= delay /\ delay' <= MaxRetryDelay
<1>1. policy \in Policy /\ failures \in Nat /\ MaxRetryDelay \in Nat
  BY PolicyAssumption, WidthAssumption, HalfIs DEF PolicyInv, TypeOK
<1>2. /\ delay' = NextDelay(policy, failures)
      /\ fate' = IF delay' > 0 THEN "waiting" ELSE "failed"
  BY DEF FailsRetryably
<1>3. CASE RetriesLeft(policy, failures) /\ InitialDelay(policy) >= 1
  <2>1. /\ delay' \in 1..MaxRetryDelay
        /\ failures > 0 => delay' >= NextDelay(policy, failures - 1)
    BY <1>1, <1>2, <1>3, NextDelayIs
  <2>2. delay = IF failures = 0 THEN 0 ELSE NextDelay(policy, failures - 1)
    BY DEF PolicyInv, Remembers, FailsRetryably
  <2> QED BY <1>1, <1>2, <1>3, <2>1, <2>2
<1>4. CASE ~ RetriesLeft(policy, failures)
  BY <1>2, <1>4 DEF NextDelay
<1>5. CASE ~ InitialDelay(policy) >= 1
  <2>1. InitialDelay(policy) <= 0
    BY <1>1, <1>5, InitialIs
  <2>2. delay' <= 0 /\ delay' \in Int
    BY <1>1, <1>2, <2>1, NothingGrows, NextDelayInt
  <2> QED BY <1>2, <1>5, <2>2
<1> QED BY <1>3, <1>4, <1>5

LEMMA PolicyInit == Init => Remembers /\ StopsOnlyWhenSpent
<1> SUFFICES ASSUME Init PROVE Remembers /\ StopsOnlyWhenSpent
  OBVIOUS
<1>1. policy.maxRetries \in Int /\ policy.maxRetries >= -1
  BY ResolvedType, PolicyFields DEF Init
<1> QED BY <1>1 DEF Init, Remembers, StopsOnlyWhenSpent

LEMMA PolicyNext ==
  ASSUME PolicyInv, [Next]_vars
  PROVE  Remembers' /\ StopsOnlyWhenSpent'
<1>0. /\ policy.maxRetries \in Int /\ policy.maxRetries >= -1
      /\ failures \in Nat
  BY PolicyFields, PolicyAssumption DEF PolicyInv, TypeOK
<1>1. CASE FailsRetryably
  <2>1. /\ policy' = policy /\ failures' = failures + 1 /\ fate = "running"
        /\ delay' = NextDelay(policy, failures)
    BY <1>1 DEF FailsRetryably
  <2>2. /\ fate' \in {"waiting", "failed"}
        /\ fate' = "waiting" <=> RetriesLeft(policy, failures) /\ InitialDelay(policy) >= 1
    BY <1>1, FailureLeads
  <2>3. policy.maxRetries = -1 \/ failures <= policy.maxRetries
    BY <2>1 DEF PolicyInv, Remembers
  <2>4. Remembers'
    BY <1>0, <2>1, <2>2 DEF Remembers, RetriesLeft, InitialDelay
  <2>5. ~ InitialDelay(policy) >= 1 => Overlong(policy') /\ failures' = 1
    <3>1. policy \in Policy
      BY DEF PolicyInv, TypeOK
    <3>2. ~ InitialDelay(policy) >= 1 => failures = 0
      BY <2>1 DEF PolicyInv, Remembers
    <3> QED BY <1>0, <2>1, <3>1, <3>2, InitialIs
  <2>6. StopsOnlyWhenSpent'
    BY <1>0, <2>1, <2>2, <2>3, <2>5 DEF StopsOnlyWhenSpent, RetriesLeft
  <2> QED BY <2>4, <2>6
<1>2. CASE FailsForGood
  BY <1>2 DEF FailsForGood, Remembers, StopsOnlyWhenSpent
<1>3. CASE RetryStarts
  <2>1. failures # 0
    BY <1>3 DEF RetryStarts, PolicyInv, Remembers
  <2> QED BY <1>3, <2>1 DEF RetryStarts, PolicyInv, Remembers, StopsOnlyWhenSpent, InitialDelay
<1>4. CASE Succeeds
  BY <1>4 DEF Succeeds, Remembers, StopsOnlyWhenSpent
<1>5. CASE UNCHANGED vars
  BY <1>5 DEF vars, PolicyInv, Remembers, StopsOnlyWhenSpent
<1> QED BY <1>1, <1>2, <1>3, <1>4, <1>5 DEF Next

LEMMA PolicyHolds == Spec => []PolicyInv
<1>1. Init => Remembers /\ StopsOnlyWhenSpent
  BY PolicyInit
<1>2. PolicyInv /\ [Next]_vars => Remembers' /\ StopsOnlyWhenSpent'
  BY PolicyNext
<1> QED BY <1>1, <1>2, PolicyTypes, PTL DEF Spec, PolicyInv

\* A task is given up for the number of its failures, or at the first of them for an
\* initial delay that does not fit a duration, and for nothing else (NextDelay, which
\* returns zero for stop, and is taken to say so by anything below).
THEOREM StopsOnlyWhenSpentHolds == Spec => []StopsOnlyWhenSpent
BY PolicyHolds, PTL DEF PolicyInv

\* Its attempts wait no less each time, whatever the factor and wherever the cap
\* cuts in, and never beyond the package's cap; also when its seconds wrap.
THEOREM NeverHastierHolds == Spec => NeverHastier
<1>1. PolicyInv /\ [Next]_vars
        => [fate' = "waiting" => delay' >= delay /\ delay' <= MaxRetryDelay]_vars
  <2> SUFFICES ASSUME PolicyInv, Next, fate' = "waiting"
               PROVE  delay' >= delay /\ delay' <= MaxRetryDelay
    OBVIOUS
  <2>1. FailsRetryably
    BY DEF Next, FailsForGood, RetryStarts, Succeeds
  <2> QED BY <2>1, FailureLeads
<1> QED BY <1>1, PolicyHolds, PTL DEF Spec, NeverHastier
=============================================================================
