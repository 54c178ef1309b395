----------------------------- MODULE RetryPolicy -----------------------------
(***************************************************************************)
(* How long a failed task waits before its next attempt, and when it is    *)
(* given up: the arithmetic of NextDelay, at a scaled width, and the       *)
(* sequence of delays one task sees.                                       *)
(*                                                                         *)
(* time.Duration is a signed word of nanoseconds: a product of two of them *)
(* wraps.  The growth initial * factor^retry is a float64, which does not  *)
(* wrap; it is capped before it becomes a duration again, and a float      *)
(* below the word's range becomes its least value.                         *)
(***************************************************************************)
EXTENDS Integers

CONSTANTS
  Word,           \* bits of a time.Duration
  Second,         \* one second, in the unit of a time.Duration
  MaxRetryDelay,  \* the package's cap on every delay
  MaxSeconds,     \* bound: the seconds a policy may ask for
  Factors,        \* the factors a policy may have, each <<n, d>> for n / d
  DefaultFactor,  \* that of the default policy
  MaxFailures     \* bound: the failures of one task, and the retries allowed it

Power(b, n) ==
  LET power[k \in Nat] == IF k = 0 THEN 1 ELSE b * power[k - 1] IN power[n]

Half == Power(2, Word - 1)
Low  == - Half
High == Half - 1

ASSUME WidthAssumption ==
  /\ Word \in Nat \ {0, 1} /\ Second \in Nat \ {0}
  /\ MaxRetryDelay \in 1..High
ASSUME PolicyAssumption ==
  /\ MaxSeconds \in Nat \ {0} /\ MaxFailures \in Nat
  /\ DefaultFactor \in Factors
  /\ \A f \in Factors : f \in Nat \X Nat /\ f[1] >= f[2] /\ f[2] >= 1

NoCap == 0        \* no delay cap is set; a set one is at least a second

\* What validation lets through: seconds have no upper bound there.
Policy == [maxRetries : -1..MaxFailures, initial : 1..MaxSeconds,
           cap : NoCap..MaxSeconds, factor : Factors]

\* A client's policy for a task name carries everything but the factor.
ByName == [maxRetries : -1..MaxFailures, initial : 1..MaxSeconds, cap : NoCap..MaxSeconds]

Wrapped(x) == ((x - Low) % (2 * Half)) + Low

InitialDelay(p) == Wrapped(Second * p.initial)
MaxDelay(p)     == Wrapped(Second * p.cap)

\* The task's own cap counts only when it lowers the package's.
Ceiling(p) == IF MaxDelay(p) \in 1..(MaxRetryDelay - 1) THEN MaxDelay(p) ELSE MaxRetryDelay

\* A float becomes a duration by dropping its fraction, towards zero.
Quotient(x, d) == IF x >= 0 THEN x \div d ELSE - ((- x) \div d)
Grown(p, retry) ==
  Quotient(InitialDelay(p) * Power(p.factor[1], retry), Power(p.factor[2], retry))

RetriesLeft(p, retry) == p.maxRetries = -1 \/ retry < p.maxRetries

\* Mutant: the product is converted before it is capped.
NextDelay_Uncapped(p, retry) ==
  IF ~RetriesLeft(p, retry) THEN 0
  ELSE IF Wrapped(Grown(p, retry)) >= Ceiling(p) THEN Ceiling(p) ELSE Wrapped(Grown(p, retry))

\* NextDelay: zero says stop.
NextDelay(p, retry) ==
  IF ~RetriesLeft(p, retry) THEN 0
  ELSE IF Grown(p, retry) >= Ceiling(p) THEN Ceiling(p)
  ELSE IF Grown(p, retry) < Low THEN Low
  ELSE Grown(p, retry)

-----------------------------------------------------------------------------
VARIABLES
  policy,    \* the task's retry policy, fixed when it is submitted
  failures,  \* its failed attempts
  delay,     \* the wait before the attempt last scheduled, 0 at first
  fate       \* "running" an attempt, "waiting" for one, "complete", "failed", "refused"

vars == <<policy, failures, delay, fate>>

\* Mutant: a policy by name brings a factor of zero along.
Layered_Whole(n) == [maxRetries |-> n.maxRetries, initial |-> n.initial,
                     cap |-> n.cap, factor |-> <<0, 1>>]

Layered(n) == [maxRetries |-> n.maxRetries, initial |-> n.initial,
               cap |-> n.cap, factor |-> DefaultFactor]

\* resolveRetry: an override is used verbatim, else the name's policy on top of
\* the default (which is one of these itself).
Resolved == Policy \cup {Layered(n) : n \in ByName}

Init ==
  /\ policy \in Resolved
  /\ failures = 0 /\ delay = 0 /\ fate = "running"

\* Mutant: the attempt number handed to NextDelay is one too large.
FailsRetryably_OffByOne ==
  /\ fate = "running" /\ failures < MaxFailures + 1
  /\ failures' = failures + 1
  /\ delay' = NextDelay(policy, failures + 1)
  /\ fate' = IF delay' > 0 THEN "waiting" ELSE "failed"
  /\ UNCHANGED policy

\* decideExecutionRetry: with n failures the next attempt is retry n - 1, and only
\* a positive delay leads to one.
FailsRetryably ==
  /\ fate = "running" /\ failures < MaxFailures + 1
  /\ failures' = failures + 1
  /\ delay' = NextDelay(policy, failures)
  /\ fate' = IF delay' > 0 THEN "waiting" ELSE "failed"
  /\ UNCHANGED policy

FailsForGood ==
  /\ fate = "running" /\ failures < MaxFailures + 1
  /\ failures' = failures + 1
  /\ fate' = "refused"
  /\ UNCHANGED <<policy, delay>>

RetryStarts ==
  /\ fate = "waiting" /\ fate' = "running"
  /\ UNCHANGED <<policy, failures, delay>>

Succeeds ==
  /\ fate = "running" /\ fate' = "complete"
  /\ UNCHANGED <<policy, failures, delay>>

Next == FailsRetryably \/ FailsForGood \/ RetryStarts \/ Succeeds

Spec == Init /\ [][Next]_vars

-----------------------------------------------------------------------------
(* Type invariant *)

\* Policies are those the client resolves, and a task that waits has a delay.
TypeOK ==
  /\ policy \in Policy
  /\ failures \in 0..(MaxFailures + 1)
  /\ delay \in Int
  /\ fate \in {"running", "waiting", "complete", "failed", "refused"}

(* Safety *)

\* The seconds a policy starts with do not fit a duration; validation only asks for
\* one at least.
Overlong(p) == Second * p.initial > High

\* A delay of zero or less says stop, and only a spent budget gives one, with a
\* single exception: a task whose initial delay does not fit a duration may be given
\* up at its first failure.  Growth that passes the word, truncation, the caps and a
\* cap that wraps never end a retryable task early, and nothing lets one go on past
\* its budget (models/task.go, NextDelay; the decision TaskHandlers makes by counting).
StopsOnlyWhenSpent ==
  /\ fate = "failed" =>
       \/ policy.maxRetries >= 0 /\ failures = policy.maxRetries + 1
       \/ Overlong(policy) /\ failures = 1
  /\ fate = "waiting" => policy.maxRetries = -1 \/ failures <= policy.maxRetries

\* Back-off backs off: no attempt of a task waits less than the one before it,
\* across the point where the cap cuts in, and even when its seconds wrap.
NeverHastier ==
  [][fate' = "waiting" => delay' >= delay /\ delay' <= MaxRetryDelay]_vars

=============================================================================
