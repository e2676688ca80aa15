--------------------------- MODULE CrashLoop_proofs ---------------------------
(***************************************************************************)
(* Proofs about the restart budget, for every MaxRetries, delay and window.*)
(***************************************************************************)
EXTENDS CrashLoop, FiniteSetTheorems, WellFoundedInduction, TLAPS

(* Flaps are paid for out of the budget until the run that would forgive
   them has lasted a window; before that the refund timer counts down what
   is left of the window, so it cannot pay anything back early. *)
BudgetInv ==
  /\ TypeOK
  /\ phase # "up" => upFor = 0
  /\ refundIn # Off => phase = "up"
  /\ retryIn # Off <=> phase = "waiting"
  /\ phase = "up" /\ upFor < Window => refundIn = Window - upFor
  /\ ~(phase = "up" /\ upFor >= Window) => flaps <= attempt
  /\ flaps <= MaxRetries

(* The delays jitter can produce never exceed the cap. *)
LEMMA DelaysBounded ==
  ASSUME NEW n, NEW d \in Delays(n)
  PROVE  d \in 0..MaxDelay
BY DEF Delays

LEMMA BudgetInit == Init => BudgetInv
BY CrashLoopAssumption DEF Init, BudgetInv, TypeOK, Phases, Off

LEMMA BudgetStep == BudgetInv /\ [Next]_vars => BudgetInv'
<1> SUFFICES ASSUME BudgetInv, [Next]_vars PROVE BudgetInv'
  OBVIOUS
<1> USE CrashLoopAssumption DEF BudgetInv, TypeOK, Phases, Off
<1>1. CASE StartFails
  <2>1. CASE attempt < MaxRetries
    <3>1. retryIn' \in 0..MaxDelay
      BY <1>1, <2>1, DelaysBounded DEF StartFails, Schedule
    <3>2. phase' = "waiting" /\ attempt' = attempt + 1 /\ flaps' = flaps + 1
      BY <1>1, <2>1 DEF StartFails, Schedule, CountFlap
    <3>3. waited' = waited
      BY <1>1, <2>1 DEF StartFails, CountFlap
    <3> QED BY <1>1, <2>1, <3>1, <3>2, <3>3 DEF StartFails, Schedule
  <2>2. CASE ~(attempt < MaxRetries)
    BY <1>1, <2>2 DEF StartFails, Schedule, CountFlap
  <2> QED BY <2>1, <2>2
<1>2. CASE ComesUp
  BY <1>2 DEF ComesUp
<1>3. CASE Crash
  <2>1. CASE attempt < MaxRetries
    <3>1. retryIn' \in 0..MaxDelay
      BY <1>3, <2>1, DelaysBounded DEF Crash, Schedule
    <3>2. phase' = "waiting" /\ attempt' = attempt + 1
      BY <1>3, <2>1 DEF Crash, Schedule
    <3>3. flaps' \in Nat /\ flaps' <= attempt' /\ waited' \in Nat
      BY <1>3, <2>1, <3>2 DEF Crash, CountFlap
    <3> QED BY <1>3, <2>1, <3>1, <3>2, <3>3 DEF Crash, Schedule
  <2>2. CASE ~(attempt < MaxRetries)
    BY <1>3, <2>2 DEF Crash, Schedule, CountFlap
  <2> QED BY <2>1, <2>2
<1>4. CASE RetryFires
  BY <1>4 DEF RetryFires
<1>5. CASE RefundFires
  BY <1>5 DEF RefundFires, AtLeastZero
<1>6. CASE Tick
  BY <1>6 DEF Tick, CountDown
<1>7. CASE UNCHANGED vars
  BY <1>7 DEF vars
<1> QED BY <1>1, <1>2, <1>3, <1>4, <1>5, <1>6, <1>7 DEF Next

(* The budget invariant holds throughout. *)
THEOREM BudgetInvariant == Spec => []BudgetInv
BY BudgetInit, BudgetStep, PTL DEF Spec

(* Every variable of the timed scheduler keeps its range: the budget is
   never overdrawn and no delay exceeds maxDelayMs. *)
THEOREM CrashLoopTypeCorrect == Spec => []TypeOK
<1>1. BudgetInv => TypeOK
  BY DEF BudgetInv
<1> QED BY <1>1, BudgetInvariant, PTL

(* A server that never lasts a window is restarted at most MaxRetries times
   in a row, for any policy (restart-scheduler.ts:30-34). *)
THEOREM RestartsAreCapped == Spec => []CrashLoopCapped
<1>1. BudgetInv => CrashLoopCapped
  BY DEF BudgetInv, CrashLoopCapped
<1> QED BY <1>1, BudgetInvariant, PTL

-----------------------------------------------------------------------------
(* Refunds. *)

(* Euclidean division, for a divisor that is not a literal. *)
LEMMA DivIsUnique ==
  ASSUME NEW w \in Nat \ {0}, NEW r \in Nat, NEW n \in Nat, r * w <= n, n < r * w + w
  PROVE  n \div w = r
<1> DEFINE q == n \div w
<1>1. q \in Int /\ q * w <= n /\ n < q * w + w
  OBVIOUS
<1>2. CASE q < r
  <2>1. (r - q - 1) * w >= 0
    BY <1>1, <1>2
  <2>2. (r - q - 1) * w = r * w - q * w - w
    BY <1>1
  <2> QED BY <1>1, <2>1, <2>2
<1>3. CASE r < q
  <2>1. (q - r - 1) * w >= 0
    BY <1>1, <1>3
  <2>2. (q - r - 1) * w = q * w - r * w - w
    BY <1>1
  <2> QED BY <1>1, <2>1, <2>2
<1> QED BY <1>1, <1>2, <1>3

LEMMA DivIsMonotone ==
  ASSUME NEW w \in Nat \ {0}, NEW r \in Nat, NEW n \in Nat, r * w <= n
  PROVE  n \div w \in Nat /\ r <= n \div w
<1> DEFINE q == n \div w
<1>1. q \in Int /\ q * w <= n /\ n < q * w + w
  OBVIOUS
<1>2. CASE q < r
  <2>1. (r - q - 1) * w >= 0
    BY <1>1, <1>2
  <2>2. (r - q - 1) * w = r * w - q * w - w
    BY <1>1
  <2> QED BY <1>1, <2>1, <2>2
<1> QED BY <1>1, <1>2

(* Of a run that is under way: after r refunds the timer counts down the rest of
   window r + 1, or it is off, since the debt was paid r windows after the start
   of the run. *)
Refunded(r) ==
  IF refundIn = Off
  THEN attempt = 0 /\ spentAtUp <= r /\ r * Window <= upFor
  ELSE attempt = AtLeastZero(spentAtUp - r) /\ upFor + refundIn = r * Window + Window
RefundInv == phase = "up" => \E r \in Nat : Refunded(r)

LEMMA RefundStep == BudgetInv /\ RefundInv /\ [Next]_vars => RefundInv'
<1> SUFFICES ASSUME BudgetInv, RefundInv, [Next]_vars, phase' = "up"
             PROVE  \E r \in Nat : Refunded(r)'
  BY DEF RefundInv
<1> USE CrashLoopAssumption DEF BudgetInv, TypeOK, Phases, Off, Refunded, AtLeastZero
<1>1. CASE ComesUp
  <2>1. Refunded(0)'
    BY <1>1 DEF ComesUp
  <2> QED BY <2>1
<1>2. ASSUME phase = "up" PROVE \E r \in Nat : Refunded(r)'
  <2>1. PICK r \in Nat : Refunded(r)
    BY <1>2 DEF RefundInv
  <2>2. CASE RefundFires
    <3>1. (r + 1) * Window = r * Window + Window
      OBVIOUS
    <3>2. Refunded(r + 1)'
      BY <2>1, <2>2, <3>1 DEF RefundFires
    <3> QED BY <3>2
  <2>3. CASE Tick
    <3>1. Refunded(r)'
      BY <1>2, <2>1, <2>3 DEF Tick, CountDown
    <3> QED BY <3>1
  <2>4. CASE UNCHANGED vars
    BY <2>1, <2>4 DEF vars
  <2> QED BY <1>2, <2>2, <2>3, <2>4 DEF Next, StartFails, ComesUp, Crash, Schedule, RetryFires
<1> QED BY <1>1, <1>2 DEF Next, StartFails, Crash, Schedule, RetryFires, RefundFires, Tick, vars

LEMMA RefundsAreCounted == BudgetInv /\ RefundInv => OneRefundPerWindow
<1> SUFFICES ASSUME BudgetInv, RefundInv, phase = "up"
             PROVE  attempt = AtLeastZero(spentAtUp - upFor \div Window + (IF refundIn = 0 THEN 1 ELSE 0))
  BY DEF OneRefundPerWindow
<1> USE CrashLoopAssumption DEF BudgetInv, TypeOK, Off, AtLeastZero
<1>1. PICK r \in Nat : Refunded(r)
  BY DEF RefundInv
<1>2. CASE refundIn = Off
  <2>1. upFor \div Window \in Nat /\ r <= upFor \div Window
    BY <1>1, <1>2, DivIsMonotone DEF Refunded
  <2> QED BY <1>1, <1>2, <2>1 DEF Refunded
<1>3. CASE refundIn = 0
  <2>1. (r + 1) * Window = r * Window + Window /\ r + 1 \in Nat
    OBVIOUS
  <2>2. upFor \div Window = r + 1
    BY <1>1, <1>3, <2>1, DivIsUnique DEF Refunded
  <2> QED BY <1>1, <1>3, <2>2 DEF Refunded
<1>4. CASE refundIn \notin {Off, 0}
  <2>1. upFor \div Window = r
    BY <1>1, <1>4, DivIsUnique DEF Refunded
  <2> QED BY <1>1, <1>4, <2>1 DEF Refunded
<1> QED BY <1>2, <1>3, <1>4

(* A run earns back one attempt for each whole window it lasts, and no more, for
   any window, any debt and any length of the run. *)
THEOREM RunsEarnBack == Spec => []OneRefundPerWindow
<1>1. Init => RefundInv
  BY DEF Init, RefundInv
<1> QED BY <1>1, RefundStep, RefundsAreCounted, BudgetInvariant, PTL DEF Spec

-----------------------------------------------------------------------------
(* Induction, over sets: the theorems of the library take the property as an  *)
(* operator, and a set of numbers says the same. With it a function that is   *)
(* defined recursively is known to exist, and so to satisfy its definition.   *)

(* A set that holds 0 and the successor of each of its members is Nat. *)
LEMMA EveryNatural ==
  ASSUME NEW T \in SUBSET Nat, 0 \in T, \A n \in T : n + 1 \in T
  PROVE  T = Nat
<1> DEFINE R == OpToRel(<, Nat)
           U == Nat \ T
<1>1. IsWellFoundedOn(R, Nat)
  BY NatLessThanWellFounded
<1>2. \A x, y \in Nat : y < x => <<y, x>> \in R
  BY DEF OpToRel
<1> HIDE DEF R
<1>3. SUFFICES ASSUME U # {} PROVE FALSE
  OBVIOUS
<1>4. PICK x \in U : \A y \in U : ~(<<y, x>> \in R)
  BY <1>1, <1>3, WFMin
<1>5. x # 0 /\ x - 1 \in Nat /\ x - 1 < x
  OBVIOUS
<1>6. x - 1 \in T
  BY <1>2, <1>4, <1>5
<1> QED BY <1>4, <1>5, <1>6

(* A function on the naturals given by its first value and a rule for the next. *)
Follows(f, base, step) == f[0] = base /\ \A n \in Nat : f[n + 1] = step[n][f[n]]

(* There is such a function, whatever the rule. *)
LEMMA RecursionDefines ==
  ASSUME NEW S, NEW base \in S, NEW step \in [Nat -> [S -> S]]
  PROVE  \E f \in [Nat -> S] : Follows(f, base, step)
<1> DEFINE Upto(n) == {g \in [0..n -> S] :
                         g[0] = base /\ \A i \in 0..(n - 1) : g[i + 1] = step[i][g[i]]}
           Reached == {n \in Nat : Upto(n) # {}}
           Agree(i) == \A m, n \in Nat : \A g \in Upto(m), h \in Upto(n) :
                         i <= m /\ i <= n => g[i] = h[i]
<1>1. Reached = Nat
  <2>1. 0 \in Reached
    <3>1. [i \in 0..0 |-> base] \in Upto(0)
      OBVIOUS
    <3> QED BY <3>1
  <2>2. ASSUME NEW n \in Reached PROVE n + 1 \in Reached
    <3>1. PICK g : g \in Upto(n)
      BY <2>2
    <3> DEFINE h == [i \in 0..(n + 1) |-> IF i = n + 1 THEN step[n][g[n]] ELSE g[i]]
    <3>2. h \in [0..(n + 1) -> S]
      BY <3>1
    <3>3. h[0] = base
      BY <3>1
    <3>4. ASSUME NEW i \in 0..n PROVE h[i + 1] = step[i][h[i]]
      <4>1. CASE i = n
        BY <4>1
      <4>2. CASE i < n
        BY <3>1, <4>2
      <4> QED BY <4>1, <4>2
    <3> HIDE DEF h
    <3>5. h \in Upto(n + 1)
      BY <3>2, <3>3, <3>4
    <3> QED BY <3>5
  <2> HIDE DEF Reached
  <2>3. Reached \in SUBSET Nat
    BY DEF Reached
  <2> QED BY <2>1, <2>2, <2>3, EveryNatural
<1>2. \A i \in Nat : Agree(i)
  <2> DEFINE Agreed == {i \in Nat : Agree(i)}
  <2>1. Agree(0)
    OBVIOUS
  <2>2. ASSUME NEW i \in Nat, Agree(i) PROVE Agree(i + 1)
    <3>1. SUFFICES ASSUME NEW m \in Nat, NEW n \in Nat, NEW g \in Upto(m), NEW h \in Upto(n),
                          i + 1 <= m, i + 1 <= n
                   PROVE  g[i + 1] = h[i + 1]
      OBVIOUS
    <3>2. i <= m /\ i <= n
      BY <3>1
    <3>3. g[i] = h[i]
      BY <2>2, <3>2
    <3>4. g[i + 1] = step[i][g[i]] /\ h[i + 1] = step[i][h[i]]
      BY <3>1
    <3> QED BY <3>3, <3>4
  <2> HIDE DEF Agree
  <2>3. 0 \in Agreed /\ \A i \in Agreed : i + 1 \in Agreed
    BY <2>1, <2>2
  <2>4. Agreed = Nat
    <3> HIDE DEF Agreed
    <3>1. Agreed \in SUBSET Nat
      BY DEF Agreed
    <3> QED BY <2>3, <3>1, EveryNatural
  <2> QED BY <2>4
<1> DEFINE pick == [n \in Nat |-> CHOOSE g : g \in Upto(n)]
           f == [n \in Nat |-> pick[n][n]]
<1>3. ASSUME NEW n \in Nat PROVE pick[n] \in Upto(n)
  BY <1>1
<1> HIDE DEF pick
<1>4. f \in [Nat -> S]
  BY <1>3
<1>5. f[0] = base
  BY <1>3
<1>6. ASSUME NEW n \in Nat PROVE f[n + 1] = step[n][f[n]]
  <2>1. pick[n + 1][n + 1] = step[n][pick[n + 1][n]]
    BY <1>3
  <2>2. n + 1 \in Nat /\ n <= n + 1 /\ n <= n
    OBVIOUS
  <2>3. pick[n + 1] \in Upto(n + 1) /\ pick[n] \in Upto(n)
    BY <1>3, <2>2
  <2>4. pick[n + 1][n] = pick[n][n]
    <3> HIDE DEF Upto
    <3> QED BY <1>2, <2>2, <2>3
  <2> QED BY <2>1, <2>2, <2>4
<1> HIDE DEF f
<1>7. Follows(f, base, step)
  BY <1>5, <1>6 DEF Follows
<1> QED BY <1>4, <1>7

-----------------------------------------------------------------------------
(* The time the restarts of a crash loop take. *)

(* 2^m is the number of subsets of 1..m. *)
LEMMA PowerIsMonotone ==
  ASSUME NEW m \in Nat, NEW n \in Nat, m <= n
  PROVE  2^m \in Nat /\ 2^n \in Nat /\ 2^m <= 2^n
<1>1. IsFiniteSet(1..n) /\ Cardinality(1..n) = n /\ IsFiniteSet(1..m) /\ Cardinality(1..m) = m
  BY FS_Interval
<1>2. IsFiniteSet(SUBSET (1..n)) /\ Cardinality(SUBSET (1..n)) = 2^n
  BY <1>1, FS_SUBSET
<1>3. IsFiniteSet(SUBSET (1..m)) /\ Cardinality(SUBSET (1..m)) = 2^m
  BY <1>1, FS_SUBSET
<1>4. SUBSET (1..m) \subseteq SUBSET (1..n)
  <2>1. 1..m \subseteq 1..n
    OBVIOUS
  <2> QED BY <2>1
<1> QED BY <1>2, <1>3, <1>4, FS_Subset, FS_CardinalityType

(* A later attempt never waits less, jitter aside. *)
LEMMA BaseIsMonotone ==
  ASSUME NEW m \in Nat, NEW n \in Nat, m <= n
  PROVE  Base(m) \in Nat /\ Base(n) \in Nat /\ Base(m) <= Base(n)
<1> DEFINE p == 2^m
           q == 2^n
<1>1. p \in Nat /\ q \in Nat /\ p <= q
  BY PowerIsMonotone
<1>2. Base(m) = Least(BaseDelay * p, MaxDelay) /\ Base(n) = Least(BaseDelay * q, MaxDelay)
  BY DEF Base
<1> HIDE DEF p, q
<1>3. BaseDelay * p \in Nat /\ BaseDelay * q \in Nat /\ BaseDelay * p <= BaseDelay * q
  <2>1. BaseDelay \in Nat
    BY CrashLoopAssumption
  <2>2. BaseDelay * (q - p) >= 0 /\ BaseDelay * (q - p) = BaseDelay * q - BaseDelay * p
    BY <1>1, <2>1
  <2> QED BY <1>1, <2>1, <2>2
<1> QED BY <1>2, <1>3, CrashLoopAssumption DEF Least

(* The recursive definition of TotalBase has a solution, which TotalBase is. *)
LEMMA TotalBaseDefined ==
  /\ TotalBase[0] = 0
  /\ \A n \in Nat : TotalBase[n] \in Nat /\ TotalBase[n + 1] = TotalBase[n] + Base(n)
<1> DEFINE step == [n \in Nat |-> [total \in Nat |-> total + Base(n)]]
           Sums(g) == g = [n \in Nat |-> IF n = 0 THEN 0 ELSE g[n - 1] + Base(n - 1)]
<1>1. \A n \in Nat : Base(n) \in Nat
  BY BaseIsMonotone
<1>2. step \in [Nat -> [Nat -> Nat]]
  BY <1>1
<1>3. PICK f \in [Nat -> Nat] : Follows(f, 0, step)
  <2> HIDE DEF step
  <2> QED BY <1>2, RecursionDefines
<1>4. Sums(f)
  <2>1. ASSUME NEW n \in Nat
        PROVE  f[n] = IF n = 0 THEN 0 ELSE f[n - 1] + Base(n - 1)
    <3>1. CASE n # 0
      <4>1. n - 1 \in Nat /\ (n - 1) + 1 = n
        BY <3>1
      <4>2. f[(n - 1) + 1] = step[n - 1][f[n - 1]]
        BY <1>3, <4>1 DEF Follows
      <4> QED BY <1>3, <3>1, <4>1, <4>2
    <3> QED BY <1>3, <3>1 DEF Follows
  <2> QED BY <1>3, <2>1
<1>5. TotalBase = CHOOSE g : Sums(g)
  BY DEF TotalBase
<1>6. Sums(TotalBase)
  <2> HIDE DEF Sums
  <2> QED BY <1>4, <1>5
<1>7. TotalBase[0] = 0 /\ \A n \in Nat : TotalBase[n + 1] = TotalBase[n] + Base(n)
  BY <1>6
<1> DEFINE Typed == {n \in Nat : TotalBase[n] \in Nat}
<1>8. Typed = Nat
  <2>1. 0 \in Typed /\ \A n \in Typed : n + 1 \in Typed
    BY <1>1, <1>7
  <2>2. Typed \in SUBSET Nat
    OBVIOUS
  <2> HIDE DEF Typed
  <2> QED BY <2>1, <2>2, EveryNatural
<1>9. \A n \in Nat : TotalBase[n] \in Nat
  BY <1>8
<1> QED BY <1>7, <1>9

(* While the flaps are all paid for, the delay of the next attempt is at least
   the delay of the schedule's next entry. *)
LEMMA BackoffStep == BudgetInv /\ BackoffSpreadsRestarts /\ [Next]_vars => BackoffSpreadsRestarts'
<1> SUFFICES ASSUME BudgetInv, BackoffSpreadsRestarts, [Next]_vars
             PROVE  2 * (waited' + AtLeastZero(retryIn')) >= TotalBase[flaps']
  BY DEF BackoffSpreadsRestarts
<1> USE CrashLoopAssumption DEF BudgetInv, TypeOK, Phases, Off, AtLeastZero
<1>0. TotalBase[flaps] \in Nat /\ 2 * (waited + AtLeastZero(retryIn)) >= TotalBase[flaps]
  BY TotalBaseDefined DEF BackoffSpreadsRestarts
(* A granted restart adds at least half of the next delay of the schedule. *)
<1>1. ASSUME Schedule, CountFlap, phase \in {"starting", "up"}
      PROVE  2 * (waited' + AtLeastZero(retryIn')) >= TotalBase[flaps']
  <2>1. retryIn = Off
    BY <1>1
  <2>2. CASE attempt < MaxRetries
    <3>1. retryIn' \in 0..MaxDelay /\ Base(attempt) <= 2 * retryIn'
      BY <1>1, <2>2 DEF Schedule, Delays
    <3>2. CASE upFor >= Window
      <4>1. flaps' = 1 /\ waited' = 0
        BY <1>1, <2>2, <3>2 DEF CountFlap
      <4>2. TotalBase[1] = Base(0) /\ Base(0) \in Nat /\ Base(attempt) \in Nat /\ Base(0) <= Base(attempt)
        <5>1. TotalBase[0 + 1] = TotalBase[0] + Base(0) /\ TotalBase[0] = 0
          BY TotalBaseDefined
        <5>2. Base(0) \in Nat /\ Base(attempt) \in Nat /\ Base(0) <= Base(attempt)
          BY BaseIsMonotone
        <5> QED BY <5>1, <5>2
      <4> QED BY <3>1, <4>1, <4>2
    <3>3. CASE ~(upFor >= Window)
      <4>1. flaps' = flaps + 1 /\ waited' = waited
        BY <1>1, <2>2, <3>3 DEF CountFlap
      <4>2. flaps <= attempt
        BY <3>3
      <4>3. Base(flaps) \in Nat /\ Base(attempt) \in Nat /\ Base(flaps) <= Base(attempt)
        BY <4>2, BaseIsMonotone
      <4>4. TotalBase[flaps + 1] = TotalBase[flaps] + Base(flaps)
        BY TotalBaseDefined
      <4> QED BY <1>0, <2>1, <3>1, <4>1, <4>3, <4>4
    <3> QED BY <3>2, <3>3
  <2>3. CASE ~(attempt < MaxRetries)
    BY <1>0, <1>1, <2>3 DEF Schedule, CountFlap
  <2> QED BY <2>2, <2>3
<1>2. CASE StartFails
  BY <1>1, <1>2 DEF StartFails
<1>3. CASE Crash
  BY <1>1, <1>3 DEF Crash
<1>4. CASE ComesUp
  BY <1>0, <1>4 DEF ComesUp
<1>5. CASE RetryFires
  BY <1>0, <1>5 DEF RetryFires
<1>6. CASE RefundFires
  BY <1>0, <1>6 DEF RefundFires
<1>7. CASE Tick
  BY <1>0, <1>7 DEF Tick, CountDown
<1>8. CASE UNCHANGED vars
  BY <1>0, <1>8 DEF vars
<1> QED BY <1>2, <1>3, <1>4, <1>5, <1>6, <1>7, <1>8 DEF Next

(* The restarts of a crash loop take at least half of the exponential schedule,
   for any policy, any jitter and any interleaving of runs, refunds and failed
   starts (restart-scheduler.ts:84-87). *)
THEOREM RestartsAreSpreadOut == Spec => []BackoffSpreadsRestarts
<1>1. Init => BackoffSpreadsRestarts
  BY TotalBaseDefined DEF Init, BackoffSpreadsRestarts, AtLeastZero, Off
<1> QED BY <1>1, BackoffStep, BudgetInvariant, PTL DEF Spec

-----------------------------------------------------------------------------
(* Each timed step is a step of the untimed scheduler or leaves it alone. *)
LEMMA TimedStepRefines ==
  BudgetInv /\ [Next]_vars => [Untimed!SchedulerNext]_Untimed!schedulerVars
<1> SUFFICES ASSUME BudgetInv, [Next]_vars
             PROVE  [Untimed!SchedulerNext]_Untimed!schedulerVars
  OBVIOUS
<1> USE CrashLoopAssumption DEF BudgetInv, TypeOK, Phases, Off,
        Untimed!SchedulerNext, Untimed!schedulerVars
<1>1. ASSUME Schedule, phase \in {"starting", "up"}
      PROVE  Untimed!ScheduleGranted("start") \/ Untimed!ScheduleRefused
  <2>1. CASE attempt < MaxRetries
    <3>1. retryIn' \in 0..MaxDelay /\ attempt' = attempt + 1
      BY <1>1, <2>1, DelaysBounded DEF Schedule
    <3> QED BY <1>1, <2>1, <3>1 DEF Schedule, Untimed!ScheduleGranted
  <2>2. CASE ~(attempt < MaxRetries)
    BY <1>1, <2>2 DEF Schedule, Untimed!ScheduleRefused
  <2> QED BY <2>1, <2>2
<1>2. CASE StartFails
  BY <1>1, <1>2 DEF StartFails
<1>3. CASE Crash
  BY <1>1, <1>3 DEF Crash
<1>4. CASE ComesUp
  BY <1>4 DEF ComesUp, Untimed!MarkStarted
<1>5. CASE RetryFires
  BY <1>5 DEF RetryFires, Untimed!RetryFires
<1>6. CASE RefundFires
  BY <1>6 DEF RefundFires, AtLeastZero, Untimed!RefundFires
<1>7. CASE Tick
  BY <1>7 DEF Tick, CountDown
<1>8. CASE UNCHANGED vars
  BY <1>8 DEF vars
<1> QED BY <1>2, <1>3, <1>4, <1>5, <1>6, <1>7, <1>8 DEF Next

(* With its delays the scheduler still is the scheduler: every behaviour of
   CrashLoop is one of RestartScheduler in which no timer loses its name. *)
THEOREM TimedImplementsUntimed == Spec => ImplementsScheduler
<1>1. Init => Untimed!SchedulerInit
  BY DEF Init, Untimed!SchedulerInit, Off
<1>2. BudgetInv /\ [Next]_vars => [Untimed!SchedulerNext]_Untimed!schedulerVars
  BY TimedStepRefines
<1> QED BY <1>1, <1>2, BudgetInvariant, PTL
        DEF Spec, ImplementsScheduler, Untimed!SchedulerSpec
=============================================================================
