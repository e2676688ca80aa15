------------------------------ MODULE CrashLoop -------------------------------
(***************************************************************************)
(* One server that keeps failing, and the time its restarts take: the      *)
(* scheduler of restart-scheduler.ts with its delays, driven the way       *)
(* managed-server.ts drives it (schedule on a crash or a failed start,     *)
(* markStarted when a start completes).                                    *)
(*                                                                         *)
(* Time advances in ticks. A timer that is due fires before time moves on, *)
(* but anything else due at the same tick may come first.                  *)
(***************************************************************************)
EXTENDS Integers

CONSTANTS
  MaxRetries,   \* policy.maxRetries
  BaseDelay,    \* policy.baseDelayMs, in ticks
  MaxDelay,     \* policy.maxDelayMs
  Window,       \* policy.stabilityWindowMs
  LongestRun    \* bound: a server is up for at most this many ticks

ASSUME CrashLoopAssumption ==
  /\ MaxRetries \in Nat /\ BaseDelay \in Nat /\ MaxDelay \in Nat
  /\ Window \in Nat \ {0} /\ LongestRun \in Nat

VARIABLES
  phase,        \* what the server is doing: see Phases
  attempt,      \* `count`
  retryIn,      \* ticks left on the retry timer, or Off
  refundIn,     \* ticks left on the refund timer, or Off
  upFor,        \* history: ticks the current run has lasted
  spentAtUp,    \* history: attempt when the current run came up
  flaps,        \* history: restarts granted since a run lasted a Window
  waited        \* history: ticks spent waiting for those restarts

vars == <<phase, attempt, retryIn, refundIn, upFor, spentAtUp, flaps, waited>>

Phases == {"starting", "up", "waiting", "stopped"}
Off == -1

Least(a, b) == IF a < b THEN a ELSE b
AtLeastZero(n) == IF n < 0 THEN 0 ELSE n

(* Delay of the (n+1)-th attempt before jitter: doubled each time, capped. *)
Base(n) == Least(BaseDelay * 2^n, MaxDelay)

(* Mutant: the jitter spreads over the whole interval below the base. *)
DelaysFullJitter(n) == 0..Base(n)

(* What jitter can make of it: [0.5, 1.5) of the base, clamped to the cap. *)
Delays(n) == {d \in 0..MaxDelay : Base(n) <= 2 * d /\ 2 * d <= 3 * Base(n)}

Init ==
  /\ phase = "starting"
  /\ attempt = 0 /\ retryIn = Off /\ refundIn = Off
  /\ upFor = 0 /\ spentAtUp = 0 /\ flaps = 0 /\ waited = 0

(* Mutant: a crash leaves the refund timer of the ended run armed. *)
ScheduleKeepingRefund ==
  /\ UNCHANGED refundIn
  /\ IF attempt < MaxRetries
     THEN retryIn' \in Delays(attempt) /\ attempt' = attempt + 1 /\ phase' = "waiting"
     ELSE phase' = "stopped" /\ UNCHANGED <<attempt, retryIn>>

(* Mutant: out of attempts, the server is started again all the same. *)
ScheduleAnyway ==
  /\ refundIn' = Off
  /\ IF attempt < MaxRetries
     THEN retryIn' \in Delays(attempt) /\ attempt' = attempt + 1 /\ phase' = "waiting"
     ELSE phase' = "starting" /\ UNCHANGED <<attempt, retryIn>>

(* schedule(): the refund stops; an attempt is spent, or the budget is
   exhausted and the caller stops the server. *)
Schedule ==
  /\ refundIn' = Off
  /\ IF attempt < MaxRetries
     THEN /\ retryIn' \in Delays(attempt)
          /\ attempt' = attempt + 1
          /\ phase' = "waiting"
     ELSE /\ phase' = "stopped"
          /\ UNCHANGED <<attempt, retryIn>>

(* A restart that follows a run of a whole window opens a new bout. *)
CountFlap ==
  IF attempt >= MaxRetries THEN UNCHANGED <<flaps, waited>>
  ELSE IF upFor >= Window THEN flaps' = 1 /\ waited' = 0
  ELSE flaps' = flaps + 1 /\ UNCHANGED waited

(* The child exits or answers initialize with an error or not at all. *)
StartFails ==
  /\ phase = "starting"
  /\ Schedule /\ CountFlap
  /\ upFor' = 0 /\ UNCHANGED spentAtUp

(* Mutant: answering initialize gives the whole budget back. *)
ComesUpForgiven ==
  /\ phase = "starting" /\ phase' = "up"
  /\ attempt' = 0 /\ refundIn' = Window
  /\ upFor' = 0 /\ spentAtUp' = attempt'
  /\ UNCHANGED <<retryIn, flaps, waited>>

(* The start completes: markStarted arms the refund timer. *)
ComesUp ==
  /\ phase = "starting"
  /\ phase' = "up"
  /\ refundIn' = Window
  /\ upFor' = 0 /\ spentAtUp' = attempt
  /\ UNCHANGED <<attempt, retryIn, flaps, waited>>

Crash ==
  /\ phase = "up"
  /\ Schedule /\ CountFlap
  /\ upFor' = 0 /\ UNCHANGED spentAtUp

RetryFires ==
  /\ retryIn = 0
  /\ retryIn' = Off
  /\ phase' = "starting"
  /\ UNCHANGED <<attempt, refundIn, upFor, spentAtUp, flaps, waited>>

(* Mutant: one stable window earns the whole budget back. *)
RefundAll ==
  /\ refundIn = 0
  /\ attempt' = 0 /\ refundIn' = Off
  /\ UNCHANGED <<phase, retryIn, upFor, spentAtUp, flaps, waited>>

RefundFires ==
  /\ refundIn = 0
  /\ attempt' = AtLeastZero(attempt - 1)
  /\ refundIn' = IF attempt' > 0 THEN Window ELSE Off
  /\ UNCHANGED <<phase, retryIn, upFor, spentAtUp, flaps, waited>>

CountDown(timer) == IF timer = Off THEN Off ELSE timer - 1

Tick ==
  /\ phase # "stopped"
  /\ retryIn # 0 /\ refundIn # 0
  /\ phase = "up" => upFor < LongestRun
  /\ retryIn' = CountDown(retryIn)
  /\ refundIn' = CountDown(refundIn)
  /\ upFor' = IF phase = "up" THEN upFor + 1 ELSE upFor
  /\ waited' = IF phase = "waiting" THEN waited + 1 ELSE waited
  /\ UNCHANGED <<phase, attempt, spentAtUp, flaps>>

Next == StartFails \/ ComesUp \/ Crash \/ RetryFires \/ RefundFires \/ Tick

(* Timers fire and a start ends one way or the other (initialize has a
   timeout); nothing makes a running server crash. *)
Fairness ==
  /\ WF_vars(RetryFires) /\ WF_vars(RefundFires) /\ WF_vars(Tick)
  /\ WF_vars(StartFails \/ ComesUp)

Spec == Init /\ [][Next]_vars
FairSpec == Spec /\ Fairness

-----------------------------------------------------------------------------

TypeOK ==
  /\ phase \in Phases
  /\ attempt \in 0..MaxRetries
  /\ retryIn \in 0..MaxDelay \cup {Off}
  /\ refundIn \in 0..Window \cup {Off}
  /\ upFor \in Nat /\ spentAtUp \in 0..MaxRetries
  /\ flaps \in Nat /\ waited \in Nat

(* A server that keeps dying before its window is over is restarted at most
   MaxRetries times, however its runs, refunds and failed starts interleave
   ("a crash loop still reaches the cap", restart-scheduler.ts:30-34). *)
CrashLoopCapped == flaps <= MaxRetries

(* While a server is up its debt is what it owed when it came up less one
   attempt for each whole window since: never more, never less, but for the
   refund that is due at this very tick. *)
OneRefundPerWindow ==
  phase = "up" =>
    attempt = AtLeastZero(spentAtUp - upFor \div Window + (IF refundIn = 0 THEN 1 ELSE 0))

TotalBase[n \in Nat] == IF n = 0 THEN 0 ELSE TotalBase[n - 1] + Base(n - 1)

(* The restarts of a crash loop are spread out: they take, all together, at
   least half of the undelayed exponential schedule, so a short outage of
   whatever the server needs does not spend the budget. *)
BackoffSpreadsRestarts ==
  2 * (waited + AtLeastZero(retryIn)) >= TotalBase[flaps]

(* A server whose runs all end, and all but finitely many before a window is
   over, is given up for good. *)
CrashLoopEnds ==
  ([]<>(phase # "up") /\ <>[](upFor < Window)) => <>(phase = "stopped")

(* The scheduler without its delays. *)
Untimed == INSTANCE RestartScheduler WITH
  Callbacks <- {"start"}, NoTimer <- "none",
  retryTimer <- IF retryIn = Off THEN "none" ELSE "start",
  unnamed <- {},
  refundTimer <- refundIn # Off

(* The delays refine the untimed scheduler: its guarantees hold whatever the
   delays are. In particular a second retry timer is never armed. *)
ImplementsScheduler == Untimed!SchedulerSpec

=============================================================================
