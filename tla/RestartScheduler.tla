--------------------------- MODULE RestartScheduler ---------------------------
(***************************************************************************)
(* The restart budget of one managed server (restart-scheduler.ts).        *)
(*                                                                         *)
(* A crash or a failed start asks the scheduler for a retry; it spends one *)
(* attempt and arms a timer that calls back, or refuses once MaxRetries    *)
(* attempts are spent. A server that came up earns one attempt back each   *)
(* time the refund timer fires.                                            *)
(*                                                                         *)
(* Time is abstracted here: an armed timer may fire at any moment.         *)
(* CrashLoop.tla adds the delays and implements this module.               *)
(***************************************************************************)
EXTENDS Integers

CONSTANTS
  MaxRetries,   \* policy.maxRetries, a natural number
  Callbacks,    \* what a caller can ask to have run by a retry
  NoTimer       \* `undefined` in retryTimer: not a callback

VARIABLES
  attempt,      \* `count`: attempts spent and not earned back
  retryTimer,   \* callback of the armed timer that retryTimer names
  unnamed,      \* callbacks of armed retry timers whose handle was overwritten
  refundTimer   \* is the refund timer armed

schedulerVars == <<attempt, retryTimer, unnamed, refundTimer>>

SchedulerTypeOK ==
  /\ attempt \in 0..MaxRetries
  /\ retryTimer \in Callbacks \cup {NoTimer}
  /\ unnamed \in SUBSET Callbacks
  /\ refundTimer \in BOOLEAN

SchedulerInit ==
  /\ attempt = 0
  /\ retryTimer = NoTimer
  /\ unnamed = {}
  /\ refundTimer = FALSE

-----------------------------------------------------------------------------

(* schedule(cb) returning true. The assignment to retryTimer does not clear
   an earlier timer: one still armed stays armed without a name, so cancel
   can no longer reach it. *)
ScheduleGranted(cb) ==
  /\ attempt < MaxRetries
  /\ attempt' = attempt + 1
  /\ retryTimer' = cb
  /\ unnamed' = unnamed \cup ({retryTimer} \ {NoTimer})
  /\ refundTimer' = FALSE

(* schedule(cb) returning false: the refund is cancelled all the same. *)
ScheduleRefused ==
  /\ attempt >= MaxRetries
  /\ refundTimer' = FALSE
  /\ UNCHANGED <<attempt, retryTimer, unnamed>>

(* markStarted() restarts the stability window. *)
MarkStarted ==
  /\ refundTimer' = TRUE
  /\ UNCHANGED <<attempt, retryTimer, unnamed>>

(* Mutant: cancel() forgets the retry timer. *)
CancelRefundOnly ==
  /\ refundTimer' = FALSE
  /\ UNCHANGED <<attempt, retryTimer, unnamed>>

(* cancel() clears the two timers it has a name for. *)
Cancel ==
  /\ retryTimer' = NoTimer
  /\ refundTimer' = FALSE
  /\ UNCHANGED <<attempt, unnamed>>

(* The refund timer fires: one attempt comes back, and the timer is armed
   again while anything is owed. *)
RefundFires ==
  /\ refundTimer
  /\ attempt' = IF attempt = 0 THEN 0 ELSE attempt - 1
  /\ refundTimer' = (attempt' > 0)
  /\ UNCHANGED <<retryTimer, unnamed>>

(* A retry timer fires and runs cb. A named timer leaves its name behind,
   which names nothing armed any more. *)
RetryFires(cb) ==
  /\ \/ /\ retryTimer = cb
        /\ retryTimer' = NoTimer
        /\ UNCHANGED unnamed
     \/ /\ cb \in unnamed
        /\ unnamed' = unnamed \ {cb}
        /\ UNCHANGED retryTimer
  /\ UNCHANGED <<attempt, refundTimer>>

(* The callback of a firing timer calls schedule(cb) again before it returns:
   what becomes of the two timers when that is granted, and when it is not. *)
RetryRescheduled(cb) ==
  /\ attempt < MaxRetries
  /\ attempt' = attempt + 1
  /\ retryTimer' = cb
  /\ refundTimer' = FALSE
  /\ \/ retryTimer = cb /\ UNCHANGED unnamed
     \/ cb \in unnamed /\ unnamed' = (unnamed \ {cb}) \cup ({retryTimer} \ {NoTimer})

RetryRefused(cb) ==
  /\ attempt >= MaxRetries
  /\ refundTimer' = FALSE
  /\ UNCHANGED attempt
  /\ \/ retryTimer = cb /\ retryTimer' = NoTimer /\ UNCHANGED unnamed
     \/ cb \in unnamed /\ unnamed' = unnamed \ {cb} /\ UNCHANGED retryTimer

SchedulerNext ==
  \/ \E cb \in Callbacks : ScheduleGranted(cb) \/ RetryFires(cb)
                           \/ RetryRescheduled(cb) \/ RetryRefused(cb)
  \/ ScheduleRefused
  \/ MarkStarted
  \/ Cancel
  \/ RefundFires

SchedulerSpec == SchedulerInit /\ [][SchedulerNext]_schedulerVars
=============================================================================
