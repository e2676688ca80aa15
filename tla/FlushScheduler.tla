---------------------------- MODULE FlushScheduler ----------------------------
(***************************************************************************)
(* When a batch of notifications is flushed (flush-scheduler.ts): after a  *)
(* quiet period, or at the latest MaxWait after the first notification the *)
(* last flush did not cover; never while a flush is in progress.           *)
(*                                                                         *)
(* Time advances in ticks. A due timer fires before time moves on, but     *)
(* other things due at the same tick may come first. While a flush is in   *)
(* progress no timer is armed, and how long it takes does not matter.      *)
(***************************************************************************)
EXTENDS Integers

CONSTANTS
  Debounce,     \* debounceMs, in ticks
  MaxWait       \* maxWaitMs

ASSUME FlushSchedulerAssumption == Debounce \in Nat /\ MaxWait \in Nat

VARIABLES
  debounceIn,           \* ticks left on the debounce timer, or Off
  maxWaitIn,            \* ticks left on the max-wait timer, or Off
  flushInProgress,
  notifiedDuringFlush,
  disposed,
  uncovered,            \* history: was there a notification no flush covers
  age,                  \* history: ticks the oldest such notification waited
  rested                \* history: ticks since a flush ended, while timing

schedulerVars == <<debounceIn, maxWaitIn, flushInProgress, notifiedDuringFlush,
                   disposed, uncovered, age, rested>>

Off == -1

SchedulerTypeOK ==
  /\ debounceIn \in 0..Debounce \cup {Off}
  /\ maxWaitIn \in 0..MaxWait \cup {Off}
  /\ flushInProgress \in BOOLEAN /\ notifiedDuringFlush \in BOOLEAN
  /\ disposed \in BOOLEAN /\ uncovered \in BOOLEAN
  /\ age \in 0..MaxWait /\ rested \in 0..(Debounce + MaxWait)

SchedulerInit ==
  /\ debounceIn = Off /\ maxWaitIn = Off
  /\ flushInProgress = FALSE /\ notifiedDuringFlush = FALSE /\ disposed = FALSE
  /\ uncovered = FALSE /\ age = 0 /\ rested = Debounce + MaxWait

-----------------------------------------------------------------------------

(* Mutant: every notification starts the longest wait over. *)
ArmRestartingMaxWait == debounceIn' = Debounce /\ maxWaitIn' = MaxWait

(* notify() outside a flush: the quiet period starts over, the longest wait
   does not. *)
Arm ==
  /\ debounceIn' = Debounce
  /\ maxWaitIn' = IF maxWaitIn = Off THEN MaxWait ELSE maxWaitIn

Notify ==
  /\ ~disposed
  /\ uncovered' = TRUE
  /\ IF flushInProgress
     THEN notifiedDuringFlush' = TRUE /\ UNCHANGED <<debounceIn, maxWaitIn, age>>
     ELSE /\ Arm
          /\ age' = IF uncovered THEN age ELSE 0
          /\ UNCHANGED notifiedDuringFlush
  /\ UNCHANGED <<flushInProgress, disposed, rested>>

ClearTimers == debounceIn' = Off /\ maxWaitIn' = Off

(* doFlush() up to its await, from either timer. *)
StartFlush ==
  /\ debounceIn = 0 \/ maxWaitIn = 0
  /\ ~flushInProgress /\ ~disposed
  /\ ClearTimers
  /\ flushInProgress' = TRUE /\ notifiedDuringFlush' = FALSE
  /\ uncovered' = FALSE /\ age' = 0
  /\ UNCHANGED <<disposed, rested>>

(* Mutants: what was notified meanwhile is forgotten; it is flushed at once. *)
EndFlushNoRecheck ==
  /\ flushInProgress /\ flushInProgress' = FALSE
  /\ rested' = 0
  /\ UNCHANGED <<debounceIn, maxWaitIn, notifiedDuringFlush, disposed, uncovered, age>>
EndFlushAtOnce ==
  /\ flushInProgress /\ flushInProgress' = FALSE
  /\ rested' = 0
  /\ IF notifiedDuringFlush /\ ~disposed
     THEN debounceIn' = 0 /\ maxWaitIn' = MaxWait
     ELSE UNCHANGED <<debounceIn, maxWaitIn>>
  /\ UNCHANGED <<notifiedDuringFlush, disposed, uncovered, age>>

(* The finally block of doFlush: a notification that came meanwhile enters
   the debounce cycle again. *)
EndFlush ==
  /\ flushInProgress /\ flushInProgress' = FALSE
  /\ rested' = 0
  /\ IF notifiedDuringFlush /\ ~disposed THEN Arm ELSE UNCHANGED <<debounceIn, maxWaitIn>>
  /\ UNCHANGED <<notifiedDuringFlush, disposed, uncovered, age>>

DisposeScheduler ==
  /\ ~disposed /\ disposed' = TRUE
  /\ ClearTimers
  /\ UNCHANGED <<flushInProgress, notifiedDuringFlush, uncovered, age, rested>>

Elapse(timer) == IF timer = Off THEN Off ELSE timer - 1

Tick ==
  /\ debounceIn # 0 /\ maxWaitIn # 0
  /\ debounceIn # Off \/ maxWaitIn # Off
  /\ debounceIn' = Elapse(debounceIn) /\ maxWaitIn' = Elapse(maxWaitIn)
  /\ age' = age + 1
  /\ rested' = IF rested < Debounce + MaxWait THEN rested + 1 ELSE rested
  /\ UNCHANGED <<flushInProgress, notifiedDuringFlush, disposed, uncovered>>

SchedulerNext == Notify \/ StartFlush \/ EndFlush \/ DisposeScheduler \/ Tick

SchedulerSpec == SchedulerInit /\ [][SchedulerNext]_schedulerVars

-----------------------------------------------------------------------------
(* Properties. *)

(* No timer is armed during a flush or after dispose, so doFlush never has to
   turn one away, and a max-wait never counts from before the last flush. *)
TimersOnlyBetweenFlushes ==
  flushInProgress \/ disposed => debounceIn = Off /\ maxWaitIn = Off

(* A notification is never forgotten: a timer is armed for it, or the flush in
   progress, which may have missed it, knows of it. *)
NothingForgotten ==
  uncovered /\ ~disposed =>
    \/ ~flushInProgress /\ debounceIn # Off /\ maxWaitIn # Off
    \/ flushInProgress /\ notifiedDuringFlush

(* However often the debounce timer is reset, no notification waits longer
   than MaxWait, counted from the end of the flush that missed it if any. *)
WaitIsBounded == maxWaitIn # Off => age + maxWaitIn = MaxWait

(* Flushes are spaced out: each follows a whole quiet period or a whole
   longest wait after the end of the one before. *)
FlushesSpacedOut ==
  [][~flushInProgress /\ flushInProgress' => rested >= Debounce \/ rested >= MaxWait]_schedulerVars
=============================================================================
