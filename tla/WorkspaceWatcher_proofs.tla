----------------------- MODULE WorkspaceWatcher_proofs ------------------------
(***************************************************************************)
(* Proofs about the flush scheduler, for every quiet period and longest    *)
(* wait; and about the workspace watcher, for any set of files and any     *)
(* bound on the pending set. The watcher is shown to drive the scheduler   *)
(* as it allows, which carries the scheduler's theorems over.              *)
(***************************************************************************)
EXTENDS WorkspaceWatcher, FiniteSetTheorems, TLAPS

-----------------------------------------------------------------------------
(* The scheduler. *)

(* The two timers are armed and cleared together, for a notification no flush
   covers yet. *)
TimersTogether ==
  /\ (debounceIn = Off) <=> (maxWaitIn = Off)
  /\ maxWaitIn # Off => uncovered

(* A flush in progress that knows of no later notification covers them all. *)
FlushCovers ==
  flushInProgress => age = 0 /\ (uncovered /\ ~disposed => notifiedDuringFlush)

(* The rest since the last flush and what is left on the timers make up at
   least a quiet period and a longest wait. *)
RestCounts ==
  /\ debounceIn # Off => rested + debounceIn >= Debounce
  /\ maxWaitIn # Off => rested + maxWaitIn >= MaxWait

(* Only a notification no flush covers yet sets the flag. *)
NotedUncovered == flushInProgress /\ notifiedDuringFlush => uncovered

FlushInv ==
  /\ SchedulerTypeOK
  /\ TimersOnlyBetweenFlushes
  /\ NothingForgotten
  /\ WaitIsBounded
  /\ TimersTogether
  /\ FlushCovers
  /\ RestCounts
  /\ NotedUncovered

LEMMA FlushInit == SchedulerInit => FlushInv
<1> SUFFICES ASSUME SchedulerInit PROVE FlushInv
  OBVIOUS
<1> USE FlushSchedulerAssumption DEF SchedulerInit, Off
<1>1. SchedulerTypeOK
  <2>1. rested \in 0..(Debounce + MaxWait) /\ age \in 0..MaxWait
    OBVIOUS
  <2> QED BY <2>1 DEF SchedulerTypeOK
<1>2. TimersOnlyBetweenFlushes /\ NothingForgotten /\ WaitIsBounded
  BY DEF TimersOnlyBetweenFlushes, NothingForgotten, WaitIsBounded
<1>3. TimersTogether /\ FlushCovers /\ RestCounts /\ NotedUncovered
  BY DEF TimersTogether, FlushCovers, RestCounts, NotedUncovered
<1> QED BY <1>1, <1>2, <1>3 DEF FlushInv

LEMMA TypeStep == FlushInv /\ [SchedulerNext]_schedulerVars => SchedulerTypeOK'
<1> SUFFICES ASSUME FlushInv, [SchedulerNext]_schedulerVars PROVE SchedulerTypeOK'
  OBVIOUS
<1> USE FlushSchedulerAssumption DEF FlushInv, SchedulerTypeOK, Off
<1>1. /\ flushInProgress' \in BOOLEAN /\ notifiedDuringFlush' \in BOOLEAN
      /\ disposed' \in BOOLEAN /\ uncovered' \in BOOLEAN
  BY DEF SchedulerNext, Notify, StartFlush, EndFlush, DisposeScheduler, Tick, schedulerVars
<1>2. debounceIn' \in 0..Debounce \cup {Off} /\ maxWaitIn' \in 0..MaxWait \cup {Off}
  <2>1. CASE Notify \/ EndFlush
    BY <2>1 DEF Notify, EndFlush, Arm
  <2>2. CASE StartFlush \/ DisposeScheduler
    BY <2>2 DEF StartFlush, DisposeScheduler, ClearTimers
  <2>3. CASE Tick
    BY <2>3 DEF Tick, Elapse
  <2>4. CASE UNCHANGED schedulerVars
    BY <2>4 DEF schedulerVars
  <2> QED BY <2>1, <2>2, <2>3, <2>4 DEF SchedulerNext
<1>3. age' \in 0..MaxWait
  <2>1. CASE Notify \/ StartFlush
    BY <2>1 DEF Notify, StartFlush
  <2>2. CASE Tick
    BY <2>2 DEF Tick, WaitIsBounded, TimersTogether
  <2>3. CASE EndFlush \/ DisposeScheduler \/ UNCHANGED schedulerVars
    BY <2>3 DEF EndFlush, DisposeScheduler, schedulerVars
  <2> QED BY <2>1, <2>2, <2>3 DEF SchedulerNext
<1>4. rested' \in 0..(Debounce + MaxWait)
  BY DEF SchedulerNext, Notify, StartFlush, EndFlush, DisposeScheduler, Tick, schedulerVars
<1> QED BY <1>1, <1>2, <1>3, <1>4

LEMMA FlushStep == FlushInv /\ [SchedulerNext]_schedulerVars => FlushInv'
<1> SUFFICES ASSUME FlushInv, [SchedulerNext]_schedulerVars PROVE FlushInv'
  OBVIOUS
<1>0. SchedulerTypeOK'
  BY TypeStep
<1> USE FlushSchedulerAssumption DEF FlushInv, SchedulerTypeOK, Off
<1>1. TimersOnlyBetweenFlushes'
  <2>1. CASE Notify
    BY <2>1 DEF Notify, TimersOnlyBetweenFlushes
  <2>2. CASE StartFlush \/ DisposeScheduler
    BY <2>2 DEF StartFlush, DisposeScheduler, ClearTimers, TimersOnlyBetweenFlushes
  <2>3. CASE EndFlush
    BY <2>3 DEF EndFlush, TimersOnlyBetweenFlushes
  <2>4. CASE Tick \/ UNCHANGED schedulerVars
    BY <2>4 DEF Tick, schedulerVars, TimersOnlyBetweenFlushes
  <2> QED BY <2>1, <2>2, <2>3, <2>4 DEF SchedulerNext
<1>2. (NothingForgotten /\ FlushCovers)'
  <2>1. CASE Notify /\ flushInProgress
    BY <2>1 DEF Notify, NothingForgotten, FlushCovers
  <2>2. CASE Notify /\ ~flushInProgress
    BY <2>2 DEF Notify, Arm, NothingForgotten, FlushCovers
  <2>3. CASE StartFlush \/ DisposeScheduler
    BY <2>3 DEF StartFlush, DisposeScheduler, NothingForgotten, FlushCovers
  <2>4. CASE EndFlush /\ notifiedDuringFlush /\ ~disposed
    BY <2>4 DEF EndFlush, Arm, NothingForgotten, FlushCovers
  <2>5. CASE EndFlush /\ ~(notifiedDuringFlush /\ ~disposed)
    BY <2>5 DEF EndFlush, NothingForgotten, FlushCovers
  <2>6. CASE Tick
    BY <2>6 DEF Tick, Elapse, NothingForgotten, FlushCovers, TimersOnlyBetweenFlushes
  <2>7. CASE UNCHANGED schedulerVars
    BY <2>7 DEF schedulerVars, NothingForgotten, FlushCovers
  <2> QED BY <2>1, <2>2, <2>3, <2>4, <2>5, <2>6, <2>7 DEF SchedulerNext
<1>3. (WaitIsBounded /\ TimersTogether)'
  <2> USE DEF WaitIsBounded, TimersTogether, TimersOnlyBetweenFlushes
  <2>1. CASE Notify /\ flushInProgress
    BY <2>1 DEF Notify
  <2>2. CASE Notify /\ ~flushInProgress
    <3>1. maxWaitIn = Off => age' = 0
      BY <2>2 DEF Notify, NothingForgotten
    <3>2. maxWaitIn # Off => age' = age
      BY <2>2 DEF Notify
    <3>3. uncovered' /\ debounceIn' = Debounce
          /\ maxWaitIn' = IF maxWaitIn = Off THEN MaxWait ELSE maxWaitIn
      BY <2>2 DEF Notify, Arm
    <3> QED BY <3>1, <3>2, <3>3
  <2>3. CASE StartFlush \/ DisposeScheduler
    BY <2>3 DEF StartFlush, DisposeScheduler, ClearTimers
  <2>4. CASE EndFlush /\ notifiedDuringFlush /\ ~disposed
    <3>1. maxWaitIn' = MaxWait /\ debounceIn' = Debounce /\ age' = 0
      BY <2>4 DEF EndFlush, Arm, FlushCovers
    <3>2. uncovered'
      BY <2>4 DEF EndFlush, NotedUncovered
    <3> QED BY <3>1, <3>2
  <2>5. CASE EndFlush /\ ~(notifiedDuringFlush /\ ~disposed)
    BY <2>5 DEF EndFlush
  <2>6. CASE Tick
    BY <2>6 DEF Tick, Elapse
  <2>7. CASE UNCHANGED schedulerVars
    BY <2>7 DEF schedulerVars
  <2> QED BY <2>1, <2>2, <2>3, <2>4, <2>5, <2>6, <2>7 DEF SchedulerNext
<1>4. RestCounts'
  <2> USE DEF RestCounts
  <2>1. CASE Notify
    BY <2>1 DEF Notify, Arm
  <2>2. CASE StartFlush \/ DisposeScheduler
    BY <2>2 DEF StartFlush, DisposeScheduler, ClearTimers
  <2>3. CASE EndFlush
    BY <2>3 DEF EndFlush, Arm, TimersOnlyBetweenFlushes
  <2>4. CASE Tick
    BY <2>4 DEF Tick, Elapse
  <2>5. CASE UNCHANGED schedulerVars
    BY <2>5 DEF schedulerVars
  <2> QED BY <2>1, <2>2, <2>3, <2>4, <2>5 DEF SchedulerNext
<1>5. NotedUncovered'
  BY DEF SchedulerNext, Notify, StartFlush, EndFlush, DisposeScheduler, Tick, schedulerVars,
         NotedUncovered
<1> QED BY <1>0, <1>1, <1>2, <1>3, <1>4, <1>5

LEMMA FlushInvariant == SchedulerSpec => []FlushInv
BY FlushInit, FlushStep, PTL DEF SchedulerSpec

(* Counters and timers stay within their bounds, whatever the delays. *)
THEOREM FlushSchedulerTypeCorrect == SchedulerSpec => []SchedulerTypeOK
<1>1. FlushInv => SchedulerTypeOK
  BY DEF FlushInv
<1> QED BY <1>1, FlushInvariant, PTL

(* A notification, whenever it comes, has a timer armed for it or a flush in
   progress that will arm one. *)
THEOREM NotificationsAreNotForgotten == SchedulerSpec => []NothingForgotten
<1>1. FlushInv => NothingForgotten
  BY DEF FlushInv
<1> QED BY <1>1, FlushInvariant, PTL

(* No notification waits longer than MaxWait outside a flush, however the
   debounce timer is reset. *)
THEOREM NotificationsWaitAtMostMaxWait == SchedulerSpec => []WaitIsBounded
<1>1. FlushInv => WaitIsBounded
  BY DEF FlushInv
<1> QED BY <1>1, FlushInvariant, PTL

(* Between the end of a flush and the next lies a quiet period or a longest
   wait. *)
THEOREM FlushesAreSpacedOut == SchedulerSpec => FlushesSpacedOut
<1> DEFINE Rested == rested >= Debounce \/ rested >= MaxWait
<1>1. ASSUME FlushInv, [SchedulerNext]_schedulerVars, ~flushInProgress, flushInProgress'
      PROVE  Rested
  <2>1. StartFlush
    BY <1>1 DEF SchedulerNext, Notify, EndFlush, DisposeScheduler, Tick, schedulerVars
  <2> QED BY <1>1, <2>1, FlushSchedulerAssumption
          DEF StartFlush, FlushInv, RestCounts, SchedulerTypeOK, Off
<1>2. FlushInv /\ [SchedulerNext]_schedulerVars
        => [~flushInProgress /\ flushInProgress' => Rested]_schedulerVars
  BY <1>1
<1> QED BY <1>2, FlushInvariant, PTL DEF SchedulerSpec, FlushesSpacedOut

-----------------------------------------------------------------------------
(* The watcher. *)

(* Every step of the watcher is a step of the scheduler or none of its. *)
LEMMA SchedulerSteps == [Next]_vars => [SchedulerNext]_schedulerVars
<1> SUFFICES ASSUME [Next]_vars PROVE [SchedulerNext]_schedulerVars
  OBVIOUS
<1>1. ASSUME NEW f \in Files,
             DiskChanges(f) \/ EventDropped(f) \/ EventIgnored(f) \/ Classify(f)
      PROVE  UNCHANGED schedulerVars
  BY <1>1 DEF DiskChanges, EventDropped, EventIgnored, Classify
<1>2. ASSUME NEW f \in Files, EventAccepted(f) PROVE Notify
  BY <1>2 DEF EventAccepted
<1>3. CASE FlushStarts \/ FlushEnds \/ Dispose
  BY <1>3 DEF FlushStarts, FlushEnds, Dispose, SchedulerNext
<1>4. CASE ProxyStops
  BY <1>4 DEF ProxyStops
<1>5. CASE Tick /\ UNCHANGED <<diskVars, queueVars>>
  BY <1>5 DEF SchedulerNext
<1>6. CASE UNCHANGED vars
  BY <1>6 DEF vars
<1> QED BY <1>1, <1>2, <1>3, <1>4, <1>5, <1>6 DEF Next, SchedulerNext

(* The watcher implements the flush scheduler: what is proved of every user of
   the scheduler holds of it. *)
THEOREM WatcherDrivesScheduler == Spec => SchedulerSpec
<1>1. Init => SchedulerInit
  BY DEF Init
<1> QED BY <1>1, SchedulerSteps, PTL DEF Spec, SchedulerSpec

LEMMA WatcherFlushInvariant == Spec => []FlushInv
BY WatcherDrivesScheduler, FlushInvariant, PTL

-----------------------------------------------------------------------------

(* An event waits in the set only while some notification is uncovered. *)
PendingUncovered == pendingEvents # {} => uncovered

(* Between flushes nothing is half done. *)
NothingBetweenFlushes ==
  ~flushInProgress /\ ~isStopped => events = {} /\ batched = [f \in Files |-> None]

(* A file none of whose changes is on its way is known as it is: to the batch if
   it is in there, and otherwise to the server. *)
KnownAsItIs ==
  ~isStopped => \A f \in Files \ (raised \cup pendingEvents \cup events \cup dropped) :
    /\ batched[f] # None => ((batched[f] = "changed") <=> exists[f])
    /\ batched[f] = None /\ told[f] # None => ((told[f] = "changed") <=> exists[f])

WatcherInv ==
  /\ TypeOK
  /\ IsFiniteSet(pendingEvents)
  /\ PendingUncovered
  /\ NothingBetweenFlushes
  /\ KnownAsItIs
  /\ disposed => isStopped

LEMMA WatcherInit == Init => WatcherInv
<1> SUFFICES ASSUME Init PROVE WatcherInv
  OBVIOUS
<1>1. SchedulerTypeOK
  BY FlushInit DEF Init, FlushInv
<1>2. Cardinality(pendingEvents) = 0 /\ IsFiniteSet(pendingEvents)
  BY FS_EmptySet DEF Init
<1> USE DEF Init
<1>3. exists \in [Files -> BOOLEAN] /\ raised \in SUBSET Files /\ pendingEvents \in SUBSET Files
      /\ events \in SUBSET Files /\ dropped \in SUBSET Files /\ isStopped \in BOOLEAN
  OBVIOUS
<1>4. batched \in [Files -> ChangeTypes \cup {None}] /\ told \in [Files -> ChangeTypes \cup {None}]
  OBVIOUS
<1>5. Cardinality(pendingEvents) <= MaxPending /\ changes \in 0..MaxChanges
  BY <1>2, WorkspaceWatcherAssumption
<1>6. TypeOK
  BY <1>1, <1>3, <1>4, <1>5 DEF TypeOK
<1>7. PendingUncovered /\ NothingBetweenFlushes /\ (disposed => isStopped)
  BY DEF PendingUncovered, NothingBetweenFlushes, SchedulerInit
<1>8. KnownAsItIs
  BY DEF KnownAsItIs
<1> QED BY <1>2, <1>6, <1>7, <1>8 DEF WatcherInv

(* Types, with the bound of the pending set. *)
LEMMA WatcherTypeStep ==
  ASSUME WatcherInv, FlushInv, [Next]_vars
  PROVE  TypeOK' /\ IsFiniteSet(pendingEvents)'
<1>1. SchedulerTypeOK'
  BY SchedulerSteps, TypeStep
<1> USE DEF WatcherInv, TypeOK
<1>2. exists' \in [Files -> BOOLEAN] /\ raised' \in SUBSET Files /\ changes' \in 0..MaxChanges
  <2>1. ASSUME NEW f \in Files, DiskChanges(f)
        PROVE  exists' \in [Files -> BOOLEAN] /\ raised' \in SUBSET Files
               /\ changes' \in 0..MaxChanges
    BY <2>1, WorkspaceWatcherAssumption DEF DiskChanges
  <2>2. ASSUME NEW f \in Files, EventAccepted(f) \/ EventDropped(f) \/ EventIgnored(f)
        PROVE  exists' \in [Files -> BOOLEAN] /\ raised' \in SUBSET Files
               /\ changes' \in 0..MaxChanges
    BY <2>2 DEF EventAccepted, EventDropped, EventIgnored, EventDelivered
  <2>3. ASSUME NEW f \in Files, Classify(f) PROVE UNCHANGED diskVars
    BY <2>3 DEF Classify
  <2>4. CASE FlushStarts \/ FlushEnds \/ ProxyStops \/ Dispose
             \/ (Tick /\ UNCHANGED <<diskVars, queueVars>>) \/ UNCHANGED vars
    BY <2>4 DEF FlushStarts, FlushEnds, ProxyStops, Dispose, vars, diskVars
  <2> QED BY <2>1, <2>2, <2>3, <2>4 DEF Next, diskVars
<1>3. pendingEvents' \in SUBSET Files /\ Cardinality(pendingEvents') <= MaxPending
      /\ IsFiniteSet(pendingEvents')
  <2>1. ASSUME NEW f \in Files, EventAccepted(f)
        PROVE  pendingEvents' \in SUBSET Files /\ Cardinality(pendingEvents') <= MaxPending
               /\ IsFiniteSet(pendingEvents')
    <3>1. pendingEvents' = pendingEvents \cup {f}
          /\ (f \in pendingEvents \/ Cardinality(pendingEvents) < MaxPending)
      BY <2>1 DEF EventAccepted
    <3>2. IsFiniteSet(pendingEvents') /\ Cardinality(pendingEvents')
            = IF f \in pendingEvents THEN Cardinality(pendingEvents)
              ELSE Cardinality(pendingEvents) + 1
      BY <3>1, FS_AddElement
    <3>3. Cardinality(pendingEvents) \in Nat
      BY FS_CardinalityType
    <3> QED BY <3>1, <3>2, <3>3, WorkspaceWatcherAssumption
  <2>2. ASSUME FlushStarts
        PROVE  pendingEvents' \in SUBSET Files /\ Cardinality(pendingEvents') <= MaxPending
               /\ IsFiniteSet(pendingEvents')
    BY <2>2, FS_EmptySet, WorkspaceWatcherAssumption DEF FlushStarts, TakePending
  <2>3. ASSUME NEW f \in Files,
               DiskChanges(f) \/ EventDropped(f) \/ EventIgnored(f) \/ Classify(f)
        PROVE  pendingEvents' = pendingEvents
    BY <2>3 DEF DiskChanges, EventDropped, EventIgnored, Classify, queueVars
  <2>4. CASE FlushEnds \/ ProxyStops \/ Dispose
             \/ (Tick /\ UNCHANGED <<diskVars, queueVars>>) \/ UNCHANGED vars
    BY <2>4 DEF FlushEnds, ProxyStops, Dispose, vars, queueVars
  <2> QED BY <2>1, <2>2, <2>3, <2>4 DEF Next
<1>4. events' \in SUBSET Files /\ dropped' \in SUBSET Files /\ isStopped' \in BOOLEAN
  <2>1. ASSUME NEW f \in Files, DiskChanges(f) \/ EventAccepted(f) \/ EventDropped(f)
                                \/ EventIgnored(f) \/ Classify(f)
        PROVE  events' \in SUBSET Files /\ dropped' \in SUBSET Files /\ isStopped' = isStopped
    BY <2>1 DEF DiskChanges, EventAccepted, EventDropped, EventIgnored, EventDelivered, Classify,
                queueVars
  <2>2. CASE FlushStarts \/ FlushEnds \/ ProxyStops \/ Dispose
             \/ (Tick /\ UNCHANGED <<diskVars, queueVars>>) \/ UNCHANGED vars
    BY <2>2 DEF FlushStarts, TakePending, FlushEnds, ProxyStops, Dispose, vars, queueVars
  <2> QED BY <2>1, <2>2 DEF Next
<1>5. batched' \in [Files -> ChangeTypes \cup {None}] /\ told' \in [Files -> ChangeTypes \cup {None}]
  <2>1. ASSUME NEW f \in Files, DiskChanges(f) \/ EventAccepted(f) \/ EventDropped(f)
                                \/ EventIgnored(f)
        PROVE  batched' = batched /\ told' = told
    BY <2>1 DEF DiskChanges, EventAccepted, EventDropped, EventIgnored, EventDelivered, queueVars
  <2>2. ASSUME NEW f \in Files, Classify(f)
        PROVE  batched' \in [Files -> ChangeTypes \cup {None}] /\ told' = told
    <3>1. batched' = [batched EXCEPT ![f] = IF exists[f] THEN "changed" ELSE "deleted"]
          /\ told' = told
      BY <2>2 DEF Classify
    <3> QED BY <3>1 DEF ChangeTypes
  <2>3. CASE FlushStarts \/ FlushEnds
    BY <2>3 DEF FlushStarts, FlushEnds
  <2>4. CASE ProxyStops \/ Dispose
             \/ (Tick /\ UNCHANGED <<diskVars, queueVars>>) \/ UNCHANGED vars
    BY <2>4 DEF ProxyStops, Dispose, vars, queueVars
  <2> QED BY <2>1, <2>2, <2>3, <2>4 DEF Next
<1> QED BY <1>1, <1>2, <1>3, <1>4, <1>5

LEMMA WatcherStep ==
  ASSUME WatcherInv, FlushInv, [Next]_vars
  PROVE  WatcherInv'
<1>1. TypeOK' /\ IsFiniteSet(pendingEvents)'
  BY WatcherTypeStep
<1> USE DEF WatcherInv, TypeOK
<1>2. PendingUncovered' /\ (disposed => isStopped)'
  <2> USE DEF PendingUncovered
  <2>1. ASSUME NEW f \in Files, EventAccepted(f)
        PROVE  uncovered' /\ disposed' = disposed /\ isStopped' = isStopped
    BY <2>1 DEF EventAccepted, EventDelivered, Notify
  <2>2. ASSUME NEW f \in Files,
               DiskChanges(f) \/ EventDropped(f) \/ EventIgnored(f) \/ Classify(f)
        PROVE  pendingEvents' = pendingEvents /\ uncovered' = uncovered
               /\ disposed' = disposed /\ isStopped' = isStopped
    BY <2>2 DEF DiskChanges, EventDropped, EventIgnored, EventDelivered, Classify,
                queueVars, schedulerVars
  <2>3. CASE FlushStarts
    BY <2>3 DEF FlushStarts, TakePending, StartFlush
  <2>4. CASE FlushEnds
    BY <2>4 DEF FlushEnds, EndFlush
  <2>5. CASE ProxyStops \/ Dispose
    BY <2>5 DEF ProxyStops, Dispose, DisposeScheduler, schedulerVars
  <2>6. CASE (Tick /\ UNCHANGED <<diskVars, queueVars>>) \/ UNCHANGED vars
    BY <2>6 DEF Tick, vars, queueVars, schedulerVars
  <2> QED BY <2>1, <2>2, <2>3, <2>4, <2>5, <2>6 DEF Next
<1>3. (NothingBetweenFlushes /\ KnownAsItIs)'
  <2> USE DEF NothingBetweenFlushes, KnownAsItIs
  <2>1. ASSUME NEW g \in Files, DiskChanges(g)
        PROVE  (NothingBetweenFlushes /\ KnownAsItIs)'
    <3>1. raised' = raised \cup {g}
          /\ UNCHANGED <<schedulerVars, queueVars>>
          /\ \A f \in Files \ {g} : exists'[f] = exists[f]
      BY <2>1 DEF DiskChanges
    <3> QED BY <3>1 DEF schedulerVars, queueVars
  <2>2. ASSUME NEW g \in Files, EventAccepted(g)
        PROVE  (NothingBetweenFlushes /\ KnownAsItIs)'
    BY <2>2 DEF EventAccepted, EventDelivered, Notify
  <2>3. ASSUME NEW g \in Files, EventDropped(g)
        PROVE  (NothingBetweenFlushes /\ KnownAsItIs)'
    BY <2>3 DEF EventDropped, EventDelivered, schedulerVars
  <2>4. ASSUME NEW g \in Files, EventIgnored(g)
        PROVE  (NothingBetweenFlushes /\ KnownAsItIs)'
    BY <2>4 DEF EventIgnored, EventDelivered
  <2>5. ASSUME NEW g \in Files, Classify(g)
        PROVE  (NothingBetweenFlushes /\ KnownAsItIs)'
    <3>1. /\ flushInProgress' /\ events' = events \ {g}
          /\ UNCHANGED <<exists, raised, pendingEvents, told, isStopped, dropped>>
          /\ batched' = [batched EXCEPT ![g] = IF exists[g] THEN "changed" ELSE "deleted"]
      BY <2>5 DEF Classify, schedulerVars, diskVars
    <3>2. batched'[g] # None /\ ((batched'[g] = "changed") <=> exists[g])
      BY <3>1 DEF None
    <3>3. \A f \in Files \ {g} : batched'[f] = batched[f]
      BY <3>1
    <3> QED BY <3>1, <3>2, <3>3
  <2>6. CASE FlushStarts
    <3>1. /\ flushInProgress' /\ ~flushInProgress
          /\ events' = pendingEvents /\ pendingEvents' = {}
          /\ batched' = [f \in Files |-> None]
          /\ UNCHANGED <<exists, raised, told, isStopped, dropped>>
      BY <2>6 DEF FlushStarts, StartFlush, TakePending, diskVars
    <3> QED BY <3>1
  <2>7. CASE FlushEnds
    <3>1. /\ events = {} \/ isStopped
          /\ told' = [f \in Files |-> IF batched[f] = None THEN told[f] ELSE batched[f]]
          /\ batched' = [f \in Files |-> None] /\ events' = {}
          /\ UNCHANGED <<exists, raised, pendingEvents, isStopped, dropped>>
      BY <2>7 DEF FlushEnds, diskVars
    <3> QED BY <3>1
  <2>8. CASE ProxyStops \/ Dispose
    BY <2>8 DEF ProxyStops, Dispose
  <2>9. CASE (Tick /\ UNCHANGED <<diskVars, queueVars>>) \/ UNCHANGED vars
    BY <2>9 DEF Tick, vars, queueVars, diskVars, schedulerVars
  <2> QED BY <2>1, <2>2, <2>3, <2>4, <2>5, <2>6, <2>7, <2>8, <2>9 DEF Next
<1> QED BY <1>1, <1>2, <1>3

LEMMA WatcherInvariant == Spec => []WatcherInv
<1>1. WatcherInv /\ FlushInv /\ [Next]_vars => WatcherInv'
  BY WatcherStep
<1> QED BY <1>1, WatcherInit, WatcherFlushInvariant, PTL DEF Spec

-----------------------------------------------------------------------------

(* Types; in particular the pending set never exceeds its bound. *)
THEOREM WatcherTypeCorrect == Spec => []TypeOK
<1>1. WatcherInv => TypeOK
  BY DEF WatcherInv
<1> QED BY <1>1, WatcherInvariant, PTL

(* Once a file's changes are through, the server was last told what is true of
   it on the disk. *)
THEOREM ServersLearnWhatIsTrue == Spec => []LastToldIsCurrent
<1>1. WatcherInv => LastToldIsCurrent
  BY DEF WatcherInv, KnownAsItIs, LastToldIsCurrent, Handled
<1> QED BY <1>1, WatcherInvariant, PTL

(* An event in the set always has something under way that will take it. *)
THEOREM EventsAreNotLeftLying == Spec => []NoEventLeftLying
<1>1. WatcherInv /\ FlushInv => NoEventLeftLying
  BY DEF WatcherInv, PendingUncovered, FlushInv, NothingForgotten, NoEventLeftLying
<1> QED BY <1>1, WatcherInvariant, WatcherFlushInvariant, PTL

(* The promises of the scheduler, kept by the watcher. *)
THEOREM WatcherForgetsNothing == Spec => []NothingForgotten /\ []WaitIsBounded
BY WatcherDrivesScheduler, NotificationsAreNotForgotten, NotificationsWaitAtMostMaxWait, PTL
=============================================================================
