--------------------------- MODULE WorkspaceWatcher ---------------------------
(***************************************************************************)
(* File changes on their way to the servers (workspace-watcher.ts): events *)
(* of fs.watch collect in a bounded set, the flush scheduler decides when  *)
(* the set is taken, each file is looked at on the disk, and what was      *)
(* found is sent in one batch per server at the end of the flush.          *)
(*                                                                         *)
(* One server with one watcher for all files; which watcher matches what   *)
(* is not modelled; the text of open documents is in DocumentSync.         *)
(***************************************************************************)
EXTENDS FlushScheduler, FiniteSets

CONSTANTS
  Files,
  MaxPending,   \* maxPendingEvents
  MaxChanges    \* bound: changes of files on the disk

ASSUME WorkspaceWatcherAssumption == MaxPending \in Nat \ {0} /\ MaxChanges \in Nat

VARIABLES
  exists,       \* the disk: does the file exist
  raised,       \* fs.watch events the callback has not been called for
  pendingEvents,
  events,       \* what the flush in progress has taken and not looked at
  batched,      \* what it found: a change type, or None
  told,         \* the last change type the server was sent, or None
  isStopped,    \* the proxy has answered shutdown, or is disposed
  changes,      \* number of changes of the disk so far
  dropped       \* history: files whose last event met a full set

diskVars == <<exists, raised, changes>>
queueVars == <<pendingEvents, events, batched, told, isStopped, dropped>>
vars == <<schedulerVars, diskVars, queueVars>>

None == "none"
ChangeTypes == {"changed", "deleted"}

TypeOK ==
  /\ SchedulerTypeOK
  /\ exists \in [Files -> BOOLEAN] /\ raised \in SUBSET Files
  /\ pendingEvents \in SUBSET Files /\ Cardinality(pendingEvents) <= MaxPending
  /\ events \in SUBSET Files
  /\ batched \in [Files -> ChangeTypes \cup {None}]
  /\ told \in [Files -> ChangeTypes \cup {None}]
  /\ isStopped \in BOOLEAN /\ changes \in 0..MaxChanges /\ dropped \in SUBSET Files

Init ==
  /\ SchedulerInit
  /\ exists \in [Files -> BOOLEAN] /\ raised = {} /\ changes = 0
  /\ pendingEvents = {} /\ events = {} /\ dropped = {}
  /\ batched = [f \in Files |-> None] /\ told = [f \in Files |-> None]
  /\ isStopped = FALSE

-----------------------------------------------------------------------------

(* A file is created, written or deleted, and fs.watch notices. *)
DiskChanges(f) ==
  /\ changes < MaxChanges /\ changes' = changes + 1
  /\ \E here \in BOOLEAN : exists' = [exists EXCEPT ![f] = here]
  /\ raised' = raised \cup {f}
  /\ UNCHANGED <<schedulerVars, queueVars>>

(* The callback of watch(). After close() it is not called any more. *)
EventDelivered(f) ==
  /\ f \in raised /\ raised' = raised \ {f}
  /\ ~disposed
  /\ UNCHANGED <<exists, changes, events, batched, told, isStopped>>

EventAccepted(f) ==
  /\ EventDelivered(f) /\ ~isStopped
  /\ f \in pendingEvents \/ Cardinality(pendingEvents) < MaxPending
  /\ pendingEvents' = pendingEvents \cup {f}
  /\ dropped' = dropped \ {f}
  /\ Notify

EventDropped(f) ==
  /\ EventDelivered(f) /\ ~isStopped
  /\ f \notin pendingEvents /\ Cardinality(pendingEvents) >= MaxPending
  /\ dropped' = dropped \cup {f}
  /\ UNCHANGED <<schedulerVars, pendingEvents>>

EventIgnored(f) ==
  /\ EventDelivered(f) /\ isStopped
  /\ UNCHANGED <<schedulerVars, pendingEvents, dropped>>

(* The set is taken and cleared in one step, before the first await. *)
TakePending == events' = pendingEvents /\ pendingEvents' = {}

FlushStarts ==
  /\ StartFlush
  /\ TakePending
  /\ batched' = [f \in Files |-> None]
  /\ UNCHANGED <<diskVars, told, isStopped, dropped>>

(* classifyEvent: what the disk says at the time it is asked. *)
Classify(f) ==
  /\ flushInProgress /\ ~isStopped
  /\ f \in events /\ events' = events \ {f}
  /\ batched' = [batched EXCEPT ![f] = IF exists[f] THEN "changed" ELSE "deleted"]
  /\ UNCHANGED <<schedulerVars, diskVars, pendingEvents, told, isStopped, dropped>>

(* Mutant: the events of files looked at before are cleared with the batch. *)
FlushEndsClearing ==
  /\ events = {} \/ isStopped
  /\ EndFlush
  /\ told' = [f \in Files |-> IF batched[f] = None THEN told[f] ELSE batched[f]]
  /\ batched' = [f \in Files |-> None] /\ events' = {}
  /\ pendingEvents' = {}
  /\ UNCHANGED <<diskVars, isStopped, dropped>>

(* All events looked at, or the proxy stopped: send the batch. *)
FlushEnds ==
  /\ events = {} \/ isStopped
  /\ EndFlush
  /\ told' = [f \in Files |-> IF batched[f] = None THEN told[f] ELSE batched[f]]
  /\ batched' = [f \in Files |-> None] /\ events' = {}
  /\ UNCHANGED <<diskVars, pendingEvents, isStopped, dropped>>

(* shutdown was answered: the watcher stays, and is told by isStopped(). *)
ProxyStops ==
  /\ ~isStopped /\ isStopped' = TRUE
  /\ UNCHANGED <<schedulerVars, diskVars, pendingEvents, events, batched, told, dropped>>

(* dispose(): scheduler and fs.watch are closed. *)
Dispose ==
  /\ DisposeScheduler
  /\ isStopped' = TRUE
  /\ UNCHANGED <<diskVars, pendingEvents, events, batched, told, dropped>>

Next ==
  \/ \E f \in Files : \/ DiskChanges(f) \/ EventAccepted(f) \/ EventDropped(f)
                     \/ EventIgnored(f) \/ Classify(f)
  \/ FlushStarts \/ FlushEnds \/ ProxyStops \/ Dispose
  \/ Tick /\ UNCHANGED <<diskVars, queueVars>>

Spec == Init /\ [][Next]_vars

(* Due timers fire and the file system answers. *)
Fairness ==
  /\ WF_vars(FlushStarts) /\ WF_vars(FlushEnds)
  /\ WF_vars(Tick /\ UNCHANGED <<diskVars, queueVars>>)
  /\ \A f \in Files : WF_vars(Classify(f)) /\ WF_vars(EventAccepted(f))

FairSpec == Spec /\ Fairness

-----------------------------------------------------------------------------
(* Properties. *)

(* Once a file's changes are through, the server was last told what is true of
   it on the disk, whatever happened while the flush was looking elsewhere. A
   dropped event is the exception: the file stays stale until its next one. *)
Handled(f) == f \notin raised \cup pendingEvents \cup events \cup dropped /\ batched[f] = None
LastToldIsCurrent ==
  ~isStopped => \A f \in Files :
    Handled(f) /\ told[f] # None => (told[f] = "changed") <=> exists[f]

(* Events that wait in the set have a timer armed, or a flush in progress that
   will arm one: none is left lying. *)
NoEventLeftLying ==
  pendingEvents # {} /\ ~disposed =>
    debounceIn # Off \/ (flushInProgress /\ notifiedDuringFlush)

(* Every event in the set is taken up in the end, unless the watcher is
   disposed. *)
EventsTakenUp == \A f \in Files : f \in pendingEvents ~> (f \notin pendingEvents \/ disposed)
=============================================================================
