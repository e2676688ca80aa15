------------------------------ MODULE Diagnostics ------------------------------
(***************************************************************************)
(* The merged diagnostics of one document (diagnostics-coordinator.ts,     *)
(* diagnostics-store.ts): what the servers push, what the proxy pulls from *)
(* all of them at once, and what the client shows. Servers crash and come  *)
(* up again while a pull is waiting for the others.                        *)
(*                                                                         *)
(* A server's list is abstracted to the life of the server it comes from   *)
(* and the way it came. A pull's answers are settled by the request        *)
(* channel, one by one; its continuation runs once all are settled, before *)
(* anything else happens but after the handler that settled the last one.  *)
(***************************************************************************)
EXTENDS Naturals, FiniteSets, Functions

CONSTANTS
  Servers,      \* the servers routed to the document
  Pulls,        \* slots for pulls in progress
  MaxLives,     \* bound: children the servers have between them
  MaxDelayed,   \* bound: pulls put off at once
  ProactivePull \* compensating for a client that does not pull itself

ASSUME DiagnosticsAssumption ==
  /\ MaxLives \in Nat /\ MaxDelayed \in Nat /\ ProactivePull \in BOOLEAN

VARIABLES
  state,        \* the state of each managed server
  life,         \* number of children each server has had
  store,        \* the diagnostics store: a list per server, or None
  shown,        \* the lists merged in what the client was last sent
  pulls,        \* the pulls in progress
  isOpen,       \* the document is tracked
  delayed,      \* timers of pulls that were put off, for servers that start
  isStopped     \* the proxy is stopped

vars == <<state, life, store, shown, pulls, isOpen, delayed, isStopped>>
serverVars == <<state, life>>

States == {"idle", "starting", "running", "restarting", "stopped"}
Lists == [life : Nat, from : {"push", "pull"}]
None == [life |-> 0, from |-> "none"]
Empty == [life |-> 0, from |-> "empty"]
Failed == [life |-> 0, from |-> "failed"]     \* an error, or no list in the answer
Free == [kind |-> "free", waiting |-> {}, got |-> [s \in Servers |-> None]]

TypeOK ==
  /\ state \in [Servers -> States] /\ life \in [Servers -> Nat]
  /\ store \in [Servers -> Lists \cup {None}] /\ shown \in [Servers -> Lists \cup {None}]
  /\ pulls \in [Pulls -> [kind : {"free", "proxy", "client"}, waiting : SUBSET Servers,
                          got : [Servers -> Lists \cup {None, Empty, Failed}]]]
  /\ isOpen \in BOOLEAN /\ delayed \in Nat /\ isStopped \in BOOLEAN

Init ==
  /\ state = [s \in Servers |-> "idle"] /\ life = [s \in Servers |-> 0]
  /\ store = [s \in Servers |-> None] /\ shown = [s \in Servers |-> None]
  /\ pulls = [p \in Pulls |-> Free]
  /\ isOpen = FALSE /\ delayed = 0 /\ isStopped = FALSE

(* No continuation is due: handlers run only then. *)
Quiet == \A p \in Pulls : pulls[p] # Free => pulls[p].waiting # {}

-----------------------------------------------------------------------------
(* The store.                                                                *)

(* update: an empty list removes the entry; a failure leaves it alone. *)
Updated(old, s, list) ==
  IF list = Failed THEN old ELSE [old EXCEPT ![s] = IF list = Empty THEN None ELSE list]

PublishMerged == shown' = store'

(* Mutant: the entries stay. *)
ClearNothing(s) == UNCHANGED <<store, shown>>

(* clearServer: published again only if the server had an entry. *)
ClearServer(s) ==
  /\ store' = [store EXCEPT ![s] = None]
  /\ IF store[s] # None THEN PublishMerged ELSE UNCHANGED shown

(* textDocument/publishDiagnostics, at any time from a running server. *)
Publish(s) ==
  /\ Quiet /\ state[s] = "running"
  /\ \E list \in {Empty, [life |-> life[s], from |-> "push"]} :
       store' = Updated(store, s, list)
  /\ PublishMerged
  /\ UNCHANGED <<serverVars, pulls, isOpen, delayed, isStopped>>

-----------------------------------------------------------------------------
(* Pulls.                                                                    *)

(* sendRequest to every server: one that is idle is started by it, one that
   has stopped fails at once. *)
StartPull(kind) ==
  /\ \E p \in Pulls :
       /\ pulls[p] = Free
       /\ pulls' = [pulls EXCEPT ![p] =
            [kind |-> kind, waiting |-> {s \in Servers : state[s] # "stopped"},
             got |-> [s \in Servers |-> IF state[s] = "stopped" THEN Failed ELSE None]]]
  /\ state' = [s \in Servers |-> IF state[s] = "idle" THEN "starting" ELSE state[s]]

(* handleClientPull. *)
ClientPull ==
  /\ Quiet /\ ~isStopped
  /\ StartPull("client")
  /\ UNCHANGED <<life, store, shown, isOpen, delayed, isStopped>>

(* didOpen and didChange go to the servers first, which starts those that are
   idle. While all are starting the pull is put off. *)
SyncedStates == [s \in Servers |-> IF state[s] = "idle" THEN "starting" ELSE state[s]]
AllStarting == \A s \in Servers : SyncedStates[s] = "starting"

SyncAndPull ==
  /\ Quiet /\ ~isStopped /\ isOpen' = TRUE
  /\ ProactivePull /\ ~AllStarting
  /\ StartPull("proxy")
  /\ UNCHANGED <<life, store, shown, delayed, isStopped>>

SyncAndPullLater ==
  /\ Quiet /\ ~isStopped /\ isOpen' = TRUE
  /\ ProactivePull => AllStarting
  /\ IF ProactivePull THEN delayed < MaxDelayed /\ delayed' = delayed + 1 ELSE UNCHANGED delayed
  /\ state' = SyncedStates
  /\ UNCHANGED <<life, store, shown, pulls, isStopped>>

DidClose ==
  /\ Quiet /\ ~isStopped /\ isOpen /\ isOpen' = FALSE
  /\ UNCHANGED <<serverVars, store, shown, pulls, delayed, isStopped>>

DelayedPull ==
  /\ Quiet /\ delayed > 0 /\ delayed' = delayed - 1
  /\ IF isStopped THEN UNCHANGED <<state, pulls>> ELSE StartPull("proxy")
  /\ UNCHANGED <<life, store, shown, isOpen, isStopped>>

(* workspace/diagnostic/refresh when compensating. *)
Refresh(s) ==
  /\ Quiet /\ state[s] = "running" /\ ProactivePull /\ isOpen
  /\ StartPull("proxy")
  /\ UNCHANGED <<life, store, shown, isOpen, delayed, isStopped>>

Settled(p, s, list) ==
  [kind |-> pulls[p].kind, waiting |-> pulls[p].waiting \ {s},
   got |-> [pulls[p].got EXCEPT ![s] = list]]

Reply(p, s) ==
  /\ Quiet /\ s \in pulls[p].waiting /\ state[s] = "running"
  /\ \E list \in {Failed, Empty, [life |-> life[s], from |-> "pull"]} :
       pulls' = [pulls EXCEPT ![p] = Settled(p, s, list)]
  /\ UNCHANGED <<serverVars, store, shown, isOpen, delayed, isStopped>>

(* Mutant: the timeout forgets the request without settling it. *)
TimesOutUnsettled(p, s) ==
  /\ Quiet /\ s \in pulls[p].waiting
  /\ UNCHANGED vars

TimesOut(p, s) ==
  /\ Quiet /\ s \in pulls[p].waiting
  /\ pulls' = [pulls EXCEPT ![p] = Settled(p, s, Failed)]
  /\ UNCHANGED <<serverVars, store, shown, isOpen, delayed, isStopped>>

(* The continuation of pull(): whatever lists came are stored, and published
   once if there were any. *)
Collected(got) ==
  [s \in Servers |-> Updated(store, s, IF got[s] = None THEN Failed ELSE got[s])[s]]
PullEnds(p) ==
  /\ pulls[p].kind = "proxy" /\ pulls[p].waiting = {}
  /\ store' = Collected(pulls[p].got)
  /\ IF \E s \in Servers : pulls[p].got[s] # Failed THEN PublishMerged ELSE UNCHANGED shown
  /\ pulls' = [pulls EXCEPT ![p] = Free]
  /\ UNCHANGED <<serverVars, isOpen, delayed, isStopped>>

(* The continuation of handleClientPull: the client gets its one answer. *)
ClientPullEnds(p) ==
  /\ pulls[p].kind = "client" /\ pulls[p].waiting = {}
  /\ pulls' = [pulls EXCEPT ![p] = Free]
  /\ UNCHANGED <<serverVars, store, shown, isOpen, delayed, isStopped>>

-----------------------------------------------------------------------------
(* The servers, as far as their pulls and diagnostics are concerned.         *)

(* rejectAll: every call to these servers fails. *)
RejectCalls(gone) ==
  pulls' = [p \in Pulls |->
    [kind |-> pulls[p].kind, waiting |-> pulls[p].waiting \ gone,
     got |-> [s \in Servers |->
                IF s \in gone \cap pulls[p].waiting THEN Failed ELSE pulls[p].got[s]]]]

ComesUp(s) ==
  /\ Quiet /\ state[s] \in {"starting", "restarting"}
  /\ SumFunction(life) < MaxLives
  /\ state' = [state EXCEPT ![s] = "running"] /\ life' = [life EXCEPT ![s] = @ + 1]
  /\ UNCHANGED <<store, shown, pulls, isOpen, delayed, isStopped>>

Crash(s) ==
  /\ Quiet /\ state[s] = "running"
  /\ state' = [state EXCEPT ![s] = "restarting"]
  /\ RejectCalls({s})
  /\ ClearServer(s)
  /\ UNCHANGED <<life, isOpen, delayed, isStopped>>

(* Out of attempts. What the server left was cleared when it went down. *)
GivesUp(s) ==
  /\ Quiet /\ state[s] \in {"starting", "restarting"}
  /\ state' = [state EXCEPT ![s] = "stopped"]
  /\ RejectCalls({s})
  /\ UNCHANGED <<life, store, shown, isOpen, delayed, isStopped>>

ProxyStops ==
  /\ Quiet /\ ~isStopped /\ isStopped' = TRUE
  /\ state' = [s \in Servers |-> "stopped"]
  /\ RejectCalls(Servers)
  /\ UNCHANGED <<life, store, shown, isOpen, delayed>>

Next ==
  \/ ClientPull \/ SyncAndPull \/ SyncAndPullLater \/ DidClose \/ DelayedPull \/ ProxyStops
  \/ \E s \in Servers :
       \/ Publish(s) \/ Refresh(s) \/ ComesUp(s) \/ Crash(s) \/ GivesUp(s)
       \/ \E p \in Pulls : Reply(p, s) \/ TimesOut(p, s)
  \/ \E p \in Pulls : PullEnds(p) \/ ClientPullEnds(p)

Spec == Init /\ [][Next]_vars

(* Continuations run, and a request timeout that is due fires when the handlers
   and continuations before it are through, however often others come first. *)
Fairness ==
  \A p \in Pulls : /\ WF_vars(PullEnds(p) \/ ClientPullEnds(p))
                   /\ SF_vars(\E s \in Servers : TimesOut(p, s))

FairSpec == Spec /\ Fairness

-----------------------------------------------------------------------------
(* Properties. *)

(* A list that was pushed, and is in what the client was last sent, comes from
   the child the server has now, and a server that is coming up again has none:
   clearing on a crash catches all, and the client is told. *)
PushedByTheLiving ==
  \A s \in Servers : shown[s].from = "push" =>
    life[s] = shown[s].life /\ state[s] \in {"running", "stopped"}

(* Every pull ends, so every client that pulls is answered: a server that is
   down, stopped or silent holds no pull open. *)
PullsEnd == \A p \in Pulls : pulls[p] # Free ~> pulls[p] = Free

(* A (re)starting server's diagnostics are dropped: whatever way they came,
   the client is shown none of them. *)
RestartingHasNone ==
  \A s \in Servers : state[s] \in {"starting", "restarting"} => shown[s] = None
=============================================================================
