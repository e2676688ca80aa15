---------------------------- MODULE ProxyLifecycle ----------------------------
(***************************************************************************)
(* The life of the proxy over all its servers (proxy.ts, with the messages *)
(* of client-messages.ts that move it): the handshake, a shutdown that     *)
(* asks one server after the other, and the teardown, which stops all of   *)
(* them at once, each within a bounded wait (teardown.ts, child-server.ts, *)
(* bounded-wait.ts). Four things tear the proxy down: the client's exit, a *)
(* closed connection, the last server stopping, and they race.             *)
(*                                                                         *)
(* When the teardown is over start() resolves and main() ends the process *)
(* (bin/main.ts), whatever is still under way or waits to be written.      *)
(*                                                                         *)
(* Of a server only what the proxy sees is modelled: its state, and its    *)
(* process. ManagedServer has the rest.                                    *)
(***************************************************************************)
EXTENDS Naturals, Sequences, SequencesExt, FiniteSets, Functions

CONSTANTS
  Servers,
  Shutdowns,    \* slots for shutdown requests in progress
  MaxSpawns     \* bound: processes the servers have between them

ASSUME ProxyLifecycleAssumption ==
  /\ Servers # {} /\ IsFiniteSet(Servers) /\ Servers \cap {"none", "client"} = {}
  /\ MaxSpawns \in Nat

VARIABLES
  proxy,        \* the state of the proxy
  initialized,  \* the client's initialized notification has arrived
  state,        \* the state of each managed server
  proc,         \* its process: "none", "alive", or "killed" and not gone yet
  spawns,       \* number of its processes so far
  asked,        \* isShutdownSent of each server
  shutdown,     \* the shutdown requests in progress
  stopping,     \* where the teardown of each server stands
  resolved      \* start() has resolved, and main() has ended the process

vars == <<proxy, initialized, state, proc, spawns, asked, shutdown, stopping, resolved>>
serverVars == <<state, proc, spawns>>
teardownVars == <<proxy, stopping>>

None == "none"
Order == SetToSeq(Servers)      \* the order of the configuration
Writing == "client"             \* where a shutdown is that is answered, not yet written
Free == [rest |-> <<>>, at |-> None, active |-> FALSE]

TypeOK ==
  /\ proxy \in {"idle", "running", "stopped", "disposed"} /\ initialized \in BOOLEAN
  /\ state \in [Servers -> {"idle", "starting", "running", "restarting", "stopped"}]
  /\ proc \in [Servers -> {None, "alive", "killed"}]
  /\ spawns \in [Servers -> Nat] /\ asked \in [Servers -> BOOLEAN]
  /\ shutdown \in [Shutdowns -> [rest : Seq(Servers), at : Servers \cup {None, Writing},
                                 active : BOOLEAN]]
  /\ stopping \in [Servers -> {None, "flushing", "waiting", "done"}]
  /\ resolved \in BOOLEAN

Init ==
  /\ proxy = "idle" /\ initialized = FALSE
  /\ state = [s \in Servers |-> "idle"] /\ proc = [s \in Servers |-> None]
  /\ spawns = [s \in Servers |-> 0] /\ asked = [s \in Servers |-> FALSE]
  /\ shutdown = [q \in Shutdowns |-> Free]
  /\ stopping = [s \in Servers |-> None] /\ resolved = FALSE

-----------------------------------------------------------------------------
(* Continuations, which run before the next handler: of a shutdown that goes
   on, or whose call an exit or a teardown has rejected, and of stopServers. *)

(* Mutant: the first server to settle ends the wait for all. *)
AnySettled == \E s \in Servers : stopping[s] = "done"

AllSettled == \A s \in Servers : stopping[s] = "done"

Rejected(q) == shutdown[q].at \in Servers /\ state[shutdown[q].at] # "running"
Continues(q) == shutdown[q].active /\ (shutdown[q].at = None \/ Rejected(q))
Quiet == resolved \/ (~AllSettled /\ \A q \in Shutdowns : ~Continues(q))

-----------------------------------------------------------------------------
(* Teardown.                                                                 *)

(* dispose() and stopAllServers: every server is stopped at once. One that has
   a process is sent exit and waited for. *)
TearDown(states, procs) ==
  /\ proxy' = "disposed"
  /\ state' = [s \in Servers |-> "stopped"]
  /\ stopping' = [s \in Servers |->
       IF states[s] # "stopped" /\ procs[s] = "alive" THEN "flushing" ELSE "done"]

Dispose(states, procs) ==
  IF proxy = "disposed" THEN state' = states /\ UNCHANGED teardownVars ELSE TearDown(states, procs)

(* Mutant: servers that have not been started count as stopped. *)
AllStoppedOrIdle(states) == \A s \in Servers : states[s] \in {"idle", "stopped"}

AllStopped(states) == \A s \in Servers : states[s] = "stopped"

(* handleServerStateChange: the last server to stop takes the proxy along. *)
StateChange(states, procs) ==
  IF proxy = "running" /\ AllStopped(states)
  THEN Dispose(states, procs)
  ELSE state' = states /\ UNCHANGED teardownVars

(* waitForExit: no wait for a process that is gone already. *)
AwaitExit(s) == IF proc[s] = "alive" THEN "waiting" ELSE "done"

(* settleWithin: the exit notification is flushed, or the budget is over. *)
FlushEnds(s) ==
  /\ Quiet /\ stopping[s] = "flushing"
  /\ stopping' = [stopping EXCEPT ![s] = AwaitExit(s)]
  /\ UNCHANGED <<proxy, initialized, serverVars, asked, shutdown, resolved>>

(* Mutant: the wait has no timer, only the exit event. *)
GraceEndsOnExit(s) ==
  /\ Quiet /\ stopping[s] = "waiting" /\ proc[s] # "alive"
  /\ stopping' = [stopping EXCEPT ![s] = "done"]
  /\ UNCHANGED <<proxy, initialized, serverVars, asked, shutdown, resolved>>

(* The grace period is over: the child is killed. *)
GraceEnds(s) ==
  /\ Quiet /\ stopping[s] = "waiting"
  /\ stopping' = [stopping EXCEPT ![s] = "done"]
  /\ proc' = [proc EXCEPT ![s] = IF @ = "alive" THEN "killed" ELSE @]
  /\ UNCHANGED <<proxy, initialized, state, spawns, asked, shutdown, resolved>>

(* stopServers after its await: start() resolves, and main() calls process.exit.
   None of the program's steps is taken any more. *)
StartResolves ==
  /\ AllSettled /\ ~resolved /\ resolved' = TRUE
  /\ UNCHANGED <<proxy, initialized, serverVars, asked, shutdown, stopping>>

-----------------------------------------------------------------------------
(* The client.                                                               *)

Initialize ==
  /\ Quiet /\ proxy = "idle" /\ proxy' = "running"
  /\ UNCHANGED <<initialized, serverVars, asked, shutdown, stopping, resolved>>

Initialized ==
  /\ Quiet /\ proxy = "running" /\ ~initialized /\ initialized' = TRUE
  /\ UNCHANGED <<proxy, serverVars, asked, shutdown, stopping, resolved>>

ClientShutdown ==
  /\ Quiet /\ proxy = "running"
  /\ \E q \in Shutdowns :
       /\ ~shutdown[q].active
       /\ shutdown' = [shutdown EXCEPT ![q] = [rest |-> Order, at |-> None, active |-> TRUE]]
  /\ UNCHANGED <<proxy, initialized, serverVars, asked, stopping, resolved>>

(* exit is not heard before the handshake; a closed connection always is. *)
ClientExit ==
  /\ Quiet /\ proxy \in {"running", "stopped"}
  /\ Dispose(state, proc)
  /\ UNCHANGED <<initialized, proc, spawns, asked, shutdown, resolved>>

ConnectionCloses ==
  /\ Quiet /\ proxy # "disposed"
  /\ Dispose(state, proc)
  /\ UNCHANGED <<initialized, proc, spawns, asked, shutdown, resolved>>

-----------------------------------------------------------------------------
(* shutdownAllServers, one server after the other.                           *)

Turn(q, s) == /\ ~resolved /\ shutdown[q].active /\ shutdown[q].at = None
              /\ shutdown[q].rest # <<>> /\ s = Head(shutdown[q].rest)
Proceed(q) == shutdown' = [shutdown EXCEPT ![q].rest = Tail(@), ![q].at = None]

SkipIdle(q, s) ==
  /\ Turn(q, s) /\ state[s] = "idle"
  /\ Proceed(q)
  /\ UNCHANGED <<proxy, initialized, serverVars, asked, stopping, resolved>>

(* A server that does not run is stopped on the spot, its child killed. *)
ShutdownDown(q, s) ==
  /\ Turn(q, s) /\ state[s] \in {"starting", "restarting", "stopped"}
  /\ Proceed(q)
  /\ asked' = [asked EXCEPT ![s] = TRUE]
  /\ proc' = [proc EXCEPT ![s] = IF @ = "alive" /\ state[s] # "stopped" THEN "killed" ELSE @]
  /\ StateChange([state EXCEPT ![s] = "stopped"], proc')
  /\ UNCHANGED <<initialized, spawns, resolved>>

ShutdownRunning(q, s) ==
  /\ Turn(q, s) /\ state[s] = "running"
  /\ asked' = [asked EXCEPT ![s] = TRUE]
  /\ shutdown' = [shutdown EXCEPT ![q].at = s]
  /\ UNCHANGED <<proxy, initialized, serverVars, stopping, resolved>>

(* Mutant: only a reply or a timeout of a server that runs ends the call. *)
ShutdownSettledRunning(q) ==
  /\ ~resolved /\ shutdown[q].at \in Servers /\ state[shutdown[q].at] = "running" /\ Quiet
  /\ Proceed(q)
  /\ UNCHANGED <<proxy, initialized, serverVars, asked, stopping, resolved>>

(* The server replies, its request times out, or its exit rejects it. *)
ShutdownSettled(q) ==
  /\ ~resolved /\ shutdown[q].at \in Servers /\ (Rejected(q) \/ Quiet)
  /\ Proceed(q)
  /\ UNCHANGED <<proxy, initialized, serverVars, asked, stopping, resolved>>

(* Mutant: the proxy goes back to "stopped", be it disposed or not. *)
ShutdownEndsStopped(q) ==
  /\ ~resolved /\ shutdown[q].active /\ shutdown[q].rest = <<>> /\ shutdown[q].at = None
  /\ shutdown' = [shutdown EXCEPT ![q].at = Writing]
  /\ proxy' = "stopped"
  /\ UNCHANGED <<initialized, serverVars, asked, stopping, resolved>>

(* All servers have had their turn. The answer is handed to the writer, be the
   proxy disposed meanwhile or not. *)
ShutdownEnds(q) ==
  /\ ~resolved /\ shutdown[q].active /\ shutdown[q].rest = <<>> /\ shutdown[q].at = None
  /\ shutdown' = [shutdown EXCEPT ![q].at = Writing]
  /\ proxy' = IF proxy = "disposed" THEN proxy ELSE "stopped"
  /\ UNCHANGED <<initialized, serverVars, asked, stopping, resolved>>

(* The writer of the client, which writes on a later turn of the event loop. *)
AnswerWritten(q) ==
  /\ Quiet /\ ~resolved /\ shutdown[q].at = Writing
  /\ shutdown' = [shutdown EXCEPT ![q] = Free]
  /\ UNCHANGED <<proxy, initialized, serverVars, asked, stopping, resolved>>

-----------------------------------------------------------------------------
(* The servers.                                                              *)

(* A message starts an idle server: the client's, or one that another server's
   message causes. *)
StartLazily(s) ==
  /\ Quiet /\ state[s] = "idle" /\ initialized
  /\ proxy = "running" \/ \E t \in Servers : state[t] = "running"
  /\ state' = [state EXCEPT ![s] = "starting"]
  /\ UNCHANGED <<proxy, initialized, proc, spawns, asked, shutdown, stopping, resolved>>

Spawn(s) ==
  /\ Quiet /\ state[s] \in {"starting", "restarting"} /\ proc[s] = None
  /\ SumFunction(spawns) < MaxSpawns
  /\ proc' = [proc EXCEPT ![s] = "alive"] /\ spawns' = [spawns EXCEPT ![s] = @ + 1]
  /\ UNCHANGED <<proxy, initialized, state, asked, shutdown, stopping, resolved>>

ComesUp(s) ==
  /\ Quiet /\ state[s] \in {"starting", "restarting"} /\ proc[s] = "alive"
  /\ state' = [state EXCEPT ![s] = "running"]
  /\ UNCHANGED <<proxy, initialized, proc, spawns, asked, shutdown, stopping, resolved>>

(* Mutant: the stop is not reported. *)
GivesUpQuietly(s) ==
  /\ Quiet /\ state[s] \in {"starting", "restarting"} /\ proc[s] = None
  /\ state' = [state EXCEPT ![s] = "stopped"]
  /\ UNCHANGED <<proxy, initialized, proc, spawns, asked, shutdown, stopping, resolved>>

(* The attempts are used up. *)
GivesUp(s) ==
  /\ Quiet /\ state[s] \in {"starting", "restarting"} /\ proc[s] = None
  /\ StateChange([state EXCEPT ![s] = "stopped"], proc)
  /\ UNCHANGED <<initialized, proc, spawns, asked, shutdown, resolved>>

(* A process that was killed, or that serves no running server, is gone. *)
ProcessGone(s) ==
  /\ Quiet /\ proc[s] # None /\ state[s] # "running"
  /\ proc' = [proc EXCEPT ![s] = None]
  /\ stopping' = [stopping EXCEPT ![s] = IF @ = "waiting" THEN "done" ELSE @]
  /\ UNCHANGED <<proxy, initialized, state, spawns, asked, shutdown, resolved>>

(* A running server exits: a crash, unless it has been asked to shut down. *)
ServerExits(s) ==
  /\ Quiet /\ state[s] = "running"
  /\ proc' = [proc EXCEPT ![s] = None]
  /\ StateChange([state EXCEPT ![s] = IF asked[s] THEN "stopped" ELSE "restarting"], proc')
  /\ UNCHANGED <<initialized, spawns, asked, shutdown, resolved>>

(* The client goes; and everything else that happens. *)
ClientLeaves == ClientExit \/ ConnectionCloses

Stays ==
  \/ Initialize \/ Initialized \/ ClientShutdown \/ StartResolves
  \/ \E q \in Shutdowns :
       \/ ShutdownSettled(q) \/ ShutdownEnds(q) \/ AnswerWritten(q)
       \/ \E s \in Servers : SkipIdle(q, s) \/ ShutdownDown(q, s) \/ ShutdownRunning(q, s)
  \/ \E s \in Servers :
       \/ FlushEnds(s) \/ GraceEnds(s) \/ StartLazily(s) \/ Spawn(s) \/ ComesUp(s)
       \/ GivesUp(s) \/ ProcessGone(s) \/ ServerExits(s)

Next == ClientLeaves \/ Stays

Spec == Init /\ [][Next]_vars

(* The proxy's own continuations and timers: the shutdown loop, whose every
   call has a timeout, the writer, and the two bounded waits. No server has to
   act. *)
Fairness ==
  /\ WF_vars(StartResolves)
  /\ \A s \in Servers : WF_vars(FlushEnds(s) \/ GraceEnds(s))
  /\ \A q \in Shutdowns :
       WF_vars(\/ ShutdownSettled(q) \/ ShutdownEnds(q) \/ AnswerWritten(q)
               \/ \E s \in Servers : SkipIdle(q, s) \/ ShutdownDown(q, s) \/ ShutdownRunning(q, s))

FairSpec == Spec /\ Fairness

(* A client that neither exits nor closes the connection. *)
StayingSpec == Init /\ [][Stays]_vars /\ Fairness

-----------------------------------------------------------------------------
(* Properties. *)

(* A teardown is final: a shutdown that was under way ends in a proxy that is
   disposed still. *)
StaysDisposed == [][proxy = "disposed" => proxy' = "disposed"]_vars

(* start() resolves when the servers are gone: no wait is open, and no process
   is left that has not been killed. *)
ResolvesLast ==
  resolved => /\ proxy = "disposed" /\ \A s \in Servers : state[s] = "stopped"
              /\ \A s \in Servers : stopping[s] = "done" /\ proc[s] # "alive"

(* While the proxy serves, a server is left that is not stopped for good. *)
ServesWhileAnyCan == proxy = "running" => \E s \in Servers : state[s] # "stopped"

(* A server that exits takes the proxy along only if it was the last: those
   that were never started count as well as those that run. *)
ExitOfOneIsSurvived ==
  [][proxy = "running" /\ proxy' = "disposed" /\ proc' # proc
       => \E s \in Servers : \A t \in Servers \ {s} : state[t] = "stopped"]_vars

(* Every shutdown request is answered unless a teardown comes first, though servers
   crash, are silent or give up while it waits for them, and though another
   shutdown is under way. *)
AnsweredUnlessTornDown ==
  \A q \in Shutdowns : shutdown[q].active ~> (~shutdown[q].active \/ proxy = "disposed")

(* Every shutdown request is answered, teardown or not: "The client is owed its
   answer even though the teardown got there first" (shutdown.test.ts:150). *)
ShutdownAnswered == \A q \in Shutdowns : shutdown[q].active ~> ~shutdown[q].active

(* A teardown ends, whatever the servers do about the exit they are sent. *)
TeardownEnds == proxy = "disposed" ~> resolved
=============================================================================
