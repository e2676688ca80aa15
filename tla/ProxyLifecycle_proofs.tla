------------------------ MODULE ProxyLifecycle_proofs -------------------------
(***************************************************************************)
(* Proofs about the life of the proxy, for any set of servers, any number  *)
(* of shutdown requests and any number of processes.                       *)
(***************************************************************************)
EXTENDS ProxyLifecycle, FiniteSetTheorems, SequenceTheorems, TLAPS

States == {"idle", "starting", "running", "restarting", "stopped"}
Procs == {None, "alive", "killed"}
Stages == {None, "flushing", "waiting", "done"}

Typed ==
  /\ proxy \in {"idle", "running", "stopped", "disposed"}
  /\ state \in [Servers -> States]
  /\ proc \in [Servers -> Procs]
  /\ stopping \in [Servers -> Stages]

(* Nothing has been started before the handshake. *)
IdleInv == proxy = "idle" => ~initialized /\ \A s \in Servers : state[s] = "idle"

(* Before the teardown: a server that is stopped has lost its process. *)
ServingInv ==
  proxy # "disposed" =>
    /\ ~resolved
    /\ \A s \in Servers : stopping[s] = None /\ (state[s] = "stopped" => proc[s] # "alive")

(* After it: what has been waited for is gone. *)
DisposedInv ==
  proxy = "disposed" =>
    \A s \in Servers : /\ state[s] = "stopped" /\ stopping[s] # None
                       /\ stopping[s] = "done" => proc[s] # "alive"
                       /\ resolved => stopping[s] = "done"

LifecycleInv == Typed /\ IdleInv /\ ServingInv /\ DisposedInv /\ ServesWhileAnyCan

USE ProxyLifecycleAssumption

LEMMA LifecycleInit == Init => LifecycleInv
BY DEF Init, LifecycleInv, Typed, States, Procs, Stages, IdleInv, ServingInv, DisposedInv,
       ServesWhileAnyCan

(* A teardown stops all servers and waits for those that have a process. *)
LEMMA TearDownKeepsInv ==
  ASSUME LifecycleInv, proxy # "disposed",
         NEW states \in [Servers -> States], NEW procs \in [Servers -> Procs],
         proc' = procs, TearDown(states, procs), UNCHANGED resolved,
         \A s \in Servers : states[s] = "stopped" => procs[s] # "alive"
  PROVE  LifecycleInv'
<1>1. Typed'
  BY DEF TearDown, Typed, States, Stages
<1>2. IdleInv' /\ ServingInv' /\ ServesWhileAnyCan'
  BY DEF TearDown, IdleInv, ServingInv, ServesWhileAnyCan
<1>3. ~resolved'
  BY DEF LifecycleInv, ServingInv
<1>4. ASSUME NEW s \in Servers
      PROVE  /\ state'[s] = "stopped" /\ stopping'[s] # None
             /\ stopping'[s] = "done" => proc'[s] # "alive"
  BY <1>4 DEF TearDown, None
<1>5. DisposedInv'
  BY <1>3, <1>4 DEF DisposedInv
<1> QED BY <1>1, <1>2, <1>5 DEF LifecycleInv

(* A server that changes its state either leaves another that is not stopped,
   or takes the proxy along. *)
LEMMA StateChangeKeepsInv ==
  ASSUME LifecycleInv, proxy # "idle",
         NEW states \in [Servers -> States], NEW procs \in [Servers -> Procs],
         proc' = procs, StateChange(states, procs), UNCHANGED <<initialized, resolved>>,
         \A s \in Servers : states[s] = "stopped" /\ proxy # "disposed" => procs[s] # "alive",
         proxy = "disposed" =>
           \A s \in Servers : states[s] = "stopped" /\ (proc[s] # "alive" => procs[s] # "alive")
  PROVE  LifecycleInv'
<1>1. CASE proxy = "running" /\ AllStopped(states)
  <2>1. TearDown(states, procs)
    BY <1>1 DEF StateChange, Dispose
  <2> QED BY <1>1, <2>1, TearDownKeepsInv
<1>2. CASE ~(proxy = "running" /\ AllStopped(states))
  <2>1. state' = states /\ UNCHANGED <<proxy, stopping>>
    BY <1>2 DEF StateChange, teardownVars
  <2>2. Typed'
    BY <2>1 DEF LifecycleInv, Typed
  <2>3. IdleInv'
    BY <2>1 DEF IdleInv
  <2>4. ServingInv'
    BY <2>1 DEF LifecycleInv, ServingInv
  <2>5. DisposedInv'
    BY <2>1 DEF LifecycleInv, DisposedInv
  <2>6. ServesWhileAnyCan'
    BY <1>2, <2>1 DEF ServesWhileAnyCan, AllStopped
  <2> QED BY <2>2, <2>3, <2>4, <2>5, <2>6 DEF LifecycleInv
<1> QED BY <1>1, <1>2

LEMMA ClientKeepsInv ==
  ASSUME LifecycleInv,
         \/ Initialize \/ Initialized \/ ClientShutdown \/ ClientExit \/ ConnectionCloses
         \/ StartResolves
  PROVE  LifecycleInv'
<1> USE DEF LifecycleInv, Typed
<1>1. CASE Initialize
  <2>1. \A s \in Servers : state[s] = "idle"
    BY <1>1 DEF Initialize, IdleInv
  <2>2. ServesWhileAnyCan'
    BY <1>1, <2>1 DEF Initialize, serverVars, ServesWhileAnyCan
  <2> QED BY <1>1, <2>2 DEF Initialize, serverVars, IdleInv, ServingInv, DisposedInv
<1>2. CASE Initialized \/ ClientShutdown
  BY <1>2 DEF Initialized, ClientShutdown, serverVars, IdleInv, ServingInv, DisposedInv,
              ServesWhileAnyCan
<1>3. CASE ClientExit \/ ConnectionCloses
  <2>1. Dispose(state, proc) /\ UNCHANGED <<initialized, proc, resolved>> /\ proxy # "disposed"
    BY <1>3 DEF ClientExit, ConnectionCloses
  <2>2. TearDown(state, proc)
    BY <2>1 DEF Dispose
  <2>3. \A s \in Servers : state[s] = "stopped" => proc[s] # "alive"
    BY <2>1 DEF ServingInv
  <2> QED BY <2>1, <2>2, <2>3, TearDownKeepsInv
<1>4. CASE StartResolves
  <2>1. proxy = "disposed"
    BY <1>4 DEF StartResolves, AllSettled, ServingInv, None
  <2>2. UNCHANGED <<proxy, initialized, state, proc, stopping>>
        /\ \A s \in Servers : stopping[s] = "done"
    BY <1>4 DEF StartResolves, AllSettled, serverVars
  <2> QED BY <2>1, <2>2 DEF IdleInv, ServingInv, DisposedInv, ServesWhileAnyCan
<1> QED BY <1>1, <1>2, <1>3, <1>4

LEMMA ShutdownKeepsInv ==
  ASSUME LifecycleInv, NEW q \in Shutdowns,
         \/ ShutdownSettled(q) \/ ShutdownEnds(q) \/ AnswerWritten(q)
         \/ \E s \in Servers : SkipIdle(q, s) \/ ShutdownDown(q, s) \/ ShutdownRunning(q, s)
  PROVE  LifecycleInv'
<1> USE DEF LifecycleInv, Typed
<1>1. CASE \/ ShutdownSettled(q) \/ AnswerWritten(q)
           \/ \E s \in Servers : SkipIdle(q, s) \/ ShutdownRunning(q, s)
  <2>1. UNCHANGED <<proxy, initialized, state, proc, stopping, resolved>>
    BY <1>1 DEF ShutdownSettled, AnswerWritten, SkipIdle, ShutdownRunning, serverVars
  <2> QED BY <2>1 DEF IdleInv, ServingInv, DisposedInv, ServesWhileAnyCan
<1>2. CASE ShutdownEnds(q)
  <2>1. UNCHANGED <<initialized, state, proc, stopping, resolved>>
        /\ proxy' = IF proxy = "disposed" THEN proxy ELSE "stopped"
    BY <1>2 DEF ShutdownEnds, serverVars
  <2> QED BY <2>1 DEF IdleInv, ServingInv, DisposedInv, ServesWhileAnyCan
<1>3. ASSUME NEW s \in Servers, ShutdownDown(q, s) PROVE LifecycleInv'
  <2> DEFINE states == [state EXCEPT ![s] = "stopped"]
             procs == [proc EXCEPT ![s] = IF @ = "alive" /\ state[s] # "stopped"
                                          THEN "killed" ELSE @]
  <2>1. proc' = procs /\ StateChange(states, procs) /\ UNCHANGED <<initialized, resolved>>
    BY <1>3 DEF ShutdownDown
  <2>2. state[s] \in {"starting", "restarting", "stopped"}
    BY <1>3 DEF ShutdownDown
  <2>3. proxy # "idle"
    BY <2>2 DEF IdleInv
  <2>4. states \in [Servers -> States] /\ procs \in [Servers -> Procs]
    BY DEF States, Procs
  <2>5. ASSUME NEW t \in Servers, states[t] = "stopped", proxy # "disposed"
        PROVE  procs[t] # "alive"
    <3>1. CASE t = s
      BY <2>5, <3>1 DEF ServingInv
    <3>2. CASE t # s
      BY <2>5, <3>2 DEF ServingInv
    <3> QED BY <3>1, <3>2
  <2>6. ASSUME proxy = "disposed", NEW t \in Servers
        PROVE  states[t] = "stopped" /\ (proc[t] # "alive" => procs[t] # "alive")
    BY <2>6 DEF DisposedInv
  <2> HIDE DEF states, procs
  <2> QED BY <2>1, <2>3, <2>4, <2>5, <2>6, StateChangeKeepsInv
<1> QED BY <1>1, <1>2, <1>3

LEMMA ServerKeepsInv ==
  ASSUME LifecycleInv, NEW s \in Servers,
         \/ FlushEnds(s) \/ GraceEnds(s) \/ StartLazily(s) \/ Spawn(s) \/ ComesUp(s)
         \/ GivesUp(s) \/ ProcessGone(s) \/ ServerExits(s)
  PROVE  LifecycleInv'
<1> USE DEF LifecycleInv, Typed
<1>1. CASE FlushEnds(s)
  <2>1. UNCHANGED <<proxy, initialized, state, proc, resolved>>
        /\ stopping' = [stopping EXCEPT ![s] = AwaitExit(s)] /\ stopping[s] = "flushing"
    BY <1>1 DEF FlushEnds, serverVars
  <2>2. Typed'
    BY <2>1 DEF AwaitExit, Stages
  <2>3. proxy = "disposed"
    BY <2>1 DEF ServingInv, None
  <2>4. DisposedInv'
    BY <2>1, <2>3 DEF DisposedInv, AwaitExit, None
  <2> QED BY <2>1, <2>2, <2>3, <2>4 DEF IdleInv, ServingInv, ServesWhileAnyCan
<1>2. CASE GraceEnds(s)
  <2>1. UNCHANGED <<proxy, initialized, state, resolved>>
        /\ stopping' = [stopping EXCEPT ![s] = "done"] /\ stopping[s] = "waiting"
        /\ proc' = [proc EXCEPT ![s] = IF @ = "alive" THEN "killed" ELSE @]
    BY <1>2 DEF GraceEnds
  <2>2. Typed'
    BY <2>1 DEF Procs, Stages
  <2>3. proxy = "disposed"
    BY <2>1 DEF ServingInv, None
  <2>4. DisposedInv'
    BY <2>1, <2>3 DEF DisposedInv, None
  <2> QED BY <2>1, <2>2, <2>3, <2>4 DEF IdleInv, ServingInv, ServesWhileAnyCan
<1>3. CASE StartLazily(s) \/ ComesUp(s)
  <2>1. PICK st \in {"starting", "running"} : state' = [state EXCEPT ![s] = st]
    BY <1>3 DEF StartLazily, ComesUp
  <2>2. UNCHANGED <<proxy, initialized, proc, stopping, resolved>> /\ state[s] # "stopped"
        /\ proxy # "idle"
    BY <1>3 DEF StartLazily, ComesUp, IdleInv
  <2>3. Typed'
    BY <2>1, <2>2 DEF States
  <2>4. proxy # "disposed"
    BY <2>2 DEF DisposedInv
  <2>5. ServingInv'
    BY <2>1, <2>2, <2>4 DEF ServingInv
  <2>6. ServesWhileAnyCan'
    BY <2>1, <2>2 DEF ServesWhileAnyCan
  <2> QED BY <2>2, <2>3, <2>4, <2>5, <2>6 DEF IdleInv, DisposedInv
<1>4. CASE Spawn(s)
  <2>1. UNCHANGED <<proxy, initialized, state, stopping, resolved>>
        /\ proc' = [proc EXCEPT ![s] = "alive"] /\ state[s] \in {"starting", "restarting"}
    BY <1>4 DEF Spawn
  <2>2. Typed'
    BY <2>1 DEF Procs
  <2>3. proxy # "disposed"
    BY <2>1 DEF DisposedInv
  <2>4. ServingInv'
    BY <2>1, <2>3 DEF ServingInv
  <2> QED BY <2>1, <2>2, <2>3, <2>4 DEF IdleInv, DisposedInv, ServesWhileAnyCan
<1>5. CASE ProcessGone(s)
  <2>1. UNCHANGED <<proxy, initialized, state, resolved>>
        /\ stopping' = [stopping EXCEPT ![s] = IF @ = "waiting" THEN "done" ELSE @]
        /\ proc' = [proc EXCEPT ![s] = None]
    BY <1>5 DEF ProcessGone
  <2>2. Typed'
    BY <2>1 DEF Procs, Stages
  <2>3. ServingInv'
    BY <2>1 DEF ServingInv, None
  <2>4. DisposedInv'
    BY <2>1 DEF DisposedInv, None
  <2> QED BY <2>1, <2>2, <2>3, <2>4 DEF IdleInv, ServesWhileAnyCan
<1>6. CASE GivesUp(s)
  <2> DEFINE states == [state EXCEPT ![s] = "stopped"]
  <2>1. proc' = proc /\ StateChange(states, proc) /\ UNCHANGED <<initialized, resolved>>
        /\ state[s] \in {"starting", "restarting"} /\ proc[s] = None
    BY <1>6 DEF GivesUp
  <2>2. proxy # "idle" /\ proxy # "disposed"
    BY <2>1 DEF IdleInv, DisposedInv
  <2>3. states \in [Servers -> States]
    BY DEF States
  <2>4. \A t \in Servers : states[t] = "stopped" => proc[t] # "alive"
    BY <2>1, <2>2 DEF ServingInv, None
  <2> HIDE DEF states
  <2> QED BY <2>1, <2>2, <2>3, <2>4, StateChangeKeepsInv
<1>7. CASE ServerExits(s)
  <2> DEFINE states == [state EXCEPT ![s] = IF asked[s] THEN "stopped" ELSE "restarting"]
             procs == [proc EXCEPT ![s] = None]
  <2>1. proc' = procs /\ StateChange(states, procs) /\ UNCHANGED <<initialized, resolved>>
        /\ state[s] = "running"
    BY <1>7 DEF ServerExits
  <2>2. proxy # "idle" /\ proxy # "disposed"
    BY <2>1 DEF IdleInv, DisposedInv
  <2>3. states \in [Servers -> States] /\ procs \in [Servers -> Procs]
    BY DEF States, Procs
  <2>4. \A t \in Servers : states[t] = "stopped" => procs[t] # "alive"
    BY <2>2 DEF ServingInv, None
  <2> HIDE DEF states, procs
  <2> QED BY <2>1, <2>2, <2>3, <2>4, StateChangeKeepsInv
<1> QED BY <1>1, <1>2, <1>3, <1>4, <1>5, <1>6, <1>7

LEMMA LifecycleStep == LifecycleInv /\ [Next]_vars => LifecycleInv'
<1> SUFFICES ASSUME LifecycleInv, [Next]_vars PROVE LifecycleInv'
  OBVIOUS
<1>1. CASE UNCHANGED vars
  BY <1>1 DEF vars, serverVars, LifecycleInv, Typed, IdleInv, ServingInv, DisposedInv,
              ServesWhileAnyCan
<1> QED BY <1>1, ClientKeepsInv, ShutdownKeepsInv, ServerKeepsInv DEF Next, ClientLeaves, Stays

(* What holds before the handshake, while the proxy serves and after a teardown,
   whichever of its handlers runs. *)
THEOREM LifecycleInvariant == Spec => []LifecycleInv
BY LifecycleInit, LifecycleStep, PTL DEF Spec

-----------------------------------------------------------------------------

(* start() resolves when all servers are gone, whatever made the proxy end. *)
THEOREM StartResolvesLast == Spec => []ResolvesLast
<1>1. LifecycleInv => ResolvesLast
  BY DEF LifecycleInv, Typed, ServingInv, DisposedInv, ResolvesLast
<1> QED BY <1>1, LifecycleInvariant, PTL

(* A proxy that serves has a server that is not stopped for good. *)
THEOREM SomeServerIsLeft == Spec => []ServesWhileAnyCan
<1>1. LifecycleInv => ServesWhileAnyCan
  BY DEF LifecycleInv
<1> QED BY <1>1, LifecycleInvariant, PTL

(* A proxy that is disposed stays so, and no exit of one server disposes it while
   another is left. *)
LEMMA DisposalStep ==
  ASSUME LifecycleInv, [Next]_vars
  PROVE  /\ proxy = "disposed" => proxy' = "disposed"
         /\ proxy = "running" /\ proxy' = "disposed" /\ proc' # proc
              => \E s \in Servers : \A t \in Servers \ {s} : state[t] = "stopped"
<1> DEFINE Fine == /\ proxy = "disposed" => proxy' = "disposed"
                   /\ proxy = "running" /\ proxy' = "disposed" /\ proc' # proc
                        => \E s \in Servers : \A t \in Servers \ {s} : state[t] = "stopped"
<1> SUFFICES Fine
  OBVIOUS
<1>1. ASSUME NEW q \in Shutdowns, NEW s \in Servers, ShutdownDown(q, s) PROVE Fine
  <2> DEFINE states == [state EXCEPT ![s] = "stopped"]
             procs == [proc EXCEPT ![s] = IF @ = "alive" /\ state[s] # "stopped"
                                          THEN "killed" ELSE @]
  <2>1. StateChange(states, procs)
    BY <1>1 DEF ShutdownDown
  <2>2. \A t \in Servers \ {s} : states[t] = state[t]
    BY DEF LifecycleInv, Typed
  <2> HIDE DEF states, procs
  <2>3. UNCHANGED proxy \/ (proxy = "running" /\ \A t \in Servers : states[t] = "stopped")
    BY <2>1 DEF StateChange, AllStopped, teardownVars
  <2> QED BY <2>2, <2>3
<1>2. ASSUME NEW s \in Servers, GivesUp(s) PROVE Fine
  <2>1. UNCHANGED proc
    BY <1>2 DEF GivesUp
  <2>2. proxy = "disposed" => proxy' = "disposed"
    BY <1>2 DEF GivesUp, StateChange, teardownVars
  <2> QED BY <2>1, <2>2
<1>3. ASSUME NEW s \in Servers, ServerExits(s) PROVE Fine
  <2> DEFINE states == [state EXCEPT ![s] = IF asked[s] THEN "stopped" ELSE "restarting"]
             procs == [proc EXCEPT ![s] = None]
  <2>1. StateChange(states, procs)
    BY <1>3 DEF ServerExits
  <2>2. \A t \in Servers \ {s} : states[t] = state[t]
    BY DEF LifecycleInv, Typed
  <2> HIDE DEF states, procs
  <2>3. UNCHANGED proxy \/ (proxy = "running" /\ \A t \in Servers : states[t] = "stopped")
    BY <2>1 DEF StateChange, AllStopped, teardownVars
  <2> QED BY <2>2, <2>3
<1>4. CASE Initialize \/ ClientExit \/ ConnectionCloses
  BY <1>4 DEF Initialize, ClientExit, ConnectionCloses
<1>5. ASSUME NEW q \in Shutdowns, ShutdownEnds(q) PROVE Fine
  BY <1>5 DEF ShutdownEnds
<1>6. CASE UNCHANGED proxy
  BY <1>6
<1> HIDE DEF Fine
<1>7. CASE Initialized \/ ClientShutdown \/ StartResolves \/ UNCHANGED vars
  BY <1>6, <1>7 DEF Initialized, ClientShutdown, StartResolves, vars
<1>8. ASSUME NEW q \in Shutdowns,
             \/ ShutdownSettled(q) \/ ShutdownEnds(q) \/ AnswerWritten(q)
             \/ \E s \in Servers : SkipIdle(q, s) \/ ShutdownDown(q, s) \/ ShutdownRunning(q, s)
      PROVE  Fine
  <2>1. CASE \/ ShutdownSettled(q) \/ AnswerWritten(q)
             \/ \E s \in Servers : SkipIdle(q, s) \/ ShutdownRunning(q, s)
    BY <1>6, <2>1 DEF ShutdownSettled, AnswerWritten, SkipIdle, ShutdownRunning
  <2> QED BY <1>1, <1>5, <1>8, <2>1
<1>9. ASSUME NEW s \in Servers,
             \/ FlushEnds(s) \/ GraceEnds(s) \/ StartLazily(s) \/ Spawn(s) \/ ComesUp(s)
             \/ GivesUp(s) \/ ProcessGone(s) \/ ServerExits(s)
      PROVE  Fine
  <2>1. CASE ~(GivesUp(s) \/ ServerExits(s))
    <3>1. UNCHANGED proxy
      BY <1>9, <2>1 DEF FlushEnds, GraceEnds, StartLazily, Spawn, ComesUp, ProcessGone
    <3> QED BY <1>6, <3>1
  <2> QED BY <1>2, <1>3, <2>1
<1>10. CASE \E q \in Shutdowns :
             \/ ShutdownSettled(q) \/ ShutdownEnds(q) \/ AnswerWritten(q)
             \/ \E s \in Servers :
                  SkipIdle(q, s) \/ ShutdownDown(q, s) \/ ShutdownRunning(q, s)
  BY <1>8, <1>10
<1>11. CASE \E s \in Servers :
             \/ FlushEnds(s) \/ GraceEnds(s) \/ StartLazily(s) \/ Spawn(s) \/ ComesUp(s)
             \/ GivesUp(s) \/ ProcessGone(s) \/ ServerExits(s)
  BY <1>9, <1>11
<1> QED BY <1>4, <1>7, <1>10, <1>11 DEF Next, ClientLeaves, Stays

(* A teardown is final. *)
THEOREM DisposedForGood == Spec => StaysDisposed
<1>1. LifecycleInv /\ [Next]_vars => [proxy = "disposed" => proxy' = "disposed"]_vars
  BY DisposalStep
<1> QED BY <1>1, LifecycleInvariant, PTL DEF Spec, StaysDisposed

(* The exit of a server disposes the proxy only if no other is left. *)
THEOREM OneExitIsSurvived == Spec => ExitOfOneIsSurvived
<1>1. LifecycleInv /\ [Next]_vars
        => [proxy = "running" /\ proxy' = "disposed" /\ proc' # proc
              => \E s \in Servers : \A t \in Servers \ {s} : state[t] = "stopped"]_vars
  BY DisposalStep
<1> QED BY <1>1, LifecycleInvariant, PTL DEF Spec, ExitOfOneIsSurvived

-----------------------------------------------------------------------------
(* The shutdown requests. *)

(* The order of the configuration has every server at one place. *)
LEMMA OrderOfServers ==
  /\ Order \in Seq(Servers)
  /\ \A s \in Servers : \E i \in 1..Len(Order) : Order[i] = s
<1> DEFINE n == Cardinality(Servers)
<1>1. n \in Nat /\ ExistsBijection(1..n, Servers)
  BY FS_CardinalityType
<1>2. PICK f \in Bijection(1..n, Servers) : TRUE
  BY <1>1 DEF ExistsBijection
<1>3. f \in [1..n -> Servers] /\ IsInjective(f)
  BY <1>2 DEF Bijection, Injection
<1>4. Order \in [1..n -> Servers] /\ IsInjective(Order)
  BY <1>3 DEF Order, SetToSeq
<1> HIDE DEF n
<1>5. Order \in Seq(Servers) /\ Len(Order) = n
  BY <1>1, <1>4, SeqDef, LenProperties
<1>6. Order \in Injection(1..n, Servers)
  BY <1>4 DEF Injection
<1>7. IsFiniteSet(1..n) /\ Cardinality(1..n) = n
  BY <1>1, FS_Interval
<1>8. Order \in Surjection(1..n, Servers)
  BY <1>6, <1>7, FS_Injection DEF n
<1> QED BY <1>5, <1>8 DEF Surjection

Requests == [rest : Seq(Servers), at : Servers \cup {None, Writing}, active : BOOLEAN]

(* A shutdown asks the servers in the order of the configuration: what is left
   is the end of that order, the one it waits for is the next and has been asked,
   and its answer is written when none is left. *)
InOrder(r) ==
  /\ r.active => /\ Len(r.rest) <= Len(Order)
                 /\ \A i \in 1..Len(r.rest) : r.rest[i] = Order[Len(Order) - Len(r.rest) + i]
  /\ ~r.active => r = Free
  /\ r.at \in Servers => r.rest # <<>> /\ r.at = Head(r.rest) /\ asked[r.at]
  /\ r.at = Writing => r.rest = <<>>

ShutdownInv ==
  /\ initialized \in BOOLEAN /\ resolved \in BOOLEAN
  /\ spawns \in [Servers -> Nat] /\ asked \in [Servers -> BOOLEAN]
  /\ shutdown \in [Shutdowns -> Requests]
  /\ \A q \in Shutdowns : InOrder(shutdown[q])

(* No request is under way in a free slot, and one that begins has all servers
   before it. *)
LEMMA FreeIs == Free \in Requests /\ Free.at = None /\ ~Free.active /\ InOrder(Free)
BY DEF Free, Requests, InOrder, None, Writing

LEMMA BeginningIs ==
  ASSUME NEW record, record = [rest |-> Order, at |-> None, active |-> TRUE]
  PROVE  record \in Requests /\ record.at = None /\ record.active /\ record.rest = Order
BY OrderOfServers DEF Requests

(* A request begins, asks its next server, goes on to the one after it, is
   answered, or ends when the answer is written. *)
Asks(q, s) ==
  /\ shutdown[q].active /\ shutdown[q].at = None /\ shutdown[q].rest # <<>>
  /\ s = Head(shutdown[q].rest) /\ asked'[s]
  /\ shutdown' = [shutdown EXCEPT ![q].at = s]
Passes(q) ==
  /\ shutdown[q].active /\ shutdown[q].rest # <<>>
  /\ asked'[Head(shutdown[q].rest)] \/ state[Head(shutdown[q].rest)] = "idle"
  /\ Proceed(q)
Answers(q) ==
  /\ shutdown[q].active /\ shutdown[q].rest = <<>> /\ shutdown[q].at = None
  /\ shutdown' = [shutdown EXCEPT ![q].at = Writing]
Written(q) ==
  /\ shutdown[q].at = Writing
  /\ shutdown' = [shutdown EXCEPT ![q] = Free]
Enters(q) ==
  /\ ~shutdown[q].active
  /\ shutdown' = [shutdown EXCEPT ![q] = [rest |-> Order, at |-> None, active |-> TRUE]]

RequestStep ==
  /\ \A s \in Servers : asked[s] => asked'[s]
  /\ asked' \in [Servers -> BOOLEAN]
  /\ \/ UNCHANGED shutdown
     \/ \E q \in Shutdowns :
          \/ Enters(q) \/ Passes(q) \/ Answers(q) \/ Written(q)
          \/ \E s \in Servers : Asks(q, s)

LEMMA NextRequestSteps ==
  ASSUME ShutdownInv, [Next]_vars
  PROVE  RequestStep
<1>1. ASSUME UNCHANGED <<shutdown, asked>> PROVE RequestStep
  BY <1>1 DEF RequestStep, ShutdownInv
<1>2. CASE Initialize \/ Initialized \/ ClientExit \/ ConnectionCloses \/ StartResolves
           \/ UNCHANGED vars
  BY <1>1, <1>2 DEF Initialize, Initialized, ClientExit, ConnectionCloses, StartResolves, vars
<1>3. CASE ClientShutdown
  BY <1>3 DEF ClientShutdown, RequestStep, Enters, ShutdownInv
<1>4. ASSUME NEW s \in Servers,
             \/ FlushEnds(s) \/ GraceEnds(s) \/ StartLazily(s) \/ Spawn(s) \/ ComesUp(s)
             \/ GivesUp(s) \/ ProcessGone(s) \/ ServerExits(s)
      PROVE  RequestStep
  BY <1>1, <1>4 DEF FlushEnds, GraceEnds, StartLazily, Spawn, ComesUp, GivesUp, ProcessGone,
                    ServerExits
<1>5. ASSUME NEW q \in Shutdowns, NEW s \in Servers, SkipIdle(q, s) PROVE RequestStep
  <2>1. Passes(q) /\ UNCHANGED asked
    BY <1>5 DEF SkipIdle, Turn, Passes
  <2> QED BY <2>1 DEF RequestStep, ShutdownInv
<1>6. ASSUME NEW q \in Shutdowns, NEW s \in Servers, ShutdownDown(q, s) \/ ShutdownRunning(q, s)
      PROVE  RequestStep
  <2>1. Turn(q, s) /\ asked' = [asked EXCEPT ![s] = TRUE]
    BY <1>6 DEF ShutdownDown, ShutdownRunning
  <2>2. Proceed(q) \/ shutdown' = [shutdown EXCEPT ![q].at = s]
    BY <1>6 DEF ShutdownDown, ShutdownRunning
  <2>3. asked'[s] /\ asked' \in [Servers -> BOOLEAN] /\ \A t \in Servers : asked[t] => asked'[t]
    BY <2>1 DEF ShutdownInv
  <2>4. Passes(q) \/ Asks(q, s)
    BY <2>1, <2>2, <2>3 DEF Turn, Passes, Asks
  <2> QED BY <2>3, <2>4 DEF RequestStep
<1>7. ASSUME NEW q \in Shutdowns, ShutdownSettled(q) PROVE RequestStep
  <2>1. shutdown[q].at \in Servers /\ Proceed(q) /\ UNCHANGED asked
    BY <1>7 DEF ShutdownSettled
  <2>2. shutdown[q].active
    BY <2>1, FreeIs DEF None, ShutdownInv, InOrder
  <2>3. Passes(q)
    BY <2>1, <2>2 DEF ShutdownInv, InOrder, Passes
  <2> QED BY <2>1, <2>3 DEF RequestStep, ShutdownInv
<1>8. ASSUME NEW q \in Shutdowns, ShutdownEnds(q) PROVE RequestStep
  <2>1. Answers(q) /\ UNCHANGED asked
    BY <1>8 DEF ShutdownEnds, ShutdownInv, InOrder, Answers
  <2> QED BY <2>1 DEF RequestStep, ShutdownInv
<1>9. ASSUME NEW q \in Shutdowns, AnswerWritten(q) PROVE RequestStep
  <2>1. Written(q) /\ UNCHANGED asked
    BY <1>9 DEF AnswerWritten, Written
  <2> QED BY <2>1 DEF RequestStep, ShutdownInv
<1> QED BY <1>2, <1>3, <1>4, <1>5, <1>6, <1>7, <1>8, <1>9 DEF Next, ClientLeaves, Stays

(* A request moved on to its next server. *)
LEMMA ProceedIs ==
  ASSUME shutdown \in [Shutdowns -> Requests], NEW q \in Shutdowns, Proceed(q),
         shutdown[q].rest # <<>>
  PROVE  /\ shutdown' \in [Shutdowns -> Requests]
         /\ \A r \in Shutdowns \ {q} : shutdown'[r] = shutdown[r]
         /\ shutdown'[q].rest = Tail(shutdown[q].rest) /\ shutdown'[q].at = None
         /\ shutdown'[q].active = shutdown[q].active
<1>1. Tail(shutdown[q].rest) \in Seq(Servers)
  BY HeadTailProperties DEF Requests
<1>2. /\ \A r \in Shutdowns \ {q} : shutdown'[r] = shutdown[r]
      /\ shutdown'[q].rest = Tail(shutdown[q].rest) /\ shutdown'[q].at = None
      /\ shutdown'[q].active = shutdown[q].active
  BY DEF Proceed, Requests
<1>3. shutdown' \in [Shutdowns -> Requests]
  BY <1>1 DEF Proceed, Requests
<1> QED BY <1>2, <1>3

LEMMA AskIs ==
  ASSUME shutdown \in [Shutdowns -> Requests], NEW q \in Shutdowns, NEW s \in Servers, Asks(q, s)
  PROVE  /\ shutdown' \in [Shutdowns -> Requests]
         /\ \A r \in Shutdowns \ {q} : shutdown'[r] = shutdown[r]
         /\ shutdown'[q].rest = shutdown[q].rest /\ shutdown'[q].at = s
         /\ shutdown'[q].active = shutdown[q].active
BY DEF Asks, Requests

LEMMA ShutdownStep ==
  ASSUME ShutdownInv, RequestStep, initialized' \in BOOLEAN, resolved' \in BOOLEAN,
         spawns' \in [Servers -> Nat]
  PROVE  ShutdownInv'
<1> SUFFICES shutdown' \in [Shutdowns -> Requests] /\ \A r \in Shutdowns : InOrder(shutdown[r])'
  BY DEF RequestStep, ShutdownInv
<1>1. shutdown \in [Shutdowns -> Requests] /\ \A r \in Shutdowns : InOrder(shutdown[r])
  BY DEF ShutdownInv
<1>2. ASSUME NEW r \in Shutdowns, shutdown'[r] = shutdown[r] PROVE InOrder(shutdown[r])'
  <2>1. InOrder(shutdown[r])
    BY <1>1
  <2> QED BY <1>2, <2>1 DEF InOrder, RequestStep
<1>3. ASSUME NEW q \in Shutdowns, Enters(q) \/ Written(q)
      PROVE  shutdown' \in [Shutdowns -> Requests] /\ \A r \in Shutdowns : InOrder(shutdown[r])'
  <2>1. PICK record \in Requests :
          /\ shutdown' = [shutdown EXCEPT ![q] = record] /\ record.at = None
          /\ record = Free \/ (record.active /\ record.rest = Order)
    <3>1. CASE Enters(q)
      BY <3>1, BeginningIs DEF Enters
    <3>2. CASE Written(q)
      BY <3>2, FreeIs DEF Written
    <3> QED BY <1>3, <3>1, <3>2
  <2>2. shutdown' \in [Shutdowns -> Requests] /\ shutdown'[q] = record
        /\ \A r \in Shutdowns \ {q} : shutdown'[r] = shutdown[r]
    BY <1>1, <2>1
  <2>3. CASE record = Free
    <3>1. shutdown'[q] = Free
      BY <2>2, <2>3
    <3>2. shutdown'[q].at = None /\ ~shutdown'[q].active
      BY <3>1, FreeIs
    <3>3. InOrder(shutdown[q])'
      BY <3>1, <3>2 DEF InOrder, Free, None, Writing
    <3> QED BY <1>2, <2>2, <3>3
  <2>4. CASE record.active /\ record.rest = Order
    <3>1. Len(Order) \in Nat
      BY OrderOfServers, LenProperties
    <3>2. shutdown'[q].active /\ shutdown'[q].rest = Order /\ shutdown'[q].at = None
      BY <2>1, <2>2, <2>4
    <3>3. \A i \in 1..Len(Order) : Order[i] = Order[Len(Order) - Len(Order) + i]
      BY <3>1
    <3>4. InOrder(shutdown[q])'
      BY <3>1, <3>2, <3>3 DEF InOrder, None, Writing
    <3> QED BY <1>2, <2>2, <3>4
  <2> QED BY <2>1, <2>3, <2>4
<1>4. ASSUME NEW q \in Shutdowns, NEW s \in Servers, Asks(q, s)
      PROVE  shutdown' \in [Shutdowns -> Requests] /\ \A r \in Shutdowns : InOrder(shutdown[r])'
  <2>1. /\ shutdown' \in [Shutdowns -> Requests]
        /\ \A r \in Shutdowns \ {q} : shutdown'[r] = shutdown[r]
        /\ shutdown'[q].rest = shutdown[q].rest /\ shutdown'[q].at = s
        /\ shutdown'[q].active = shutdown[q].active
    BY <1>1, <1>4, AskIs
  <2>2. InOrder(shutdown[q])'
    BY <1>1, <1>4, <2>1 DEF InOrder, Asks, Writing
  <2> QED BY <1>2, <2>1, <2>2
<1>5. ASSUME NEW q \in Shutdowns, Passes(q)
      PROVE  shutdown' \in [Shutdowns -> Requests] /\ \A r \in Shutdowns : InOrder(shutdown[r])'
  <2> DEFINE old == shutdown[q].rest
             new == Tail(old)
  <2>1. /\ shutdown' \in [Shutdowns -> Requests]
        /\ \A r \in Shutdowns \ {q} : shutdown'[r] = shutdown[r]
        /\ shutdown'[q].rest = new /\ shutdown'[q].at = None /\ shutdown'[q].active
    BY <1>1, <1>5, ProceedIs DEF Passes
  <2>2. old \in Seq(Servers) /\ old # <<>> /\ Len(old) <= Len(Order)
        /\ \A i \in 1..Len(old) : old[i] = Order[Len(Order) - Len(old) + i]
    BY <1>1, <1>5 DEF Passes, InOrder, Requests
  <2> HIDE DEF old
  <2>3. Len(old) \in Nat /\ Len(Order) \in Nat
    BY <2>2, OrderOfServers, LenProperties
  <2>4. Len(new) = Len(old) - 1 /\ \A i \in 1..Len(new) : new[i] = old[i + 1]
    BY <2>2, HeadTailProperties
  <2> HIDE DEF new
  <2>5. Len(new) <= Len(Order)
    BY <2>2, <2>3, <2>4
  <2>6. ASSUME NEW i \in 1..Len(new) PROVE new[i] = Order[Len(Order) - Len(new) + i]
    <3>1. i + 1 \in 1..Len(old) /\ Len(Order) - Len(old) + (i + 1) = Len(Order) - Len(new) + i
      BY <2>3, <2>4
    <3> QED BY <2>2, <2>3, <2>4, <3>1
  <2>7. InOrder(shutdown[q])'
    BY <2>1, <2>5, <2>6 DEF InOrder, None, Writing
  <2> QED BY <1>2, <2>1, <2>7
<1>6. ASSUME NEW q \in Shutdowns, Answers(q)
      PROVE  shutdown' \in [Shutdowns -> Requests] /\ \A r \in Shutdowns : InOrder(shutdown[r])'
  <2>1. /\ shutdown' \in [Shutdowns -> Requests]
        /\ \A r \in Shutdowns \ {q} : shutdown'[r] = shutdown[r]
        /\ shutdown'[q].rest = <<>> /\ shutdown'[q].at = Writing /\ shutdown'[q].active
    BY <1>1, <1>6 DEF Answers, Requests
  <2>2. InOrder(shutdown[q])'
    BY <1>1, <1>6, <2>1 DEF InOrder, Answers, Writing
  <2> QED BY <1>2, <2>1, <2>2
<1> QED BY <1>1, <1>2, <1>3, <1>4, <1>5, <1>6 DEF RequestStep

LEMMA OthersTyped ==
  ASSUME ShutdownInv, [Next]_vars
  PROVE  initialized' \in BOOLEAN /\ resolved' \in BOOLEAN /\ spawns' \in [Servers -> Nat]
<1> DEFINE Fine == initialized' \in BOOLEAN /\ resolved' \in BOOLEAN
                   /\ spawns' \in [Servers -> Nat]
<1> SUFFICES Fine
  OBVIOUS
<1>1. ASSUME UNCHANGED <<initialized, resolved, spawns>> PROVE Fine
  BY <1>1 DEF ShutdownInv
<1>2. CASE Initialize \/ ClientShutdown \/ ClientExit \/ ConnectionCloses \/ UNCHANGED vars
  BY <1>1, <1>2 DEF Initialize, ClientShutdown, ClientExit, ConnectionCloses, vars, serverVars
<1>3. CASE Initialized \/ StartResolves
  BY <1>3 DEF Initialized, StartResolves, serverVars, ShutdownInv
<1>4. ASSUME NEW q \in Shutdowns,
             \/ ShutdownSettled(q) \/ ShutdownEnds(q) \/ AnswerWritten(q)
             \/ \E s \in Servers : SkipIdle(q, s) \/ ShutdownDown(q, s) \/ ShutdownRunning(q, s)
      PROVE  Fine
  BY <1>1, <1>4 DEF ShutdownSettled, ShutdownEnds, AnswerWritten, SkipIdle, ShutdownDown,
                    ShutdownRunning, serverVars
<1>5. ASSUME NEW s \in Servers,
             \/ FlushEnds(s) \/ GraceEnds(s) \/ StartLazily(s) \/ ComesUp(s)
             \/ GivesUp(s) \/ ProcessGone(s) \/ ServerExits(s)
      PROVE  Fine
  BY <1>1, <1>5 DEF FlushEnds, GraceEnds, StartLazily, ComesUp, GivesUp, ProcessGone,
                    ServerExits, serverVars
<1>6. ASSUME NEW s \in Servers, Spawn(s) PROVE Fine
  BY <1>6 DEF Spawn, ShutdownInv
<1> HIDE DEF Fine
<1>7. CASE \E q \in Shutdowns :
             \/ ShutdownSettled(q) \/ ShutdownEnds(q) \/ AnswerWritten(q)
             \/ \E s \in Servers :
                  SkipIdle(q, s) \/ ShutdownDown(q, s) \/ ShutdownRunning(q, s)
  BY <1>7, <1>4
<1>8. CASE \E s \in Servers :
             \/ FlushEnds(s) \/ GraceEnds(s) \/ StartLazily(s) \/ Spawn(s) \/ ComesUp(s)
             \/ GivesUp(s) \/ ProcessGone(s) \/ ServerExits(s)
  BY <1>8, <1>5, <1>6
<1> QED BY <1>2, <1>3, <1>7, <1>8 DEF Next, ClientLeaves, Stays

(* Every shutdown goes through the servers in order, and what it waits for is a
   call that was made. *)
THEOREM ShutdownsAreInOrder == Spec => []ShutdownInv
<1>1. Init => ShutdownInv
  <2> SUFFICES ASSUME Init PROVE ShutdownInv
    OBVIOUS
  <2>1. shutdown = [q \in Shutdowns |-> Free]
    BY DEF Init
  <2>2. shutdown \in [Shutdowns -> Requests] /\ \A q \in Shutdowns : InOrder(shutdown[q])
    BY <2>1, FreeIs
  <2> QED BY <2>2 DEF Init, ShutdownInv
<1>2. ShutdownInv /\ [Next]_vars => ShutdownInv'
  BY NextRequestSteps, ShutdownStep, OthersTyped
<1> QED BY <1>1, <1>2, PTL DEF Spec

(* The types, of the proxy, its servers and the shutdown requests. *)
THEOREM ProxyTypeCorrect == Spec => []TypeOK
<1>1. LifecycleInv /\ ShutdownInv => TypeOK
  BY DEF LifecycleInv, Typed, States, Procs, Stages, ShutdownInv, Requests, TypeOK
<1> QED BY <1>1, LifecycleInvariant, ShutdownsAreInOrder, PTL

(* What a request in progress does in a step: nothing; it asks its next server,
   goes on to the one after it, is answered with none left, or ends when the
   answer is written. *)
WalksOn(q) ==
  shutdown[q].active =>
    LET rest == shutdown[q].rest IN
      \/ shutdown'[q] = shutdown[q]
      \/ rest # <<>> /\ shutdown'[q].active /\ shutdown'[q].rest = rest
           /\ shutdown'[q].at = Head(rest) /\ asked'[Head(rest)]
      \/ rest # <<>> /\ shutdown'[q].active /\ shutdown'[q].rest = Tail(rest)
           /\ (asked'[Head(rest)] \/ state[Head(rest)] = "idle")
      \/ rest = <<>> /\ shutdown[q].at = None
           /\ shutdown'[q] = [shutdown[q] EXCEPT !.at = Writing]
      \/ rest = <<>> /\ shutdown[q].at = Writing /\ shutdown'[q] = Free

(* A shutdown is answered only after every server has had its turn, in the order
   of the configuration, and a server is passed over only if it is idle;
   all others have been asked to shut down, whatever crashes or stops meanwhile. *)
THEOREM ShutdownAsksAll == Spec => [][\A q \in Shutdowns : WalksOn(q)]_vars
<1>1. ASSUME ShutdownInv, [Next]_vars, NEW q \in Shutdowns PROVE WalksOn(q)
  <2> USE <1>1
  <2>1. RequestStep /\ shutdown \in [Shutdowns -> Requests]
    BY NextRequestSteps DEF ShutdownInv
  <2>2. ASSUME shutdown'[q] = shutdown[q] PROVE WalksOn(q)
    BY <2>2 DEF WalksOn
  <2>3. CASE UNCHANGED shutdown
    BY <2>2, <2>3
  <2>4. ASSUME NEW r \in Shutdowns, Enters(r) PROVE WalksOn(q)
    BY <2>1, <2>2, <2>4 DEF Enters, WalksOn
  <2>5. ASSUME NEW r \in Shutdowns, Answers(r) PROVE WalksOn(q)
    BY <2>1, <2>2, <2>5 DEF Answers, WalksOn
  <2>8. ASSUME NEW r \in Shutdowns, Written(r) PROVE WalksOn(q)
    <3>1. shutdown[r].rest = <<>>
      BY <2>8 DEF Written, ShutdownInv, InOrder
    <3> QED BY <2>1, <2>2, <2>8, <3>1 DEF Written, WalksOn
  <2>6. ASSUME NEW r \in Shutdowns, Passes(r) PROVE WalksOn(q)
    <3>1. CASE r = q
      <4>1. /\ shutdown'[q].rest = Tail(shutdown[q].rest)
            /\ shutdown'[q].active = shutdown[q].active
        BY <2>1, <2>6, <3>1, ProceedIs DEF Passes
      <4> QED BY <2>6, <3>1, <4>1 DEF Passes, WalksOn
    <3>2. CASE r # q
      BY <2>1, <2>2, <2>6, <3>2, ProceedIs DEF Passes
    <3> QED BY <3>1, <3>2
  <2>7. ASSUME NEW r \in Shutdowns, NEW s \in Servers, Asks(r, s) PROVE WalksOn(q)
    <3>1. CASE r = q
      <4>1. /\ shutdown'[q].rest = shutdown[q].rest /\ shutdown'[q].at = s
            /\ shutdown'[q].active = shutdown[q].active
        BY <2>1, <2>7, <3>1, AskIs
      <4> QED BY <2>7, <3>1, <4>1 DEF Asks, WalksOn
    <3>2. CASE r # q
      BY <2>1, <2>2, <2>7, <3>2, AskIs
    <3> QED BY <3>1, <3>2
  <2> QED BY <2>1, <2>3, <2>4, <2>5, <2>6, <2>7, <2>8 DEF RequestStep
<1>2. ShutdownInv /\ [Next]_vars => [\A q \in Shutdowns : WalksOn(q)]_vars
  BY <1>1
<1> QED BY <1>2, ShutdownsAreInOrder, PTL DEF Spec

-----------------------------------------------------------------------------
(* The teardown. *)

(* The stages of a server's stop, and how they follow one another. *)
Advances ==
  {<<None, "flushing">>, <<None, "done">>, <<"flushing", "waiting">>, <<"flushing", "done">>,
   <<"waiting", "done">>}

(* A wait is for a process that is there. *)
WaitsInv == \A s \in Servers : stopping[s] = "waiting" => proc[s] = "alive"

LEMMA StoppingStep ==
  ASSUME LifecycleInv, WaitsInv, [Next]_vars, NEW t \in Servers
  PROVE  /\ stopping'[t] = stopping[t] \/ <<stopping[t], stopping'[t]>> \in Advances
         /\ stopping'[t] = "waiting" => proc'[t] = "alive"
<1> DEFINE Fine == /\ stopping'[t] = stopping[t] \/ <<stopping[t], stopping'[t]>> \in Advances
                   /\ stopping'[t] = "waiting" => proc'[t] = "alive"
<1> SUFFICES Fine
  OBVIOUS
<1> USE DEF LifecycleInv, Typed
<1>1. ASSUME UNCHANGED stopping,
             proc'[t] = proc[t] \/ (proxy # "disposed" \/ stopping[t] # "waiting")
      PROVE  Fine
  BY <1>1 DEF WaitsInv, ServingInv, None
<1>2. ASSUME NEW states, NEW procs, TearDown(states, procs), proxy # "disposed" PROVE Fine
  BY <1>2 DEF TearDown, ServingInv, Advances, None
<1>3. CASE Initialize \/ Initialized \/ ClientShutdown \/ StartResolves \/ UNCHANGED vars
  BY <1>1, <1>3 DEF Initialize, Initialized, ClientShutdown, StartResolves, vars, serverVars
<1>4. CASE ClientExit \/ ConnectionCloses
  BY <1>2, <1>4 DEF ClientExit, ConnectionCloses, Dispose
<1>5. ASSUME NEW q \in Shutdowns, ShutdownSettled(q) \/ ShutdownEnds(q) \/ AnswerWritten(q)
      PROVE  Fine
  BY <1>1, <1>5 DEF ShutdownSettled, ShutdownEnds, AnswerWritten, serverVars
<1>6. ASSUME NEW q \in Shutdowns, NEW s \in Servers, SkipIdle(q, s) \/ ShutdownRunning(q, s)
      PROVE  Fine
  BY <1>1, <1>6 DEF SkipIdle, ShutdownRunning, serverVars
<1>7. ASSUME NEW q \in Shutdowns, NEW s \in Servers, ShutdownDown(q, s) PROVE Fine
  <2>1. PICK states, procs : StateChange(states, procs)
    BY <1>7 DEF ShutdownDown
  <2>2. proxy = "disposed" => proc'[t] = proc[t]
    BY <1>7 DEF ShutdownDown, DisposedInv
  <2> QED BY <1>1, <1>2, <2>1, <2>2 DEF StateChange, Dispose, teardownVars
<1>8. ASSUME NEW s \in Servers, FlushEnds(s) PROVE Fine
  <2>1. stopping[s] = "flushing" /\ stopping' = [stopping EXCEPT ![s] = AwaitExit(s)]
        /\ UNCHANGED proc
    BY <1>8 DEF FlushEnds, serverVars
  <2> QED BY <2>1 DEF AwaitExit, Advances, WaitsInv
<1>9. ASSUME NEW s \in Servers, GraceEnds(s) PROVE Fine
  BY <1>9 DEF GraceEnds, Advances, WaitsInv
<1>10. ASSUME NEW s \in Servers, ProcessGone(s) PROVE Fine
  BY <1>10 DEF ProcessGone, Advances, WaitsInv
<1>11. ASSUME NEW s \in Servers, StartLazily(s) \/ ComesUp(s) \/ Spawn(s) PROVE Fine
  <2>1. UNCHANGED stopping /\ proxy # "disposed"
    BY <1>11 DEF StartLazily, ComesUp, Spawn, DisposedInv
  <2> QED BY <1>1, <2>1
<1>12. ASSUME NEW s \in Servers, GivesUp(s) \/ ServerExits(s) PROVE Fine
  <2>1. PICK states, procs : StateChange(states, procs)
    BY <1>12 DEF GivesUp, ServerExits
  <2>2. proxy # "disposed"
    BY <1>12 DEF GivesUp, ServerExits, DisposedInv
  <2> QED BY <1>1, <1>2, <2>1, <2>2 DEF StateChange, Dispose, teardownVars
<1> HIDE DEF Fine
<1>13. CASE \E q \in Shutdowns :
             \/ ShutdownSettled(q) \/ ShutdownEnds(q) \/ AnswerWritten(q)
             \/ \E s \in Servers :
                  SkipIdle(q, s) \/ ShutdownDown(q, s) \/ ShutdownRunning(q, s)
  BY <1>13, <1>5, <1>6, <1>7
<1>14. CASE \E s \in Servers :
             \/ FlushEnds(s) \/ GraceEnds(s) \/ StartLazily(s) \/ Spawn(s) \/ ComesUp(s)
             \/ GivesUp(s) \/ ProcessGone(s) \/ ServerExits(s)
  BY <1>14, <1>8, <1>9, <1>10, <1>11, <1>12
<1> QED BY <1>3, <1>4, <1>13, <1>14 DEF Next, ClientLeaves, Stays

LEMMA WaitsInvariant == Spec => [](LifecycleInv /\ WaitsInv)
<1>1. Init => WaitsInv
  BY DEF Init, WaitsInv, None
<1>2. LifecycleInv /\ WaitsInv /\ [Next]_vars => WaitsInv'
  BY StoppingStep DEF WaitsInv
<1> QED BY <1>1, <1>2, LifecycleInit, LifecycleStep, PTL DEF Spec

(* No teardown is stuck: after a disposal every stop that is not over is in one of
   the two waits that are bounded, and what is still waited for is alive. *)
THEOREM NoTeardownIsStuck ==
  Spec => [](proxy = "disposed" =>
               \A s \in Servers : \/ stopping[s] \in {"flushing", "done"}
                                  \/ stopping[s] = "waiting" /\ proc[s] = "alive")
<1>1. LifecycleInv /\ WaitsInv =>
        (proxy = "disposed" =>
           \A s \in Servers : \/ stopping[s] \in {"flushing", "done"}
                              \/ stopping[s] = "waiting" /\ proc[s] = "alive")
  BY DEF LifecycleInv, Typed, Stages, DisposedInv, WaitsInv
<1> QED BY <1>1, WaitsInvariant, PTL

(* The stop of a server never goes back a stage, whatever happens to its process
   or to the other servers meanwhile; with the bounds of the waits this is why
   teardowns end. *)
THEOREM TeardownAdvances ==
  Spec => [][\A s \in Servers :
               stopping'[s] = stopping[s] \/ <<stopping[s], stopping'[s]>> \in Advances]_vars
<1>1. LifecycleInv /\ WaitsInv /\ [Next]_vars =>
        [\A s \in Servers :
           stopping'[s] = stopping[s] \/ <<stopping[s], stopping'[s]>> \in Advances]_vars
  BY StoppingStep
<1> QED BY <1>1, WaitsInvariant, PTL DEF Spec
=============================================================================
