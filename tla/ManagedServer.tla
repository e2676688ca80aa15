---------------------------- MODULE ManagedServer -----------------------------
(***************************************************************************)
(* One language server under the proxy's management (managed-server.ts),   *)
(* with the parts it is built from: the restart scheduler, the channel of  *)
(* proxy-internal requests, the message buffer and its child processes.    *)
(*                                                                         *)
(* The program runs in one thread. A step is one event handler, run to its *)
(* end; what an await leaves for later is in `settled`, and Quiet says     *)
(* that no such continuation is waiting, which is when the next event is   *)
(* taken from the event loop.                                              *)
(***************************************************************************)
EXTENDS Integers, Sequences, SequencesExt

CONSTANTS
  MaxBuffer,    \* maxBufferSize
  MaxRetries,   \* policy.maxRetries
  MaxMessages,  \* bound: messages the proxy hands to the server
  MaxCrashes,   \* bound: exits of a running server that it restarts from
  MaxInputs     \* bound: messages and shutdown requests together

ASSUME ManagedServerAssumption ==
  /\ MaxBuffer \in Nat \ {0} /\ MaxRetries \in Nat
  /\ MaxMessages \in Nat /\ MaxCrashes \in Nat /\ MaxInputs \in Nat

VARIABLES
  state,              \* ServerState
  server,             \* the current child, 0 for `undefined`
  initParams,         \* have the client's initialize params been stored
  isShutdownSent, isLazyStartEnabled, isEverInitialized,
  pendingRequests,    \* client requests written and not answered
  buffer,             \* messages held while starting or restarting
  callbacks,          \* the channel's map: internal requests outstanding
  settled,            \* internal requests settled, continuation not yet run
  attempt, retryTimer, unnamed, refundTimer,    \* the scheduler's
  spawned,            \* children spawned so far; a child is its number
  attached,           \* children alive whose events still reach the server
  stopping,           \* the child stop() is waiting for, 0 if none
  shutdowns,          \* number of shutdown requests written
  crashes,            \* running children that exited and were restarted
  arrived,            \* history: kinds of the messages sent, in order
  documents,          \* number of the last sync the tracker applied
  wrote,              \* history: what was written to which child
  owed,               \* what children have been asked and not replied to
  answers             \* history: replies the client got, per request

processVars == <<spawned, attached, stopping>>
schedulerVars == <<attempt, retryTimer, unnamed, refundTimer>>
flagVars == <<initParams, isShutdownSent, isLazyStartEnabled, isEverInitialized>>
clientVars == <<arrived, documents>>

vars == <<state, server, flagVars, pendingRequests, buffer, callbacks, settled,
          schedulerVars, processVars, shutdowns, crashes, clientVars, wrote,
          owed, answers>>

States == {"idle", "starting", "running", "restarting", "stopped"}
Starting == {"starting", "restarting"}

(* What the proxy hands to send(): a client request, a document sync, an
   internal request, or any other message (a notification or a response). *)
Kinds == {"request", "sync", "internal", "note"}
Ids == 1..MaxMessages
Message == [kind : Kinds \ {"sync"}, n : Ids]

(* Internal requests: initialize, which remembers the state its sequence
   expects on return, shutdown, and those of sendRequest. *)
InitCall(c, expected) == [of |-> "initialize", n |-> c, expects |-> expected]
ShutdownCall(i) == [of |-> "shutdown", n |-> i, expects |-> "running"]
SendCall(n) == [of |-> "send", n |-> n, expects |-> "running"]
Call == [of : {"initialize"}, n : Nat, expects : Starting]
        \cup [of : {"shutdown", "send"}, n : Nat, expects : {"running"}]

Scheduler == INSTANCE RestartScheduler WITH Callbacks <- Starting, NoTimer <- "none"

Init ==
  /\ state = "idle" /\ server = 0
  /\ initParams = FALSE /\ isShutdownSent = FALSE
  /\ isLazyStartEnabled = FALSE /\ isEverInitialized = FALSE
  /\ pendingRequests = {} /\ buffer = <<>>
  /\ callbacks = {} /\ settled = {}
  /\ Scheduler!SchedulerInit
  /\ spawned = 0 /\ attached = {} /\ stopping = 0
  /\ shutdowns = 0 /\ crashes = 0
  /\ arrived = <<>> /\ documents = 0
  /\ wrote = <<>> /\ owed = {} /\ answers = [n \in Ids |-> 0]

Quiet == settled = {}

-----------------------------------------------------------------------------
(* Pieces the handlers are made of. *)

(* Messages as they appear in the log of a child. *)
To(c, kind, n) == [to |-> c, kind |-> kind, n |-> n]

(* Mutant: the buffer is drained from its end. *)
ForwardLastFirst(c, messages) ==
  [i \in DOMAIN messages |->
     LET m == messages[Len(messages) + 1 - i] IN To(c, m.kind, m.n)]

ForwardTo(c, messages) ==
  [i \in DOMAIN messages |-> To(c, messages[i].kind, messages[i].n)]

ExpectsReply(kind) == kind \in {"request", "internal"}
RequestsOf(entries) == {entries[i] : i \in {j \in DOMAIN entries : ExpectsReply(entries[j].kind)}}
ClientRequestsIn(messages) ==
  {messages[i].n : i \in {j \in DOMAIN messages : messages[j].kind = "request"}}

(* child.write for each entry; a disposed child drops them. *)
Write(c, entries) ==
  IF c \in attached
  THEN wrote' = wrote \o entries /\ owed' = owed \cup RequestsOf(entries)
  ELSE UNCHANGED <<wrote, owed>>

(* The client gets one reply more to each of these requests. *)
Answer(requests) ==
  answers' = [n \in Ids |-> IF n \in requests THEN answers[n] + 1 ELSE answers[n]]

(* channel.rejectAll: everything outstanding settles with an error. *)
Rejected(calls) == {[call |-> k, ok |-> FALSE] : k \in calls}

(* Mutant: a child is abandoned without being disposed. *)
DisposeNothing(children) == UNCHANGED <<attached, owed>>

(* child.dispose(): no further event of these children is delivered. *)
Dispose(children) ==
  /\ attached' = attached \ children
  /\ owed' = {o \in owed : o.to \notin children}

(* The server stops for good with errorBufferedRequests: `messages` are in the
   buffer, `calls` outstanding, the requests `also` are errored with it, and
   the continuations in `done` have run. *)
StopAndErrorBuffered(messages, calls, also, done) ==
  /\ state' = "stopped"
  /\ buffer' = <<>>
  /\ callbacks' = {} /\ settled' = (settled \ done) \cup Rejected(calls)
  /\ Answer(also \cup ClientRequestsIn(messages))

(* buffer.cancel: remove the first request with this id. *)
BufferedAt(n) == {i \in DOMAIN buffer : buffer[i].n = n /\ ExpectsReply(buffer[i].kind)}
DropBuffered(n) ==
  \/ BufferedAt(n) = {} /\ UNCHANGED buffer
  \/ \E i \in BufferedAt(n) :
       (\A j \in BufferedAt(n) : i <= j) /\ buffer' = RemoveAt(buffer, i)

(* performInitSequence(expected) up to its await, with the internal requests
   `calls` outstanding. spawnServer makes the new child the current one. *)
SpawnAndInitialize(expected, calls) ==
  LET c == spawned + 1 IN
  /\ spawned' = c /\ server' = c
  /\ attached' = attached \cup {c}
  /\ wrote' = Append(wrote, To(c, "initialize", 0))
  /\ callbacks' = calls \cup {InitCall(c, expected)}
  /\ UNCHANGED <<owed, stopping, settled, answers>>

(* The spawn itself throws: the catch branch, before its scheduleRetry. *)
SpawnThrows ==
  /\ Dispose({server}) /\ server' = 0
  /\ UNCHANGED <<spawned, stopping, wrote>>

(* Mutant: out of attempts, the server is left waiting. *)
ScheduleRetryOrWait(expected, messages, calls, done) ==
  /\ Scheduler!ScheduleGranted(expected) \/ Scheduler!ScheduleRefused
  /\ state' = expected /\ buffer' = messages
  /\ callbacks' = calls /\ settled' = settled \ done
  /\ UNCHANGED answers

(* scheduleRetry(expected): wait for the next attempt, or stop. *)
ScheduleRetry(expected, messages, calls, done) ==
  \/ /\ Scheduler!ScheduleGranted(expected)
     /\ state' = expected /\ buffer' = messages
     /\ callbacks' = calls /\ settled' = settled \ done
     /\ UNCHANGED answers
  \/ /\ Scheduler!ScheduleRefused
     /\ StopAndErrorBuffered(messages, calls, {}, done)

-----------------------------------------------------------------------------
(* The client's handshake. *)

SetInitParams ==
  /\ Quiet /\ ~initParams
  /\ initParams' = TRUE
  /\ UNCHANGED <<state, server, isShutdownSent, isLazyStartEnabled, isEverInitialized,
                 pendingRequests, buffer, callbacks, settled, schedulerVars, processVars,
                 shutdowns, crashes, clientVars, wrote, owed, answers>>

(* sendInitialized(). No server has a child at this point: only initialize()
   would give it one, and nothing in the program calls that. *)
SendInitialized ==
  /\ Quiet /\ initParams /\ server = 0
  /\ ~isLazyStartEnabled /\ isLazyStartEnabled' = TRUE
  /\ UNCHANGED <<state, server, initParams, isShutdownSent, isEverInitialized,
                 pendingRequests, buffer, callbacks, settled, schedulerVars, processVars,
                 shutdowns, crashes, clientVars, wrote, owed, answers>>

-----------------------------------------------------------------------------
(* send(msg), reached directly for a message of the client and through
   sendRequest/sendVia for an internal one. The tracker has applied a document
   sync before send sees it. *)

CallsWith(kind, n) == callbacks \cup (IF kind = "internal" THEN {SendCall(n)} ELSE {})

Arrives(kind, n) ==
  /\ Quiet
  /\ n = Len(arrived) + 1 /\ n <= MaxMessages /\ n + shutdowns <= MaxInputs
  /\ arrived' = Append(arrived, kind)
  /\ documents' = IF kind = "sync" THEN n ELSE documents
  /\ UNCHANGED <<flagVars, shutdowns, crashes>>

CanStartLazily == state = "idle" /\ initParams /\ isLazyStartEnabled

(* A message send() returns false for: the proxy answers a request with an
   error, sendVia settles an internal one, anything else is dropped. *)
Refuse(kind, n) ==
  /\ Answer(IF kind = "request" THEN {n} ELSE {})
  /\ settled' = IF kind = "internal" THEN Rejected({SendCall(n)}) ELSE settled
  /\ UNCHANGED <<buffer, callbacks>>

(* Mutant: a restarting server is written to as if it were running. *)
SendWhileRestarting(kind, n) ==
  /\ Arrives(kind, n) /\ state \in {"running", "restarting"}
  /\ Write(server, <<To(server, kind, n)>>)
  /\ pendingRequests' = IF kind = "request" THEN pendingRequests \cup {n} ELSE pendingRequests
  /\ callbacks' = CallsWith(kind, n)
  /\ UNCHANGED <<state, server, buffer, settled, schedulerVars, processVars, answers>>

(* writeToRunning. *)
SendRunning(kind, n) ==
  /\ Arrives(kind, n) /\ state = "running"
  /\ Write(server, <<To(server, kind, n)>>)
  /\ pendingRequests' = IF kind = "request" THEN pendingRequests \cup {n} ELSE pendingRequests
  /\ callbacks' = CallsWith(kind, n)
  /\ UNCHANGED <<state, server, buffer, settled, schedulerVars, processVars, answers>>

SendBuffered(kind, n) ==
  /\ Arrives(kind, n) /\ state \in Starting
  /\ IF kind = "sync" THEN UNCHANGED <<buffer, callbacks, settled, answers>>
     ELSE IF Len(buffer) < MaxBuffer
     THEN /\ buffer' = Append(buffer, [kind |-> kind, n |-> n])
          /\ callbacks' = CallsWith(kind, n)
          /\ UNCHANGED <<settled, answers>>
     ELSE Refuse(kind, n)
  /\ UNCHANGED <<state, server, pendingRequests, schedulerVars, processVars, wrote, owed>>

(* startLazily: the message that finds the server idle starts it. *)
SendLazily(kind, n) ==
  LET held == IF kind = "sync" THEN buffer ELSE Append(buffer, [kind |-> kind, n |-> n]) IN
  /\ Arrives(kind, n) /\ CanStartLazily
  /\ UNCHANGED pendingRequests
  /\ \/ /\ SpawnAndInitialize("starting", CallsWith(kind, n))
        /\ state' = "starting" /\ buffer' = held
        /\ UNCHANGED schedulerVars
     \/ /\ SpawnThrows
        /\ ScheduleRetry("starting", held, CallsWith(kind, n), {})

SendRefused(kind, n) ==
  /\ Arrives(kind, n)
  /\ state = "stopped" \/ (state = "idle" /\ ~CanStartLazily)
  /\ Refuse(kind, n)
  /\ UNCHANGED <<state, server, pendingRequests, schedulerVars, processVars, wrote, owed>>

Send(kind, n) ==
  SendRunning(kind, n) \/ SendBuffered(kind, n) \/ SendLazily(kind, n) \/ SendRefused(kind, n)

(* $/cancelRequest for a request still in the buffer: the proxy answers it. *)
CancelBuffered(n) ==
  /\ Quiet /\ n \in ClientRequestsIn(buffer)
  /\ DropBuffered(n) /\ Answer({n})
  /\ UNCHANGED <<state, server, flagVars, pendingRequests, callbacks, settled, schedulerVars,
                 processVars, shutdowns, crashes, clientVars, wrote, owed>>

-----------------------------------------------------------------------------
(* The child process. *)

(* handleServerExit: the exit or error event of any child not disposed. *)
ExitEvent(c) ==
  /\ Quiet /\ c \in attached
  /\ UNCHANGED <<flagVars, spawned, stopping, shutdowns, clientVars, wrote>>

(* ... of a server already stopped: nothing to do. *)
ExitStopped(c) ==
  /\ ExitEvent(c) /\ state = "stopped"
  /\ Dispose({c})
  /\ UNCHANGED <<state, server, pendingRequests, buffer, callbacks, settled, schedulerVars,
                 crashes, answers>>

(* Mutant: the requests in flight are errored but stay tracked. *)
ExitKeepingPending(c) ==
  /\ ExitEvent(c) /\ state # "stopped"
  /\ Dispose({c, server}) /\ server' = 0
  /\ UNCHANGED pendingRequests

(* ... otherwise what was in flight is answered and the child is gone. *)
ExitLive(c) ==
  /\ ExitEvent(c) /\ state # "stopped"
  /\ Dispose({c, server}) /\ server' = 0
  /\ pendingRequests' = {}

(* Before the first handshake was completed: stop. *)
ExitBeforeHandshake(c) ==
  /\ ExitLive(c) /\ ~isEverInitialized
  /\ Scheduler!Cancel
  /\ StopAndErrorBuffered(buffer, callbacks, pendingRequests, {})
  /\ UNCHANGED crashes

(* After shutdown was sent: expected, stop. *)
ExitAfterShutdown(c) ==
  /\ ExitLive(c) /\ isEverInitialized /\ isShutdownSent
  /\ Scheduler!Cancel
  /\ state' = "stopped"
  /\ callbacks' = {} /\ settled' = settled \cup Rejected(callbacks)
  /\ Answer(pendingRequests)
  /\ UNCHANGED <<buffer, crashes>>

(* During a restart: performInitSequence, rejected, reschedules. *)
ExitWhileStarting(c) ==
  /\ ExitLive(c) /\ isEverInitialized /\ ~isShutdownSent /\ state \in Starting
  /\ callbacks' = {} /\ settled' = settled \cup Rejected(callbacks)
  /\ Answer(pendingRequests)
  /\ UNCHANGED <<state, buffer, schedulerVars, crashes>>

(* A running server crashed: restart it while the budget lasts. *)
ExitRunning(c) ==
  /\ ExitLive(c) /\ isEverInitialized /\ ~isShutdownSent /\ state \notin Starting
  /\ crashes < MaxCrashes /\ crashes' = crashes + 1
  /\ \/ /\ Scheduler!ScheduleGranted("restarting")
        /\ state' = "restarting"
        /\ callbacks' = {} /\ settled' = settled \cup Rejected(callbacks)
        /\ Answer(pendingRequests)
        /\ UNCHANGED buffer
     \/ /\ Scheduler!ScheduleRefused
        /\ StopAndErrorBuffered(buffer, callbacks, pendingRequests, {})

ServerExit(c) ==
  \/ ExitStopped(c) \/ ExitBeforeHandshake(c) \/ ExitAfterShutdown(c)
  \/ ExitWhileStarting(c) \/ ExitRunning(c)

(* Mutant: the reply is forwarded but the request stays tracked. *)
ReplyKeepingPending(o) ==
  /\ Quiet /\ o \in owed /\ o.to \in attached /\ o.kind = "request"
  /\ owed' = owed \ {o}
  /\ Answer({o.n})
  /\ UNCHANGED <<state, server, flagVars, pendingRequests, buffer, callbacks, settled,
                 schedulerVars, processVars, shutdowns, crashes, clientVars, wrote>>

(* The child answers a client request: handleServerMessage forwards it. *)
ReplyToClient(o) ==
  /\ Quiet /\ o \in owed /\ o.to \in attached /\ o.kind = "request"
  /\ owed' = owed \ {o}
  /\ pendingRequests' = pendingRequests \ {o.n}
  /\ Answer({o.n})
  /\ UNCHANGED <<state, server, flagVars, buffer, callbacks, settled, schedulerVars,
                 processVars, shutdowns, crashes, clientVars, wrote>>

(* Can a child reply to this internal request: it is alive and has it. *)
Deliverable(k) ==
  CASE k.of = "send"       -> \E c \in attached : To(c, "internal", k.n) \in owed
    [] k.of = "shutdown"   -> server \in attached
    [] k.of = "initialize" -> k.n \in attached

(* handleResponse for a response to an outstanding internal request. *)
ReplyToCall(k, ok) ==
  /\ Quiet /\ k \in callbacks /\ Deliverable(k)
  /\ callbacks' = callbacks \ {k}
  /\ settled' = settled \cup {[call |-> k, ok |-> ok]}
  /\ owed' = IF k.of = "send" THEN {o \in owed : ~(o.kind = "internal" /\ o.n = k.n)} ELSE owed
  /\ UNCHANGED <<state, server, flagVars, pendingRequests, buffer, schedulerVars, processVars,
                 shutdowns, crashes, clientVars, wrote, answers>>

(* ... for one that was settled before: swallowed. *)
LateReply(o) ==
  /\ Quiet /\ o \in owed /\ o.to \in attached /\ o.kind = "internal"
  /\ SendCall(o.n) \notin callbacks
  /\ owed' = owed \ {o}
  /\ UNCHANGED <<state, server, flagVars, pendingRequests, buffer, callbacks, settled,
                 schedulerVars, processVars, shutdowns, crashes, clientVars, wrote, answers>>

(* The timeout of an internal request. *)
CallTimesOut(k) ==
  /\ Quiet /\ k \in callbacks
  /\ callbacks' = callbacks \ {k}
  /\ settled' = settled \cup Rejected({k})
  /\ UNCHANGED <<state, server, flagVars, pendingRequests, buffer, schedulerVars, processVars,
                 shutdowns, crashes, clientVars, wrote, owed, answers>>

-----------------------------------------------------------------------------
(* Continuations: what follows the await of a settled internal request. *)

Resumes(s, of) == s \in settled /\ s.call.of = of

Superseded(s) == state # s.call.expects \/ server # s.call.n

(* Mutant: a start that was superseded is left to whoever superseded it. *)
ResumeInitSupersededReturns(s) ==
  /\ Resumes(s, "initialize") /\ Superseded(s)
  /\ settled' = settled \ {s}
  /\ UNCHANGED <<state, buffer, callbacks, answers, schedulerVars, server, flagVars,
                 pendingRequests, processVars, shutdowns, crashes, clientVars, wrote, owed>>

(* The child was replaced or lost during the handshake. *)
ResumeInitSuperseded(s) ==
  /\ Resumes(s, "initialize") /\ Superseded(s)
  /\ IF state = s.call.expects
     THEN ScheduleRetry(state, buffer, callbacks, {s})
     ELSE /\ settled' = settled \ {s}
          /\ UNCHANGED <<state, buffer, callbacks, answers, schedulerVars>>
  /\ UNCHANGED <<server, flagVars, pendingRequests, processVars, shutdowns, crashes,
                 clientVars, wrote, owed>>

(* An error answer, or none in time: drop the child and try again. *)
ResumeInitFailed(s) ==
  /\ Resumes(s, "initialize") /\ ~Superseded(s) /\ ~s.ok
  /\ Dispose({s.call.n}) /\ server' = 0
  /\ ScheduleRetry(state, buffer, callbacks, {s})
  /\ UNCHANGED <<flagVars, pendingRequests, spawned, stopping, shutdowns, crashes,
                 clientVars, wrote>>

(* Mutant: a restarted server is not told the open documents. *)
ReplayNothing(c) == <<>>

(* The handshake succeeded: initialized, the tracked documents, the buffered
   messages, and the server is running. *)
Replay(c) == IF documents = 0 THEN <<>> ELSE <<To(c, "replay", documents)>>

ResumeInitOk(s) ==
  LET c == s.call.n IN
  /\ Resumes(s, "initialize") /\ ~Superseded(s) /\ s.ok
  /\ isEverInitialized' = TRUE
  /\ Write(c, <<To(c, "initialized", 0)>> \o Replay(c) \o ForwardTo(c, buffer))
  /\ pendingRequests' = pendingRequests \cup ClientRequestsIn(buffer)
  /\ buffer' = <<>>
  /\ state' = "running"
  /\ Scheduler!MarkStarted
  /\ settled' = settled \ {s}
  /\ UNCHANGED <<server, initParams, isShutdownSent, isLazyStartEnabled, callbacks,
                 processVars, shutdowns, crashes, clientVars, answers>>

(* Mutant: a request that failed stays in the buffer. *)
ResumeSendKeepingBuffered(s) ==
  /\ Resumes(s, "send")
  /\ settled' = settled \ {s}
  /\ UNCHANGED <<state, server, flagVars, pendingRequests, buffer, callbacks, schedulerVars,
                 processVars, shutdowns, crashes, clientVars, wrote, owed, answers>>

(* sendRequest, settled: one that failed is taken out of the buffer. *)
ResumeSendRequest(s) ==
  /\ Resumes(s, "send")
  /\ settled' = settled \ {s}
  /\ IF s.ok THEN UNCHANGED buffer ELSE DropBuffered(s.call.n)
  /\ UNCHANGED <<state, server, flagVars, pendingRequests, callbacks, schedulerVars,
                 processVars, shutdowns, crashes, clientVars, wrote, owed, answers>>

(* shutdown() returns the response to its caller, and leaves nothing behind. *)
ResumeShutdown(s) ==
  /\ Resumes(s, "shutdown")
  /\ settled' = settled \ {s}
  /\ UNCHANGED <<state, server, flagVars, pendingRequests, buffer, callbacks, schedulerVars,
                 processVars, shutdowns, crashes, clientVars, wrote, owed, answers>>

Resume ==
  \E s \in settled : \/ ResumeInitSuperseded(s) \/ ResumeInitFailed(s) \/ ResumeInitOk(s)
                    \/ ResumeSendRequest(s) \/ ResumeShutdown(s)

-----------------------------------------------------------------------------
(* The scheduler's timers. *)

(* The retry: performInitSequence(expected), which gives up at once if the
   server is no longer in the state the retry was scheduled in. *)
RetryFires(expected) ==
  /\ Quiet
  /\ IF state # expected
     THEN /\ Scheduler!RetryFires(expected)
          /\ UNCHANGED <<state, server, buffer, callbacks, settled, processVars, wrote, owed,
                         answers>>
     ELSE \/ /\ Scheduler!RetryFires(expected)
             /\ SpawnAndInitialize(expected, callbacks)
             /\ UNCHANGED <<state, buffer>>
          \/ /\ SpawnThrows
             /\ Scheduler!RetryRescheduled(expected)
             /\ UNCHANGED <<state, buffer, callbacks, settled, answers>>
          \/ /\ SpawnThrows
             /\ Scheduler!RetryRefused(expected)
             /\ StopAndErrorBuffered(buffer, callbacks, {}, {})
  /\ UNCHANGED <<flagVars, pendingRequests, shutdowns, crashes, clientVars>>

RefundFires ==
  /\ Quiet /\ Scheduler!RefundFires
  /\ UNCHANGED <<state, server, flagVars, pendingRequests, buffer, callbacks, settled,
                 processVars, shutdowns, crashes, clientVars, wrote, owed, answers>>

-----------------------------------------------------------------------------
(* shutdown() and stop(). *)

(* shutdown(): for every shutdown request of the client the proxy asks each
   server that is not idle, whether another is under way or not. *)
ShutdownAsked ==
  /\ Quiet /\ state # "idle"
  /\ isShutdownSent' = TRUE
  /\ UNCHANGED <<initParams, isLazyStartEnabled, isEverInitialized, pendingRequests, buffer,
                 spawned, stopping, crashes, clientVars, answers>>

(* cancelRestart, then resolved at once. The buffer is left as it is. *)
ShutdownStarting ==
  /\ ShutdownAsked /\ state \in Starting
  /\ Scheduler!Cancel
  /\ callbacks' = {} /\ settled' = settled \cup Rejected(callbacks)
  /\ Dispose({server}) /\ server' = 0
  /\ state' = "stopped"
  /\ UNCHANGED <<shutdowns, wrote>>

ShutdownStopped ==
  /\ ShutdownAsked /\ state = "stopped"
  /\ UNCHANGED <<state, server, callbacks, settled, schedulerVars, attached, shutdowns, wrote,
                 owed>>

ShutdownRunning ==
  /\ ShutdownAsked /\ state = "running"
  /\ Len(arrived) + shutdowns < MaxInputs /\ shutdowns' = shutdowns + 1
  /\ callbacks' = callbacks \cup {ShutdownCall(shutdowns + 1)}
  /\ Write(server, <<To(server, "shutdown", 0)>>)
  /\ UNCHANGED <<state, server, settled, schedulerVars, attached>>

Shutdown == ShutdownStarting \/ ShutdownStopped \/ ShutdownRunning

(* stop(): called once for every server when the proxy is disposed. *)
Stop ==
  /\ Quiet /\ state # "stopped"
  /\ state' = "stopped"
  /\ Scheduler!Cancel
  /\ callbacks' = {} /\ settled' = settled \cup Rejected(callbacks)
  /\ server' = 0 /\ stopping' = server
  /\ IF server = 0 THEN UNCHANGED <<wrote, owed>> ELSE Write(server, <<To(server, "exit", 0)>>)
  /\ UNCHANGED <<flagVars, pendingRequests, buffer, spawned, attached, shutdowns, crashes,
                 clientVars, answers>>

(* child.stop() is over: both its waits are bounded. *)
StopEnds ==
  /\ Quiet /\ stopping # 0
  /\ Dispose({stopping}) /\ stopping' = 0
  /\ UNCHANGED <<state, server, flagVars, pendingRequests, buffer, callbacks, settled,
                 schedulerVars, spawned, shutdowns, crashes, clientVars, wrote, answers>>

-----------------------------------------------------------------------------

Next ==
  \/ SetInitParams \/ SendInitialized
  \/ \E kind \in Kinds, n \in Ids : Send(kind, n)
  \/ \E n \in Ids : CancelBuffered(n)
  \/ \E c \in attached : ServerExit(c)
  \/ \E o \in owed : ReplyToClient(o) \/ LateReply(o)
  \/ \E k \in callbacks, ok \in BOOLEAN : ReplyToCall(k, ok)
  \/ \E k \in callbacks : CallTimesOut(k)
  \/ Resume
  \/ \E expected \in Starting : RetryFires(expected)
  \/ RefundFires
  \/ Shutdown
  \/ Stop
  \/ StopEnds

Spec == Init /\ [][Next]_vars

(* Continuations run, armed timers fire, an internal request is answered or
   times out, and stop() is bounded. Nothing makes a child answer a client
   request, exit, or stay up. *)
Fairness ==
  /\ WF_vars(Resume)
  /\ WF_vars(\E expected \in Starting : RetryFires(expected))
  /\ WF_vars(\E k \in callbacks : CallTimesOut(k))
  /\ WF_vars(StopEnds)

FairSpec == Spec /\ Fairness

-----------------------------------------------------------------------------
(* Properties. *)

Settled == [call : Call, ok : BOOLEAN]
Entry == [to : Nat, kind : {"initialize", "initialized", "replay", "shutdown", "exit"} \cup Kinds,
          n : Nat]

TypeOK ==
  /\ state \in States /\ server \in Nat
  /\ initParams \in BOOLEAN /\ isShutdownSent \in BOOLEAN
  /\ isLazyStartEnabled \in BOOLEAN /\ isEverInitialized \in BOOLEAN
  /\ pendingRequests \in SUBSET Ids
  /\ buffer \in Seq(Message)
  /\ callbacks \in SUBSET Call /\ settled \in SUBSET Settled
  /\ Scheduler!SchedulerTypeOK
  /\ spawned \in Nat /\ attached \in SUBSET Nat /\ stopping \in Nat
  /\ shutdowns \in Nat /\ crashes \in 0..MaxCrashes
  /\ arrived \in Seq(Kinds) /\ documents \in 0..MaxMessages
  /\ wrote \in Seq(Entry) /\ owed \in SUBSET Entry
  /\ answers \in [Ids -> Nat]

(* Only the current child, or the one stop() is waiting for, can still raise
   events. handleServerExit and handleServerMessage take no child, so an event
   of an earlier one would be blamed on the current one. *)
OnlyCurrentChildSpeaks == attached \subseteq {server, stopping} \ {0}

(* The current child is one whose exit will be noticed; a running server has
   one, and a server that has none holds no client request as in flight. *)
CurrentChildIsAlive ==
  /\ server # 0 => server \in attached
  /\ state = "running" => server # 0
  /\ server = 0 /\ stopping = 0 /\ state # "stopped" => pendingRequests = {}

(* While (re)starting there is exactly one thing that will move the start on:
   one armed retry, or one handshake with the current child. Otherwise there
   is none. *)
Handshakes == {k \in callbacks : k.of = "initialize"}
OneStartAtATime ==
  Quiet =>
    IF state \in Starting
    THEN IF server = 0
         THEN retryTimer = state /\ unnamed = {} /\ Handshakes = {}
         ELSE retryTimer = "none" /\ unnamed = {} /\ Handshakes = {InitCall(server, state)}
    ELSE retryTimer = "none" /\ unnamed = {} /\ Handshakes = {}

(* An attempt is only ever earned back by a server that is up. *)
RefundOnlyWhileUp == refundTimer => state = "running"

(* Every client request the server was handed is in exactly one place: held in
   the buffer, in flight, or answered, once. *)
RequestNumbers == {n \in DOMAIN arrived : arrived[n] = "request"}
RequestsAccountedFor ==
  \A n \in RequestNumbers :
    /\ answers[n] <= 1
    /\ (answers[n] = 0) <=> (n \in pendingRequests \/ n \in ClientRequestsIn(buffer))
    /\ ~(n \in pendingRequests /\ n \in ClientRequestsIn(buffer))

(* What the client sent reaches the server in the order it was sent, and no
   message twice, across lazy start, crashes and restarts. Document syncs are
   excepted: they are replayed. *)
Ordered == {i \in DOMAIN wrote : wrote[i].kind \in {"request", "internal", "note"}}
DeliveredInOrder == \A i, j \in Ordered : i < j => wrote[i].n < wrote[j].n

(* Each child sees the handshake first: initialize, then initialized, nothing
   else between or before but an exit; and right after it the tracked documents,
   before what was buffered. *)
HandshakeFirst ==
  \A i \in DOMAIN wrote :
    LET before == {wrote[j].kind : j \in {k \in 1..(i - 1) : wrote[k].to = wrote[i].to}} IN
    CASE wrote[i].kind = "initialize"  -> before = {}
      [] wrote[i].kind = "initialized" -> before = {"initialize"}
      [] wrote[i].kind = "replay"      -> before = {"initialize", "initialized"}
      [] wrote[i].kind = "exit"        -> "initialize" \in before
      [] OTHER                         -> "initialized" \in before

(* A running server knows the documents as the tracker has them, from the
   replay or a later sync, and gets no version of them twice. *)
DocumentEntries(c) ==
  {i \in DOMAIN wrote : wrote[i].to = c /\ wrote[i].kind \in {"replay", "sync"}}
DocumentsInStep ==
  /\ state = "running" /\ documents # 0 =>
       \E i \in DocumentEntries(server) : wrote[i].n = documents
  /\ \A c \in 1..spawned : \A i, j \in DocumentEntries(c) : i < j => wrote[i].n < wrote[j].n

(* A request of the proxy's own that was settled, by a timeout or by the loss
   of the child, is not left in the buffer for a later child to serve. *)
NoAbandonedCallBuffered ==
  Quiet => \A i \in DOMAIN buffer :
             buffer[i].kind = "internal" => SendCall(buffer[i].n) \in callbacks

(* A stopped server stays stopped: it spawns nothing, arms no timer and writes
   to no child. *)
StopsForGood ==
  [][state = "stopped" => /\ state' = "stopped" /\ spawned' = spawned /\ wrote' = wrote
                          /\ retryTimer' = "none" /\ ~refundTimer']_vars

(* The requests as the client sees them. *)
PlaceOf(n) ==
  IF n \notin RequestNumbers THEN "unsent"
  ELSE IF answers[n] > 0 THEN "answered"
  ELSE IF n \in pendingRequests THEN "delivered" ELSE "held"

Service == INSTANCE RequestService WITH
  Requests <- Ids, place <- [n \in Ids |-> PlaceOf(n)], open <- state # "stopped"

(* Lazy starts, restarts, crashes, timeouts and teardown keep the promise made
   about each request. *)
KeepsRequestPromise == Service!ServiceSpec

(* A start ends: the server is running or stopped, however often the child
   fails on the way. *)
StartsOrStops == (state \in Starting) ~> (state \in {"running", "stopped"})
=============================================================================
