------------------------- MODULE ManagedServer_proofs -------------------------
(***************************************************************************)
(* Proofs about one managed server, for every buffer size, retry budget    *)
(* and number of messages.                                                 *)
(***************************************************************************)
EXTENDS ManagedServer, SequenceTheorems, TLAPS

-----------------------------------------------------------------------------
(* What the pieces of the handlers preserve. *)

(* The numbers of the client requests in a buffer are request numbers. *)
LEMMA ClientRequestsTyped ==
  ASSUME NEW messages \in Seq(Message)
  PROVE  ClientRequestsIn(messages) \subseteq Ids
<1>1. \A i \in DOMAIN messages : messages[i] \in Message
  BY ElementOfSeq, LenProperties
<1>2. \A i \in DOMAIN messages : messages[i].n \in Ids
  BY <1>1 DEF Message
<1> QED BY <1>2 DEF ClientRequestsIn

(* Writing to a child keeps the log and the debts of the children typed. *)
LEMMA WriteTyped ==
  ASSUME TypeOK, NEW c, NEW entries \in Seq(Entry), Write(c, entries)
  PROVE  wrote' \in Seq(Entry) /\ owed' \in SUBSET Entry
<1>1. wrote \o entries \in Seq(Entry)
  BY ConcatProperties DEF TypeOK
<1>2. RequestsOf(entries) \subseteq Entry
  BY DEF RequestsOf
<1> QED BY <1>1, <1>2 DEF Write, TypeOK

(* A forwarded buffer is a sequence of log entries. *)
LEMMA ForwardTyped ==
  ASSUME NEW c \in Nat, NEW messages \in Seq(Message)
  PROVE  ForwardTo(c, messages) \in Seq(Entry)
<1>1. ASSUME NEW m \in Message PROVE To(c, m.kind, m.n) \in Entry
  <2>1. m.kind \in Kinds /\ m.n \in Nat
    BY ManagedServerAssumption DEF Message, Ids
  <2> QED BY <2>1 DEF To, Entry
<1>2. DOMAIN messages = 1..Len(messages) /\ Len(messages) \in Nat
  BY LenProperties
<1>3. \A i \in 1..Len(messages) : To(c, messages[i].kind, messages[i].n) \in Entry
  BY <1>1, ElementOfSeq
<1>4. ForwardTo(c, messages) \in [1..Len(messages) -> Entry]
  BY <1>2, <1>3 DEF ForwardTo
<1> QED BY <1>2, <1>4, SeqDef

(* Answering counts one reply more for some requests. *)
LEMMA AnswerTyped ==
  ASSUME TypeOK, NEW requests, Answer(requests)
  PROVE  answers' \in [Ids -> Nat]
BY DEF TypeOK, Answer

LEMMA DisposeTyped ==
  ASSUME TypeOK, NEW children, Dispose(children)
  PROVE  attached' \in SUBSET Nat /\ owed' \in SUBSET Entry
BY DEF TypeOK, Dispose

(* Taking a request out of the buffer leaves a buffer. *)
LEMMA DropTyped ==
  ASSUME TypeOK, NEW n, DropBuffered(n)
  PROVE  buffer' \in Seq(Message)
<1>1. CASE UNCHANGED buffer
  BY <1>1 DEF TypeOK
<1>2. CASE \E i \in BufferedAt(n) : buffer' = RemoveAt(buffer, i)
  <2>1. PICK i \in BufferedAt(n) : buffer' = RemoveAt(buffer, i)
    BY <1>2
  <2>2. i \in 1..Len(buffer) /\ Len(buffer) \in Nat
    BY <2>1, LenProperties DEF BufferedAt, TypeOK
  <2>3. \A j \in 1..Len(buffer) : buffer[j] \in Message
    BY ElementOfSeq DEF TypeOK
  <2>4. SubSeq(buffer, 1, i - 1) \in Seq(Message)
    BY <2>2, <2>3, SubSeqProperties
  <2>5. SubSeq(buffer, i + 1, Len(buffer)) \in Seq(Message)
    BY <2>2, <2>3, SubSeqProperties
  <2> QED BY <2>1, <2>4, <2>5, ConcatProperties DEF RemoveAt
<1> QED BY <1>1, <1>2 DEF DropBuffered

(* Whatever is asked of the scheduler, its variables keep their ranges. *)
LEMMA SchedulerTyped ==
  ASSUME Scheduler!SchedulerTypeOK,
         \/ Scheduler!SchedulerNext
         \/ UNCHANGED schedulerVars
  PROVE  Scheduler!SchedulerTypeOK'
<1> USE ManagedServerAssumption DEF Scheduler!SchedulerTypeOK
<1>1. CASE UNCHANGED schedulerVars
  BY <1>1 DEF schedulerVars
<1>2. ASSUME NEW cb \in Starting, Scheduler!ScheduleGranted(cb) \/ Scheduler!RetryFires(cb)
      PROVE  Scheduler!SchedulerTypeOK'
  <2>1. unnamed' \in SUBSET Starting
    BY <1>2 DEF Scheduler!ScheduleGranted, Scheduler!RetryFires
  <2>2. attempt' \in 0..MaxRetries
    BY <1>2 DEF Scheduler!ScheduleGranted, Scheduler!RetryFires
  <2>3. retryTimer' \in Starting \cup {"none"}
    BY <1>2 DEF Scheduler!ScheduleGranted, Scheduler!RetryFires
  <2>4. refundTimer' \in BOOLEAN
    BY <1>2 DEF Scheduler!ScheduleGranted, Scheduler!RetryFires
  <2> QED BY <2>1, <2>2, <2>3, <2>4
<1>3. ASSUME NEW cb \in Starting, Scheduler!RetryRescheduled(cb) \/ Scheduler!RetryRefused(cb)
      PROVE  Scheduler!SchedulerTypeOK'
  <2>1. unnamed' \in SUBSET Starting
    BY <1>3 DEF Scheduler!RetryRescheduled, Scheduler!RetryRefused
  <2>2. attempt' \in 0..MaxRetries
    BY <1>3 DEF Scheduler!RetryRescheduled, Scheduler!RetryRefused
  <2>3. retryTimer' \in Starting \cup {"none"}
    BY <1>3 DEF Scheduler!RetryRescheduled, Scheduler!RetryRefused
  <2>4. refundTimer' \in BOOLEAN
    BY <1>3 DEF Scheduler!RetryRescheduled, Scheduler!RetryRefused
  <2> QED BY <2>1, <2>2, <2>3, <2>4
<1>4. CASE Scheduler!ScheduleRefused \/ Scheduler!MarkStarted \/ Scheduler!Cancel
  BY <1>4 DEF Scheduler!ScheduleRefused, Scheduler!MarkStarted, Scheduler!Cancel
<1>5. CASE Scheduler!RefundFires
  BY <1>5 DEF Scheduler!RefundFires
<1> QED BY <1>1, <1>2, <1>3, <1>4, <1>5 DEF Scheduler!SchedulerNext

(* A log entry for a child, and a log of one. *)
LEMMA EntryTyped ==
  ASSUME NEW c \in Nat, NEW n \in Nat,
         NEW kind \in {"initialize", "initialized", "replay", "shutdown", "exit"} \cup Kinds
  PROVE  To(c, kind, n) \in Entry /\ <<To(c, kind, n)>> \in Seq(Entry)
BY DEF To, Entry

(* The ids of internal requests, and what rejecting them leaves behind. *)
LEMMA CallsTyped ==
  /\ \A c \in Nat, e \in Starting : InitCall(c, e) \in Call
  /\ \A i \in Nat : ShutdownCall(i) \in Call
  /\ \A n \in Ids : SendCall(n) \in Call
BY ManagedServerAssumption DEF InitCall, ShutdownCall, SendCall, Call, Ids

LEMMA RejectedTyped ==
  ASSUME NEW calls \in SUBSET Call
  PROVE  Rejected(calls) \in SUBSET Settled
<1>1. \A k \in calls : [call |-> k, ok |-> FALSE] \in Settled
  BY DEF Settled
<1> QED BY <1>1 DEF Rejected

LEMMA StopTyped ==
  ASSUME TypeOK, NEW messages, NEW calls \in SUBSET Call, NEW also, NEW done,
         StopAndErrorBuffered(messages, calls, also, done)
  PROVE  /\ state' \in States /\ buffer' \in Seq(Message)
         /\ callbacks' \in SUBSET Call /\ settled' \in SUBSET Settled
         /\ answers' \in [Ids -> Nat]
<1>1. answers' \in [Ids -> Nat]
  BY AnswerTyped DEF StopAndErrorBuffered
<1>2. settled' \in SUBSET Settled
  BY RejectedTyped DEF StopAndErrorBuffered, TypeOK
<1>3. buffer' \in Seq(Message)
  BY EmptySeq DEF StopAndErrorBuffered
<1> QED BY <1>1, <1>2, <1>3 DEF StopAndErrorBuffered, States

LEMMA ScheduleRetryTyped ==
  ASSUME TypeOK, NEW expected \in Starting, NEW messages \in Seq(Message),
         NEW calls \in SUBSET Call, NEW done,
         ScheduleRetry(expected, messages, calls, done)
  PROVE  /\ Scheduler!SchedulerTypeOK' /\ state' \in States /\ buffer' \in Seq(Message)
         /\ callbacks' \in SUBSET Call /\ settled' \in SUBSET Settled
         /\ answers' \in [Ids -> Nat]
<1>1. CASE /\ Scheduler!ScheduleGranted(expected)
            /\ state' = expected /\ buffer' = messages
            /\ callbacks' = calls /\ settled' = settled \ done
            /\ UNCHANGED answers
  <2>1. Scheduler!SchedulerTypeOK'
    BY <1>1, SchedulerTyped DEF TypeOK, Scheduler!SchedulerNext
  <2> QED BY <2>1, <1>1 DEF TypeOK, States, Starting
<1>2. CASE /\ Scheduler!ScheduleRefused
            /\ StopAndErrorBuffered(messages, calls, {}, done)
  <2>1. Scheduler!SchedulerTypeOK'
    BY <1>2, SchedulerTyped DEF TypeOK, Scheduler!SchedulerNext
  <2> QED BY <2>1, <1>2, StopTyped
<1> QED BY <1>1, <1>2 DEF ScheduleRetry

-----------------------------------------------------------------------------
(* Type correctness, one action at a time. *)

LEMMA TypeInit == Init => TypeOK
<1> SUFFICES ASSUME Init PROVE TypeOK
  OBVIOUS
<1>1. Scheduler!SchedulerTypeOK
  <2>1. attempt \in 0..MaxRetries
    BY ManagedServerAssumption DEF Init, Scheduler!SchedulerInit
  <2>2. retryTimer = "none" /\ unnamed = {} /\ refundTimer \in BOOLEAN
    BY DEF Init, Scheduler!SchedulerInit
  <2> QED BY <2>1, <2>2 DEF Scheduler!SchedulerTypeOK
<1>2. buffer \in Seq(Message) /\ wrote \in Seq(Entry) /\ arrived \in Seq(Kinds)
  BY EmptySeq DEF Init
<1>3. answers \in [Ids -> Nat] /\ documents \in 0..MaxMessages /\ crashes \in 0..MaxCrashes
  BY ManagedServerAssumption DEF Init
<1> QED BY <1>1, <1>2, <1>3 DEF Init, TypeOK, States

LEMMA SchedulerUnchanged ==
  ASSUME TypeOK, UNCHANGED schedulerVars
  PROVE  Scheduler!SchedulerTypeOK'
BY SchedulerTyped DEF TypeOK

LEMMA SchedulerStep ==
  ASSUME TypeOK,
         \/ \E cb \in Starting : Scheduler!ScheduleGranted(cb)
         \/ Scheduler!ScheduleRefused \/ Scheduler!MarkStarted \/ Scheduler!Cancel
         \/ Scheduler!RefundFires
  PROVE  Scheduler!SchedulerTypeOK'
BY SchedulerTyped DEF TypeOK, Scheduler!SchedulerNext

(* What send() has in common, whatever the state. *)
LEMMA ArrivesTyped ==
  ASSUME TypeOK, NEW kind \in Kinds, NEW n \in Ids, Arrives(kind, n)
  PROVE  /\ arrived' \in Seq(Kinds) /\ documents' \in 0..MaxMessages
         /\ UNCHANGED <<flagVars, shutdowns, crashes>>
         /\ CallsWith(kind, n) \in SUBSET Call
<1>1. arrived' \in Seq(Kinds)
  BY AppendProperties DEF TypeOK, Arrives
<1>2. documents' \in 0..MaxMessages
  BY ManagedServerAssumption DEF TypeOK, Arrives, Ids
<1>3. CallsWith(kind, n) \in SUBSET Call
  BY CallsTyped DEF CallsWith, TypeOK
<1> QED BY <1>1, <1>2, <1>3 DEF Arrives

LEMMA RefuseTyped ==
  ASSUME TypeOK, NEW kind \in Kinds, NEW n \in Ids, Refuse(kind, n)
  PROVE  /\ answers' \in [Ids -> Nat] /\ settled' \in SUBSET Settled
         /\ buffer' = buffer /\ callbacks' = callbacks
<1>1. answers' \in [Ids -> Nat]
  BY AnswerTyped DEF Refuse
<1>2. Rejected({SendCall(n)}) \in SUBSET Settled
  BY RejectedTyped, CallsTyped
<1> QED BY <1>1, <1>2 DEF Refuse, TypeOK

LEMMA SendTyped ==
  ASSUME TypeOK, NEW kind \in Kinds, NEW n \in Ids, Send(kind, n)
  PROVE  TypeOK'
<1>0. n \in Nat
  BY ManagedServerAssumption DEF Ids
<1>1. CASE SendRunning(kind, n)
  <2>1. Arrives(kind, n) /\ UNCHANGED <<state, server, buffer, settled, schedulerVars, processVars, answers>>
    BY <1>1 DEF SendRunning
  <2>2. wrote' \in Seq(Entry) /\ owed' \in SUBSET Entry
    BY <1>0, <1>1, WriteTyped, EntryTyped DEF SendRunning, TypeOK
  <2>3. callbacks' \in SUBSET Call /\ pendingRequests' \in SUBSET Ids
    BY <1>1, <2>1, ArrivesTyped DEF SendRunning, TypeOK
  <2> QED BY <2>1, <2>2, <2>3, ArrivesTyped, SchedulerUnchanged
          DEF TypeOK, flagVars, processVars
<1>2. CASE SendBuffered(kind, n)
  <2>1. Arrives(kind, n) /\ UNCHANGED <<state, server, pendingRequests, schedulerVars, processVars, wrote, owed>>
    BY <1>2 DEF SendBuffered
  <2>2. /\ buffer' \in Seq(Message) /\ callbacks' \in SUBSET Call
        /\ settled' \in SUBSET Settled /\ answers' \in [Ids -> Nat]
    <3>1. CASE kind = "sync"
      BY <1>2, <3>1 DEF SendBuffered, TypeOK
    <3>2. CASE kind # "sync" /\ Len(buffer) < MaxBuffer
      <4>1. [kind |-> kind, n |-> n] \in Message
        BY <3>2 DEF Message
      <4>2. /\ buffer' = Append(buffer, [kind |-> kind, n |-> n])
            /\ callbacks' = CallsWith(kind, n) /\ UNCHANGED <<settled, answers>>
        BY <1>2, <3>2 DEF SendBuffered
      <4> QED BY <2>1, <4>1, <4>2, AppendProperties, ArrivesTyped DEF TypeOK
    <3>3. CASE kind # "sync" /\ ~(Len(buffer) < MaxBuffer)
      <4>1. Refuse(kind, n)
        BY <1>2, <3>3 DEF SendBuffered
      <4> QED BY <4>1, RefuseTyped DEF TypeOK
    <3> QED BY <3>1, <3>2, <3>3
  <2> QED BY <2>1, <2>2, ArrivesTyped, SchedulerUnchanged DEF TypeOK, flagVars, processVars
<1>3. CASE SendLazily(kind, n)
  <2> DEFINE held == IF kind = "sync" THEN buffer ELSE Append(buffer, [kind |-> kind, n |-> n])
  <2>1. Arrives(kind, n) /\ UNCHANGED pendingRequests
    BY <1>3 DEF SendLazily
  <2>2. held \in Seq(Message)
    <3>1. kind # "sync" => [kind |-> kind, n |-> n] \in Message
      BY DEF Message
    <3> QED BY <3>1, AppendProperties DEF TypeOK
  <2>3. CallsWith(kind, n) \in SUBSET Call
    BY <2>1, ArrivesTyped
  <2>4. CASE /\ SpawnAndInitialize("starting", CallsWith(kind, n))
              /\ state' = "starting" /\ buffer' = held
              /\ UNCHANGED schedulerVars
    <3>1. spawned + 1 \in Nat /\ InitCall(spawned + 1, "starting") \in Call
      BY CallsTyped DEF TypeOK, Starting
    <3>2. wrote' \in Seq(Entry)
      BY <2>4, <3>1, EntryTyped, AppendProperties DEF SpawnAndInitialize, TypeOK
    <3> QED BY <2>1, <2>2, <2>3, <2>4, <3>1, <3>2, ArrivesTyped, SchedulerUnchanged
            DEF SpawnAndInitialize, TypeOK, flagVars, States
  <2>5. CASE SpawnThrows /\ ScheduleRetry("starting", held, CallsWith(kind, n), {})
    <3>1. "starting" \in Starting
      BY DEF Starting
    <3>2. attached' \in SUBSET Nat /\ owed' \in SUBSET Entry
      BY <2>5, DisposeTyped DEF SpawnThrows
    <3> HIDE DEF held
    <3>3. /\ Scheduler!SchedulerTypeOK' /\ state' \in States /\ buffer' \in Seq(Message)
          /\ callbacks' \in SUBSET Call /\ settled' \in SUBSET Settled
          /\ answers' \in [Ids -> Nat]
      BY <2>2, <2>3, <2>5, <3>1, ScheduleRetryTyped
    <3> QED BY <2>1, <2>5, <3>2, <3>3, ArrivesTyped DEF SpawnThrows, TypeOK, flagVars
  <2> QED BY <1>3, <2>4, <2>5 DEF SendLazily
<1>4. CASE SendRefused(kind, n)
  <2>1. /\ Arrives(kind, n) /\ Refuse(kind, n)
        /\ UNCHANGED <<state, server, pendingRequests, schedulerVars, processVars, wrote, owed>>
    BY <1>4 DEF SendRefused
  <2> QED BY <2>1, ArrivesTyped, RefuseTyped, SchedulerUnchanged DEF TypeOK, flagVars, processVars
<1> QED BY <1>1, <1>2, <1>3, <1>4 DEF Send

(* An exit event, whatever comes of it. *)
LEMMA ExitTyped ==
  ASSUME TypeOK, NEW c \in attached, ServerExit(c)
  PROVE  TypeOK'
<1> USE DEF flagVars, clientVars
<1>1. ASSUME ExitEvent(c)
      PROVE  UNCHANGED <<flagVars, spawned, stopping, shutdowns, clientVars, wrote>>
  BY <1>1 DEF ExitEvent
<1>2. ASSUME ExitLive(c)
      PROVE  /\ attached' \in SUBSET Nat /\ owed' \in SUBSET Entry /\ server' \in Nat
             /\ pendingRequests' \in SUBSET Ids
             /\ UNCHANGED <<flagVars, spawned, stopping, shutdowns, clientVars, wrote>>
  BY <1>1, <1>2, DisposeTyped DEF ExitLive
<1>3. callbacks \in SUBSET Call
  BY DEF TypeOK
<1>4. CASE ExitStopped(c)
  <2>1. ExitEvent(c) /\ Dispose({c})
    BY <1>4 DEF ExitStopped
  <2>2. Scheduler!SchedulerTypeOK'
    BY <1>4, SchedulerUnchanged DEF ExitStopped
  <2> QED BY <1>1, <1>4, <2>1, <2>2, DisposeTyped DEF ExitStopped, TypeOK
<1>5. CASE ExitBeforeHandshake(c)
  <2>1. ExitLive(c) /\ Scheduler!Cancel /\ UNCHANGED crashes
        /\ StopAndErrorBuffered(buffer, callbacks, pendingRequests, {})
    BY <1>5 DEF ExitBeforeHandshake
  <2>2. Scheduler!SchedulerTypeOK'
    BY <2>1, SchedulerStep
  <2> QED BY <1>2, <1>3, <2>1, <2>2, StopTyped DEF TypeOK
<1>6. CASE ExitAfterShutdown(c)
  <2>1. ExitLive(c) /\ Scheduler!Cancel /\ state' = "stopped" /\ Answer(pendingRequests)
        /\ callbacks' = {} /\ settled' = settled \cup Rejected(callbacks)
        /\ UNCHANGED <<buffer, crashes>>
    BY <1>6 DEF ExitAfterShutdown
  <2>2. Scheduler!SchedulerTypeOK'
    BY <2>1, SchedulerStep
  <2>3. settled' \in SUBSET Settled /\ answers' \in [Ids -> Nat]
    BY <1>3, <2>1, RejectedTyped, AnswerTyped DEF TypeOK
  <2> QED BY <1>2, <2>1, <2>2, <2>3 DEF TypeOK, States
<1>7. CASE ExitWhileStarting(c)
  <2>1. ExitLive(c) /\ Answer(pendingRequests)
        /\ callbacks' = {} /\ settled' = settled \cup Rejected(callbacks)
        /\ UNCHANGED <<state, buffer, schedulerVars, crashes>>
    BY <1>7 DEF ExitWhileStarting
  <2>2. Scheduler!SchedulerTypeOK'
    BY <2>1, SchedulerUnchanged
  <2>3. settled' \in SUBSET Settled /\ answers' \in [Ids -> Nat]
    BY <1>3, <2>1, RejectedTyped, AnswerTyped DEF TypeOK
  <2> QED BY <1>2, <2>1, <2>2, <2>3 DEF TypeOK
<1>8. CASE ExitRunning(c)
  <2>1. ExitLive(c)
    BY <1>8 DEF ExitRunning
  <2>2. crashes' \in 0..MaxCrashes
    BY <1>8, ManagedServerAssumption DEF ExitRunning, TypeOK
  <2>3. CASE /\ Scheduler!ScheduleGranted("restarting") /\ state' = "restarting"
              /\ callbacks' = {} /\ settled' = settled \cup Rejected(callbacks)
              /\ Answer(pendingRequests) /\ UNCHANGED buffer
    <3>1. Scheduler!SchedulerTypeOK'
      BY <2>3, SchedulerStep DEF Starting
    <3>2. settled' \in SUBSET Settled /\ answers' \in [Ids -> Nat]
      BY <1>3, <2>3, RejectedTyped, AnswerTyped DEF TypeOK
    <3> QED BY <1>2, <2>1, <2>2, <2>3, <3>1, <3>2 DEF TypeOK, States
  <2>4. CASE /\ Scheduler!ScheduleRefused
              /\ StopAndErrorBuffered(buffer, callbacks, pendingRequests, {})
    <3>1. Scheduler!SchedulerTypeOK'
      BY <2>4, SchedulerStep
    <3> QED BY <1>2, <1>3, <2>1, <2>2, <2>4, <3>1, StopTyped DEF TypeOK
  <2> QED BY <1>8, <2>3, <2>4 DEF ExitRunning
<1> QED BY <1>4, <1>5, <1>6, <1>7, <1>8 DEF ServerExit

(* Continuations. *)
LEMMA ResumeTyped ==
  ASSUME TypeOK, NEW s \in settled,
         \/ ResumeInitSuperseded(s) \/ ResumeInitFailed(s) \/ ResumeInitOk(s)
         \/ ResumeSendRequest(s) \/ ResumeShutdown(s)
  PROVE  TypeOK'
<1> USE DEF flagVars, clientVars, processVars
<1>1. s.call \in Call /\ s.call.n \in Nat
  BY DEF TypeOK, Settled, Call
<1>0. s.call.of = "initialize" => s.call.expects \in Starting
  BY <1>1 DEF Call
<1>2. callbacks \in SUBSET Call /\ buffer \in Seq(Message) /\ state \in States
  BY DEF TypeOK
<1>3. settled \ {s} \in SUBSET Settled
  BY DEF TypeOK
<1>4. CASE ResumeInitSuperseded(s)
  <2>1. UNCHANGED <<server, flagVars, pendingRequests, processVars, shutdowns, crashes,
                    clientVars, wrote, owed>>
    BY <1>4 DEF ResumeInitSuperseded
  <2>2. CASE ScheduleRetry(state, buffer, callbacks, {s}) /\ state \in Starting
    BY <1>2, <2>1, <2>2, ScheduleRetryTyped DEF TypeOK
  <2>3. CASE settled' = settled \ {s} /\ UNCHANGED <<state, buffer, callbacks, answers, schedulerVars>>
    BY <1>3, <2>1, <2>3, SchedulerUnchanged DEF TypeOK
  <2> QED BY <1>0, <1>4, <2>2, <2>3 DEF ResumeInitSuperseded, Resumes
<1>5. CASE ResumeInitFailed(s)
  <2>1. /\ Dispose({s.call.n}) /\ server' = 0
        /\ ScheduleRetry(state, buffer, callbacks, {s})
        /\ UNCHANGED <<flagVars, pendingRequests, spawned, stopping, shutdowns, crashes,
                       clientVars, wrote>>
    BY <1>5 DEF ResumeInitFailed
  <2>2. state \in Starting
    BY <1>0, <1>5 DEF ResumeInitFailed, Resumes, Superseded
  <2>3. attached' \in SUBSET Nat /\ owed' \in SUBSET Entry
    BY <2>1, DisposeTyped
  <2>4. /\ Scheduler!SchedulerTypeOK' /\ state' \in States /\ buffer' \in Seq(Message)
        /\ callbacks' \in SUBSET Call /\ settled' \in SUBSET Settled
        /\ answers' \in [Ids -> Nat]
    BY <1>2, <2>1, <2>2, ScheduleRetryTyped
  <2> QED BY <2>1, <2>3, <2>4 DEF TypeOK
<1>6. CASE ResumeInitOk(s)
  <2> DEFINE c == s.call.n
  <2>1. /\ Write(c, <<To(c, "initialized", 0)>> \o Replay(c) \o ForwardTo(c, buffer))
        /\ pendingRequests' = pendingRequests \cup ClientRequestsIn(buffer)
        /\ Scheduler!MarkStarted /\ isEverInitialized' = TRUE
        /\ buffer' = <<>> /\ state' = "running" /\ settled' = settled \ {s}
        /\ UNCHANGED <<server, initParams, isShutdownSent, isLazyStartEnabled, callbacks,
                       processVars, shutdowns, crashes, clientVars, answers>>
    BY <1>6 DEF ResumeInitOk
  <2>2. <<To(c, "initialized", 0)>> \in Seq(Entry)
    BY <1>1, EntryTyped
  <2>3. Replay(c) \in Seq(Entry)
    <3>1. documents \in Nat
      BY ManagedServerAssumption DEF TypeOK
    <3> QED BY <1>1, <3>1, EntryTyped, EmptySeq DEF Replay
  <2>4. ForwardTo(c, buffer) \in Seq(Entry)
    BY <1>1, <1>2, ForwardTyped
  <2>5. <<To(c, "initialized", 0)>> \o Replay(c) \o ForwardTo(c, buffer) \in Seq(Entry)
    BY <2>2, <2>3, <2>4, ConcatProperties
  <2>6. wrote' \in Seq(Entry) /\ owed' \in SUBSET Entry
    BY <2>1, <2>5, WriteTyped
  <2>7. pendingRequests' \in SUBSET Ids
    BY <1>2, <2>1, ClientRequestsTyped DEF TypeOK
  <2>8. Scheduler!SchedulerTypeOK' /\ buffer' \in Seq(Message)
    BY <2>1, SchedulerStep, EmptySeq
  <2> QED BY <1>3, <2>1, <2>6, <2>7, <2>8 DEF TypeOK, States
<1>7. CASE ResumeSendRequest(s)
  <2>1. buffer' \in Seq(Message)
    BY <1>2, <1>7, DropTyped DEF ResumeSendRequest
  <2>2. Scheduler!SchedulerTypeOK'
    BY <1>7, SchedulerUnchanged DEF ResumeSendRequest
  <2> QED BY <1>3, <1>7, <2>1, <2>2 DEF ResumeSendRequest, TypeOK
<1>8. CASE ResumeShutdown(s)
  <2>1. Scheduler!SchedulerTypeOK'
    BY <1>8, SchedulerUnchanged DEF ResumeShutdown
  <2> QED BY <1>3, <1>8, <2>1 DEF ResumeShutdown, TypeOK
<1> QED BY <1>4, <1>5, <1>6, <1>7, <1>8

(* The retry timer. *)
LEMMA RetryTyped ==
  ASSUME TypeOK, NEW expected \in Starting, RetryFires(expected)
  PROVE  TypeOK'
<1> USE DEF flagVars, clientVars, processVars
<1>1. UNCHANGED <<flagVars, pendingRequests, shutdowns, crashes, clientVars>>
  BY DEF RetryFires
<1>2. CASE /\ Scheduler!RetryFires(expected)
            /\ UNCHANGED <<state, server, buffer, callbacks, settled, processVars, wrote, owed,
                           answers>>
  <2>1. Scheduler!SchedulerTypeOK'
    BY <1>2, SchedulerTyped DEF TypeOK, Scheduler!SchedulerNext
  <2> QED BY <1>1, <1>2, <2>1 DEF TypeOK
<1>3. CASE /\ Scheduler!RetryFires(expected)
            /\ SpawnAndInitialize(expected, callbacks)
            /\ UNCHANGED <<state, buffer>>
  <2>1. Scheduler!SchedulerTypeOK'
    BY <1>3, SchedulerTyped DEF TypeOK, Scheduler!SchedulerNext
  <2>2. spawned + 1 \in Nat /\ InitCall(spawned + 1, expected) \in Call
    BY CallsTyped DEF TypeOK
  <2>3. wrote' \in Seq(Entry)
    BY <1>3, <2>2, EntryTyped, AppendProperties DEF SpawnAndInitialize, TypeOK
  <2> QED BY <1>1, <1>3, <2>1, <2>2, <2>3 DEF SpawnAndInitialize, TypeOK
<1>4. CASE /\ SpawnThrows /\ Scheduler!RetryRescheduled(expected)
            /\ UNCHANGED <<state, buffer, callbacks, settled, answers>>
  <2>1. Scheduler!SchedulerTypeOK'
    BY <1>4, SchedulerTyped DEF TypeOK, Scheduler!SchedulerNext
  <2>2. attached' \in SUBSET Nat /\ owed' \in SUBSET Entry
    BY <1>4, DisposeTyped DEF SpawnThrows
  <2> QED BY <1>1, <1>4, <2>1, <2>2 DEF SpawnThrows, TypeOK
<1>5. CASE /\ SpawnThrows /\ Scheduler!RetryRefused(expected)
            /\ StopAndErrorBuffered(buffer, callbacks, {}, {})
  <2>1. Scheduler!SchedulerTypeOK'
    BY <1>5, SchedulerTyped DEF TypeOK, Scheduler!SchedulerNext
  <2>2. attached' \in SUBSET Nat /\ owed' \in SUBSET Entry
    BY <1>5, DisposeTyped DEF SpawnThrows
  <2>3. callbacks \in SUBSET Call
    BY DEF TypeOK
  <2> QED BY <1>1, <1>5, <2>1, <2>2, <2>3, StopTyped DEF SpawnThrows, TypeOK
<1> QED BY <1>2, <1>3, <1>4, <1>5 DEF RetryFires

(* Every step keeps the types. *)
LEMMA TypeStep == TypeOK /\ [Next]_vars => TypeOK'
<1> SUFFICES ASSUME TypeOK, [Next]_vars PROVE TypeOK'
  OBVIOUS
<1> USE DEF flagVars, clientVars, processVars
<1>0. callbacks \in SUBSET Call
  BY DEF TypeOK
<1>1. CASE SetInitParams \/ SendInitialized
  <2>1. Scheduler!SchedulerTypeOK'
    BY <1>1, SchedulerUnchanged DEF SetInitParams, SendInitialized
  <2> QED BY <1>1, <2>1 DEF SetInitParams, SendInitialized, TypeOK
<1>2. ASSUME NEW kind \in Kinds, NEW n \in Ids, Send(kind, n) PROVE TypeOK'
  BY <1>2, SendTyped
<1>3. ASSUME NEW n \in Ids, CancelBuffered(n) PROVE TypeOK'
  <2>1. buffer' \in Seq(Message) /\ answers' \in [Ids -> Nat]
    BY <1>3, DropTyped, AnswerTyped DEF CancelBuffered
  <2>2. Scheduler!SchedulerTypeOK'
    BY <1>3, SchedulerUnchanged DEF CancelBuffered
  <2> QED BY <1>3, <2>1, <2>2 DEF CancelBuffered, TypeOK
<1>4. ASSUME NEW c \in attached, ServerExit(c) PROVE TypeOK'
  BY <1>4, ExitTyped
<1>5. ASSUME NEW o \in owed, ReplyToClient(o) PROVE TypeOK'
  <2>1. answers' \in [Ids -> Nat]
    BY <1>5, AnswerTyped DEF ReplyToClient
  <2>2. Scheduler!SchedulerTypeOK'
    BY <1>5, SchedulerUnchanged DEF ReplyToClient
  <2> QED BY <1>5, <2>1, <2>2 DEF ReplyToClient, TypeOK
<1>17. ASSUME NEW o \in owed, LateReply(o) PROVE TypeOK'
  <2>1. Scheduler!SchedulerTypeOK'
    BY <1>17, SchedulerUnchanged DEF LateReply
  <2> QED BY <1>17, <2>1 DEF LateReply, TypeOK
<1>6. ASSUME NEW k \in callbacks, NEW ok \in BOOLEAN, ReplyToCall(k, ok) PROVE TypeOK'
  <2>1. [call |-> k, ok |-> ok] \in Settled
    BY <1>0, <1>6 DEF Settled
  <2>2. Scheduler!SchedulerTypeOK'
    BY <1>6, SchedulerUnchanged DEF ReplyToCall
  <2>3. owed' \in SUBSET Entry
    BY <1>6 DEF ReplyToCall, TypeOK
  <2> QED BY <1>6, <2>1, <2>2, <2>3 DEF ReplyToCall, TypeOK
<1>7. ASSUME NEW k \in callbacks, CallTimesOut(k) PROVE TypeOK'
  <2>1. Rejected({k}) \in SUBSET Settled
    BY <1>0, RejectedTyped
  <2>2. Scheduler!SchedulerTypeOK'
    BY <1>7, SchedulerUnchanged DEF CallTimesOut
  <2> QED BY <1>7, <2>1, <2>2 DEF CallTimesOut, TypeOK
<1>8. CASE Resume
  BY <1>8, ResumeTyped DEF Resume
<1>9. ASSUME NEW expected \in Starting, RetryFires(expected) PROVE TypeOK'
  BY <1>9, RetryTyped
<1>10. CASE RefundFires
  <2>1. Scheduler!SchedulerTypeOK'
    BY <1>10, SchedulerStep DEF RefundFires
  <2> QED BY <1>10, <2>1 DEF RefundFires, TypeOK
<1>11. CASE ShutdownStarting
  <2>1. Scheduler!SchedulerTypeOK'
    BY <1>11, SchedulerStep DEF ShutdownStarting
  <2>2. settled' \in SUBSET Settled
    BY <1>0, <1>11, RejectedTyped DEF ShutdownStarting, TypeOK
  <2>3. attached' \in SUBSET Nat /\ owed' \in SUBSET Entry
    BY <1>11, DisposeTyped DEF ShutdownStarting
  <2> QED BY <1>11, <2>1, <2>2, <2>3 DEF ShutdownStarting, ShutdownAsked, TypeOK, States
<1>12. CASE ShutdownStopped
  <2>1. Scheduler!SchedulerTypeOK'
    BY <1>12, SchedulerUnchanged DEF ShutdownStopped
  <2> QED BY <1>12, <2>1 DEF ShutdownStopped, ShutdownAsked, TypeOK
<1>13. CASE ShutdownRunning
  <2>1. Scheduler!SchedulerTypeOK'
    BY <1>13, SchedulerUnchanged DEF ShutdownRunning
  <2>2. wrote' \in Seq(Entry) /\ owed' \in SUBSET Entry
    BY <1>13, EntryTyped, WriteTyped DEF ShutdownRunning, TypeOK
  <2>3. callbacks' \in SUBSET Call
    BY <1>0, <1>13, CallsTyped DEF ShutdownRunning, TypeOK
  <2> QED BY <1>13, <2>1, <2>2, <2>3 DEF ShutdownRunning, ShutdownAsked, TypeOK
<1>14. CASE Stop
  <2>1. Scheduler!SchedulerTypeOK'
    BY <1>14, SchedulerStep DEF Stop
  <2>2. settled' \in SUBSET Settled
    BY <1>0, <1>14, RejectedTyped DEF Stop, TypeOK
  <2>3. wrote' \in Seq(Entry) /\ owed' \in SUBSET Entry
    BY <1>14, EntryTyped, WriteTyped DEF Stop, TypeOK
  <2> QED BY <1>14, <2>1, <2>2, <2>3 DEF Stop, TypeOK, States
<1>15. CASE StopEnds
  <2>1. Scheduler!SchedulerTypeOK'
    BY <1>15, SchedulerUnchanged DEF StopEnds
  <2>2. attached' \in SUBSET Nat /\ owed' \in SUBSET Entry
    BY <1>15, DisposeTyped DEF StopEnds
  <2> QED BY <1>15, <2>1, <2>2 DEF StopEnds, TypeOK
<1>16. CASE UNCHANGED vars
  <2>1. Scheduler!SchedulerTypeOK'
    BY <1>16, SchedulerUnchanged DEF vars
  <2> QED BY <1>16, <2>1 DEF vars, TypeOK
<1> QED BY <1>1, <1>2, <1>3, <1>4, <1>5, <1>6, <1>7, <1>8, <1>9, <1>10, <1>11, <1>12, <1>13,
           <1>14, <1>15, <1>16, <1>17 DEF Next, Shutdown

(* Every variable of a managed server keeps its range: the buffer only ever
   holds messages, in-flight requests are requests the client made, and every
   settled call was one of the proxy's. *)
THEOREM ManagedServerTypeCorrect == Spec => []TypeOK
BY TypeInit, TypeStep, PTL DEF Spec

-----------------------------------------------------------------------------
(* Processes, timers and handshakes. *)

(* Handshakes that were answered, rejected or timed out, and whose sequence
   has not resumed. *)
SettledHandshakes == {s \in settled : s.call.of = "initialize"}

(* What moves a start on, continuations included: an armed retry, a handshake
   that was lost and will reschedule, one that is under way, or one that is
   over. Exactly one of them while (re)starting; afterwards, only remains of
   a start that a stop overtook. *)
WaitingForRetry ==
  /\ server = 0 /\ retryTimer = state
  /\ Handshakes = {} /\ SettledHandshakes = {}
LostChild ==
  /\ server = 0 /\ retryTimer = "none" /\ Handshakes = {}
  /\ \E s \in settled : /\ SettledHandshakes = {s}
                        /\ s.call.expects = state /\ s.call.n # 0
ShakingHands ==
  /\ server # 0 /\ retryTimer = "none"
  /\ Handshakes = {InitCall(server, state)} /\ SettledHandshakes = {}
HandsShaken ==
  /\ server # 0 /\ retryTimer = "none" /\ Handshakes = {}
  /\ \E s \in settled : SettledHandshakes = {s} /\ s.call = InitCall(server, state)

StartInv ==
  /\ unnamed = {}
  /\ state \in Starting => WaitingForRetry \/ LostChild \/ ShakingHands \/ HandsShaken
  /\ state \notin Starting => retryTimer = "none" /\ Handshakes = {}
  /\ state \notin Starting \cup {"stopped"} => SettledHandshakes = {}

ChildInv ==
  /\ attached \subseteq {server, stopping} \ {0}
  /\ server # 0 => server \in attached
  /\ stopping # 0 => state = "stopped"
  /\ state = "running" => server # 0
  /\ state \in {"idle", "stopped"} => server = 0
  /\ pendingRequests # {} => state \in {"running", "stopped"}
  /\ refundTimer => state = "running"

ServerInv == TypeOK /\ ChildInv /\ StartInv

(* Rejecting everything settles exactly the handshakes that were under way. *)
LEMMA RejectedHandshakes ==
  ASSUME NEW calls
  PROVE  {s \in Rejected(calls) : s.call.of = "initialize"}
           = Rejected({k \in calls : k.of = "initialize"})
BY DEF Rejected

LEMMA RejectAllHandshakes ==
  ASSUME NEW done, callbacks' = {}, settled' = (settled \ done) \cup Rejected(callbacks)
  PROVE  /\ Handshakes' = {}
         /\ SettledHandshakes' = (SettledHandshakes \ done) \cup Rejected(Handshakes)
<1>1. SettledHandshakes' = {s \in settled \ done : s.call.of = "initialize"}
                             \cup {s \in Rejected(callbacks) : s.call.of = "initialize"}
  BY DEF SettledHandshakes
<1>2. {s \in settled \ done : s.call.of = "initialize"} = SettledHandshakes \ done
  BY DEF SettledHandshakes
<1>3. {s \in Rejected(callbacks) : s.call.of = "initialize"} = Rejected(Handshakes)
  BY RejectedHandshakes DEF Handshakes
<1> QED BY <1>1, <1>2, <1>3 DEF Handshakes

LEMMA RejectedNone == Rejected({}) = {}
BY DEF Rejected

(* Internal requests other than initialize come and go without the start
   noticing. *)
LEMMA StartUntouched ==
  ASSUME StartInv, UNCHANGED <<state, server, retryTimer, unnamed>>,
         Handshakes' = Handshakes, SettledHandshakes' = SettledHandshakes
  PROVE  StartInv'
<1>1. ASSUME NEW s \in settled, SettledHandshakes = {s} PROVE s \in settled'
  BY <1>1 DEF SettledHandshakes
<1> QED BY <1>1 DEF StartInv, WaitingForRetry, LostChild, ShakingHands, HandsShaken, InitCall

LEMMA SendCallIsNoHandshake ==
  /\ \A n : SendCall(n).of # "initialize"
  /\ \A c : ShutdownCall(c).of # "initialize"
  /\ \A c, e : InitCall(c, e).of = "initialize"
BY DEF SendCall, ShutdownCall, InitCall

(* A server that stops for good, by whatever path, leaves no start behind. *)
LEMMA StartStops ==
  ASSUME StartInv, NEW done, state' = "stopped", callbacks' = {},
         settled' = (settled \ done) \cup Rejected(callbacks),
         retryTimer' = "none", unnamed' = {}
  PROVE  StartInv'
BY RejectAllHandshakes DEF StartInv, Starting

LEMMA CallsWithHandshakes ==
  ASSUME NEW kind, NEW n
  PROVE  {k \in CallsWith(kind, n) : k.of = "initialize"} = Handshakes
BY SendCallIsNoHandshake DEF CallsWith, Handshakes

LEMMA RefuseHandshakes ==
  ASSUME NEW kind, NEW n, Quiet, Refuse(kind, n)
  PROVE  Handshakes' = Handshakes /\ SettledHandshakes' = {} /\ SettledHandshakes = {}
BY SendCallIsNoHandshake DEF Refuse, Rejected, Quiet, Handshakes, SettledHandshakes

(* A retry granted to a server with no child and nothing else under way. *)
LEMMA StartReschedules ==
  ASSUME NEW expected \in Starting, state' = expected, server' = 0,
         retryTimer' = expected, unnamed' = {}, Handshakes' = {}, SettledHandshakes' = {}
  PROVE  StartInv'
BY DEF StartInv, WaitingForRetry

(* The new child is current, its handshake under way. *)
LEMMA StartSpawns ==
  ASSUME TypeOK, NEW expected \in Starting, NEW calls, SpawnAndInitialize(expected, calls),
         {k \in calls : k.of = "initialize"} = {}, SettledHandshakes = {},
         state' = expected, retryTimer' = "none", unnamed' = {}
  PROVE  StartInv' /\ server' # 0 /\ server' \in attached'
<1>1. server' # 0 /\ server' = spawned + 1 /\ server' \in attached'
  BY DEF TypeOK, SpawnAndInitialize
<1>2. Handshakes' = {InitCall(server', state')}
  BY <1>1, SendCallIsNoHandshake DEF SpawnAndInitialize, Handshakes
<1>3. SettledHandshakes' = {}
  BY DEF SpawnAndInitialize, SettledHandshakes
<1> QED BY <1>1, <1>2, <1>3 DEF StartInv, ShakingHands

LEMMA SendKeepsInv ==
  ASSUME ServerInv, NEW kind \in Kinds, NEW n \in Ids, Send(kind, n)
  PROVE  ChildInv' /\ StartInv'
<1> USE DEF ServerInv, processVars, schedulerVars
<1>0. Quiet /\ SettledHandshakes = {}
  BY DEF Send, SendRunning, SendBuffered, SendLazily, SendRefused, Arrives, Quiet,
         SettledHandshakes
<1>1. CASE SendRunning(kind, n)
  <2>1. /\ state = "running" /\ callbacks' = CallsWith(kind, n)
        /\ UNCHANGED <<state, server, settled, schedulerVars, processVars>>
    BY <1>1 DEF SendRunning
  <2>2. Handshakes' = Handshakes /\ SettledHandshakes' = SettledHandshakes
    BY <2>1, CallsWithHandshakes DEF Handshakes, SettledHandshakes
  <2> QED BY <2>1, <2>2, StartUntouched DEF ChildInv
<1>2. CASE SendBuffered(kind, n)
  <2>1. UNCHANGED <<state, server, pendingRequests, schedulerVars, processVars>>
    BY <1>2 DEF SendBuffered
  <2>2. Handshakes' = Handshakes /\ SettledHandshakes' = SettledHandshakes
    <3>1. CASE UNCHANGED <<callbacks, settled>>
      BY <3>1 DEF Handshakes, SettledHandshakes
    <3>2. CASE callbacks' = CallsWith(kind, n) /\ UNCHANGED settled
      BY <3>2, CallsWithHandshakes DEF Handshakes, SettledHandshakes
    <3>3. CASE Refuse(kind, n)
      BY <1>0, <3>3, RefuseHandshakes
    <3> QED BY <1>2, <3>1, <3>2, <3>3 DEF SendBuffered
  <2> QED BY <2>1, <2>2, StartUntouched DEF ChildInv
<1>3. CASE SendLazily(kind, n)
  <2> DEFINE held == IF kind = "sync" THEN buffer ELSE Append(buffer, [kind |-> kind, n |-> n])
  <2>1. /\ state = "idle" /\ UNCHANGED pendingRequests
    BY <1>3 DEF SendLazily, CanStartLazily
  <2>2. /\ server = 0 /\ stopping = 0 /\ attached = {} /\ pendingRequests = {} /\ ~refundTimer
        /\ retryTimer = "none" /\ unnamed = {} /\ Handshakes = {}
    <3>1. server = 0 /\ stopping = 0 /\ pendingRequests = {}
      BY <2>1 DEF ChildInv
    <3>2. attached = {}
      BY <3>1 DEF ChildInv
    <3>3. ~refundTimer
      BY <2>1 DEF ChildInv
    <3>4. retryTimer = "none" /\ unnamed = {} /\ Handshakes = {}
      BY <2>1 DEF StartInv, Starting
    <3> QED BY <3>1, <3>2, <3>3, <3>4
  <2>3. "starting" \in Starting /\ "starting" # "running"
    BY DEF Starting
  <2>4. CASE /\ SpawnAndInitialize("starting", CallsWith(kind, n))
              /\ state' = "starting" /\ UNCHANGED schedulerVars
    <3>1. StartInv' /\ server' # 0 /\ server' \in attached'
      BY <1>0, <2>2, <2>3, <2>4, StartSpawns, CallsWithHandshakes
    <3>2. attached' = {server'} /\ stopping' = 0
      BY <2>2, <2>4 DEF SpawnAndInitialize
    <3> QED BY <2>1, <2>2, <2>4, <3>1, <3>2 DEF ChildInv
  <2>5. CASE SpawnThrows /\ ScheduleRetry("starting", held, CallsWith(kind, n), {})
    <3> HIDE DEF held
    <3>1. server' = 0 /\ stopping' = 0 /\ attached' = {}
      BY <2>2, <2>5 DEF SpawnThrows, Dispose
    <3>2. CASE /\ Scheduler!ScheduleGranted("starting") /\ state' = "starting"
                /\ callbacks' = CallsWith(kind, n) /\ settled' = settled \ {}
      <4>1. Handshakes' = {} /\ SettledHandshakes' = {}
        BY <1>0, <2>2, <3>2, CallsWithHandshakes DEF Handshakes, SettledHandshakes
      <4>2. retryTimer' = "starting" /\ unnamed' = {} /\ refundTimer' = FALSE
        BY <2>2, <3>2 DEF Scheduler!ScheduleGranted
      <4> QED BY <2>1, <2>2, <2>3, <3>1, <3>2, <4>1, <4>2, StartReschedules DEF ChildInv
    <3>3. CASE /\ Scheduler!ScheduleRefused
                /\ StopAndErrorBuffered(held, CallsWith(kind, n), {}, {})
      <4>1. Handshakes' = {} /\ state' = "stopped"
        BY <3>3 DEF StopAndErrorBuffered, Handshakes
      <4>2. retryTimer' = "none" /\ unnamed' = {} /\ refundTimer' = FALSE
        BY <2>2, <3>3 DEF Scheduler!ScheduleRefused
      <4> QED BY <2>1, <2>2, <3>1, <4>1, <4>2 DEF ChildInv, StartInv, Starting
    <3> QED BY <2>5, <3>2, <3>3 DEF ScheduleRetry
  <2> QED BY <1>3, <2>4, <2>5 DEF SendLazily
<1>4. CASE SendRefused(kind, n)
  <2>1. /\ Refuse(kind, n) /\ UNCHANGED <<state, server, pendingRequests, schedulerVars, processVars>>
    BY <1>4 DEF SendRefused
  <2>2. Handshakes' = Handshakes /\ SettledHandshakes' = SettledHandshakes
    BY <1>0, <2>1, RefuseHandshakes
  <2> QED BY <2>1, <2>2, StartUntouched DEF ChildInv
<1> QED BY <1>1, <1>2, <1>3, <1>4 DEF Send

(* The exit of any child still attached. *)
LEMMA ExitKeepsInv ==
  ASSUME ServerInv, NEW c \in attached, ServerExit(c)
  PROVE  ChildInv' /\ StartInv'
<1> USE DEF ServerInv
<1>1. SettledHandshakes = {}
  BY DEF ServerExit, ExitStopped, ExitBeforeHandshake, ExitAfterShutdown, ExitWhileStarting,
         ExitRunning, ExitLive, ExitEvent, Quiet, SettledHandshakes
<1>2. ASSUME ExitLive(c)
      PROVE  /\ stopping = 0 /\ stopping' = 0 /\ state # "stopped" /\ c = server /\ server # 0
             /\ server' = 0 /\ attached' = {} /\ pendingRequests' = {}
  <2>1. /\ state # "stopped" /\ server' = 0 /\ pendingRequests' = {} /\ stopping' = stopping
        /\ attached' = attached \ {c, server}
    BY <1>2 DEF ExitLive, ExitEvent, Dispose
  <2>2. stopping = 0
    BY <2>1 DEF ChildInv
  <2>3. attached \subseteq {server} \ {0}
    BY <2>2 DEF ChildInv
  <2> QED BY <2>1, <2>2, <2>3
<1>3. CASE ExitStopped(c)
  <2>1. /\ state = "stopped" /\ attached' = attached \ {c}
        /\ UNCHANGED <<state, server, stopping, pendingRequests, callbacks, settled, schedulerVars>>
    BY <1>3 DEF ExitStopped, ExitEvent, Dispose
  <2>2. Handshakes' = Handshakes /\ SettledHandshakes' = SettledHandshakes
    BY <2>1 DEF Handshakes, SettledHandshakes
  <2>3. server = 0
    BY <2>1 DEF ChildInv
  <2> QED BY <2>1, <2>2, <2>3, StartUntouched DEF ChildInv, schedulerVars
<1>4. ASSUME ExitLive(c), state' = "stopped", Scheduler!Cancel, callbacks' = {},
             settled' = (settled \ {}) \cup Rejected(callbacks)
      PROVE  ChildInv' /\ StartInv'
  <2>1. retryTimer' = "none" /\ unnamed' = {} /\ refundTimer' = FALSE
    BY <1>4 DEF Scheduler!Cancel, StartInv
  <2>2. StartInv'
    BY <1>4, <2>1, StartStops
  <2> QED BY <1>2, <1>4, <2>1, <2>2 DEF ChildInv
<1>5. CASE ExitBeforeHandshake(c)
  BY <1>4, <1>5 DEF ExitBeforeHandshake, StopAndErrorBuffered
<1>6. CASE ExitAfterShutdown(c)
  <2>1. settled \ {} = settled
    OBVIOUS
  <2> QED BY <1>4, <1>6, <2>1 DEF ExitAfterShutdown
<1>7. CASE ExitWhileStarting(c)
  <2>1. /\ ExitLive(c) /\ state \in Starting /\ callbacks' = {}
        /\ settled' = (settled \ {}) \cup Rejected(callbacks)
        /\ UNCHANGED <<state, schedulerVars>>
    BY <1>7 DEF ExitWhileStarting
  <2>2. Handshakes = {InitCall(server, state)} /\ retryTimer = "none" /\ unnamed = {}
    BY <1>1, <1>2, <2>1 DEF StartInv, WaitingForRetry, LostChild, ShakingHands, HandsShaken
  <2> DEFINE lost == [call |-> InitCall(server, state), ok |-> FALSE]
  <2>3. Handshakes' = {} /\ SettledHandshakes' = {lost}
    BY <1>1, <2>1, <2>2, RejectAllHandshakes DEF Rejected
  <2>4. lost \in settled' /\ lost.call.expects = state' /\ lost.call.n # 0
    BY <1>2, <2>1, <2>3 DEF InitCall, SettledHandshakes
  <2> HIDE DEF lost
  <2>5. StartInv'
    BY <1>2, <2>1, <2>2, <2>3, <2>4 DEF StartInv, LostChild, schedulerVars
  <2>6. state' # "running"
    BY <2>1 DEF Starting
  <2>7. refundTimer' = FALSE
    BY <2>1, <2>6 DEF ChildInv, schedulerVars, TypeOK, Scheduler!SchedulerTypeOK
  <2> QED BY <1>2, <2>1, <2>5, <2>6, <2>7 DEF ChildInv
<1>8. CASE ExitRunning(c)
  <2>1. ExitLive(c) /\ state \notin Starting
    BY <1>8 DEF ExitRunning
  <2>2. Handshakes = {} /\ retryTimer = "none" /\ unnamed = {}
    BY <2>1 DEF StartInv
  <2>3. CASE /\ Scheduler!ScheduleGranted("restarting") /\ state' = "restarting"
              /\ callbacks' = {} /\ settled' = (settled \ {}) \cup Rejected(callbacks)
    <3>1. Handshakes' = {} /\ SettledHandshakes' = {}
      BY <1>1, <2>2, <2>3, RejectAllHandshakes, RejectedNone
    <3>2. retryTimer' = "restarting" /\ unnamed' = {} /\ refundTimer' = FALSE
      BY <2>2, <2>3 DEF Scheduler!ScheduleGranted
    <3>3. StartInv'
      BY <1>2, <2>1, <2>3, <3>1, <3>2, StartReschedules DEF Starting
    <3> QED BY <1>2, <2>1, <2>3, <3>2, <3>3 DEF ChildInv
  <2>4. CASE /\ Scheduler!ScheduleRefused
              /\ StopAndErrorBuffered(buffer, callbacks, pendingRequests, {})
    <3>1. retryTimer' = "none" /\ unnamed' = {} /\ refundTimer' = FALSE
      BY <2>2, <2>4 DEF Scheduler!ScheduleRefused
    <3>2. StartInv' /\ state' = "stopped"
      BY <2>4, <3>1, StartStops DEF StopAndErrorBuffered
    <3> QED BY <1>2, <2>1, <3>1, <3>2 DEF ChildInv
  <2>5. settled \ {} = settled
    OBVIOUS
  <2> QED BY <1>8, <2>3, <2>4, <2>5 DEF ExitRunning
<1> QED BY <1>3, <1>5, <1>6, <1>7, <1>8 DEF ServerExit

(* scheduleRetry of a start that has nothing else under way. *)
LEMMA ScheduleRetryKeepsInv ==
  ASSUME ServerInv, state \in Starting, NEW s \in settled, SettledHandshakes = {s},
         Handshakes = {}, retryTimer = "none", server' = 0, attached' = {}, stopping' = 0,
         UNCHANGED pendingRequests, ScheduleRetry(state, buffer, callbacks, {s})
  PROVE  ChildInv' /\ StartInv'
<1> USE DEF ServerInv
<1>1. unnamed = {} /\ pendingRequests = {}
  BY DEF StartInv, ChildInv, Starting
<1>2. CASE /\ Scheduler!ScheduleGranted(state) /\ state' = state
            /\ callbacks' = callbacks /\ settled' = settled \ {s}
  <2>1. Handshakes' = {} /\ SettledHandshakes' = {}
    BY <1>2 DEF Handshakes, SettledHandshakes
  <2>2. retryTimer' = state /\ unnamed' = {} /\ refundTimer' = FALSE
    BY <1>1, <1>2 DEF Scheduler!ScheduleGranted
  <2>3. StartInv'
    BY <1>2, <2>1, <2>2, StartReschedules
  <2> QED BY <1>1, <1>2, <2>2, <2>3 DEF ChildInv, Starting
<1>3. CASE Scheduler!ScheduleRefused /\ StopAndErrorBuffered(buffer, callbacks, {}, {s})
  <2>1. retryTimer' = "none" /\ unnamed' = {} /\ refundTimer' = FALSE
    BY <1>1, <1>3 DEF Scheduler!ScheduleRefused
  <2>2. StartInv' /\ state' = "stopped"
    BY <1>3, <2>1, StartStops DEF StopAndErrorBuffered
  <2> QED BY <1>1, <2>1, <2>2 DEF ChildInv
<1> QED BY <1>2, <1>3 DEF ScheduleRetry

(* Continuations. *)
LEMMA ResumeKeepsInv ==
  ASSUME ServerInv, NEW s \in settled,
         \/ ResumeInitSuperseded(s) \/ ResumeInitFailed(s) \/ ResumeInitOk(s)
         \/ ResumeSendRequest(s) \/ ResumeShutdown(s)
  PROVE  ChildInv' /\ StartInv'
<1> USE DEF ServerInv
<1>1. ASSUME state \in Starting, s.call.of = "initialize"
      PROVE  /\ SettledHandshakes = {s} /\ Handshakes = {} /\ retryTimer = "none"
             /\ \/ server = 0 /\ s.call.expects = state /\ s.call.n # 0
                \/ server # 0 /\ s.call = InitCall(server, state)
  <2>1. s \in SettledHandshakes
    BY <1>1 DEF SettledHandshakes
  <2>2. LostChild \/ HandsShaken
    BY <1>1, <2>1 DEF StartInv, WaitingForRetry, ShakingHands
  <2> QED BY <2>1, <2>2 DEF LostChild, HandsShaken
<1>2. s.call.of = "initialize" => s.call.expects \in Starting
  BY DEF TypeOK, Settled, Call
<1>3. stopping # 0 => state \notin Starting
  BY DEF ChildInv, Starting
<1>4. CASE ResumeInitSuperseded(s) /\ state = s.call.expects
  <2>1. /\ s.call.of = "initialize" /\ state \in Starting /\ server # s.call.n
        /\ ScheduleRetry(state, buffer, callbacks, {s})
        /\ UNCHANGED <<server, pendingRequests, attached, stopping>>
    BY <1>2, <1>4 DEF ResumeInitSuperseded, Resumes, Superseded, processVars
  <2>2. SettledHandshakes = {s} /\ Handshakes = {} /\ retryTimer = "none" /\ server = 0
    BY <1>1, <2>1 DEF InitCall
  <2>3. stopping = 0 /\ attached = {}
    BY <1>3, <2>1, <2>2 DEF ChildInv
  <2> QED BY <2>1, <2>2, <2>3, ScheduleRetryKeepsInv
<1>5. CASE ResumeInitSuperseded(s) /\ state # s.call.expects
  <2>1. /\ s.call.of = "initialize" /\ settled' = settled \ {s}
        /\ UNCHANGED <<state, callbacks, schedulerVars, server, pendingRequests, attached, stopping>>
    BY <1>5 DEF ResumeInitSuperseded, Resumes, processVars
  <2>2. state \notin Starting
    BY <1>1, <1>5, <2>1 DEF InitCall
  <2>3. Handshakes' = Handshakes /\ SettledHandshakes' \subseteq SettledHandshakes
    BY <2>1 DEF Handshakes, SettledHandshakes
  <2>4. StartInv'
    BY <2>1, <2>2, <2>3 DEF StartInv, schedulerVars
  <2> QED BY <2>1, <2>4 DEF ChildInv, schedulerVars
<1>6. CASE ResumeInitFailed(s)
  <2>1. /\ s.call.of = "initialize" /\ state = s.call.expects /\ server = s.call.n
        /\ Dispose({s.call.n}) /\ server' = 0
        /\ ScheduleRetry(state, buffer, callbacks, {s})
        /\ UNCHANGED <<pendingRequests, stopping>>
    BY <1>6 DEF ResumeInitFailed, Resumes, Superseded
  <2>2. state \in Starting
    BY <1>2, <2>1
  <2>3. SettledHandshakes = {s} /\ Handshakes = {} /\ retryTimer = "none"
    BY <1>1, <2>1, <2>2
  <2>4. stopping = 0
    BY <1>3, <2>2
  <2>5. attached' = {}
    BY <2>1, <2>4 DEF ChildInv, Dispose
  <2> QED BY <2>1, <2>2, <2>3, <2>4, <2>5, ScheduleRetryKeepsInv
<1>7. CASE ResumeInitOk(s)
  <2>1. /\ s.call.of = "initialize" /\ state = s.call.expects /\ server = s.call.n
        /\ state' = "running" /\ Scheduler!MarkStarted /\ settled' = settled \ {s}
        /\ UNCHANGED <<server, callbacks, attached, stopping>>
    BY <1>7 DEF ResumeInitOk, Resumes, Superseded, processVars
  <2>2. state \in Starting
    BY <1>2, <2>1
  <2>3. /\ SettledHandshakes = {s} /\ Handshakes = {} /\ retryTimer = "none" /\ server # 0
        /\ unnamed = {}
    BY <1>1, <2>1, <2>2 DEF StartInv
  <2>4. SettledHandshakes' = {} /\ Handshakes' = {} /\ retryTimer' = "none" /\ unnamed' = {}
    BY <2>1, <2>3 DEF SettledHandshakes, Handshakes, Scheduler!MarkStarted
  <2>5. StartInv'
    BY <2>1, <2>4 DEF StartInv, Starting
  <2>6. stopping' = 0
    BY <1>3, <2>1, <2>2
  <2> QED BY <2>1, <2>3, <2>5, <2>6 DEF ChildInv
<1>8. CASE ResumeSendRequest(s) \/ ResumeShutdown(s)
  <2>1. /\ s.call.of # "initialize" /\ settled' = settled \ {s}
        /\ UNCHANGED <<state, server, pendingRequests, callbacks, schedulerVars, attached, stopping>>
    BY <1>8 DEF ResumeSendRequest, ResumeShutdown, Resumes, processVars
  <2>2. Handshakes' = Handshakes /\ SettledHandshakes' = SettledHandshakes
    BY <2>1 DEF Handshakes, SettledHandshakes
  <2> QED BY <2>1, <2>2, StartUntouched DEF ChildInv, schedulerVars
<1> QED BY <1>4, <1>5, <1>6, <1>7, <1>8

(* The retry timer: it finds the server as it was left. *)
LEMMA RetryKeepsInv ==
  ASSUME ServerInv, NEW expected \in Starting, RetryFires(expected)
  PROVE  ChildInv' /\ StartInv'
<1> USE DEF ServerInv
<1>1. SettledHandshakes = {} /\ UNCHANGED pendingRequests
  BY DEF RetryFires, Quiet, SettledHandshakes
<1>2. retryTimer = expected /\ unnamed = {} /\ expected # "none"
  BY DEF StartInv, RetryFires, Starting, Scheduler!RetryFires, Scheduler!RetryRescheduled,
         Scheduler!RetryRefused
<1>3. state = expected /\ server = 0 /\ Handshakes = {}
  <2>1. state \in Starting
    BY <1>2 DEF StartInv
  <2> QED BY <1>2, <2>1 DEF StartInv, WaitingForRetry, LostChild, ShakingHands, HandsShaken
<1>4. stopping = 0 /\ attached = {} /\ pendingRequests = {}
  <2>1. stopping = 0 /\ pendingRequests = {}
    BY <1>3 DEF ChildInv, Starting
  <2> QED BY <1>3, <2>1 DEF ChildInv
<1>5. refundTimer = FALSE /\ expected # "running"
  <2>1. expected # "running"
    BY DEF Starting
  <2> QED BY <1>3, <2>1 DEF ChildInv, TypeOK, Scheduler!SchedulerTypeOK
<1>6. CASE /\ Scheduler!RetryFires(expected) /\ SpawnAndInitialize(expected, callbacks)
            /\ UNCHANGED state
  <2>1. retryTimer' = "none" /\ unnamed' = {} /\ refundTimer' = FALSE
    BY <1>2, <1>5, <1>6 DEF Scheduler!RetryFires
  <2>2. StartInv' /\ server' # 0 /\ server' \in attached'
    BY <1>1, <1>3, <1>6, <2>1, StartSpawns DEF Handshakes
  <2>3. attached' = {server'} /\ stopping' = 0
    BY <1>4, <1>6 DEF SpawnAndInitialize
  <2> QED BY <1>1, <1>3, <1>4, <1>5, <1>6, <2>1, <2>2, <2>3 DEF ChildInv, Starting
<1>7. ASSUME SpawnThrows PROVE server' = 0 /\ stopping' = 0 /\ attached' = {}
  BY <1>4, <1>7 DEF SpawnThrows, Dispose
<1>8. CASE /\ SpawnThrows /\ Scheduler!RetryRescheduled(expected)
            /\ UNCHANGED <<state, callbacks, settled>>
  <2>1. Handshakes' = {} /\ SettledHandshakes' = {}
    BY <1>1, <1>3, <1>8 DEF Handshakes, SettledHandshakes
  <2>2. retryTimer' = expected /\ unnamed' = {} /\ refundTimer' = FALSE
    BY <1>2, <1>8 DEF Scheduler!RetryRescheduled
  <2>3. StartInv'
    BY <1>3, <1>7, <1>8, <2>1, <2>2, StartReschedules
  <2> QED BY <1>1, <1>3, <1>4, <1>5, <1>7, <1>8, <2>2, <2>3 DEF ChildInv, Starting
<1>9. CASE /\ SpawnThrows /\ Scheduler!RetryRefused(expected)
            /\ StopAndErrorBuffered(buffer, callbacks, {}, {})
  <2>1. retryTimer' = "none" /\ unnamed' = {} /\ refundTimer' = FALSE
    BY <1>2, <1>9 DEF Scheduler!RetryRefused
  <2>2. StartInv' /\ state' = "stopped"
    BY <1>9, <2>1, StartStops DEF StopAndErrorBuffered
  <2> QED BY <1>1, <1>4, <1>7, <1>9, <2>1, <2>2 DEF ChildInv
<1> QED BY <1>3, <1>6, <1>8, <1>9 DEF RetryFires

(* shutdown() and stop(). *)
LEMMA TeardownKeepsInv ==
  ASSUME ServerInv, Shutdown \/ Stop \/ StopEnds
  PROVE  ChildInv' /\ StartInv'
<1> USE DEF ServerInv
<1>1. CASE ShutdownStarting
  <2>1. /\ state \in Starting /\ Scheduler!Cancel /\ callbacks' = {} /\ state' = "stopped"
        /\ settled' = (settled \ {}) \cup Rejected(callbacks)
        /\ attached' = attached \ {server} /\ server' = 0
        /\ UNCHANGED <<pendingRequests, stopping>>
    BY <1>1 DEF ShutdownStarting, ShutdownAsked, Dispose
  <2>2. stopping = 0 /\ attached' = {}
    <3>1. stopping = 0
      BY <2>1 DEF ChildInv, Starting
    <3> QED BY <2>1, <3>1 DEF ChildInv
  <2>3. retryTimer' = "none" /\ unnamed' = {} /\ refundTimer' = FALSE
    BY <2>1 DEF Scheduler!Cancel, StartInv
  <2>4. StartInv'
    BY <2>1, <2>3, StartStops
  <2> QED BY <2>1, <2>2, <2>3, <2>4 DEF ChildInv
<1>2. CASE ShutdownStopped
  <2>1. UNCHANGED <<state, server, pendingRequests, callbacks, settled, schedulerVars,
                    attached, stopping>>
    BY <1>2 DEF ShutdownStopped, ShutdownAsked
  <2>2. Handshakes' = Handshakes /\ SettledHandshakes' = SettledHandshakes
    BY <2>1 DEF Handshakes, SettledHandshakes
  <2> QED BY <2>1, <2>2, StartUntouched DEF ChildInv, schedulerVars
<1>3. CASE ShutdownRunning
  <2>1. /\ callbacks' = callbacks \cup {ShutdownCall(shutdowns + 1)}
        /\ UNCHANGED <<state, server, pendingRequests, settled, schedulerVars, attached, stopping>>
    BY <1>3 DEF ShutdownRunning, ShutdownAsked
  <2>2. Handshakes' = Handshakes /\ SettledHandshakes' = SettledHandshakes
    BY <2>1, SendCallIsNoHandshake DEF Handshakes, SettledHandshakes
  <2> QED BY <2>1, <2>2, StartUntouched DEF ChildInv, schedulerVars
<1>4. CASE Stop
  <2>1. /\ state # "stopped" /\ Scheduler!Cancel /\ callbacks' = {} /\ state' = "stopped"
        /\ settled' = (settled \ {}) \cup Rejected(callbacks)
        /\ server' = 0 /\ stopping' = server
        /\ UNCHANGED <<pendingRequests, attached>>
    BY <1>4 DEF Stop
  <2>2. stopping = 0
    BY <2>1 DEF ChildInv
  <2>3. retryTimer' = "none" /\ unnamed' = {} /\ refundTimer' = FALSE
    BY <2>1 DEF Scheduler!Cancel, StartInv
  <2>4. StartInv'
    BY <2>1, <2>3, StartStops
  <2> QED BY <2>1, <2>2, <2>3, <2>4 DEF ChildInv
<1>5. CASE StopEnds
  <2>1. /\ stopping # 0 /\ attached' = attached \ {stopping} /\ stopping' = 0
        /\ UNCHANGED <<state, server, pendingRequests, callbacks, settled, schedulerVars>>
    BY <1>5 DEF StopEnds, Dispose
  <2>2. Handshakes' = Handshakes /\ SettledHandshakes' = SettledHandshakes
    BY <2>1 DEF Handshakes, SettledHandshakes
  <2>3. server = 0
    BY <2>1 DEF ChildInv
  <2> QED BY <2>1, <2>2, <2>3, StartUntouched DEF ChildInv, schedulerVars
<1> QED BY <1>1, <1>2, <1>3, <1>4, <1>5 DEF Shutdown

(* An internal request is settled, by its reply or its timeout. *)
LEMMA CallSettlesKeepsInv ==
  ASSUME ServerInv, NEW k \in callbacks, NEW ok \in BOOLEAN, Quiet,
         callbacks' = callbacks \ {k},
         settled' = settled \cup {[call |-> k, ok |-> ok]},
         UNCHANGED <<state, server, pendingRequests, schedulerVars, processVars>>
  PROVE  ChildInv' /\ StartInv'
<1> USE DEF ServerInv
<1> DEFINE s == [call |-> k, ok |-> ok]
<1>1. ChildInv'
  BY DEF ChildInv, schedulerVars, processVars
<1>2. SettledHandshakes = {}
  BY DEF Quiet, SettledHandshakes
<1>3. CASE k.of = "initialize"
  <2>1. k \in Handshakes
    BY <1>3 DEF Handshakes
  <2>2. ShakingHands
    BY <2>1 DEF StartInv, WaitingForRetry, LostChild, HandsShaken
  <2>3. k = InitCall(server, state) /\ state \in Starting
    BY <2>1, <2>2 DEF ShakingHands, StartInv
  <2>4. Handshakes' = {} /\ SettledHandshakes' = {s}
    <3>1. Handshakes' = Handshakes \ {k}
      BY DEF Handshakes
    <3>2. SettledHandshakes' = SettledHandshakes \cup {s}
      BY <1>3 DEF SettledHandshakes
    <3> QED BY <1>2, <2>2, <2>3, <3>1, <3>2 DEF ShakingHands
  <2>5. s \in settled' /\ s.call = InitCall(server', state')
    BY <2>3
  <2> HIDE DEF s
  <2> QED BY <1>1, <2>2, <2>3, <2>4, <2>5 DEF StartInv, ShakingHands, HandsShaken, schedulerVars
<1>4. CASE k.of # "initialize"
  <2>1. Handshakes' = Handshakes /\ SettledHandshakes' = SettledHandshakes
    BY <1>4 DEF Handshakes, SettledHandshakes
  <2> QED BY <1>1, <2>1, StartUntouched DEF schedulerVars
<1> QED BY <1>3, <1>4

(* Steps that do not concern the child or the start. *)
LEMMA IdleStepKeepsInv ==
  ASSUME ServerInv,
         UNCHANGED <<state, server, callbacks, settled, retryTimer, unnamed, processVars>>,
         refundTimer' => refundTimer, pendingRequests' \subseteq pendingRequests
  PROVE  ChildInv' /\ StartInv'
<1>1. Handshakes' = Handshakes /\ SettledHandshakes' = SettledHandshakes
  BY DEF Handshakes, SettledHandshakes
<1>2. StartInv'
  BY <1>1, StartUntouched DEF ServerInv
<1> QED BY <1>2 DEF ServerInv, ChildInv, processVars

LEMMA InvInit == Init => ServerInv
BY TypeInit DEF Init, ServerInv, ChildInv, StartInv, Starting, SettledHandshakes, Handshakes,
   Scheduler!SchedulerInit

LEMMA InvStep == ServerInv /\ [Next]_vars => ServerInv'
<1> SUFFICES ASSUME ServerInv, [Next]_vars PROVE ChildInv' /\ StartInv'
  BY TypeStep DEF ServerInv
<1>1. CASE SetInitParams \/ SendInitialized
  BY <1>1, IdleStepKeepsInv DEF SetInitParams, SendInitialized, schedulerVars
<1>2. ASSUME NEW kind \in Kinds, NEW n \in Ids, Send(kind, n) PROVE ChildInv' /\ StartInv'
  BY <1>2, SendKeepsInv
<1>3. ASSUME NEW n \in Ids, CancelBuffered(n) PROVE ChildInv' /\ StartInv'
  BY <1>3, IdleStepKeepsInv DEF CancelBuffered, schedulerVars
<1>4. ASSUME NEW c \in attached, ServerExit(c) PROVE ChildInv' /\ StartInv'
  BY <1>4, ExitKeepsInv
<1>5. ASSUME NEW o \in owed, ReplyToClient(o) \/ LateReply(o) PROVE ChildInv' /\ StartInv'
  BY <1>5, IdleStepKeepsInv DEF ReplyToClient, LateReply, schedulerVars
<1>6. ASSUME NEW k \in callbacks, NEW ok \in BOOLEAN, ReplyToCall(k, ok)
      PROVE  ChildInv' /\ StartInv'
  BY <1>6, CallSettlesKeepsInv DEF ReplyToCall
<1>7. ASSUME NEW k \in callbacks, CallTimesOut(k) PROVE ChildInv' /\ StartInv'
  <2>1. Rejected({k}) = {[call |-> k, ok |-> FALSE]}
    BY DEF Rejected
  <2> QED BY <1>7, <2>1, CallSettlesKeepsInv DEF CallTimesOut
<1>8. CASE Resume
  BY <1>8, ResumeKeepsInv DEF Resume
<1>9. ASSUME NEW expected \in Starting, RetryFires(expected) PROVE ChildInv' /\ StartInv'
  BY <1>9, RetryKeepsInv
<1>10. CASE RefundFires
  <2>1. refundTimer
    BY <1>10 DEF RefundFires, Scheduler!RefundFires
  <2> QED BY <1>10, <2>1, IdleStepKeepsInv DEF RefundFires, Scheduler!RefundFires
<1>11. CASE Shutdown \/ Stop \/ StopEnds
  BY <1>11, TeardownKeepsInv
<1>12. CASE UNCHANGED vars
  BY <1>12, IdleStepKeepsInv DEF vars, schedulerVars
<1> QED BY <1>1, <1>2, <1>3, <1>4, <1>5, <1>6, <1>7, <1>8, <1>9, <1>10, <1>11, <1>12 DEF Next

(* Processes, timers and handshakes stay consistent, continuations included. *)
THEOREM ServerInvariant == Spec => []ServerInv
BY InvInit, InvStep, PTL DEF Spec

(* No event of a child that was replaced can reach the server: handleServerExit
   and handleServerMessage, which are not told whose event it is, can only be
   called for the current child or the one stop() waits for. *)
THEOREM OnlyTheCurrentChildSpeaks == Spec => []OnlyCurrentChildSpeaks
<1>1. ServerInv => OnlyCurrentChildSpeaks
  BY DEF ServerInv, ChildInv, OnlyCurrentChildSpeaks
<1> QED BY <1>1, ServerInvariant, PTL

(* A running server has a child whose exit will be noticed, and a server that
   has none holds no request as in flight. *)
THEOREM TheCurrentChildIsAlive == Spec => []CurrentChildIsAlive
<1>1. ServerInv => CurrentChildIsAlive
  BY DEF ServerInv, ChildInv, CurrentChildIsAlive
<1> QED BY <1>1, ServerInvariant, PTL

(* Between events, a server that is (re)starting has one armed retry or one
   handshake under way, never both and never neither, and any other server has
   none: no start is lost and no two run at once. *)
THEOREM StartsNeitherLostNorDoubled == Spec => []OneStartAtATime
<1>1. ServerInv => OneStartAtATime
  <2> SUFFICES ASSUME ServerInv, Quiet
               PROVE  IF state \in Starting
                      THEN IF server = 0
                           THEN retryTimer = state /\ unnamed = {} /\ Handshakes = {}
                           ELSE /\ retryTimer = "none" /\ unnamed = {}
                                /\ Handshakes = {InitCall(server, state)}
                      ELSE retryTimer = "none" /\ unnamed = {} /\ Handshakes = {}
    BY DEF OneStartAtATime
  <2>1. SettledHandshakes = {}
    BY DEF Quiet, SettledHandshakes
  <2>2. CASE state \in Starting
    BY <2>1, <2>2 DEF ServerInv, StartInv, WaitingForRetry, LostChild, ShakingHands, HandsShaken
  <2>3. CASE state \notin Starting
    BY <2>3 DEF ServerInv, StartInv
  <2> QED BY <2>2, <2>3
<1> QED BY <1>1, ServerInvariant, PTL

(* A refund of the restart budget is only ever pending for a server that is up. *)
THEOREM RefundsOnlyWhileUp == Spec => []RefundOnlyWhileUp
<1>1. ServerInv => RefundOnlyWhileUp
  BY DEF ServerInv, ChildInv, RefundOnlyWhileUp
<1> QED BY <1>1, ServerInvariant, PTL

(* No step of a stopped server makes it start, spawn, wait or write. *)
LEMMA StoppedStays ==
  ASSUME ServerInv, [Next]_vars, state = "stopped"
  PROVE  /\ state' = "stopped" /\ spawned' = spawned /\ wrote' = wrote
         /\ retryTimer' = "none" /\ ~refundTimer'
<1> DEFINE Final == /\ state' = "stopped" /\ spawned' = spawned /\ wrote' = wrote
                    /\ retryTimer' = "none" /\ ~refundTimer'
<1>1. Final
  <2>1. /\ retryTimer = "none" /\ unnamed = {} /\ refundTimer = FALSE
        /\ state \notin Starting /\ state \notin {"idle", "running"}
    BY DEF ServerInv, StartInv, ChildInv, Starting, TypeOK, Scheduler!SchedulerTypeOK
  <2>2. \A s \in settled : s.call.expects \in Starting \cup {"running"}
    BY DEF ServerInv, TypeOK, Settled, Call
  <2>3. ASSUME UNCHANGED <<state, spawned, wrote, retryTimer, refundTimer>> PROVE Final
    BY <2>1, <2>3
  <2>4. CASE SetInitParams \/ SendInitialized
    BY <2>3, <2>4 DEF SetInitParams, SendInitialized, schedulerVars, processVars
  <2>5. ASSUME NEW kind \in Kinds, NEW n \in Ids, Send(kind, n) PROVE Final
    <3>1. SendRefused(kind, n)
      BY <2>1, <2>5 DEF Send, SendRunning, SendBuffered, SendLazily, CanStartLazily
    <3> QED BY <2>3, <3>1 DEF SendRefused, schedulerVars, processVars
  <2>6. ASSUME NEW n \in Ids, CancelBuffered(n) PROVE Final
    BY <2>3, <2>6 DEF CancelBuffered, schedulerVars, processVars
  <2>7. ASSUME NEW c \in attached, ServerExit(c) PROVE Final
    <3>1. ExitStopped(c)
      BY <2>7 DEF ServerExit, ExitBeforeHandshake, ExitAfterShutdown, ExitWhileStarting,
                  ExitRunning, ExitLive
    <3> QED BY <2>3, <3>1 DEF ExitStopped, ExitEvent, schedulerVars
  <2>8. ASSUME NEW o \in owed, ReplyToClient(o) \/ LateReply(o) PROVE Final
    BY <2>3, <2>8 DEF ReplyToClient, LateReply, schedulerVars, processVars
  <2>9. ASSUME NEW k \in callbacks, NEW ok \in BOOLEAN, ReplyToCall(k, ok) \/ CallTimesOut(k)
        PROVE  Final
    BY <2>3, <2>9 DEF ReplyToCall, CallTimesOut, schedulerVars, processVars
  <2>10. ASSUME NEW s \in settled,
                \/ ResumeInitSuperseded(s) \/ ResumeInitFailed(s) \/ ResumeInitOk(s)
                \/ ResumeSendRequest(s) \/ ResumeShutdown(s)
         PROVE  Final
    <3>1. CASE ResumeInitSuperseded(s)
      <4>1. state # s.call.expects
        <5>1. s.call.expects \in Starting
          BY <3>1 DEF ResumeInitSuperseded, Resumes, ServerInv, TypeOK, Settled, Call
        <5> QED BY <2>1, <5>1
      <4> QED BY <2>3, <3>1, <4>1 DEF ResumeInitSuperseded, schedulerVars, processVars
    <3>2. CASE ResumeInitFailed(s) \/ ResumeInitOk(s)
      BY <2>1, <2>2, <3>2 DEF ResumeInitFailed, ResumeInitOk, Superseded
    <3>3. CASE ResumeSendRequest(s) \/ ResumeShutdown(s)
      BY <2>3, <3>3 DEF ResumeSendRequest, ResumeShutdown, schedulerVars, processVars
    <3> QED BY <2>10, <3>1, <3>2, <3>3
  <2>11. ASSUME NEW expected \in Starting, RetryFires(expected) PROVE Final
    BY <2>1, <2>11 DEF RetryFires, Starting, Scheduler!RetryFires, Scheduler!RetryRescheduled,
                       Scheduler!RetryRefused
  <2>12. CASE RefundFires
    BY <2>1, <2>12 DEF RefundFires, Scheduler!RefundFires
  <2>13. CASE Shutdown
    <3>1. ShutdownStopped
      BY <2>1, <2>13 DEF Shutdown, ShutdownStarting, ShutdownRunning
    <3> QED BY <2>3, <3>1 DEF ShutdownStopped, ShutdownAsked, schedulerVars
  <2>14. CASE Stop \/ StopEnds
    BY <2>3, <2>14 DEF Stop, StopEnds, schedulerVars
  <2>15. CASE UNCHANGED vars
    BY <2>3, <2>15 DEF vars, schedulerVars, processVars
  <2> QED BY <2>4, <2>5, <2>6, <2>7, <2>8, <2>9, <2>10, <2>11, <2>12, <2>13, <2>14, <2>15
             DEF Next, Resume
<1> QED BY <1>1

(* Whatever is still in progress when a server stops, it stays stopped: no
   child is spawned, no timer armed and nothing written any more. *)
THEOREM StopsAreFinal == Spec => StopsForGood
<1>1. ServerInv /\ [Next]_vars
        => [state = "stopped" => /\ state' = "stopped" /\ spawned' = spawned /\ wrote' = wrote
                                 /\ retryTimer' = "none" /\ ~refundTimer']_vars
  BY StoppedStays
<1> QED BY <1>1, ServerInvariant, PTL DEF Spec, StopsForGood

-----------------------------------------------------------------------------
(* What the scheduler and the proxy see of a server. *)

(* The life of a server, as the modules of its neighbours take it. *)
Lives ==
  {<<"idle", "starting">>, <<"idle", "stopped">>, <<"starting", "running">>,
   <<"starting", "stopped">>, <<"running", "restarting">>, <<"running", "stopped">>,
   <<"restarting", "running">>, <<"restarting", "stopped">>}
LivesOn == state' = state \/ <<state, state'>> \in Lives

(* A step that uses the scheduler as it is meant to be used. *)
Driven == Scheduler!SchedulerNext \/ UNCHANGED schedulerVars

LEMMA ScheduleRetryDrives ==
  ASSUME NEW messages, NEW calls, NEW done, NEW expected \in Starting,
         state = expected \/ (state = "idle" /\ expected = "starting"),
         ScheduleRetry(expected, messages, calls, done)
  PROVE  LivesOn /\ Driven
BY DEF ScheduleRetry, StopAndErrorBuffered, LivesOn, Lives, Driven, Scheduler!SchedulerNext,
       Starting

LEMMA LifeStep ==
  ASSUME ServerInv, [Next]_vars
  PROVE  LivesOn /\ Driven
<1> USE DEF LivesOn, Driven
<1>1. ASSUME UNCHANGED <<state, schedulerVars>> PROVE LivesOn /\ Driven
  BY <1>1
<1>2. state \in States
  BY DEF ServerInv, TypeOK
<1> HIDE DEF LivesOn, Driven
<1>3. CASE SetInitParams \/ SendInitialized
  BY <1>1, <1>3 DEF SetInitParams, SendInitialized
<1>4. ASSUME NEW kind \in Kinds, NEW n \in Ids, Send(kind, n) PROVE LivesOn /\ Driven
  <2>1. CASE SendLazily(kind, n)
    <3>1. state = "idle"
      BY <2>1 DEF SendLazily, CanStartLazily
    <3>2. CASE state' = "starting" /\ UNCHANGED schedulerVars
      BY <3>1, <3>2 DEF LivesOn, Lives, Driven
    <3>3. CASE \E messages, calls : ScheduleRetry("starting", messages, calls, {})
      BY <3>1, <3>3, ScheduleRetryDrives DEF Starting
    <3> QED BY <2>1, <3>2, <3>3 DEF SendLazily
  <2>2. CASE ~SendLazily(kind, n)
    BY <1>1, <1>4, <2>2 DEF Send, SendRunning, SendBuffered, SendRefused
  <2> QED BY <2>1, <2>2
<1>5. ASSUME NEW n \in Ids, CancelBuffered(n) PROVE LivesOn /\ Driven
  BY <1>1, <1>5 DEF CancelBuffered
<1>6. ASSUME NEW c \in attached, ServerExit(c) PROVE LivesOn /\ Driven
  <2>1. CASE ExitStopped(c) \/ ExitWhileStarting(c)
    BY <1>1, <2>1 DEF ExitStopped, ExitWhileStarting
  <2>2. CASE ExitBeforeHandshake(c) \/ ExitAfterShutdown(c)
    <3>1. Scheduler!Cancel /\ state' = "stopped" /\ state # "stopped"
      BY <2>2 DEF ExitBeforeHandshake, ExitAfterShutdown, ExitLive, StopAndErrorBuffered
    <3> QED BY <1>2, <3>1 DEF LivesOn, Lives, Driven, Scheduler!SchedulerNext, States
  <2>3. CASE ExitRunning(c)
    <3>1. state \notin Starting /\ state # "stopped"
      BY <2>3 DEF ExitRunning, ExitLive
    <3>2. CASE Scheduler!ScheduleGranted("restarting") /\ state' = "restarting"
      <4>1. state # "idle"
        BY <1>6 DEF ServerInv, ChildInv
      <4>2. state = "running"
        BY <1>2, <3>1, <4>1 DEF Starting, States
      <4> QED BY <3>2, <4>2 DEF LivesOn, Lives, Driven, Scheduler!SchedulerNext, Starting
    <3>3. CASE Scheduler!ScheduleRefused /\ state' = "stopped"
      BY <1>2, <3>1, <3>3 DEF LivesOn, Lives, Driven, Scheduler!SchedulerNext, States
    <3>4. \/ Scheduler!ScheduleGranted("restarting") /\ state' = "restarting"
          \/ Scheduler!ScheduleRefused /\ state' = "stopped"
      BY <2>3 DEF ExitRunning, StopAndErrorBuffered
    <3> QED BY <3>2, <3>3, <3>4
  <2> QED BY <1>6, <2>1, <2>2, <2>3 DEF ServerExit
<1>7. ASSUME NEW o \in owed, ReplyToClient(o) \/ LateReply(o) PROVE LivesOn /\ Driven
  BY <1>1, <1>7 DEF ReplyToClient, LateReply
<1>8. ASSUME NEW k \in callbacks, NEW ok \in BOOLEAN, ReplyToCall(k, ok) \/ CallTimesOut(k)
      PROVE  LivesOn /\ Driven
  BY <1>1, <1>8 DEF ReplyToCall, CallTimesOut
<1>9. ASSUME NEW s \in settled,
             \/ ResumeInitSuperseded(s) \/ ResumeInitFailed(s) \/ ResumeInitOk(s)
             \/ ResumeSendRequest(s) \/ ResumeShutdown(s)
      PROVE  LivesOn /\ Driven
  <2>1. s.call.of = "initialize" => s.call.expects \in Starting
    BY DEF ServerInv, TypeOK, Settled, Call
  <2>2. CASE ResumeInitSuperseded(s)
    <3>1. CASE state = s.call.expects
      <4>1. state \in Starting /\ ScheduleRetry(state, buffer, callbacks, {s})
        BY <2>1, <2>2, <3>1 DEF ResumeInitSuperseded, Resumes
      <4> QED BY <4>1, ScheduleRetryDrives
    <3>2. CASE state # s.call.expects
      BY <1>1, <2>2, <3>2 DEF ResumeInitSuperseded
    <3> QED BY <3>1, <3>2
  <2>3. CASE ResumeInitFailed(s)
    <3>1. state \in Starting /\ ScheduleRetry(state, buffer, callbacks, {s})
      BY <2>1, <2>3 DEF ResumeInitFailed, Resumes, Superseded
    <3> QED BY <3>1, ScheduleRetryDrives
  <2>4. CASE ResumeInitOk(s)
    <3>1. state \in Starting /\ state' = "running" /\ Scheduler!MarkStarted
      BY <2>1, <2>4 DEF ResumeInitOk, Resumes, Superseded
    <3> QED BY <3>1 DEF LivesOn, Lives, Driven, Scheduler!SchedulerNext, Starting
  <2>5. CASE ResumeSendRequest(s) \/ ResumeShutdown(s)
    BY <1>1, <2>5 DEF ResumeSendRequest, ResumeShutdown
  <2> QED BY <1>9, <2>2, <2>3, <2>4, <2>5
<1>10. ASSUME NEW expected \in Starting, RetryFires(expected) PROVE LivesOn /\ Driven
  <2>1. CASE Scheduler!RetryFires(expected) /\ UNCHANGED state
    BY <2>1 DEF LivesOn, Driven, Scheduler!SchedulerNext
  <2>2. CASE Scheduler!RetryRescheduled(expected) /\ UNCHANGED state
    BY <2>2 DEF LivesOn, Driven, Scheduler!SchedulerNext
  <2>3. CASE Scheduler!RetryRefused(expected) /\ state' = "stopped" /\ state = expected
    BY <2>3 DEF LivesOn, Lives, Driven, Scheduler!SchedulerNext, Starting
  <2> QED BY <1>10, <2>1, <2>2, <2>3 DEF RetryFires, StopAndErrorBuffered
<1>11. CASE RefundFires
  BY <1>11 DEF RefundFires, LivesOn, Driven, Scheduler!SchedulerNext
<1>12. CASE ShutdownStarting \/ Stop
  <2>1. Scheduler!Cancel /\ state' = "stopped" /\ state # "stopped"
    BY <1>12 DEF ShutdownStarting, Stop, Starting
  <2> QED BY <1>2, <2>1 DEF LivesOn, Lives, Driven, Scheduler!SchedulerNext, States
<1>13. CASE ShutdownStopped \/ ShutdownRunning \/ StopEnds
  BY <1>1, <1>13 DEF ShutdownStopped, ShutdownRunning, StopEnds
<1>14. CASE UNCHANGED vars
  BY <1>1, <1>14 DEF vars
<1> QED BY <1>3, <1>4, <1>5, <1>6, <1>7, <1>8, <1>9, <1>10, <1>11, <1>12, <1>13, <1>14
           DEF Next, Resume, Shutdown

(* The server keeps to its scheduler: every step of it is a step of the restart
   budget, one call of the scheduler or one timer of it, or leaves it alone. *)
THEOREM ServerDrivesScheduler == Spec => Scheduler!SchedulerSpec
<1>1. Init => Scheduler!SchedulerInit
  BY DEF Init
<1>2. ServerInv /\ [Next]_vars => [Scheduler!SchedulerNext]_(Scheduler!schedulerVars)
  BY LifeStep DEF Driven, schedulerVars, Scheduler!schedulerVars
<1> QED BY <1>1, <1>2, ServerInvariant, PTL DEF Spec, Scheduler!SchedulerSpec

(* No retry is scheduled over one that waits, so that every armed retry can be
   cancelled. *)
THEOREM NoRetryLosesItsName == Spec => [](unnamed = {})
<1>1. ServerInv => unnamed = {}
  BY DEF ServerInv, StartInv
<1> QED BY <1>1, ServerInvariant, PTL

(* The server's life is the one the proxy and the other components are modelled
   with: a server that has come up once only ever restarts, and one that
   runs was starting or restarting just before. *)
THEOREM ServersLiveAsAssumed == Spec => [][(<<state, state'>> \in Lives)]_state
<1>1. ServerInv /\ [Next]_vars => [(<<state, state'>> \in Lives)]_state
  BY LifeStep DEF LivesOn
<1> QED BY <1>1, ServerInvariant, PTL DEF Spec

-----------------------------------------------------------------------------
(* Where the messages are: in the buffer, in the log of a child, in the hands
   of a child. Numbers grow with arrival, so order is a matter of numbers. *)

NumbersOf(kind) == {n \in DOMAIN arrived : arrived[n] = kind}
Held == ClientRequestsIn(buffer)
CallsIn(messages) ==
  {messages[i].n : i \in {j \in DOMAIN messages : messages[j].kind = "internal"}}
BufferedCalls == CallsIn(buffer)

(* The buffer holds messages as they arrived and in that order, and nothing
   while the server needs none of it. *)
BufferInv ==
  /\ \A i \in 1..Len(buffer) : /\ buffer[i].n <= Len(arrived)
                               /\ arrived[buffer[i].n] = buffer[i].kind
  /\ \A i, j \in 1..Len(buffer) : i < j => buffer[i].n < buffer[j].n
  /\ state \in {"idle", "running"} => buffer = <<>>

(* The buffer read by position, and as sets. *)
LEMMA BufferElements ==
  ASSUME TypeOK
  PROVE  /\ DOMAIN buffer = 1..Len(buffer) /\ Len(buffer) \in Nat
         /\ \A i \in 1..Len(buffer) : buffer[i].n \in Ids /\ buffer[i].kind \in Kinds \ {"sync"}
         /\ DOMAIN arrived = 1..Len(arrived) /\ Len(arrived) \in Nat
         /\ Ids \subseteq Nat \ {0}
<1>1. \A i \in 1..Len(buffer) : buffer[i] \in Message
  BY ElementOfSeq DEF TypeOK
<1>2. \A i \in 1..Len(buffer) : buffer[i].n \in Ids /\ buffer[i].kind \in Kinds \ {"sync"}
  BY <1>1 DEF Message
<1>3. DOMAIN buffer = 1..Len(buffer) /\ Len(buffer) \in Nat
  BY LenProperties DEF TypeOK
<1>4. DOMAIN arrived = 1..Len(arrived) /\ Len(arrived) \in Nat
  BY LenProperties DEF TypeOK
<1>5. Ids \subseteq Nat \ {0}
  BY ManagedServerAssumption DEF Ids
<1> QED BY <1>2, <1>3, <1>4, <1>5

LEMMA BufferSets ==
  ASSUME NEW b \in Seq(Message), NEW n
  PROVE  /\ n \in ClientRequestsIn(b) <=> \E i \in 1..Len(b) : b[i].kind = "request" /\ b[i].n = n
         /\ n \in CallsIn(b) <=> \E i \in 1..Len(b) : b[i].kind = "internal" /\ b[i].n = n
<1>1. DOMAIN b = 1..Len(b)
  BY LenProperties
<1> QED BY <1>1 DEF ClientRequestsIn, CallsIn

(* Taking out the request of number n: the others keep their order. *)
LEMMA DropShape ==
  ASSUME TypeOK, NEW n, DropBuffered(n)
  PROVE  \/ BufferedAt(n) = {} /\ buffer' = buffer
         \/ \E i \in BufferedAt(n) :
              /\ i \in 1..Len(buffer) /\ Len(buffer') = Len(buffer) - 1
              /\ \A j \in 1..(Len(buffer) - 1) :
                   buffer'[j] = IF j < i THEN buffer[j] ELSE buffer[j + 1]
<1>1. CASE BufferedAt(n) = {} /\ UNCHANGED buffer
  BY <1>1
<1>2. CASE \E i \in BufferedAt(n) : buffer' = RemoveAt(buffer, i)
  <2>1. PICK i \in BufferedAt(n) : buffer' = RemoveAt(buffer, i)
    BY <1>2
  <2>2. i \in 1..Len(buffer) /\ Len(buffer) \in Nat
    BY <2>1, LenProperties DEF BufferedAt, TypeOK
  <2>3. \A j \in 1..Len(buffer) : buffer[j] \in Message
    BY ElementOfSeq DEF TypeOK
  <2> DEFINE front == SubSeq(buffer, 1, i - 1)
             back == SubSeq(buffer, i + 1, Len(buffer))
  <2>4. /\ front \in Seq(Message) /\ Len(front) = i - 1
        /\ \A j \in 1..(i - 1) : front[j] = buffer[j]
    BY <2>2, <2>3, SubSeqProperties
  <2>5. /\ back \in Seq(Message) /\ Len(back) = Len(buffer) - i
        /\ \A j \in 1..(Len(buffer) - i) : back[j] = buffer[i + j]
    BY <2>2, <2>3, SubSeqProperties
  <2>6. buffer' = front \o back
    BY <2>1 DEF RemoveAt
  <2> HIDE DEF front, back
  <2>7. Len(buffer') = Len(buffer) - 1
    <3>1. Len(front \o back) = Len(front) + Len(back)
      BY <2>4, <2>5, ConcatProperties
    <3> QED BY <2>2, <2>4, <2>5, <2>6, <3>1
  <2>8. ASSUME NEW j \in 1..(Len(buffer) - 1)
        PROVE  buffer'[j] = IF j < i THEN buffer[j] ELSE buffer[j + 1]
    <3>1. buffer'[j] = IF j <= i - 1 THEN front[j] ELSE back[j - (i - 1)]
      <4>1. j \in 1..(Len(front) + Len(back))
        BY <2>2, <2>4, <2>5
      <4>2. (front \o back)[j] = IF j <= Len(front) THEN front[j] ELSE back[j - Len(front)]
        BY <2>4, <2>5, <4>1, ConcatProperties
      <4> QED BY <2>4, <2>6, <4>2
    <3>2. CASE j < i
      BY <3>1, <3>2, <2>2, <2>4
    <3>3. CASE ~(j < i)
      <4>1. j - (i - 1) \in 1..(Len(buffer) - i) /\ i + (j - (i - 1)) = j + 1
        BY <3>3, <2>2
      <4> QED BY <3>1, <3>3, <4>1, <2>2, <2>5
    <3> QED BY <3>2, <3>3
  <2> QED BY <2>1, <2>2, <2>7, <2>8
<1> QED BY <1>1, <1>2 DEF DropBuffered

(* What one more message does to the record of arrivals and to the buffer. *)
LEMMA ArrivalShape ==
  ASSUME TypeOK, NEW kind \in Kinds, arrived' = Append(arrived, kind)
  PROVE  /\ Len(arrived') = Len(arrived) + 1
         /\ \A n \in 1..Len(arrived) : arrived'[n] = arrived[n]
         /\ arrived'[Len(arrived) + 1] = kind
         /\ DOMAIN arrived' = 1..(Len(arrived) + 1)
<1>1. arrived \in Seq(Kinds)
  BY DEF TypeOK
<1>2. arrived' \in Seq(Kinds) /\ Len(arrived') = Len(arrived) + 1
  BY <1>1, AppendProperties
<1>3. /\ \A n \in 1..Len(arrived) : arrived'[n] = arrived[n]
      /\ arrived'[Len(arrived) + 1] = kind
  BY <1>1, AppendProperties
<1>4. DOMAIN arrived' = 1..Len(arrived')
  BY <1>2, LenProperties
<1> QED BY <1>2, <1>3, <1>4

LEMMA AppendShape ==
  ASSUME TypeOK, NEW m \in Message, buffer' = Append(buffer, m)
  PROVE  /\ Len(buffer') = Len(buffer) + 1
         /\ \A i \in 1..Len(buffer) : buffer'[i] = buffer[i]
         /\ buffer'[Len(buffer) + 1] = m
BY AppendProperties DEF TypeOK

(* The buffer changes in few ways: a message joins it as it arrives, one is
   taken out, or all are. *)
Joins(kind, n) ==
  /\ kind \in Kinds \ {"sync"} /\ n \in Ids /\ n = Len(arrived) + 1
  /\ arrived' = Append(arrived, kind)
  /\ buffer' = Append(buffer, [kind |-> kind, n |-> n])

LEMMA BufferStep ==
  ASSUME TypeOK, TypeOK', BufferInv, NEW kind \in Kinds,
         arrived' = arrived \/ arrived' = Append(arrived, kind),
         \/ buffer' = buffer \/ buffer' = <<>>
         \/ \E n : DropBuffered(n)
         \/ \E n \in Ids : Joins(kind, n),
         state' \in {"idle", "running"} => buffer' = <<>>
  PROVE  BufferInv'
<1>1. /\ Len(arrived) <= Len(arrived')
      /\ \A n \in 1..Len(arrived) : arrived'[n] = arrived[n]
      /\ Len(arrived) \in Nat /\ Len(arrived') \in Nat
  <2>1. CASE arrived' = arrived
    BY <2>1, BufferElements
  <2>2. CASE arrived' = Append(arrived, kind)
    BY <2>2, ArrivalShape, BufferElements
  <2> QED BY <2>1, <2>2
<1>2. /\ Len(buffer) \in Nat
      /\ \A i \in 1..Len(buffer) : buffer[i].n \in 1..Len(arrived)
      /\ \A i \in 1..Len(buffer) : arrived'[buffer[i].n] = buffer[i].kind
      /\ \A i \in 1..Len(buffer) : buffer[i].n <= Len(arrived')
  <2>1. \A i \in 1..Len(buffer) : buffer[i].n \in 1..Len(arrived)
    BY BufferElements DEF BufferInv
  <2> QED BY <1>1, <2>1, BufferElements DEF BufferInv
<1>3. CASE buffer' = buffer
  BY <1>2, <1>3 DEF BufferInv
<1>4. CASE buffer' = <<>>
  BY <1>4 DEF BufferInv
<1>5. ASSUME NEW n, DropBuffered(n) PROVE BufferInv'
  <2>1. CASE buffer' = buffer
    BY <1>3, <2>1
  <2>2. ASSUME NEW i \in 1..Len(buffer), Len(buffer') = Len(buffer) - 1,
               \A j \in 1..(Len(buffer) - 1) :
                 buffer'[j] = IF j < i THEN buffer[j] ELSE buffer[j + 1]
        PROVE  BufferInv'
    <3> DEFINE at(j) == IF j < i THEN j ELSE j + 1
    <3>1. \A j \in 1..Len(buffer') : at(j) \in 1..Len(buffer) /\ buffer'[j] = buffer[at(j)]
      BY <2>2, <1>2
    <3>2. \A j, k \in 1..Len(buffer') : j < k => at(j) < at(k)
      BY <2>2, <1>2
    <3> HIDE DEF at
    <3> QED BY <1>2, <3>1, <3>2 DEF BufferInv
  <2> QED BY <1>5, <2>1, <2>2, DropShape
<1>6. ASSUME NEW n \in Ids, Joins(kind, n) PROVE BufferInv'
  <2> DEFINE m == [kind |-> kind, n |-> n]
  <2>1. m \in Message /\ m.kind = kind /\ m.n = n
    BY <1>6 DEF Message, Joins
  <2>2. buffer' = Append(buffer, m) /\ n = Len(arrived) + 1 /\ arrived' = Append(arrived, kind)
    BY <1>6 DEF Joins
  <2> HIDE DEF m
  <2>3. /\ Len(buffer') = Len(buffer) + 1 /\ buffer'[Len(buffer) + 1] = m
        /\ \A i \in 1..Len(buffer) : buffer'[i] = buffer[i]
    BY <2>1, <2>2, AppendShape
  <2>4. Len(arrived') = Len(arrived) + 1 /\ arrived'[n] = kind
    BY <2>2, ArrivalShape
  <2>5. \A i \in 1..Len(buffer') : buffer'[i].n <= Len(arrived') /\ arrived'[buffer'[i].n] = buffer'[i].kind
    BY <1>1, <1>2, <2>1, <2>2, <2>3, <2>4
  <2>6. \A i, j \in 1..Len(buffer') : i < j => buffer'[i].n < buffer'[j].n
    <3> SUFFICES ASSUME NEW i \in 1..Len(buffer'), NEW j \in 1..Len(buffer'), i < j
                 PROVE  buffer'[i].n < buffer'[j].n
      OBVIOUS
    <3>1. i \in 1..Len(buffer) /\ buffer'[i] = buffer[i]
      BY <1>2, <2>3
    <3>2. CASE j \in 1..Len(buffer)
      BY <2>3, <3>1, <3>2 DEF BufferInv
    <3>3. CASE j = Len(buffer) + 1
      BY <1>1, <1>2, <2>1, <2>2, <2>3, <3>1, <3>3
    <3>4. j \in 1..Len(buffer) \/ j = Len(buffer) + 1
      <4>1. j \in 1..(Len(buffer) + 1)
        BY <2>3
      <4>2. Len(buffer) \in Nat
        BY <1>2
      <4> QED BY <4>1, <4>2
    <3> QED BY <3>2, <3>3, <3>4
  <2>7. state' \notin {"idle", "running"}
    BY <2>3, <1>2
  <2> QED BY <2>5, <2>6, <2>7 DEF BufferInv
<1> QED BY <1>3, <1>4, <1>5, <1>6

(* The same changes, as they appear in the sets. *)
LEMMA JoinedSets ==
  ASSUME TypeOK, TypeOK', NEW kind, NEW n, Joins(kind, n)
  PROVE  /\ Held' = Held \cup (IF kind = "request" THEN {n} ELSE {})
         /\ BufferedCalls' = BufferedCalls \cup (IF kind = "internal" THEN {n} ELSE {})
<1> DEFINE m == [kind |-> kind, n |-> n]
<1>1. m \in Message /\ m.kind = kind /\ m.n = n /\ buffer' = Append(buffer, m)
  BY DEF Message, Joins
<1> HIDE DEF m
<1>2. /\ Len(buffer') = Len(buffer) + 1 /\ buffer'[Len(buffer) + 1] = m
      /\ \A i \in 1..Len(buffer) : buffer'[i] = buffer[i]
      /\ Len(buffer) \in Nat
  BY <1>1, AppendShape, BufferElements
<1>3. ASSUME NEW k, NEW x
      PROVE (\E i \in 1..Len(buffer') : buffer'[i].kind = k /\ buffer'[i].n = x)
               <=> \/ \E i \in 1..Len(buffer) : buffer[i].kind = k /\ buffer[i].n = x
                   \/ m.kind = k /\ m.n = x
  BY <1>2
<1>4. buffer \in Seq(Message) /\ buffer' \in Seq(Message)
  BY DEF TypeOK
<1> DEFINE At(b, k, x) == \E i \in 1..Len(b) : b[i].kind = k /\ b[i].n = x
<1>5. \A k, x : At(buffer', k, x) <=> At(buffer, k, x) \/ (kind = k /\ n = x)
  BY <1>1, <1>3
<1>6. \A x : /\ x \in Held <=> At(buffer, "request", x)
             /\ x \in BufferedCalls <=> At(buffer, "internal", x)
  BY <1>4, BufferSets DEF Held, BufferedCalls
<1>7. \A x : /\ x \in Held' <=> At(buffer', "request", x)
             /\ x \in BufferedCalls' <=> At(buffer', "internal", x)
  BY <1>4, BufferSets DEF Held, BufferedCalls
<1> HIDE DEF At
<1> QED BY <1>5, <1>6, <1>7

LEMMA EmptiedSets ==
  ASSUME TypeOK, TypeOK', buffer' = <<>>
  PROVE  Held' = {} /\ BufferedCalls' = {}
BY DEF Held, ClientRequestsIn, BufferedCalls, CallsIn

LEMMA DroppedSets ==
  ASSUME TypeOK, TypeOK', BufferInv, NEW n, DropBuffered(n)
  PROVE  Held' = Held \ {n} /\ BufferedCalls' = BufferedCalls \ {n}
<1>0. /\ Len(buffer) \in Nat /\ DOMAIN buffer = 1..Len(buffer)
      /\ \A i \in 1..Len(buffer) : buffer[i].n \in Nat
  BY BufferElements
<1>1. ASSUME BufferedAt(n) = {}, buffer' = buffer,
             NEW k, ExpectsReply(k), NEW x
      PROVE (\E i \in 1..Len(buffer') : buffer'[i].kind = k /\ buffer'[i].n = x)
               <=> x # n /\ \E i \in 1..Len(buffer) : buffer[i].kind = k /\ buffer[i].n = x
  BY <1>0, <1>1 DEF BufferedAt
<1>2. ASSUME NEW at \in 1..Len(buffer), at \in BufferedAt(n), Len(buffer') = Len(buffer) - 1,
             \A j \in 1..(Len(buffer) - 1) :
               buffer'[j] = IF j < at THEN buffer[j] ELSE buffer[j + 1],
             NEW k, NEW x
      PROVE (\E i \in 1..Len(buffer') : buffer'[i].kind = k /\ buffer'[i].n = x)
               <=> x # n /\ \E i \in 1..Len(buffer) : buffer[i].kind = k /\ buffer[i].n = x
  <2>0. buffer[at].n = n
    BY <1>2 DEF BufferedAt
  <2>1. \A i \in 1..Len(buffer) : i # at => buffer[i].n # n
    <3>1. \A i \in 1..Len(buffer) : i < at \/ at < i \/ i = at
      BY <1>0
    <3> QED BY <1>0, <2>0, <3>1 DEF BufferInv
  <2>2. ASSUME NEW i \in 1..Len(buffer')
        PROVE  \E j \in 1..Len(buffer) : j # at /\ buffer'[i] = buffer[j]
    <3>1. CASE i < at
      BY <1>0, <1>2, <3>1
    <3>2. CASE ~(i < at)
      BY <1>0, <1>2, <3>2
    <3> QED BY <3>1, <3>2
  <2>3. ASSUME NEW j \in 1..Len(buffer), j # at
        PROVE  \E i \in 1..Len(buffer') : buffer'[i] = buffer[j]
    <3>1. CASE j < at
      BY <1>0, <1>2, <3>1
    <3>2. CASE ~(j < at)
      <4>1. j - 1 \in 1..Len(buffer') /\ ~(j - 1 < at) /\ (j - 1) + 1 = j
        BY <1>0, <1>2, <2>3, <3>2
      <4> QED BY <1>0, <1>2, <4>1
    <3> QED BY <3>1, <3>2
  <2>4. ASSUME NEW i \in 1..Len(buffer'), buffer'[i].kind = k, buffer'[i].n = x
        PROVE  x # n /\ \E j \in 1..Len(buffer) : buffer[j].kind = k /\ buffer[j].n = x
    <3>1. PICK j \in 1..Len(buffer) : j # at /\ buffer'[i] = buffer[j]
      BY <2>2, <2>4
    <3> QED BY <2>1, <2>4, <3>1
  <2>5. ASSUME NEW j \in 1..Len(buffer), buffer[j].kind = k, buffer[j].n = x, x # n
        PROVE  \E i \in 1..Len(buffer') : buffer'[i].kind = k /\ buffer'[i].n = x
    <3>1. PICK i \in 1..Len(buffer') : buffer'[i] = buffer[j]
      BY <2>0, <2>3, <2>5
    <3> QED BY <2>5, <3>1
  <2> QED BY <2>4, <2>5
<1>3. ASSUME NEW k, ExpectsReply(k), NEW x
      PROVE (\E i \in 1..Len(buffer') : buffer'[i].kind = k /\ buffer'[i].n = x)
               <=> x # n /\ \E i \in 1..Len(buffer) : buffer[i].kind = k /\ buffer[i].n = x
  <2>1. CASE BufferedAt(n) = {} /\ buffer' = buffer
    BY <1>1, <1>3, <2>1
  <2>2. CASE ~(BufferedAt(n) = {} /\ buffer' = buffer)
    <3>1. PICK at \in BufferedAt(n) :
            /\ at \in 1..Len(buffer) /\ Len(buffer') = Len(buffer) - 1
            /\ \A j \in 1..(Len(buffer) - 1) :
                 buffer'[j] = IF j < at THEN buffer[j] ELSE buffer[j + 1]
      BY <2>2, DropShape
    <3> QED BY <1>2, <3>1
  <2> QED BY <2>1, <2>2
<1>4. ExpectsReply("request") /\ ExpectsReply("internal")
  BY DEF ExpectsReply
<1>5. buffer \in Seq(Message) /\ buffer' \in Seq(Message)
  BY DEF TypeOK
<1> DEFINE At(b, k, x) == \E i \in 1..Len(b) : b[i].kind = k /\ b[i].n = x
<1>6. \A k, x : ExpectsReply(k) => (At(buffer', k, x) <=> x # n /\ At(buffer, k, x))
  BY <1>3
<1>7. \A x : /\ x \in Held <=> At(buffer, "request", x)
             /\ x \in BufferedCalls <=> At(buffer, "internal", x)
  BY <1>5, BufferSets DEF Held, BufferedCalls
<1>8. \A x : /\ x \in Held' <=> At(buffer', "request", x)
             /\ x \in BufferedCalls' <=> At(buffer', "internal", x)
  BY <1>5, BufferSets DEF Held, BufferedCalls
<1> HIDE DEF At
<1> QED BY <1>4, <1>6, <1>7, <1>8

-----------------------------------------------------------------------------
(* What happens to messages, whatever the handler: nothing but that some
   requests are answered, a message arrives and is written, held or turned
   away, or all that is held is handed over. *)

(* The numbers of the internal requests outstanding, settled, and settled
   with an error. *)
OpenCalls == {k.n : k \in {c \in callbacks : c.of = "send"}}
SettledCalls == {s.call.n : s \in {x \in settled : x.call.of = "send"}}
FailedCalls == {s.call.n : s \in {x \in settled : x.call.of = "send" /\ ~x.ok}}

(* An internal request in the buffer is one that is still wanted, or whose
   continuation will take it out. *)
CallsInv ==
  /\ OpenCalls \cup SettledCalls \subseteq NumbersOf("internal")
  /\ BufferedCalls \subseteq OpenCalls \cup FailedCalls

(* What was written is older than what is held, and in order; what children
   owe was written. *)
LogInv ==
  /\ \A i \in Ordered : /\ wrote[i].n \in DOMAIN arrived
                        /\ arrived[wrote[i].n] = wrote[i].kind
                        /\ \A j \in 1..Len(buffer) : wrote[i].n < buffer[j].n
  /\ DeliveredInOrder
  /\ \A o \in owed : \E i \in Ordered : wrote[i] = o

(* Each request is in one place, and what a child can answer is in flight. *)
RequestInv ==
  /\ pendingRequests \cup Held \subseteq NumbersOf("request")
  /\ NumbersOf("request") \subseteq Ids
  /\ pendingRequests \cap Held = {}
  /\ answers = [n \in Ids |->
                  IF n \in NumbersOf("request") \ (pendingRequests \cup Held) THEN 1 ELSE 0]
  /\ \A o \in owed : o.to \in attached /\ (o.kind = "request" => o.n \in pendingRequests)

FlowInv == BufferInv /\ CallsInv /\ LogInv /\ RequestInv

LogKept ==
  \/ wrote' = wrote
  \/ \E c \in Nat, kind \in {"initialize", "shutdown", "exit"} :
       wrote' = Append(wrote, To(c, kind, 0))

OwedKept(S) ==
  /\ owed' \subseteq owed
  /\ \A o \in owed' : o.to \in attached' /\ ~(o.kind = "request" /\ o.n \in S)

(* Every call still wanted, or failed and in the buffer, stays so. *)
CallsKept(S) ==
  /\ OpenCalls' \cup SettledCalls' \subseteq OpenCalls \cup SettledCalls \cup S
  /\ BufferedCalls' \cap (OpenCalls \cup FailedCalls) \subseteq OpenCalls' \cup FailedCalls'

Settling(S) ==
  /\ arrived' = arrived /\ LogKept /\ OwedKept(S) /\ CallsKept({})
  /\ buffer' = buffer \/ buffer' = <<>> \/ \E n : DropBuffered(n)
  /\ S \subseteq pendingRequests \cup Held /\ Answer(S)
  /\ pendingRequests' = pendingRequests \ S /\ Held' = Held \ S
  /\ state' \in {"idle", "running"} => buffer' = <<>>

Only(condition, n) == IF condition THEN {n} ELSE {}

HeldBack(kind, n) ==
  /\ state # "stopped" /\ state' \in Starting
  /\ Joins(kind, n) /\ LogKept /\ OwedKept({})
  /\ OpenCalls' = OpenCalls \cup Only(kind = "internal", n)
  /\ SettledCalls' = SettledCalls /\ FailedCalls' = FailedCalls
  /\ UNCHANGED <<pendingRequests, answers>>

TurnedAway(kind, n) ==
  /\ kind \in Kinds /\ n \in Ids /\ n = Len(arrived) + 1
  /\ arrived' = Append(arrived, kind) /\ LogKept /\ OwedKept({})
  /\ CallsKept(Only(kind = "internal", n))
  /\ UNCHANGED <<buffer, pendingRequests>>
  /\ Answer(Only(kind = "request", n))
  /\ state' \in {"idle", "running"} => buffer' = <<>>

FlowStep ==
  \/ \E S : Settling(S)
  \/ \E kind \in Kinds, n \in Ids :
       SendRunning(kind, n) \/ HeldBack(kind, n) \/ TurnedAway(kind, n)
  \/ \E s \in settled : ResumeInitOk(s)

(* How one more message changes the sets of numbers. *)
LEMMA ArrivalNumbers ==
  ASSUME TypeOK, NEW kind \in Kinds, arrived' = Append(arrived, kind)
  PROVE  /\ \A k : NumbersOf(k)' = NumbersOf(k) \cup Only(kind = k, Len(arrived) + 1)
         /\ \A k : Len(arrived) + 1 \notin NumbersOf(k)
         /\ \A k : NumbersOf(k) \subseteq 1..Len(arrived)
<1>1. /\ DOMAIN arrived = 1..Len(arrived) /\ Len(arrived) \in Nat
      /\ DOMAIN arrived' = 1..(Len(arrived) + 1)
      /\ \A n \in 1..Len(arrived) : arrived'[n] = arrived[n]
      /\ arrived'[Len(arrived) + 1] = kind
  BY BufferElements, ArrivalShape
<1>2. \A k : NumbersOf(k) \subseteq 1..Len(arrived) /\ Len(arrived) + 1 \notin NumbersOf(k)
  BY <1>1 DEF NumbersOf
<1>3. ASSUME NEW k PROVE NumbersOf(k)' = NumbersOf(k) \cup Only(kind = k, Len(arrived) + 1)
  <2>1. NumbersOf(k)' = {n \in 1..(Len(arrived) + 1) : arrived'[n] = k}
    BY <1>1 DEF NumbersOf
  <2>2. NumbersOf(k) = {n \in 1..Len(arrived) : arrived[n] = k}
    BY <1>1 DEF NumbersOf
  <2>3. 1..(Len(arrived) + 1) = 1..Len(arrived) \cup {Len(arrived) + 1}
    BY <1>1
  <2>4. \A n : n \in NumbersOf(k)' <=> n \in NumbersOf(k) \/ n \in Only(kind = k, Len(arrived) + 1)
    BY <1>1, <2>1, <2>2, <2>3 DEF Only
  <2> QED BY <2>4
<1> QED BY <1>2, <1>3

(* A log that gains nothing the order is about. *)
LEMMA KeptLog ==
  ASSUME TypeOK, LogKept
  PROVE  Ordered' = Ordered /\ \A i \in Ordered : wrote'[i] = wrote[i]
<1>1. CASE wrote' = wrote
  BY <1>1 DEF Ordered
<1>2. ASSUME NEW c \in Nat, NEW kind \in {"initialize", "shutdown", "exit"},
             wrote' = Append(wrote, To(c, kind, 0))
      PROVE  Ordered' = Ordered /\ \A i \in Ordered : wrote'[i] = wrote[i]
  <2>1. To(c, kind, 0) \in Entry /\ To(c, kind, 0).kind = kind
    BY EntryTyped DEF To
  <2>2. wrote \in Seq(Entry)
    BY DEF TypeOK
  <2>3. /\ Len(wrote') = Len(wrote) + 1 /\ wrote'[Len(wrote) + 1] = To(c, kind, 0)
        /\ \A i \in 1..Len(wrote) : wrote'[i] = wrote[i]
        /\ wrote' \in Seq(Entry)
    BY <1>2, <2>1, <2>2, AppendProperties
  <2>4. DOMAIN wrote = 1..Len(wrote) /\ Len(wrote) \in Nat /\ DOMAIN wrote' = 1..(Len(wrote) + 1)
    BY <2>2, <2>3, LenProperties
  <2>5. \A i : i \in Ordered' <=> i \in Ordered
    BY <2>1, <2>3, <2>4 DEF Ordered
  <2> QED BY <2>3, <2>4, <2>5 DEF Ordered
<1> QED BY <1>1, <1>2 DEF LogKept

(* A log that grows by one message, younger than all of it. *)
LEMMA GrownLog ==
  ASSUME TypeOK, NEW e \in Entry, wrote' = Append(wrote, e)
  PROVE  /\ \A i : i \in Ordered' <=>
                     i \in Ordered \/ (i = Len(wrote) + 1 /\ e.kind \in {"request", "internal", "note"})
         /\ \A i \in Ordered : wrote'[i] = wrote[i] /\ i \in 1..Len(wrote)
         /\ wrote'[Len(wrote) + 1] = e /\ Len(wrote) \in Nat
<1>1. wrote \in Seq(Entry)
  BY DEF TypeOK
<1>2. /\ Len(wrote') = Len(wrote) + 1 /\ wrote'[Len(wrote) + 1] = e
      /\ \A i \in 1..Len(wrote) : wrote'[i] = wrote[i]
      /\ wrote' \in Seq(Entry)
  BY <1>1, AppendProperties
<1>3. DOMAIN wrote = 1..Len(wrote) /\ Len(wrote) \in Nat /\ DOMAIN wrote' = 1..(Len(wrote) + 1)
  BY <1>1, <1>2, LenProperties
<1> QED BY <1>2, <1>3 DEF Ordered

(* Children are not asked the same twice. *)
LEMMA OwedOnce ==
  ASSUME TypeOK, LogInv, NEW o \in owed, NEW p \in owed, o.n = p.n
  PROVE  o = p
<1>1. PICK i \in Ordered : wrote[i] = o
  BY DEF LogInv
<1>2. PICK j \in Ordered : wrote[j] = p
  BY DEF LogInv
<1>3. i \in Nat /\ j \in Nat
  BY LenProperties DEF Ordered, TypeOK
<1>4. o.n \in Nat
  BY DEF TypeOK, Entry
<1>5. ~(i < j) /\ ~(j < i)
  BY <1>1, <1>2, <1>3, <1>4 DEF LogInv, DeliveredInOrder
<1> QED BY <1>1, <1>2, <1>3, <1>5

-----------------------------------------------------------------------------
(* Each kind of step keeps the messages accounted for. *)

(* Positions of the new buffer hold what the old one held. *)
LEMMA OldElements ==
  ASSUME TypeOK, TypeOK', BufferInv,
         buffer' = buffer \/ buffer' = <<>> \/ \E n : DropBuffered(n)
  PROVE  \A i \in 1..Len(buffer') : \E j \in 1..Len(buffer) : buffer'[i] = buffer[j]
<1>1. CASE buffer' = buffer \/ buffer' = <<>>
  BY <1>1
<1>2. ASSUME NEW n, DropBuffered(n)
      PROVE  \A i \in 1..Len(buffer') : \E j \in 1..Len(buffer) : buffer'[i] = buffer[j]
  <2>1. CASE buffer' = buffer
    BY <2>1
  <2>2. ASSUME NEW k \in 1..Len(buffer), Len(buffer') = Len(buffer) - 1,
               \A j \in 1..(Len(buffer) - 1) :
                 buffer'[j] = IF j < k THEN buffer[j] ELSE buffer[j + 1]
        PROVE  \A i \in 1..Len(buffer') : \E j \in 1..Len(buffer) : buffer'[i] = buffer[j]
    <3>1. Len(buffer) \in Nat
      BY BufferElements
    <3> QED BY <2>2, <3>1
  <2> QED BY <1>2, <2>1, <2>2, DropShape
<1> QED BY <1>1, <1>2

(* The requests answered, as a set: what the function of answers says. *)
LEMMA AnswersAre ==
  ASSUME RequestInv, NEW n \in Ids
  PROVE  answers[n] = IF n \in NumbersOf("request") \ (pendingRequests \cup Held) THEN 1 ELSE 0
BY DEF RequestInv

LEMMA SettlingKeeps ==
  ASSUME TypeOK, TypeOK', FlowInv, NEW S, Settling(S)
  PROVE  FlowInv'
<1> USE DEF FlowInv
<1>1. BufferInv'
  <2>1. "note" \in Kinds
    BY DEF Kinds
  <2> QED BY <2>1, BufferStep DEF Settling
<1>2. \A k : NumbersOf(k)' = NumbersOf(k)
  BY DEF Settling, NumbersOf
<1>3. \A i \in 1..Len(buffer') : \E j \in 1..Len(buffer) : buffer'[i] = buffer[j]
  BY OldElements DEF Settling
<1>4. CallsInv'
  <2>1. BufferedCalls' \subseteq BufferedCalls
    <3>1. buffer \in Seq(Message) /\ buffer' \in Seq(Message)
      BY DEF TypeOK
    <3>2. \A n : n \in BufferedCalls' => n \in BufferedCalls
      BY <1>3, <3>1, BufferSets DEF BufferedCalls
    <3> QED BY <3>2
  <2> QED BY <1>2, <2>1 DEF CallsInv, Settling, CallsKept
<1>5. LogInv'
  <2>1. Ordered' = Ordered /\ \A i \in Ordered : wrote'[i] = wrote[i]
    BY KeptLog DEF Settling
  <2>2. DeliveredInOrder'
    BY <2>1 DEF LogInv, DeliveredInOrder
  <2>3. \A o \in owed' : \E i \in Ordered' : wrote'[i] = o
    BY <2>1 DEF LogInv, Settling, OwedKept
  <2>4. \A i \in Ordered' : /\ wrote'[i].n \in DOMAIN arrived'
                            /\ arrived'[wrote'[i].n] = wrote'[i].kind
                            /\ \A j \in 1..Len(buffer') : wrote'[i].n < buffer'[j].n
    BY <1>3, <2>1 DEF LogInv, Settling
  <2> QED BY <2>2, <2>3, <2>4 DEF LogInv
<1>6. RequestInv'
  <2>1. /\ pendingRequests' = pendingRequests \ S /\ Held' = Held \ S
        /\ S \subseteq pendingRequests \cup Held
        /\ NumbersOf("request")' = NumbersOf("request")
    BY <1>2 DEF Settling
  <2>2. \A n \in Ids : answers[n] = IF n \in NumbersOf("request") \ (pendingRequests \cup Held)
                                    THEN 1 ELSE 0
    BY AnswersAre
  <2>3. answers' = [n \in Ids |-> IF n \in S THEN answers[n] + 1 ELSE answers[n]]
    BY DEF Settling, Answer
  <2>4. \A n \in S : n \in NumbersOf("request")
    BY <2>1 DEF RequestInv
  <2>5. answers' = [n \in Ids |->
                     IF n \in NumbersOf("request")' \ (pendingRequests' \cup Held') THEN 1 ELSE 0]
    BY <2>1, <2>2, <2>3, <2>4
  <2>6. \A o \in owed' : o.to \in attached' /\ (o.kind = "request" => o.n \in pendingRequests')
    BY <2>1 DEF RequestInv, Settling, OwedKept
  <2> QED BY <2>1, <2>5, <2>6 DEF RequestInv
<1> QED BY <1>1, <1>4, <1>5, <1>6

LEMMA TurnedAwayKeeps ==
  ASSUME TypeOK, TypeOK', FlowInv, NEW kind, NEW n, TurnedAway(kind, n)
  PROVE  FlowInv'
<1> USE DEF FlowInv
<1>0. kind \in Kinds /\ n \in Ids /\ n = Len(arrived) + 1 /\ arrived' = Append(arrived, kind)
      /\ buffer' = buffer /\ pendingRequests' = pendingRequests
  BY DEF TurnedAway
<1>1. BufferInv'
  BY <1>0, BufferStep DEF TurnedAway
<1>2. /\ \A k : NumbersOf(k)' = NumbersOf(k) \cup Only(kind = k, n)
      /\ \A k : n \notin NumbersOf(k)
  BY <1>0, ArrivalNumbers
<1>3. BufferedCalls' = BufferedCalls /\ Held' = Held
  BY <1>0 DEF BufferedCalls, Held
<1>4. CallsInv'
  <2>1. NumbersOf("internal")' = NumbersOf("internal") \cup Only(kind = "internal", n)
    BY <1>2
  <2> QED BY <1>3, <2>1 DEF CallsInv, TurnedAway, CallsKept
<1>5. LogInv'
  <2>1. Ordered' = Ordered /\ \A i \in Ordered : wrote'[i] = wrote[i]
    BY KeptLog DEF TurnedAway
  <2>2. DeliveredInOrder'
    BY <2>1 DEF LogInv, DeliveredInOrder
  <2>3. \A o \in owed' : \E i \in Ordered' : wrote'[i] = o
    BY <2>1 DEF LogInv, TurnedAway, OwedKept
  <2>4. \A m \in DOMAIN arrived : m \in DOMAIN arrived' /\ arrived'[m] = arrived[m]
    BY <1>0, ArrivalShape, BufferElements
  <2>5. \A i \in Ordered' : /\ wrote'[i].n \in DOMAIN arrived'
                            /\ arrived'[wrote'[i].n] = wrote'[i].kind
                            /\ \A j \in 1..Len(buffer') : wrote'[i].n < buffer'[j].n
    BY <1>0, <2>1, <2>4 DEF LogInv
  <2> QED BY <2>2, <2>3, <2>5 DEF LogInv
<1>6. RequestInv'
  <2>1. NumbersOf("request")' = NumbersOf("request") \cup Only(kind = "request", n)
        /\ n \notin NumbersOf("request")
    BY <1>2
  <2>2. \A m \in Ids : answers[m] = IF m \in NumbersOf("request") \ (pendingRequests \cup Held)
                                    THEN 1 ELSE 0
    BY AnswersAre
  <2>3. answers' = [m \in Ids |-> IF m \in Only(kind = "request", n) THEN answers[m] + 1
                                  ELSE answers[m]]
    BY DEF TurnedAway, Answer
  <2>4. n \notin pendingRequests \cup Held
    BY <2>1 DEF RequestInv
  <2>5. answers' = [m \in Ids |->
                     IF m \in NumbersOf("request")' \ (pendingRequests' \cup Held') THEN 1 ELSE 0]
    <3>1. \A m \in Ids : (m \in NumbersOf("request")' \ (pendingRequests' \cup Held'))
                           <=> \/ m \in NumbersOf("request") \ (pendingRequests \cup Held)
                               \/ m \in Only(kind = "request", n)
      BY <1>0, <1>3, <2>1, <2>4 DEF Only
    <3>2. \A m \in Only(kind = "request", n) : m = n
      BY DEF Only
    <3> QED BY <2>1, <2>2, <2>3, <3>1, <3>2
  <2>6. \A o \in owed' : o.to \in attached' /\ (o.kind = "request" => o.n \in pendingRequests')
    BY <1>0 DEF RequestInv, TurnedAway, OwedKept
  <2>7. NumbersOf("request")' \subseteq Ids
    BY <1>0, <2>1 DEF RequestInv, Only
  <2> QED BY <1>0, <1>3, <2>1, <2>5, <2>6, <2>7 DEF RequestInv
<1> QED BY <1>1, <1>4, <1>5, <1>6

LEMMA HeldBackKeeps ==
  ASSUME TypeOK, TypeOK', FlowInv, NEW kind, NEW n, HeldBack(kind, n)
  PROVE  FlowInv'
<1> USE DEF FlowInv
<1>0. /\ kind \in Kinds /\ n \in Ids /\ n = Len(arrived) + 1 /\ arrived' = Append(arrived, kind)
      /\ Joins(kind, n) /\ pendingRequests' = pendingRequests /\ answers' = answers
  BY DEF HeldBack, Joins
<1>1. BufferInv'
  BY <1>0, BufferStep DEF HeldBack, Starting
<1>2. /\ \A k : NumbersOf(k)' = NumbersOf(k) \cup Only(kind = k, n)
      /\ \A k : n \notin NumbersOf(k)
  BY <1>0, ArrivalNumbers
<1>3. /\ Held' = Held \cup Only(kind = "request", n)
      /\ BufferedCalls' = BufferedCalls \cup Only(kind = "internal", n)
  BY <1>0, JoinedSets DEF Only
<1>4. CallsInv'
  <2>1. NumbersOf("internal")' = NumbersOf("internal") \cup Only(kind = "internal", n)
    BY <1>2
  <2> QED BY <1>3, <2>1 DEF CallsInv, HeldBack
<1>5. LogInv'
  <2>1. Ordered' = Ordered /\ \A i \in Ordered : wrote'[i] = wrote[i]
    BY KeptLog DEF HeldBack
  <2>2. DeliveredInOrder'
    BY <2>1 DEF LogInv, DeliveredInOrder
  <2>3. \A o \in owed' : \E i \in Ordered' : wrote'[i] = o
    BY <2>1 DEF LogInv, HeldBack, OwedKept
  <2>4. \A m \in DOMAIN arrived : m \in DOMAIN arrived' /\ arrived'[m] = arrived[m] /\ m < n
    BY <1>0, ArrivalShape, BufferElements
  <2> DEFINE msg == [kind |-> kind, n |-> n]
  <2>5. msg \in Message /\ msg.n = n /\ buffer' = Append(buffer, msg)
    BY <1>0 DEF Message, Joins
  <2> HIDE DEF msg
  <2>6. \A j \in 1..Len(buffer') : \/ j \in 1..Len(buffer) /\ buffer'[j] = buffer[j]
                                  \/ buffer'[j].n = n
    BY <2>5, AppendShape, BufferElements
  <2>7. \A i \in Ordered' : /\ wrote'[i].n \in DOMAIN arrived'
                            /\ arrived'[wrote'[i].n] = wrote'[i].kind
    BY <2>1, <2>4 DEF LogInv
  <2>8. \A i \in Ordered' : \A j \in 1..Len(buffer') : wrote'[i].n < buffer'[j].n
    BY <2>1, <2>4, <2>6 DEF LogInv
  <2> QED BY <2>2, <2>3, <2>7, <2>8 DEF LogInv
<1>6. RequestInv'
  <2>1. NumbersOf("request")' = NumbersOf("request") \cup Only(kind = "request", n)
        /\ n \notin NumbersOf("request")
    BY <1>2
  <2>2. \A m \in Ids : (m \in NumbersOf("request")' \ (pendingRequests' \cup Held'))
                         <=> m \in NumbersOf("request") \ (pendingRequests \cup Held)
    BY <1>0, <1>3, <2>1 DEF RequestInv, Only
  <2>3. answers' = [m \in Ids |->
                     IF m \in NumbersOf("request")' \ (pendingRequests' \cup Held') THEN 1 ELSE 0]
    BY <1>0, <2>2 DEF RequestInv
  <2>4. \A o \in owed' : o.to \in attached' /\ (o.kind = "request" => o.n \in pendingRequests')
    BY <1>0 DEF RequestInv, HeldBack, OwedKept
  <2>5. pendingRequests \cap Only(kind = "request", n) = {}
    BY <2>1 DEF RequestInv, Only
  <2>6. NumbersOf("request")' \subseteq Ids
    BY <1>0, <2>1 DEF RequestInv, Only
  <2> QED BY <1>0, <1>3, <2>1, <2>3, <2>4, <2>5, <2>6 DEF RequestInv
<1> QED BY <1>1, <1>4, <1>5, <1>6

(* A call that is made along with what is sent. *)
LEMMA CallsWithSets ==
  ASSUME NEW kind, NEW n
  PROVE  {k.n : k \in {c \in CallsWith(kind, n) : c.of = "send"}}
           = OpenCalls \cup Only(kind = "internal", n)
<1>1. SendCall(n).of = "send" /\ SendCall(n).n = n
  BY DEF SendCall
<1>2. CASE kind = "internal"
  <2>1. CallsWith(kind, n) = callbacks \cup {SendCall(n)}
    BY <1>2 DEF CallsWith
  <2>2. \A x : x \in {k.n : k \in {c \in CallsWith(kind, n) : c.of = "send"}}
                 <=> x \in OpenCalls \/ x = n
    BY <1>1, <2>1 DEF OpenCalls
  <2> QED BY <1>2, <2>2 DEF Only
<1>3. CASE kind # "internal"
  BY <1>3 DEF CallsWith, OpenCalls, Only
<1> QED BY <1>2, <1>3

(* A message written to a running server: nothing is held, so it is younger
   than all that was written. *)
LEMMA SendRunningKeeps ==
  ASSUME TypeOK, TypeOK', ChildInv, FlowInv,
         NEW kind \in Kinds, NEW n \in Ids, SendRunning(kind, n)
  PROVE  FlowInv'
<1> USE DEF FlowInv
<1> DEFINE e == To(server, kind, n)
<1>0. /\ n = Len(arrived) + 1 /\ arrived' = Append(arrived, kind)
      /\ buffer' = buffer /\ buffer = <<>> /\ answers' = answers
      /\ attached' = attached /\ server \in attached
      /\ pendingRequests' = pendingRequests \cup Only(kind = "request", n)
      /\ state' = state /\ settled' = settled /\ callbacks' = CallsWith(kind, n)
  BY DEF SendRunning, Arrives, BufferInv, ChildInv, processVars, Only
<1>1. e \in Entry /\ e.kind = kind /\ e.n = n /\ e.to = server
  <2>1. server \in Nat /\ n \in Nat
    BY ManagedServerAssumption DEF TypeOK, Ids
  <2> QED BY <2>1, EntryTyped DEF To
<1>2. /\ wrote' = Append(wrote, e)
      /\ owed' = owed \cup (IF ExpectsReply(kind) THEN {e} ELSE {})
  <2>1. wrote' = wrote \o <<e>> /\ owed' = owed \cup RequestsOf(<<e>>)
    BY <1>0 DEF SendRunning, Write
  <2>2. wrote \o <<e>> = Append(wrote, e)
    BY <1>1, AppendIsConcat DEF TypeOK
  <2>3. RequestsOf(<<e>>) = IF ExpectsReply(kind) THEN {e} ELSE {}
    BY <1>1 DEF RequestsOf
  <2> QED BY <2>1, <2>2, <2>3
<1> HIDE DEF e
<1>3. BufferInv'
  BY <1>0, BufferStep
<1>4. /\ \A k : NumbersOf(k)' = NumbersOf(k) \cup Only(kind = k, n)
      /\ \A k : n \notin NumbersOf(k)
  BY <1>0, ArrivalNumbers
<1>5. BufferedCalls' = BufferedCalls /\ Held' = Held
  BY <1>0 DEF BufferedCalls, Held
<1>6. CallsInv'
  <2>1. /\ OpenCalls' = OpenCalls \cup Only(kind = "internal", n)
        /\ SettledCalls' = SettledCalls /\ FailedCalls' = FailedCalls
    BY <1>0, CallsWithSets DEF OpenCalls, SettledCalls, FailedCalls
  <2>2. NumbersOf("internal")' = NumbersOf("internal") \cup Only(kind = "internal", n)
    BY <1>4
  <2> QED BY <1>5, <2>1, <2>2 DEF CallsInv
<1>7. LogInv'
  <2>1. /\ \A i : i \in Ordered' <=>
                     i \in Ordered \/ (i = Len(wrote) + 1 /\ kind \in {"request", "internal", "note"})
        /\ \A i \in Ordered : wrote'[i] = wrote[i] /\ i \in 1..Len(wrote)
        /\ wrote'[Len(wrote) + 1] = e /\ Len(wrote) \in Nat
    BY <1>1, <1>2, GrownLog
  <2>2. /\ \A m \in DOMAIN arrived : m \in DOMAIN arrived' /\ arrived'[m] = arrived[m] /\ m < n
        /\ n \in DOMAIN arrived' /\ arrived'[n] = kind
    BY <1>0, ArrivalShape, BufferElements
  <2>3. DeliveredInOrder'
    <3> SUFFICES ASSUME NEW i \in Ordered', NEW j \in Ordered', i < j
                 PROVE  wrote'[i].n < wrote'[j].n
      BY DEF DeliveredInOrder
    <3>1. i \in Ordered
      BY <2>1
    <3>2. CASE j \in Ordered
      BY <2>1, <3>1, <3>2 DEF LogInv, DeliveredInOrder
    <3>3. CASE j = Len(wrote) + 1
      BY <1>1, <2>1, <2>2, <3>1, <3>3 DEF LogInv
    <3> QED BY <2>1, <3>2, <3>3
  <2>4. \A i \in Ordered' : /\ wrote'[i].n \in DOMAIN arrived'
                            /\ arrived'[wrote'[i].n] = wrote'[i].kind
                            /\ \A j \in 1..Len(buffer') : wrote'[i].n < buffer'[j].n
    <3> SUFFICES ASSUME NEW i \in Ordered'
                 PROVE  wrote'[i].n \in DOMAIN arrived' /\ arrived'[wrote'[i].n] = wrote'[i].kind
      BY <1>0
    <3>1. CASE i \in Ordered
      BY <2>1, <2>2, <3>1 DEF LogInv
    <3>2. CASE i = Len(wrote) + 1
      BY <1>1, <2>1, <2>2, <3>2
    <3> QED BY <2>1, <3>1, <3>2
  <2>5. \A o \in owed' : \E i \in Ordered' : wrote'[i] = o
    <3> SUFFICES ASSUME NEW o \in owed' PROVE \E i \in Ordered' : wrote'[i] = o
      OBVIOUS
    <3>1. CASE o \in owed
      BY <2>1, <3>1 DEF LogInv
    <3>2. CASE o = e /\ ExpectsReply(kind)
      BY <2>1, <3>2 DEF ExpectsReply
    <3> QED BY <1>2, <3>1, <3>2
  <2> QED BY <2>3, <2>4, <2>5 DEF LogInv
<1>8. RequestInv'
  <2>1. NumbersOf("request")' = NumbersOf("request") \cup Only(kind = "request", n)
        /\ n \notin NumbersOf("request")
    BY <1>4
  <2>2. \A m \in Ids : (m \in NumbersOf("request")' \ (pendingRequests' \cup Held'))
                         <=> m \in NumbersOf("request") \ (pendingRequests \cup Held)
    BY <1>0, <1>5, <2>1 DEF RequestInv, Only
  <2>3. answers' = [m \in Ids |->
                     IF m \in NumbersOf("request")' \ (pendingRequests' \cup Held') THEN 1 ELSE 0]
    BY <1>0, <2>2 DEF RequestInv
  <2>4. \A o \in owed' : o.to \in attached' /\ (o.kind = "request" => o.n \in pendingRequests')
    BY <1>0, <1>1, <1>2 DEF RequestInv, Only
  <2>5. Held \cap Only(kind = "request", n) = {}
    BY <2>1 DEF RequestInv, Only
  <2>6. pendingRequests' \cap Held' = {}
    BY <1>0, <1>5, <2>5 DEF RequestInv
  <2>7. pendingRequests' \cup Held' \subseteq NumbersOf("request")'
    BY <1>0, <1>5, <2>1 DEF RequestInv
  <2>8. NumbersOf("request")' \subseteq Ids
    BY <2>1 DEF RequestInv, Only
  <2> QED BY <2>3, <2>4, <2>6, <2>7, <2>8 DEF RequestInv
<1> QED BY <1>3, <1>6, <1>7, <1>8

-----------------------------------------------------------------------------
(* The handover at the end of a handshake. *)

LEMMA IntervalLength ==
  ASSUME NEW m \in Nat, NEW n \in Nat, 1..m = 1..n
  PROVE  m = n
<1>1. m \in 1..m <=> m \in 1..n
  OBVIOUS
<1>2. n \in 1..m <=> n \in 1..n
  OBVIOUS
<1> QED BY <1>1, <1>2

(* What is written then: initialized, the documents, and all that was held, in
   the order it was held. *)
LEMMA HandoverShape ==
  ASSUME TypeOK, NEW c \in attached,
         Write(c, <<To(c, "initialized", 0)>> \o Replay(c) \o ForwardTo(c, buffer))
  PROVE  \E base \in Nat :
           /\ base > Len(wrote) /\ Len(wrote) \in Nat
           /\ \A i \in 1..Len(wrote) : wrote'[i] = wrote[i]
           /\ wrote'[Len(wrote) + 1] = To(c, "initialized", 0)
           /\ \A i \in (Len(wrote) + 2)..base :
                documents # 0 /\ i = base /\ wrote'[i] = To(c, "replay", documents)
           /\ documents # 0 => base = Len(wrote) + 2
           /\ DOMAIN wrote' = 1..(base + Len(buffer))
           /\ \A j \in 1..Len(buffer) : wrote'[base + j] = To(c, buffer[j].kind, buffer[j].n)
           /\ \A o \in owed' : \/ o \in owed
                               \/ \E j \in 1..Len(buffer) : /\ o = To(c, buffer[j].kind, buffer[j].n)
                                                            /\ ExpectsReply(buffer[j].kind)
<1> DEFINE first == <<To(c, "initialized", 0)>>
           head == first \o Replay(c)
           tail == ForwardTo(c, buffer)
           all == head \o tail
<1>0. c \in Nat /\ documents \in Nat /\ wrote \in Seq(Entry) /\ buffer \in Seq(Message)
  BY ManagedServerAssumption DEF TypeOK
<1>1. /\ first \in Seq(Entry) /\ Len(first) = 1 /\ first[1] = To(c, "initialized", 0)
      /\ To(c, "initialized", 0).kind = "initialized"
  BY <1>0, EntryTyped DEF To
<1>2. /\ Replay(c) \in Seq(Entry)
      /\ Len(Replay(c)) = IF documents = 0 THEN 0 ELSE 1
      /\ documents # 0 => Replay(c)[1] = To(c, "replay", documents)
  <2>1. <<To(c, "replay", documents)>> \in Seq(Entry)
    BY <1>0, EntryTyped
  <2> QED BY <2>1, EmptySeq DEF Replay
<1>3. /\ tail \in Seq(Entry) /\ Len(tail) = Len(buffer) /\ Len(buffer) \in Nat
      /\ \A j \in 1..Len(buffer) : tail[j] = To(c, buffer[j].kind, buffer[j].n)
  <2>1. tail \in Seq(Entry)
    BY <1>0, ForwardTyped
  <2>2. DOMAIN buffer = 1..Len(buffer) /\ Len(buffer) \in Nat
    BY <1>0, LenProperties
  <2>3. tail = [i \in 1..Len(buffer) |-> To(c, buffer[i].kind, buffer[i].n)]
    BY <2>2 DEF ForwardTo
  <2>4. DOMAIN tail = 1..Len(tail) /\ Len(tail) \in Nat
    BY <2>1, LenProperties
  <2>5. DOMAIN tail = 1..Len(buffer)
    BY <2>3
  <2>6. Len(tail) = Len(buffer)
    <3> HIDE DEF tail
    <3>1. Len(tail) \in Nat /\ Len(buffer) \in Nat /\ 1..Len(tail) = 1..Len(buffer)
      BY <2>2, <2>4, <2>5
    <3> QED BY <3>1, IntervalLength
  <2> QED BY <2>1, <2>2, <2>3, <2>6
<1> HIDE DEF first, tail
<1>4. /\ head \in Seq(Entry) /\ Len(head) = 1 + (IF documents = 0 THEN 0 ELSE 1)
      /\ head[1] = To(c, "initialized", 0)
      /\ documents # 0 => head[2] = To(c, "replay", documents)
  <2>1. /\ head \in Seq(Entry) /\ Len(head) = Len(first) + Len(Replay(c))
        /\ \A i \in 1..(Len(first) + Len(Replay(c))) :
             head[i] = IF i <= Len(first) THEN first[i] ELSE Replay(c)[i - Len(first)]
    BY <1>1, <1>2, ConcatProperties
  <2> HIDE DEF head
  <2>2. head[1] = first[1]
    BY <1>1, <1>2, <2>1
  <2>3. documents # 0 => head[2] = Replay(c)[1]
    BY <1>1, <1>2, <2>1
  <2> QED BY <1>1, <1>2, <2>1, <2>2, <2>3
<1> HIDE DEF head
<1>5. /\ all \in Seq(Entry) /\ Len(all) = Len(head) + Len(buffer)
      /\ \A i \in 1..(Len(head) + Len(buffer)) :
           all[i] = IF i <= Len(head) THEN head[i] ELSE tail[i - Len(head)]
  <2>1. /\ head \o tail \in Seq(Entry)
        /\ Len(head \o tail) = Len(head) + Len(tail)
        /\ \A i \in 1..(Len(head) + Len(tail)) :
             (head \o tail)[i] = IF i <= Len(head) THEN head[i] ELSE tail[i - Len(head)]
    <3>1. head \in Seq(Entry) /\ tail \in Seq(Entry)
      BY <1>3, <1>4
    <3> QED BY <3>1, ConcatProperties
  <2>2. Len(tail) = Len(buffer)
    BY <1>3
  <2>3. all = head \o tail
    OBVIOUS
  <2> HIDE DEF all
  <2> QED BY <2>1, <2>2, <2>3
<1>6. wrote' = wrote \o all /\ owed' = owed \cup RequestsOf(all)
  BY DEF Write, all, head, tail, first
<1> HIDE DEF all
<1>7. Len(wrote) \in Nat /\ Len(head) \in Nat
  BY <1>0, <1>4, LenProperties
<1>8. /\ Len(wrote') = Len(wrote) + Len(all) /\ wrote' \in Seq(Entry)
      /\ \A i \in 1..(Len(wrote) + Len(all)) :
           wrote'[i] = IF i <= Len(wrote) THEN wrote[i] ELSE all[i - Len(wrote)]
  <2>1. /\ wrote \o all \in Seq(Entry)
        /\ Len(wrote \o all) = Len(wrote) + Len(all)
        /\ \A i \in 1..(Len(wrote) + Len(all)) :
             (wrote \o all)[i] = IF i <= Len(wrote) THEN wrote[i] ELSE all[i - Len(wrote)]
    BY <1>0, <1>5, ConcatProperties
  <2> QED BY <1>6, <2>1
<1> DEFINE base == Len(wrote) + Len(head)
<1>9. base \in Nat /\ base > Len(wrote) /\ (documents # 0 => base = Len(wrote) + 2)
  BY <1>4, <1>7
<1>10. DOMAIN wrote' = 1..(base + Len(buffer))
  <2>1. DOMAIN wrote' = 1..Len(wrote')
    BY <1>8, LenProperties
  <2> QED BY <1>3, <1>5, <1>7, <1>8, <2>1
<1>11. \A i \in 1..Len(wrote) : wrote'[i] = wrote[i]
  BY <1>3, <1>5, <1>7, <1>8
<1>12. wrote'[Len(wrote) + 1] = To(c, "initialized", 0)
  <2>1. wrote'[Len(wrote) + 1] = all[1]
    BY <1>3, <1>4, <1>5, <1>7, <1>8
  <2>2. all[1] = head[1]
    BY <1>3, <1>4, <1>5
  <2> QED BY <1>4, <2>1, <2>2
<1>13. ASSUME NEW i \in (Len(wrote) + 2)..base
       PROVE  documents # 0 /\ i = base /\ wrote'[i] = To(c, "replay", documents)
  <2>1. documents # 0 /\ i = base /\ base = Len(wrote) + 2 /\ Len(head) = 2
    BY <1>4, <1>7
  <2>2. wrote'[i] = all[2] /\ all[2] = head[2]
    BY <1>3, <1>5, <1>7, <1>8, <2>1
  <2> QED BY <1>4, <2>1, <2>2
<1>14. ASSUME NEW j \in 1..Len(buffer)
       PROVE  /\ wrote'[base + j] = To(c, buffer[j].kind, buffer[j].n)
              /\ all[Len(head) + j] = To(c, buffer[j].kind, buffer[j].n)
  <2>1. all[Len(head) + j] = tail[j]
    BY <1>3, <1>5, <1>7
  <2>2. wrote'[base + j] = all[Len(head) + j]
    <3>1. /\ base + j \in 1..(Len(wrote) + Len(all)) /\ ~(base + j <= Len(wrote))
          /\ (base + j) - Len(wrote) = Len(head) + j
      BY <1>3, <1>5, <1>7
    <3>2. wrote'[base + j] = all[(base + j) - Len(wrote)]
      BY <1>8, <3>1
    <3> QED BY <3>1, <3>2
  <2> QED BY <1>3, <2>1, <2>2
<1>15. ASSUME NEW o \in RequestsOf(all)
       PROVE  \E j \in 1..Len(buffer) : /\ o = To(c, buffer[j].kind, buffer[j].n)
                                        /\ ExpectsReply(buffer[j].kind)
  <2>1. DOMAIN all = 1..(Len(head) + Len(buffer))
    BY <1>5, LenProperties
  <2>2. PICK i \in 1..(Len(head) + Len(buffer)) : o = all[i] /\ ExpectsReply(all[i].kind)
    BY <2>1 DEF RequestsOf
  <2>3. i > Len(head)
    <3>1. SUFFICES ASSUME i <= Len(head) PROVE FALSE
      BY <1>3, <1>7
    <3>2. all[i] = head[i] /\ i \in 1..Len(head)
      BY <1>5, <1>7, <1>3, <3>1
    <3>3. i = 1 \/ (i = 2 /\ documents # 0)
      BY <1>4, <3>2
    <3>4. head[i].kind \in {"initialized", "replay"}
      BY <1>4, <3>3 DEF To
    <3> QED BY <2>2, <3>2, <3>4 DEF ExpectsReply
  <2>4. PICK j \in 1..Len(buffer) : i = Len(head) + j
    <3>1. i - Len(head) \in 1..Len(buffer) /\ i = Len(head) + (i - Len(head))
      BY <1>3, <1>7, <2>3
    <3> QED BY <3>1
  <2>5. o = To(c, buffer[j].kind, buffer[j].n)
    BY <1>14, <2>2, <2>4
  <2> QED BY <2>2, <2>5, <2>4, <1>14 DEF To
<1> HIDE DEF base
<1> QED BY <1>6, <1>7, <1>9, <1>10, <1>11, <1>12, <1>13, <1>14, <1>15

(* A handshake that ends well ends with the current child, which is alive. *)
LEMMA HandshakeChild ==
  ASSUME ServerInv, NEW s \in settled, ResumeInitOk(s)
  PROVE  /\ s.call.n = server /\ server # 0 /\ server \in attached
         /\ state \in Starting /\ HandsShaken
<1>1. /\ s.call.of = "initialize" /\ state = s.call.expects /\ server = s.call.n
  BY DEF ResumeInitOk, Resumes, Superseded
<1>2. state \in Starting
  BY <1>1 DEF ServerInv, TypeOK, Settled, Call
<1>3. s \in SettledHandshakes
  BY <1>1 DEF SettledHandshakes
<1>4. ~LostChild
  BY <1>1, <1>3 DEF LostChild
<1>5. ~WaitingForRetry /\ ~ShakingHands
  BY <1>3 DEF WaitingForRetry, ShakingHands
<1>6. HandsShaken
  BY <1>2, <1>4, <1>5 DEF ServerInv, StartInv
<1> QED BY <1>1, <1>2, <1>6 DEF HandsShaken, ServerInv, ChildInv

LEMMA HandoverKeeps ==
  ASSUME ServerInv, TypeOK', FlowInv, NEW s \in settled, ResumeInitOk(s)
  PROVE  FlowInv'
<1> USE DEF FlowInv
<1> DEFINE c == server
<1>0. /\ TypeOK /\ c \in attached /\ attached' = attached
      /\ arrived' = arrived /\ buffer' = <<>> /\ answers' = answers
      /\ pendingRequests' = pendingRequests \cup Held
      /\ callbacks' = callbacks /\ settled' = settled \ {s} /\ s.ok
      /\ s.call.of = "initialize"
      /\ Write(c, <<To(c, "initialized", 0)>> \o Replay(c) \o ForwardTo(c, buffer))
  BY HandshakeChild DEF ServerInv, ResumeInitOk, Resumes, clientVars, processVars, Held
<1> HIDE DEF c
<1>1. PICK base \in Nat :
        /\ base > Len(wrote) /\ Len(wrote) \in Nat
        /\ \A i \in 1..Len(wrote) : wrote'[i] = wrote[i]
        /\ wrote'[Len(wrote) + 1] = To(c, "initialized", 0)
        /\ \A i \in (Len(wrote) + 2)..base :
             documents # 0 /\ i = base /\ wrote'[i] = To(c, "replay", documents)
        /\ documents # 0 => base = Len(wrote) + 2
        /\ DOMAIN wrote' = 1..(base + Len(buffer))
        /\ \A j \in 1..Len(buffer) : wrote'[base + j] = To(c, buffer[j].kind, buffer[j].n)
        /\ \A o \in owed' : \/ o \in owed
                            \/ \E j \in 1..Len(buffer) : /\ o = To(c, buffer[j].kind, buffer[j].n)
                                                         /\ ExpectsReply(buffer[j].kind)
  BY <1>0, HandoverShape
<1>2. /\ DOMAIN buffer = 1..Len(buffer) /\ Len(buffer) \in Nat
      /\ \A i \in 1..Len(buffer) : buffer[i].n \in Ids /\ buffer[i].kind \in Kinds \ {"sync"}
      /\ DOMAIN arrived = 1..Len(arrived) /\ Len(arrived) \in Nat
      /\ Ids \subseteq Nat \ {0}
  BY <1>0, BufferElements
<1>3. BufferInv'
  BY <1>0 DEF BufferInv
<1>4. \A k : NumbersOf(k)' = NumbersOf(k)
  BY <1>0 DEF NumbersOf
<1>5. BufferedCalls' = {} /\ Held' = {}
  BY <1>0, EmptiedSets
<1>6. CallsInv'
  <2>1. OpenCalls' = OpenCalls /\ SettledCalls' \subseteq SettledCalls
    BY <1>0 DEF OpenCalls, SettledCalls
  <2> QED BY <1>4, <1>5, <2>1 DEF CallsInv
<1>7. DOMAIN wrote = 1..Len(wrote)
  BY <1>0, LenProperties DEF TypeOK
<1>8. ASSUME NEW i \in Ordered'
      PROVE  \/ i \in Ordered /\ wrote'[i] = wrote[i]
             \/ \E j \in 1..Len(buffer) : i = base + j /\ wrote'[i] = To(c, buffer[j].kind, buffer[j].n)
  <2>1. i \in 1..(base + Len(buffer)) /\ wrote'[i].kind \in {"request", "internal", "note"}
    BY <1>1, <1>8 DEF Ordered
  <2>2. CASE i <= Len(wrote)
    BY <1>1, <1>7, <2>1, <2>2 DEF Ordered
  <2>3. CASE i = Len(wrote) + 1
    BY <1>1, <2>1, <2>3 DEF To
  <2>4. CASE i > Len(wrote) + 1 /\ i <= base
    <3>1. i \in (Len(wrote) + 2)..base
      BY <1>1, <2>1, <2>4
    <3>2. wrote'[i] = To(c, "replay", documents)
      BY <1>1, <3>1
    <3> QED BY <2>1, <3>2 DEF To
  <2>5. CASE i > base
    <3>1. i - base \in 1..Len(buffer) /\ i = base + (i - base)
      BY <1>1, <1>2, <2>1, <2>5
    <3> QED BY <1>1, <3>1
  <2> QED BY <1>1, <2>1, <2>2, <2>3, <2>4, <2>5
<1>9. ASSUME NEW i \in Ordered PROVE i \in Ordered' /\ wrote'[i] = wrote[i] /\ i <= Len(wrote)
  BY <1>1, <1>2, <1>7 DEF Ordered
<1>10. \A j \in 1..Len(buffer) : /\ To(c, buffer[j].kind, buffer[j].n).n = buffer[j].n
                                /\ To(c, buffer[j].kind, buffer[j].n).kind = buffer[j].kind
                                /\ To(c, buffer[j].kind, buffer[j].n).to = c
  BY DEF To
<1>11. LogInv'
  <2>1. DeliveredInOrder'
    <3> SUFFICES ASSUME NEW i \in Ordered', NEW k \in Ordered', i < k
                 PROVE  wrote'[i].n < wrote'[k].n
      BY DEF DeliveredInOrder
    <3>1. CASE i \in Ordered /\ k \in Ordered
      BY <1>9, <3>1 DEF LogInv, DeliveredInOrder
    <3>2. ASSUME i \in Ordered,
                 NEW j \in 1..Len(buffer), wrote'[k] = To(c, buffer[j].kind, buffer[j].n)
          PROVE  wrote'[i].n < wrote'[k].n
      BY <1>9, <1>10, <3>2 DEF LogInv
    <3>3. ASSUME k \in Ordered, NEW j \in 1..Len(buffer), i = base + j
          PROVE  FALSE
      BY <1>1, <1>9, <3>3
    <3>4. ASSUME NEW j \in 1..Len(buffer), i = base + j, wrote'[i] = To(c, buffer[j].kind, buffer[j].n),
                 NEW l \in 1..Len(buffer), k = base + l, wrote'[k] = To(c, buffer[l].kind, buffer[l].n)
          PROVE  wrote'[i].n < wrote'[k].n
      <4>1. j < l
        BY <1>1, <3>4
      <4>2. buffer[j].n < buffer[l].n
        BY <4>1 DEF BufferInv
      <4> QED BY <1>10, <3>4, <4>2
    <3> QED BY <1>8, <3>1, <3>2, <3>3, <3>4
  <2>2. \A i \in Ordered' : /\ wrote'[i].n \in DOMAIN arrived'
                            /\ arrived'[wrote'[i].n] = wrote'[i].kind
    <3> SUFFICES ASSUME NEW i \in Ordered'
                 PROVE  wrote'[i].n \in DOMAIN arrived /\ arrived[wrote'[i].n] = wrote'[i].kind
      BY <1>0
    <3>1. CASE i \in Ordered
      BY <1>9, <3>1 DEF LogInv
    <3>2. ASSUME NEW j \in 1..Len(buffer), wrote'[i] = To(c, buffer[j].kind, buffer[j].n)
          PROVE  wrote'[i].n \in DOMAIN arrived /\ arrived[wrote'[i].n] = wrote'[i].kind
      <4>1. buffer[j].n \in Nat \ {0} /\ buffer[j].n <= Len(arrived)
        BY <1>2 DEF BufferInv
      <4>2. arrived[buffer[j].n] = buffer[j].kind
        BY DEF BufferInv
      <4>3. wrote'[i].n = buffer[j].n /\ wrote'[i].kind = buffer[j].kind
        BY <1>10, <3>2
      <4> QED BY <1>2, <4>1, <4>2, <4>3
    <3> QED BY <1>8, <3>1, <3>2
  <2>3. \A i \in Ordered' : \A j \in 1..Len(buffer') : wrote'[i].n < buffer'[j].n
    BY <1>0
  <2>4. \A o \in owed' : \E i \in Ordered' : wrote'[i] = o
    <3> SUFFICES ASSUME NEW o \in owed' PROVE \E i \in Ordered' : wrote'[i] = o
      OBVIOUS
    <3>1. CASE o \in owed
      BY <1>9, <3>1 DEF LogInv
    <3>2. ASSUME NEW j \in 1..Len(buffer), o = To(c, buffer[j].kind, buffer[j].n),
                 ExpectsReply(buffer[j].kind)
          PROVE  \E i \in Ordered' : wrote'[i] = o
      <4>1. base + j \in DOMAIN wrote' /\ wrote'[base + j] = o
        BY <1>1, <1>2, <3>2
      <4>2. o.kind \in {"request", "internal"}
        BY <1>10, <3>2 DEF ExpectsReply
      <4>3. base + j \in Ordered'
        BY <4>1, <4>2 DEF Ordered
      <4> QED BY <4>1, <4>3
    <3> QED BY <1>1, <3>1, <3>2
  <2> QED BY <2>1, <2>2, <2>3, <2>4 DEF LogInv
<1>12. RequestInv'
  <2>1. NumbersOf("request")' = NumbersOf("request")
    BY <1>4
  <2>2. answers' = [m \in Ids |->
                     IF m \in NumbersOf("request")' \ (pendingRequests' \cup Held') THEN 1 ELSE 0]
    BY <1>0, <1>5, <2>1 DEF RequestInv
  <2>3. \A o \in owed' : o.to \in attached' /\ (o.kind = "request" => o.n \in pendingRequests')
    <3> SUFFICES ASSUME NEW o \in owed'
                 PROVE  o.to \in attached /\ (o.kind = "request" => o.n \in pendingRequests \cup Held)
      BY <1>0
    <3>1. CASE o \in owed
      BY <3>1 DEF RequestInv
    <3>2. ASSUME NEW j \in 1..Len(buffer), o = To(c, buffer[j].kind, buffer[j].n)
          PROVE  o.to \in attached /\ (o.kind = "request" => o.n \in pendingRequests \cup Held)
      <4>1. buffer[j].kind = "request" => buffer[j].n \in Held
        BY <1>2 DEF Held, ClientRequestsIn
      <4> QED BY <1>0, <1>10, <3>2, <4>1
    <3> QED BY <1>1, <3>1, <3>2
  <2> QED BY <1>0, <1>5, <2>1, <2>2, <2>3 DEF RequestInv
<1> QED BY <1>3, <1>6, <1>11, <1>12

LEMMA FlowStepKeeps ==
  ASSUME ServerInv, TypeOK', FlowInv, FlowStep
  PROVE  FlowInv'
<1>0. TypeOK /\ ChildInv
  BY DEF ServerInv
<1>1. ASSUME NEW S, Settling(S) PROVE FlowInv'
  BY <1>0, <1>1, SettlingKeeps
<1>2. ASSUME NEW kind \in Kinds, NEW n \in Ids,
             SendRunning(kind, n) \/ HeldBack(kind, n) \/ TurnedAway(kind, n)
      PROVE  FlowInv'
  BY <1>0, <1>2, SendRunningKeeps, HeldBackKeeps, TurnedAwayKeeps
<1>3. ASSUME NEW s \in settled, ResumeInitOk(s) PROVE FlowInv'
  BY <1>3, HandoverKeeps
<1> QED BY <1>1, <1>2, <1>3 DEF FlowStep

-----------------------------------------------------------------------------
(* Every handler is one of these steps. First the pieces. *)

LEMMA OwedSame ==
  ASSUME RequestInv, UNCHANGED <<owed, attached>>
  PROVE  OwedKept({})
BY DEF RequestInv, OwedKept

LEMMA OwedDisposed ==
  ASSUME RequestInv, NEW children, Dispose(children)
  PROVE  OwedKept({})
BY DEF RequestInv, OwedKept, Dispose

LEMMA OwedNotHeld ==
  ASSUME RequestInv, OwedKept({})
  PROVE  OwedKept(Held)
BY DEF RequestInv, OwedKept

(* Nothing of a server that is not stopped is owed once its child is gone. *)
LEMMA OwedByNone ==
  ASSUME ChildInv, RequestInv, state # "stopped", NEW c, Dispose({c, server})
  PROVE  owed' = {}
<1>1. attached \subseteq {server}
  BY DEF ChildInv
<1> QED BY <1>1 DEF RequestInv, Dispose

LEMMA CallsSame ==
  ASSUME UNCHANGED <<callbacks, settled>>
  PROVE  /\ OpenCalls' = OpenCalls /\ SettledCalls' = SettledCalls /\ FailedCalls' = FailedCalls
         /\ \A S : CallsKept(S)
BY DEF OpenCalls, SettledCalls, FailedCalls, CallsKept

(* Other internal requests come and go without these noticing. *)
LEMMA CallsOfOthers ==
  ASSUME \A s : s.call.of = "send" => (s \in settled' <=> s \in settled),
         \A k : k.of = "send" => (k \in callbacks' <=> k \in callbacks)
  PROVE  /\ OpenCalls' = OpenCalls /\ SettledCalls' = SettledCalls /\ FailedCalls' = FailedCalls
         /\ \A S : CallsKept(S)
<1>1. OpenCalls' = OpenCalls
  BY DEF OpenCalls
<1>2. SettledCalls' = SettledCalls
  <2>1. {x \in settled' : x.call.of = "send"} = {x \in settled : x.call.of = "send"}
    OBVIOUS
  <2> QED BY <2>1 DEF SettledCalls
<1>3. FailedCalls' = FailedCalls
  <2>1. {x \in settled' : x.call.of = "send" /\ ~x.ok} = {x \in settled : x.call.of = "send" /\ ~x.ok}
    OBVIOUS
  <2> QED BY <2>1 DEF FailedCalls
<1> QED BY <1>1, <1>2, <1>3 DEF CallsKept

(* rejectAll: what was open has failed. *)
SendsAre(calls, numbers) ==
  \A n : n \in numbers <=> \E k \in calls : k.of = "send" /\ k.n = n

LEMMA CallsRejected ==
  ASSUME NEW calls, NEW failed, SendsAre(calls, failed),
         NEW rest, \A s : s.call.of = "send" => (s \in rest <=> s \in settled),
         settled' = rest \cup Rejected(calls)
  PROVE  SettledCalls' = SettledCalls \cup failed /\ FailedCalls' = FailedCalls \cup failed
<1>1. \A r \in Rejected(calls) : r.call \in calls /\ ~r.ok
  BY DEF Rejected
<1>2. ASSUME NEW k \in calls PROVE \E r \in Rejected(calls) : r.call = k /\ ~r.ok
  <2>1. [call |-> k, ok |-> FALSE] \in Rejected(calls)
    BY DEF Rejected
  <2> QED BY <2>1
<1>3. \A n : n \in failed <=> \E r \in Rejected(calls) : r.call.of = "send" /\ r.call.n = n
  BY <1>1, <1>2 DEF SendsAre
<1>4. \A n : n \in SettledCalls' <=> n \in SettledCalls \/ n \in failed
  BY <1>3 DEF SettledCalls
<1>5. \A n : n \in FailedCalls' <=> n \in FailedCalls \/ n \in failed
  <2>1. \A x : x \in settled' /\ x.call.of = "send" /\ ~x.ok
              <=> \/ x \in settled /\ x.call.of = "send" /\ ~x.ok
                  \/ x \in Rejected(calls) /\ x.call.of = "send"
    BY <1>1
  <2> QED BY <1>3, <2>1 DEF FailedCalls
<1> QED BY <1>4, <1>5

LEMMA AllRejected ==
  ASSUME NEW gone, \A s \in gone : s.call.of # "send",
         callbacks' = {}, settled' = (settled \ gone) \cup Rejected(callbacks)
  PROVE  \A S : CallsKept(S)
<1>1. /\ SettledCalls' = SettledCalls \cup OpenCalls /\ FailedCalls' = FailedCalls \cup OpenCalls
  <2>1. SendsAre(callbacks, OpenCalls)
    BY DEF SendsAre, OpenCalls
  <2> QED BY <2>1, CallsRejected
<1>2. OpenCalls' = {}
  BY DEF OpenCalls
<1> QED BY <1>1, <1>2 DEF CallsKept

(* A step that neither moves nor answers anything. *)
LEMMA StillStep ==
  ASSUME TypeOK, BufferInv, UNCHANGED <<arrived, buffer, pendingRequests, answers>>,
         LogKept, OwedKept({}), \A S : CallsKept(S),
         state' = state \/ state' \notin {"idle", "running"}
  PROVE  Settling({})
<1>1. answers = [n \in Ids |-> answers[n]]
  BY DEF TypeOK
<1>2. Answer({})
  BY <1>1 DEF Answer
<1>3. Held' = Held
  BY DEF Held
<1>4. state' \in {"idle", "running"} => buffer' = <<>>
  BY DEF BufferInv
<1> QED BY <1>2, <1>3, <1>4 DEF Settling

(* The server stops and errors what is held, and what is in flight or not. *)
LEMMA StopStep ==
  ASSUME TypeOK, TypeOK', FlowInv, NEW gone, \A s \in gone : s.call.of # "send",
         NEW also, also = pendingRequests \/ also = {}, pendingRequests' = pendingRequests \ also,
         StopAndErrorBuffered(buffer, callbacks, also, gone),
         arrived' = arrived, LogKept, OwedKept({}), also # {} => owed' = {}
  PROVE  \E S : Settling(S)
<1> DEFINE S == also \cup Held
<1>1. OwedKept(S)
  BY OwedNotHeld DEF OwedKept, FlowInv
<1>2. Answer(S) /\ buffer' = <<>> /\ state' = "stopped"
  BY DEF StopAndErrorBuffered, Held
<1>3. CallsKept({})
  BY AllRejected DEF StopAndErrorBuffered
<1>4. Held' = {}
  BY <1>2, EmptiedSets
<1>5. pendingRequests' = pendingRequests \ S
  BY DEF FlowInv, RequestInv
<1>6. S \subseteq pendingRequests \cup Held /\ Held \ S = {}
  OBVIOUS
<1> HIDE DEF S
<1>7. Settling(S)
  BY <1>1, <1>2, <1>3, <1>4, <1>5, <1>6 DEF Settling
<1> QED BY <1>7

(* scheduleRetry, granted or refused. *)
LEMMA RetryStep ==
  ASSUME TypeOK, TypeOK', FlowInv, NEW expected \in Starting,
         NEW gone, \A s \in gone : s.call.of # "send",
         ScheduleRetry(expected, buffer, callbacks, gone),
         arrived' = arrived, pendingRequests' = pendingRequests, LogKept, OwedKept({})
  PROVE  \E S : Settling(S)
<1>1. CASE /\ state' = expected /\ buffer' = buffer
            /\ callbacks' = callbacks /\ settled' = settled \ gone
            /\ UNCHANGED answers
  <2>1. \A S : CallsKept(S)
    BY <1>1, CallsOfOthers
  <2> QED BY <1>1, <2>1, StillStep DEF FlowInv, Starting
<1>2. CASE StopAndErrorBuffered(buffer, callbacks, {}, gone)
  BY <1>2, StopStep
<1> QED BY <1>1, <1>2 DEF ScheduleRetry

LEMMA AppendedLog ==
  ASSUME NEW c \in Nat, NEW kind \in {"initialize", "shutdown", "exit"},
         wrote' = Append(wrote, To(c, kind, 0))
  PROVE  LogKept
BY DEF LogKept

LEMMA WroteControl ==
  ASSUME TypeOK, NEW c, NEW kind \in {"shutdown", "exit"}, Write(c, <<To(c, kind, 0)>>)
  PROVE  LogKept /\ owed' = owed
<1>1. CASE c \in attached
  <2>1. To(c, kind, 0) \in Entry /\ c \in Nat /\ To(c, kind, 0).kind = kind
    BY <1>1, EntryTyped DEF TypeOK, To
  <2>2. wrote' = wrote \o <<To(c, kind, 0)>> /\ owed' = owed \cup RequestsOf(<<To(c, kind, 0)>>)
    BY <1>1 DEF Write
  <2>3. wrote \o <<To(c, kind, 0)>> = Append(wrote, To(c, kind, 0))
    BY <2>1, AppendIsConcat DEF TypeOK
  <2>4. RequestsOf(<<To(c, kind, 0)>>) = {}
    BY <2>1 DEF RequestsOf, ExpectsReply
  <2> QED BY <2>1, <2>2, <2>3, <2>4 DEF LogKept
<1>2. CASE c \notin attached
  BY <1>2 DEF Write, LogKept
<1> QED BY <1>1, <1>2

-----------------------------------------------------------------------------
(* ... then the handlers. *)

LEMMA RefuseFlows ==
  ASSUME TypeOK, FlowInv, NEW kind \in Kinds, NEW n \in Ids, Arrives(kind, n), Refuse(kind, n),
         UNCHANGED <<state, pendingRequests, wrote, owed, attached>>
  PROVE  TurnedAway(kind, n)
<1>1. n = Len(arrived) + 1 /\ arrived' = Append(arrived, kind)
  BY DEF Arrives
<1>2. buffer' = buffer /\ callbacks' = callbacks /\ Answer(Only(kind = "request", n))
  BY DEF Refuse, Only
<1>3. CallsKept(Only(kind = "internal", n))
  <2>1. CASE kind = "internal"
    <3> DEFINE calls == {SendCall(n)}
    <3>1. settled' = settled \cup Rejected(calls)
      BY <2>1 DEF Refuse, Arrives, Quiet
    <3>2. SendsAre(calls, {n})
      <4>1. SendCall(n).of = "send" /\ SendCall(n).n = n
        BY DEF SendCall
      <4> QED BY <4>1 DEF SendsAre
    <3>3. SettledCalls' = SettledCalls \cup {n} /\ FailedCalls' = FailedCalls \cup {n}
      <4> HIDE DEF calls
      <4> QED BY <3>1, <3>2, CallsRejected
    <3>4. OpenCalls' = OpenCalls
      BY <1>2 DEF OpenCalls
    <3> QED BY <2>1, <3>3, <3>4 DEF CallsKept, Only
  <2>2. CASE kind # "internal"
    BY <1>2, <2>2, CallsSame DEF Refuse
  <2> QED BY <2>1, <2>2
<1>4. OwedKept({}) /\ LogKept
  BY OwedSame DEF FlowInv, LogKept
<1>5. state' \in {"idle", "running"} => buffer' = <<>>
  BY <1>2 DEF FlowInv, BufferInv
<1> QED BY <1>1, <1>2, <1>3, <1>4, <1>5 DEF TurnedAway

LEMMA JoinFlows ==
  ASSUME NEW kind \in Kinds \ {"sync"}, NEW n \in Ids, Arrives(kind, n),
         buffer' = Append(buffer, [kind |-> kind, n |-> n])
  PROVE  Joins(kind, n)
BY DEF Arrives, Joins

(* The calls made while sending, whatever else is outstanding. *)
LEMMA CallsMade ==
  ASSUME NEW kind, NEW n, settled' = settled,
         \A k : k.of = "send" => (k \in callbacks' <=> k \in CallsWith(kind, n))
  PROVE  /\ OpenCalls' = OpenCalls \cup Only(kind = "internal", n)
         /\ SettledCalls' = SettledCalls /\ FailedCalls' = FailedCalls
<1>1. OpenCalls' = {k.n : k \in {c \in CallsWith(kind, n) : c.of = "send"}}
  BY DEF OpenCalls
<1>2. SettledCalls' = SettledCalls /\ FailedCalls' = FailedCalls
  BY DEF SettledCalls, FailedCalls
<1> QED BY <1>1, <1>2, CallsWithSets

LEMMA SpawnFlows ==
  ASSUME TypeOK, FlowInv, NEW expected, NEW calls, SpawnAndInitialize(expected, calls)
  PROVE  LogKept /\ OwedKept({})
<1>1. spawned + 1 \in Nat /\ wrote' = Append(wrote, To(spawned + 1, "initialize", 0))
  BY DEF TypeOK, SpawnAndInitialize
<1>2. owed' = owed /\ attached \subseteq attached'
  BY DEF SpawnAndInitialize
<1> QED BY <1>1, <1>2, AppendedLog DEF FlowInv, RequestInv, OwedKept

LEMMA SpawnFails ==
  ASSUME FlowInv, SpawnThrows
  PROVE  LogKept /\ OwedKept({})
BY OwedDisposed DEF SpawnThrows, FlowInv, LogKept

LEMMA SendLazilyFlows ==
  ASSUME TypeOK, TypeOK', FlowInv, NEW kind \in Kinds, NEW n \in Ids, SendLazily(kind, n)
  PROVE  HeldBack(kind, n) \/ TurnedAway(kind, n)
<1> DEFINE held == IF kind = "sync" THEN buffer ELSE Append(buffer, [kind |-> kind, n |-> n])
<1>0. /\ Arrives(kind, n) /\ state = "idle" /\ pendingRequests' = pendingRequests
      /\ buffer = <<>> /\ BufferedCalls = {} /\ Held = {}
      /\ n = Len(arrived) + 1 /\ arrived' = Append(arrived, kind) /\ settled = {}
  BY DEF SendLazily, CanStartLazily, FlowInv, BufferInv, BufferedCalls, CallsIn, Held,
         ClientRequestsIn, Arrives, Quiet
<1>1. LogKept /\ OwedKept({})
  BY SpawnFlows, SpawnFails DEF SendLazily
<1>2. CASE /\ state' \in Starting /\ buffer' = held /\ UNCHANGED answers /\ settled' = settled
            /\ \A k : k.of = "send" => (k \in callbacks' <=> k \in CallsWith(kind, n))
  <2>1. /\ OpenCalls' = OpenCalls \cup Only(kind = "internal", n)
        /\ SettledCalls' = SettledCalls /\ FailedCalls' = FailedCalls
    BY <1>2, CallsMade
  <2>2. CASE kind # "sync"
    <3>1. Joins(kind, n)
      BY <1>0, <1>2, <2>2, JoinFlows
    <3>2. state # "stopped"
      BY <1>0
    <3> QED BY <1>0, <1>1, <1>2, <2>1, <3>1, <3>2 DEF HeldBack
  <2>3. CASE kind = "sync"
    <3>1. buffer' = buffer /\ Only(kind = "request", n) = {} /\ Only(kind = "internal", n) = {}
      BY <1>2, <2>3 DEF Only
    <3>2. Answer({})
      <4>1. answers = [m \in Ids |-> answers[m]]
        BY DEF TypeOK
      <4> QED BY <1>2, <4>1 DEF Answer
    <3>3. CallsKept(Only(kind = "internal", n))
      BY <2>1 DEF CallsKept
    <3>4. state' \in {"idle", "running"} => buffer' = <<>>
      BY <1>2 DEF Starting
    <3> QED BY <1>0, <1>1, <3>1, <3>2, <3>3, <3>4 DEF TurnedAway
  <2> QED BY <2>2, <2>3
<1>3. CASE StopAndErrorBuffered(held, CallsWith(kind, n), {}, {})
  <2>1. ClientRequestsIn(held) = Only(kind = "request", n)
    <3>1. CASE kind = "sync"
      BY <1>0, <3>1 DEF Only, ClientRequestsIn
    <3>2. CASE kind # "sync"
      <4>1. held = <<[kind |-> kind, n |-> n]>>
        BY <1>0, <3>2
      <4> QED BY <4>1 DEF ClientRequestsIn, Only
    <3> QED BY <3>1, <3>2
  <2>2. Answer(Only(kind = "request", n))
    BY <1>3, <2>1 DEF StopAndErrorBuffered
  <2>3. buffer' = buffer /\ state' = "stopped" /\ callbacks' = {}
        /\ settled' = settled \cup Rejected(CallsWith(kind, n))
    BY <1>0, <1>3 DEF StopAndErrorBuffered
  <2>4. CallsKept(Only(kind = "internal", n))
    <3>1. SettledCalls' = SettledCalls \cup (OpenCalls \cup Only(kind = "internal", n))
      <4>1. SendsAre(CallsWith(kind, n), OpenCalls \cup Only(kind = "internal", n))
        BY CallsWithSets DEF SendsAre
      <4> QED BY <2>3, <4>1, CallsRejected
    <3>2. OpenCalls' = {}
      BY <2>3 DEF OpenCalls
    <3>3. BufferedCalls' = {}
      BY <1>0, <2>3 DEF BufferedCalls
    <3> QED BY <3>1, <3>2, <3>3 DEF CallsKept
  <2> QED BY <1>0, <1>1, <2>2, <2>3, <2>4 DEF TurnedAway
<1>4. CASE /\ SpawnAndInitialize("starting", CallsWith(kind, n))
            /\ state' = "starting" /\ buffer' = held
  <2>1. /\ settled' = settled /\ answers' = answers
        /\ \E c : callbacks' = CallsWith(kind, n) \cup {InitCall(c, "starting")}
    BY <1>4 DEF SpawnAndInitialize
  <2>2. \A k : k.of = "send" => (k \in callbacks' <=> k \in CallsWith(kind, n))
    BY <2>1, SendCallIsNoHandshake DEF InitCall
  <2>3. state' \in Starting
    BY <1>4 DEF Starting
  <2> HIDE DEF held
  <2> QED BY <1>2, <1>4, <2>1, <2>2, <2>3
<1>5. CASE SpawnThrows /\ ScheduleRetry("starting", held, CallsWith(kind, n), {})
  <2>1. "starting" \in Starting
    BY DEF Starting
  <2> HIDE DEF held
  <2> QED BY <1>2, <1>3, <1>5, <2>1 DEF ScheduleRetry
<1> QED BY <1>4, <1>5 DEF SendLazily

LEMMA SendFlows ==
  ASSUME TypeOK, TypeOK', FlowInv, NEW kind \in Kinds, NEW n \in Ids, Send(kind, n)
  PROVE  SendRunning(kind, n) \/ HeldBack(kind, n) \/ TurnedAway(kind, n)
<1>1. CASE SendBuffered(kind, n)
  <2>0. /\ Arrives(kind, n) /\ state \in Starting
        /\ UNCHANGED <<state, pendingRequests, wrote, owed, attached>>
        /\ n = Len(arrived) + 1 /\ arrived' = Append(arrived, kind)
    BY <1>1 DEF SendBuffered, processVars, Arrives
  <2>1. LogKept /\ OwedKept({})
    BY <2>0, OwedSame DEF LogKept, FlowInv
  <2>2. state # "stopped" /\ state' \notin {"idle", "running"}
    BY <2>0 DEF Starting
  <2>3. CASE kind = "sync"
    <3>1. /\ UNCHANGED <<buffer, callbacks, settled, answers>>
          /\ Only(kind = "request", n) = {} /\ Only(kind = "internal", n) = {}
      BY <1>1, <2>3 DEF SendBuffered, Only
    <3>2. Answer({})
      <4>1. answers = [m \in Ids |-> answers[m]]
        BY DEF TypeOK
      <4> QED BY <3>1, <4>1 DEF Answer
    <3>3. CallsKept(Only(kind = "internal", n))
      BY <3>1, CallsSame
    <3> QED BY <2>0, <2>1, <2>2, <3>1, <3>2, <3>3 DEF TurnedAway
  <2>4. CASE kind # "sync" /\ Len(buffer) < MaxBuffer
    <3>1. /\ buffer' = Append(buffer, [kind |-> kind, n |-> n])
          /\ callbacks' = CallsWith(kind, n) /\ settled' = settled /\ answers' = answers
      BY <1>1, <2>4 DEF SendBuffered
    <3>2. Joins(kind, n)
      BY <2>0, <2>4, <3>1, JoinFlows
    <3>3. /\ OpenCalls' = OpenCalls \cup Only(kind = "internal", n)
          /\ SettledCalls' = SettledCalls /\ FailedCalls' = FailedCalls
      BY <3>1, CallsMade
    <3> QED BY <2>0, <2>1, <2>2, <3>1, <3>2, <3>3 DEF HeldBack
  <2>5. CASE kind # "sync" /\ ~(Len(buffer) < MaxBuffer)
    <3>1. Refuse(kind, n)
      BY <1>1, <2>5 DEF SendBuffered
    <3> QED BY <2>0, <3>1, RefuseFlows
  <2> QED BY <2>3, <2>4, <2>5
<1>2. CASE SendRefused(kind, n)
  BY <1>2, RefuseFlows DEF SendRefused, processVars
<1> QED BY <1>1, <1>2, SendLazilyFlows DEF Send

LEMMA CancelFlows ==
  ASSUME TypeOK, TypeOK', FlowInv, NEW n \in Ids, CancelBuffered(n)
  PROVE  Settling({n})
<1>1. n \in Held /\ Held' = Held \ {n} /\ Answer({n})
  BY DroppedSets DEF FlowInv, CancelBuffered, Held
<1>2. n \notin pendingRequests
  BY <1>1 DEF FlowInv, RequestInv
<1>3. UNCHANGED <<state, pendingRequests, callbacks, settled, arrived, wrote, owed, attached>>
  BY DEF CancelBuffered, clientVars, processVars
<1>4. OwedKept({n})
  BY <1>2, <1>3 DEF FlowInv, RequestInv, OwedKept
<1>5. CallsKept({})
  BY <1>3, CallsSame
<1>6. buffer # <<>>
  BY <1>1 DEF Held, ClientRequestsIn
<1>7. \E m : DropBuffered(m)
  BY DEF CancelBuffered
<1>8. state' \notin {"idle", "running"}
  BY <1>3, <1>6 DEF FlowInv, BufferInv
<1> QED BY <1>1, <1>2, <1>3, <1>4, <1>5, <1>7, <1>8 DEF Settling, LogKept

LEMMA NoneGone == \A s \in {} : s.call.of # "send"
OBVIOUS

LEMMA ExitFlows ==
  ASSUME TypeOK, TypeOK', ChildInv, FlowInv, NEW c \in attached, ServerExit(c)
  PROVE  \E S : Settling(S)
<1> DEFINE P == pendingRequests
<1>0. arrived' = arrived /\ LogKept
  BY DEF ServerExit, ExitStopped, ExitBeforeHandshake, ExitAfterShutdown, ExitWhileStarting,
         ExitRunning, ExitLive, ExitEvent, clientVars, LogKept
<1>1. CASE ExitStopped(c)
  <2>1. OwedKept({})
    BY <1>1, OwedDisposed DEF ExitStopped, FlowInv
  <2>2. Settling({})
    BY <1>0, <1>1, <2>1, CallsSame, StillStep DEF ExitStopped, FlowInv
  <2> QED BY <2>2
<1>2. ASSUME ExitLive(c)
      PROVE  /\ owed' = {} /\ OwedKept({}) /\ pendingRequests' = pendingRequests \ P
             /\ OwedKept(P)
  <2>1. state # "stopped" /\ Dispose({c, server}) /\ pendingRequests' = {}
    BY <1>2 DEF ExitLive
  <2>2. owed' = {}
    BY <2>1, OwedByNone DEF FlowInv
  <2> QED BY <2>1, <2>2 DEF OwedKept
<1>3. ASSUME ExitLive(c), StopAndErrorBuffered(buffer, callbacks, P, {})
      PROVE  \E S : Settling(S)
  <2>1. P = pendingRequests
    OBVIOUS
  <2> HIDE DEF P
  <2> QED BY <1>0, <1>2, <1>3, <2>1, NoneGone, StopStep
<1>4. ASSUME ExitLive(c), state' \notin {"idle", "running"}, buffer' = buffer, callbacks' = {},
             settled' = settled \cup Rejected(callbacks), Answer(P)
      PROVE  \E S : Settling(S)
  <2>1. CallsKept({})
    <3>1. settled' = (settled \ {}) \cup Rejected(callbacks)
      BY <1>4
    <3> QED BY <1>4, <3>1, NoneGone, AllRejected
  <2>2. Held' = Held \ P
    BY <1>4 DEF Held, FlowInv, RequestInv
  <2>3. Settling(P)
    BY <1>0, <1>2, <1>4, <2>1, <2>2 DEF Settling
  <2> QED BY <2>3
<1> HIDE DEF P
<1>5. CASE ExitBeforeHandshake(c)
  BY <1>3, <1>5 DEF ExitBeforeHandshake, P
<1>6. CASE ExitAfterShutdown(c)
  BY <1>4, <1>6 DEF ExitAfterShutdown, P
<1>7. CASE ExitWhileStarting(c)
  BY <1>4, <1>7 DEF ExitWhileStarting, P, Starting
<1>8. CASE ExitRunning(c)
  BY <1>3, <1>4, <1>8 DEF ExitRunning, P
<1> QED BY <1>1, <1>5, <1>6, <1>7, <1>8 DEF ServerExit

LEMMA ReplyFlows ==
  ASSUME TypeOK, TypeOK', FlowInv, NEW o \in owed, ReplyToClient(o)
  PROVE  Settling({o.n})
<1>1. /\ owed' = owed \ {o} /\ pendingRequests' = pendingRequests \ {o.n} /\ Answer({o.n})
      /\ o.kind = "request"
      /\ UNCHANGED <<state, buffer, callbacks, settled, arrived, wrote, attached>>
  BY DEF ReplyToClient, clientVars, processVars
<1>2. o.n \in pendingRequests
  BY <1>1 DEF FlowInv, RequestInv
<1>3. OwedKept({o.n})
  BY <1>1, OwedOnce DEF FlowInv, RequestInv, OwedKept
<1>4. Held' = Held \ {o.n}
  BY <1>1, <1>2 DEF Held, FlowInv, RequestInv
<1>5. CallsKept({}) /\ LogKept
  BY <1>1, CallsSame DEF LogKept
<1>6. state' \in {"idle", "running"} => buffer' = <<>>
  BY <1>1 DEF FlowInv, BufferInv
<1> QED BY <1>1, <1>2, <1>3, <1>4, <1>5, <1>6 DEF Settling

(* A call that is answered was written, so it is not in the buffer: numbers in
   the buffer are younger. *)
LEMMA AnsweredCallIsOut ==
  ASSUME TypeOK, FlowInv, NEW k \in callbacks, k.of = "send", Deliverable(k)
  PROVE  k.n \notin BufferedCalls
<1>1. PICK c \in attached : To(c, "internal", k.n) \in owed
  BY DEF Deliverable
<1>2. PICK i \in Ordered : wrote[i] = To(c, "internal", k.n)
  BY <1>1 DEF FlowInv, LogInv
<1>3. \A j \in 1..Len(buffer) : k.n < buffer[j].n
  BY <1>2 DEF FlowInv, LogInv, To
<1>4. k.n \in Nat
  BY DEF TypeOK, Call
<1>5. \A j \in 1..Len(buffer) : buffer[j].n # k.n
  BY <1>3, <1>4
<1> QED BY <1>5, BufferElements DEF BufferedCalls, CallsIn

LEMMA CallSettles ==
  ASSUME TypeOK, NEW k \in callbacks, NEW ok \in BOOLEAN,
         callbacks' = callbacks \ {k},
         settled' = settled \cup {[call |-> k, ok |-> ok]},
         UNCHANGED buffer,
         ok => k.of # "send" \/ k.n \notin BufferedCalls
  PROVE  \A S : CallsKept(S)
<1> DEFINE r == [call |-> k, ok |-> ok]
<1>1. r.call = k /\ r.ok = ok
  OBVIOUS
<1> HIDE DEF r
<1>2. settled' = settled \cup {r}
  BY DEF r
<1>3. OpenCalls' \subseteq OpenCalls
  BY DEF OpenCalls
<1>4. SettledCalls' \subseteq SettledCalls \cup OpenCalls
  BY <1>1, <1>2 DEF SettledCalls, OpenCalls
<1>5. FailedCalls \subseteq FailedCalls'
  BY <1>2 DEF FailedCalls
<1>6. ASSUME NEW n \in OpenCalls, n \in BufferedCalls
      PROVE  n \in OpenCalls' \cup FailedCalls'
  <2>1. PICK q \in callbacks : q.of = "send" /\ q.n = n
    BY <1>6 DEF OpenCalls
  <2>2. CASE q # k
    BY <2>1, <2>2 DEF OpenCalls
  <2>3. CASE q = k
    <3>1. ~ok
      BY <1>6, <2>1, <2>3
    <3> QED BY <1>1, <1>2, <2>1, <2>3, <3>1 DEF FailedCalls
  <2> QED BY <2>2, <2>3
<1>7. BufferedCalls' = BufferedCalls
  BY DEF BufferedCalls
<1> QED BY <1>3, <1>4, <1>5, <1>6, <1>7 DEF CallsKept

LEMMA CallFlows ==
  ASSUME TypeOK, FlowInv, NEW k \in callbacks, NEW ok \in BOOLEAN,
         ReplyToCall(k, ok) \/ CallTimesOut(k)
  PROVE  Settling({})
<1>1. /\ UNCHANGED <<state, pendingRequests, buffer, arrived, wrote, answers, attached>>
      /\ owed' \subseteq owed
  BY DEF ReplyToCall, CallTimesOut, clientVars, processVars
<1>2. OwedKept({}) /\ LogKept
  BY <1>1 DEF FlowInv, RequestInv, OwedKept, LogKept
<1>3. \A S : CallsKept(S)
  <2>1. CASE ReplyToCall(k, ok)
    BY <1>1, <2>1, CallSettles, AnsweredCallIsOut DEF ReplyToCall
  <2>2. CASE CallTimesOut(k)
    <3>1. callbacks' = callbacks \ {k} /\ settled' = settled \cup {[call |-> k, ok |-> FALSE]}
      BY <2>2 DEF CallTimesOut, Rejected
    <3> QED BY <1>1, <3>1, CallSettles
  <2> QED BY <2>1, <2>2
<1> QED BY <1>1, <1>2, <1>3, StillStep DEF FlowInv

LEMMA ResumeFlows ==
  ASSUME TypeOK, TypeOK', FlowInv, NEW s \in settled,
         \/ ResumeInitSuperseded(s) \/ ResumeInitFailed(s)
         \/ ResumeSendRequest(s) \/ ResumeShutdown(s)
  PROVE  \E S : Settling(S)
<1>1. arrived' = arrived /\ pendingRequests' = pendingRequests /\ wrote' = wrote /\ LogKept
  BY DEF ResumeInitSuperseded, ResumeInitFailed, ResumeSendRequest, ResumeShutdown, clientVars,
         LogKept
<1>2. ASSUME settled' = settled \ {s}, s.call.of # "send", UNCHANGED callbacks
      PROVE  \A S : CallsKept(S)
  BY <1>2, CallsOfOthers
<1>3. CASE ResumeInitSuperseded(s)
  <2>1. s.call.of # "send" /\ s.call.expects \in Starting
    BY <1>3 DEF ResumeInitSuperseded, Resumes, TypeOK, Settled, Call
  <2>2. OwedKept({})
    BY <1>3, OwedSame DEF ResumeInitSuperseded, processVars, FlowInv
  <2>3. CASE state = s.call.expects
    <3>1. ScheduleRetry(state, buffer, callbacks, {s})
      BY <1>3, <2>3 DEF ResumeInitSuperseded
    <3> QED BY <1>1, <2>1, <2>2, <2>3, <3>1, RetryStep
  <2>4. CASE state # s.call.expects
    <3>1. settled' = settled \ {s} /\ UNCHANGED <<state, buffer, callbacks, answers>>
      BY <1>3, <2>4 DEF ResumeInitSuperseded
    <3>2. Settling({})
      BY <1>1, <1>2, <2>1, <2>2, <3>1, StillStep DEF FlowInv
    <3> QED BY <3>2
  <2> QED BY <2>3, <2>4
<1>4. CASE ResumeInitFailed(s)
  <2>1. s.call.of # "send" /\ s.call.expects \in Starting /\ state = s.call.expects
    BY <1>4 DEF ResumeInitFailed, Resumes, Superseded, TypeOK, Settled, Call
  <2>2. OwedKept({})
    BY <1>4, OwedDisposed DEF ResumeInitFailed, FlowInv
  <2>3. ScheduleRetry(state, buffer, callbacks, {s})
    BY <1>4 DEF ResumeInitFailed
  <2> QED BY <1>1, <2>1, <2>2, <2>3, RetryStep
<1>5. CASE ResumeShutdown(s)
  <2>1. /\ s.call.of # "send" /\ settled' = settled \ {s}
        /\ UNCHANGED <<state, buffer, callbacks, answers, owed, attached>>
    BY <1>5 DEF ResumeShutdown, Resumes, processVars
  <2>2. Settling({})
    BY <1>1, <1>2, <2>1, OwedSame, StillStep DEF FlowInv
  <2> QED BY <2>2
<1>6. CASE ResumeSendRequest(s)
  <2> DEFINE n == s.call.n
  <2>1. /\ s.call.of = "send" /\ settled' = settled \ {s}
        /\ UNCHANGED <<state, callbacks, answers, owed, attached>>
    BY <1>6 DEF ResumeSendRequest, Resumes, processVars
  <2>2. OpenCalls' = OpenCalls /\ SettledCalls' \subseteq SettledCalls
    BY <2>1 DEF OpenCalls, SettledCalls
  <2>3. \A m \in FailedCalls : m # n \/ s.ok => m \in FailedCalls'
    BY <2>1 DEF FailedCalls
  <2>4. CASE s.ok
    <3>1. buffer' = buffer
      BY <1>6, <2>4 DEF ResumeSendRequest
    <3>2. \A S : CallsKept(S)
      BY <2>2, <2>3, <2>4 DEF CallsKept
    <3>3. Settling({})
      BY <1>1, <2>1, <3>1, <3>2, OwedSame, StillStep DEF FlowInv
    <3> QED BY <3>3
  <2>5. CASE ~s.ok
    <3>1. DropBuffered(n)
      BY <1>6, <2>5 DEF ResumeSendRequest
    <3>2. Held' = Held \ {n} /\ BufferedCalls' = BufferedCalls \ {n}
      BY <3>1, DroppedSets DEF FlowInv
    <3>3. n \in NumbersOf("internal")
      BY <2>1 DEF SettledCalls, FlowInv, CallsInv
    <3>4. n \notin Held
      BY <3>3 DEF FlowInv, RequestInv, NumbersOf
    <3>5. Held' = Held \ {}
      BY <3>2, <3>4
    <3>6. CallsKept({})
      BY <2>2, <2>3, <3>2 DEF CallsKept
    <3>7. state' \in {"idle", "running"} => buffer' = <<>>
      <4>1. buffer = <<>> => BufferedAt(n) = {}
        BY DEF BufferedAt
      <4> QED BY <2>1, <3>1, <4>1 DEF FlowInv, BufferInv, DropBuffered
    <3>8. Answer({})
      <4>1. answers = [m \in Ids |-> answers[m]]
        BY DEF TypeOK
      <4> QED BY <2>1, <4>1 DEF Answer
    <3>9. OwedKept({})
      BY <2>1, OwedSame DEF FlowInv
    <3>10. \E m : DropBuffered(m)
      BY <3>1
    <3>11. Settling({})
      BY <1>1, <3>5, <3>6, <3>7, <3>8, <3>9, <3>10 DEF Settling
    <3> QED BY <3>11
  <2> QED BY <2>4, <2>5
<1> QED BY <1>3, <1>4, <1>5, <1>6

LEMMA RetryFlows ==
  ASSUME TypeOK, TypeOK', FlowInv, NEW expected \in Starting, RetryFires(expected)
  PROVE  \E S : Settling(S)
<1>1. arrived' = arrived /\ pendingRequests' = pendingRequests
  BY DEF RetryFires, clientVars
<1>2. CASE UNCHANGED <<state, buffer, callbacks, settled, attached, wrote, owed, answers>>
  <2>1. Settling({})
    BY <1>1, <1>2, OwedSame, CallsSame, StillStep DEF FlowInv, LogKept
  <2> QED BY <2>1
<1>3. CASE SpawnAndInitialize(expected, callbacks) /\ UNCHANGED <<state, buffer>>
  <2>1. LogKept /\ OwedKept({}) /\ answers' = answers
    BY <1>3, SpawnFlows DEF SpawnAndInitialize
  <2>2. \A S : CallsKept(S)
    <3>1. settled' = settled /\ callbacks' = callbacks \cup {InitCall(spawned + 1, expected)}
      BY <1>3 DEF SpawnAndInitialize
    <3>2. \A k : k.of = "send" => (k \in callbacks' <=> k \in callbacks)
      BY <3>1 DEF InitCall
    <3> QED BY <3>1, <3>2, CallsOfOthers
  <2>3. Settling({})
    BY <1>1, <1>3, <2>1, <2>2, StillStep DEF FlowInv
  <2> QED BY <2>3
<1>4. CASE SpawnThrows /\ UNCHANGED <<state, buffer, callbacks, settled, answers>>
  <2>1. Settling({})
    BY <1>1, <1>4, SpawnFails, CallsSame, StillStep DEF FlowInv
  <2> QED BY <2>1
<1>5. CASE SpawnThrows /\ StopAndErrorBuffered(buffer, callbacks, {}, {})
  BY <1>1, <1>5, SpawnFails, NoneGone, StopStep
<1> QED BY <1>2, <1>3, <1>4, <1>5 DEF RetryFires, processVars

LEMMA TeardownFlows ==
  ASSUME TypeOK, FlowInv, Shutdown \/ Stop \/ StopEnds
  PROVE  Settling({})
<1>1. UNCHANGED <<arrived, buffer, pendingRequests, answers>>
  BY DEF Shutdown, ShutdownStarting, ShutdownStopped, ShutdownRunning, ShutdownAsked, Stop,
         StopEnds, clientVars
<1>2. ASSUME callbacks' = {}, settled' = settled \cup Rejected(callbacks)
      PROVE  \A S : CallsKept(S)
  <2>1. settled' = (settled \ {}) \cup Rejected(callbacks)
    BY <1>2
  <2> QED BY <1>2, <2>1, NoneGone, AllRejected
<1>3. CASE ShutdownStarting
  BY <1>1, <1>2, <1>3, OwedDisposed, StillStep DEF ShutdownStarting, LogKept, FlowInv
<1>4. CASE ShutdownStopped
  BY <1>1, <1>4, OwedSame, CallsSame, StillStep DEF ShutdownStopped, LogKept, FlowInv
<1>5. CASE ShutdownRunning
  <2>1. LogKept /\ owed' = owed /\ attached' = attached
    BY <1>5, WroteControl DEF ShutdownRunning
  <2>2. \A S : CallsKept(S)
    <3>1. settled' = settled
      BY <1>5 DEF ShutdownRunning
    <3>2. \A k : k.of = "send" => (k \in callbacks' <=> k \in callbacks)
      BY <1>5 DEF ShutdownRunning, ShutdownCall
    <3> QED BY <3>1, <3>2, CallsOfOthers
  <2> QED BY <1>1, <1>5, <2>1, <2>2, OwedSame, StillStep DEF ShutdownRunning, FlowInv
<1>6. CASE Stop
  <2>1. LogKept /\ owed' = owed /\ attached' = attached
    BY <1>6, WroteControl DEF Stop, LogKept
  <2> QED BY <1>1, <1>2, <1>6, <2>1, OwedSame, StillStep DEF Stop, FlowInv
<1>7. CASE StopEnds
  BY <1>1, <1>7, OwedDisposed, CallsSame, StillStep DEF StopEnds, LogKept, FlowInv
<1> QED BY <1>3, <1>4, <1>5, <1>6, <1>7 DEF Shutdown

LEMMA NextFlows ==
  ASSUME ServerInv, TypeOK', FlowInv, [Next]_vars
  PROVE  FlowStep
<1>0. TypeOK /\ ChildInv /\ RequestInv /\ BufferInv
  BY DEF ServerInv, FlowInv
<1>1. ASSUME NEW S, Settling(S) PROVE FlowStep
  BY <1>1 DEF FlowStep
<1>2. CASE SetInitParams \/ SendInitialized \/ RefundFires \/ UNCHANGED vars
  <2>1. UNCHANGED <<state, pendingRequests, buffer, callbacks, settled, arrived, wrote, owed,
                    answers, attached>>
    BY <1>2 DEF SetInitParams, SendInitialized, RefundFires, vars, clientVars, processVars
  <2>2. Settling({})
    BY <1>0, <2>1, OwedSame, CallsSame, StillStep DEF LogKept
  <2> QED BY <1>1, <2>2
<1>3. ASSUME NEW kind \in Kinds, NEW n \in Ids, Send(kind, n) PROVE FlowStep
  BY <1>0, <1>3, SendFlows DEF FlowStep
<1>4. ASSUME NEW n \in Ids, CancelBuffered(n) PROVE FlowStep
  BY <1>0, <1>1, <1>4, CancelFlows
<1>5. ASSUME NEW c \in attached, ServerExit(c) PROVE FlowStep
  BY <1>0, <1>1, <1>5, ExitFlows
<1>6. ASSUME NEW o \in owed, ReplyToClient(o) PROVE FlowStep
  BY <1>0, <1>1, <1>6, ReplyFlows
<1>12. ASSUME NEW o \in owed, LateReply(o) PROVE FlowStep
  <2>1. /\ owed' = owed \ {o}
        /\ UNCHANGED <<state, pendingRequests, buffer, callbacks, settled, arrived, wrote,
                       answers, attached>>
    BY <1>12 DEF LateReply, clientVars, processVars
  <2>2. OwedKept({})
    BY <1>0, <2>1 DEF OwedKept, RequestInv
  <2>3. Settling({})
    BY <1>0, <2>1, <2>2, CallsSame, StillStep DEF LogKept
  <2> QED BY <1>1, <2>3
<1>7. ASSUME NEW k \in callbacks, NEW ok \in BOOLEAN, ReplyToCall(k, ok) \/ CallTimesOut(k)
      PROVE  FlowStep
  BY <1>0, <1>1, <1>7, CallFlows
<1>8. ASSUME NEW s \in settled,
             \/ ResumeInitSuperseded(s) \/ ResumeInitFailed(s)
             \/ ResumeSendRequest(s) \/ ResumeShutdown(s)
      PROVE  FlowStep
  BY <1>0, <1>1, <1>8, ResumeFlows
<1>9. ASSUME NEW s \in settled, ResumeInitOk(s) PROVE FlowStep
  BY <1>9 DEF FlowStep
<1>10. ASSUME NEW expected \in Starting, RetryFires(expected) PROVE FlowStep
  BY <1>0, <1>1, <1>10, RetryFlows
<1>11. CASE Shutdown \/ Stop \/ StopEnds
  BY <1>0, <1>1, <1>11, TeardownFlows
<1> QED BY <1>2, <1>3, <1>4, <1>5, <1>6, <1>7, <1>8, <1>9, <1>10, <1>11, <1>12 DEF Next, Resume

LEMMA FlowInit == Init => FlowInv
<1> SUFFICES ASSUME Init PROVE FlowInv
  OBVIOUS
<1>1. /\ buffer = <<>> /\ arrived = <<>> /\ wrote = <<>> /\ owed = {} /\ pendingRequests = {}
      /\ callbacks = {} /\ settled = {} /\ answers = [n \in Ids |-> 0]
  BY DEF Init
<1>2. Held = {} /\ BufferedCalls = {} /\ NumbersOf("request") = {}
  BY <1>1 DEF Held, ClientRequestsIn, BufferedCalls, CallsIn, NumbersOf
<1>3. BufferInv
  BY <1>1 DEF BufferInv
<1>4. CallsInv
  BY <1>1, <1>2 DEF CallsInv, OpenCalls, SettledCalls
<1>5. LogInv
  BY <1>1 DEF LogInv, Ordered, DeliveredInOrder
<1>6. RequestInv
  BY <1>1, <1>2 DEF RequestInv
<1> QED BY <1>3, <1>4, <1>5, <1>6 DEF FlowInv

(* Where messages are is invariant: what is held is younger than what was
   written and in order, what is owed was written, and each request counts in
   one place. *)
THEOREM FlowInvariant == Spec => [](ServerInv /\ FlowInv)
<1>1. Init => ServerInv /\ FlowInv
  BY InvInit, FlowInit
<1>2. ServerInv /\ FlowInv /\ [Next]_vars => (ServerInv /\ FlowInv)'
  <2> SUFFICES ASSUME ServerInv, FlowInv, [Next]_vars PROVE (ServerInv /\ FlowInv)'
    OBVIOUS
  <2>1. ServerInv'
    BY InvStep
  <2>2. TypeOK'
    BY <2>1 DEF ServerInv
  <2>3. FlowInv'
    BY <2>2, NextFlows, FlowStepKeeps
  <2> QED BY <2>1, <2>3
<1> QED BY <1>1, <1>2, PTL DEF Spec

(* Each client request is held, in flight or answered once, through lazy
   starts, crashes, restarts, cancellations and teardown. *)
THEOREM EveryRequestAccountedFor == Spec => []RequestsAccountedFor
<1>1. ServerInv /\ FlowInv => RequestsAccountedFor
  <2> SUFFICES ASSUME ServerInv, FlowInv, NEW n \in RequestNumbers
               PROVE  /\ answers[n] <= 1
                      /\ (answers[n] = 0) <=> (n \in pendingRequests \/ n \in Held)
                      /\ ~(n \in pendingRequests /\ n \in Held)
    BY DEF RequestsAccountedFor, Held
  <2>1. n \in NumbersOf("request") /\ n \in DOMAIN arrived
    BY DEF RequestNumbers, NumbersOf
  <2>2. n \in Ids
    BY <2>1 DEF FlowInv, RequestInv
  <2>3. answers[n] = IF n \in NumbersOf("request") \ (pendingRequests \cup Held) THEN 1 ELSE 0
    BY <2>2, AnswersAre DEF FlowInv
  <2> QED BY <2>1, <2>3 DEF FlowInv, RequestInv
<1> QED BY <1>1, FlowInvariant, PTL

(* However the server starts, crashes and restarts, no message reaches a child
   before one the client sent earlier, and none reaches two children. *)
THEOREM DeliveryIsInOrder == Spec => []DeliveredInOrder
<1>1. FlowInv => DeliveredInOrder
  BY DEF FlowInv, LogInv
<1> QED BY <1>1, FlowInvariant, PTL

(* Between events, an internal request in the buffer is one somebody still
   waits for: timeouts and lost children take theirs along. *)
THEOREM AbandonedCallsLeaveTheBuffer == Spec => []NoAbandonedCallBuffered
<1>1. ServerInv /\ FlowInv => NoAbandonedCallBuffered
  <2> SUFFICES ASSUME ServerInv, FlowInv, Quiet, NEW i \in DOMAIN buffer,
                      buffer[i].kind = "internal"
               PROVE  SendCall(buffer[i].n) \in callbacks
    BY DEF NoAbandonedCallBuffered
  <2>1. buffer[i].n \in BufferedCalls
    BY DEF BufferedCalls, CallsIn
  <2>2. FailedCalls = {}
    BY DEF Quiet, FailedCalls
  <2>3. PICK k \in callbacks : k.of = "send" /\ k.n = buffer[i].n
    BY <2>1, <2>2 DEF FlowInv, CallsInv, OpenCalls
  <2>4. k = SendCall(k.n)
    <3>1. k \in [of : {"initialize"}, n : Nat, expects : Starting]
                  \cup [of : {"shutdown", "send"}, n : Nat, expects : {"running"}]
      BY DEF ServerInv, TypeOK, Call
    <3>2. k \in [of : {"shutdown", "send"}, n : Nat, expects : {"running"}]
      BY <2>3, <3>1
    <3>3. k = [of |-> "send", n |-> k.n, expects |-> "running"]
      BY <2>3, <3>2
    <3> QED BY <3>3 DEF SendCall
  <2> QED BY <2>3, <2>4
<1> QED BY <1>1, FlowInvariant, PTL

-----------------------------------------------------------------------------
(* The promise made to the client about each request. *)

PlaceBy(n) ==
  IF n \notin NumbersOf("request") THEN "unsent"
  ELSE IF n \in pendingRequests THEN "delivered"
  ELSE IF n \in Held THEN "held" ELSE "answered"

LEMMA PlacesAre == FlowInv => \A n \in Ids : PlaceOf(n) = PlaceBy(n)
<1> SUFFICES ASSUME FlowInv, NEW n \in Ids PROVE PlaceOf(n) = PlaceBy(n)
  OBVIOUS
<1>1. RequestNumbers = NumbersOf("request")
  BY DEF RequestNumbers, NumbersOf
<1>2. answers[n] = IF n \in NumbersOf("request") \ (pendingRequests \cup Held) THEN 1 ELSE 0
  BY AnswersAre DEF FlowInv
<1>3. n \notin NumbersOf("request") => n \notin pendingRequests /\ n \notin Held
  BY DEF FlowInv, RequestInv
<1> QED BY <1>1, <1>2, <1>3 DEF PlaceOf, PlaceBy

Place == [n \in Ids |-> PlaceOf(n)]

(* The places before and after, from what a step does to the sets. *)
LEMMA PlaceSets ==
  ASSUME FlowInv
  PROVE  /\ Place = [n \in Ids |-> PlaceBy(n)]
         /\ Service!At("held") = Held /\ Service!At("delivered") = pendingRequests
         /\ Service!At("unsent") = Ids \ NumbersOf("request")
<1>1. \A n \in Ids : PlaceOf(n) = PlaceBy(n)
  BY PlacesAre
<1>2. /\ pendingRequests \cup Held \subseteq NumbersOf("request")
      /\ NumbersOf("request") \subseteq Ids /\ pendingRequests \cap Held = {}
  BY DEF FlowInv, RequestInv
<1>3. \A p : Service!At(p) = {n \in Ids : PlaceBy(n) = p}
  BY <1>1 DEF Service!At
<1> QED BY <1>1, <1>2, <1>3 DEF Place, PlaceBy

LEMMA PlaceStays ==
  ASSUME FlowInv, FlowInv', UNCHANGED <<pendingRequests, Held, NumbersOf("request")>>
  PROVE  Place' = Place
<1>1. \A n \in Ids : PlaceOf(n) = PlaceBy(n)
  BY PlacesAre
<1>2. (\A n \in Ids : PlaceOf(n) = PlaceBy(n))'
  BY PlacesAre, PTL
<1>3. \A n \in Ids : PlaceBy(n)' = PlaceBy(n)
  BY DEF PlaceBy
<1> QED BY <1>1, <1>2, <1>3 DEF Place

LEMMA PlaceMoves ==
  ASSUME FlowInv, FlowInv', NEW S, NEW p,
         \A n \in Ids : PlaceBy(n)' = IF n \in S THEN p ELSE PlaceBy(n)
  PROVE  Service!Move(S, p)
<1>1. \A n \in Ids : PlaceOf(n) = PlaceBy(n)
  BY PlacesAre
<1>2. (\A n \in Ids : PlaceOf(n) = PlaceBy(n))'
  BY PlacesAre, PTL
<1>3. \A n \in Ids : PlaceOf(n)' = IF n \in S THEN p ELSE PlaceOf(n)
  BY <1>1, <1>2
<1> QED BY <1>3 DEF Service!Move

Open == state # "stopped"

LEMMA ServiceStep ==
  ASSUME ServerInv, FlowInv, FlowInv', TypeOK', FlowStep,
         state = "stopped" => state' = "stopped"
  PROVE  [Service!ServiceNext]_Service!serviceVars
<1>0. TypeOK /\ ChildInv
  BY DEF ServerInv
<1>1. /\ Service!At("held") = Held /\ Service!At("delivered") = pendingRequests
      /\ Service!At("unsent") = Ids \ NumbersOf("request")
  BY PlaceSets
<1>2. /\ pendingRequests \cup Held \subseteq NumbersOf("request")
      /\ NumbersOf("request") \subseteq Ids /\ pendingRequests \cap Held = {}
  BY DEF FlowInv, RequestInv
<1>3. ASSUME UNCHANGED <<pendingRequests, Held, NumbersOf("request")>>
      PROVE  [Service!ServiceNext]_Service!serviceVars
  <2>1. Place' = Place
    BY <1>3, PlaceStays
  <2>2. CASE Open' = Open
    BY <2>1, <2>2 DEF Service!serviceVars, Place, Open
  <2>3. CASE Open' # Open
    <3>1. Service!Close
      BY <2>3 DEF Service!Close, Open
    <3> QED BY <2>1, <3>1 DEF Service!ServiceNext, Place
  <2> QED BY <2>2, <2>3
<1>4. ASSUME NEW S, Settling(S) PROVE [Service!ServiceNext]_Service!serviceVars
  <2>1. /\ S \subseteq pendingRequests \cup Held
        /\ pendingRequests' = pendingRequests \ S /\ Held' = Held \ S
        /\ NumbersOf("request")' = NumbersOf("request")
    BY <1>4 DEF Settling, NumbersOf
  <2>2. CASE S = {}
    BY <1>3, <2>1, <2>2
  <2>3. CASE S # {}
    <3>1. Service!Move(S, "answered")
      <4>1. \A n \in Ids : PlaceBy(n)' = IF n \in S THEN "answered" ELSE PlaceBy(n)
        BY <1>2, <2>1 DEF PlaceBy
      <4> QED BY <4>1, PlaceMoves
    <3>2. Service!Reply(S) /\ S \in SUBSET Ids
      BY <1>1, <1>2, <2>1, <2>3, <3>1 DEF Service!Reply
    <3>3. CASE Open' = Open
      BY <3>2, <3>3 DEF Service!ServiceNext, Open
    <3>4. CASE Open' # Open
      <4>1. Service!Close
        BY <3>4 DEF Service!Close, Open
      <4> QED BY <3>2, <4>1 DEF Service!ServiceNext
    <3> QED BY <3>3, <3>4
  <2> QED BY <2>2, <2>3
<1>5. ASSUME NEW kind \in Kinds, NEW n \in Ids, n = Len(arrived) + 1,
             arrived' = Append(arrived, kind)
      PROVE  /\ NumbersOf("request")' = NumbersOf("request") \cup Only(kind = "request", n)
             /\ n \notin NumbersOf("request")
  BY <1>0, <1>5, ArrivalNumbers
<1>6. ASSUME NEW kind \in Kinds, NEW n \in Ids, SendRunning(kind, n)
      PROVE  [Service!ServiceNext]_Service!serviceVars
  <2>1. /\ n = Len(arrived) + 1 /\ arrived' = Append(arrived, kind)
        /\ buffer = <<>> /\ buffer' = <<>> /\ state = "running" /\ state' = "running"
        /\ pendingRequests' = pendingRequests \cup Only(kind = "request", n)
    BY <1>6 DEF SendRunning, Arrives, FlowInv, BufferInv, Only
  <2>2. Held = {} /\ Held' = {}
    BY <2>1 DEF Held, ClientRequestsIn
  <2>3. /\ NumbersOf("request")' = NumbersOf("request") \cup Only(kind = "request", n)
        /\ n \notin NumbersOf("request")
    BY <1>5, <2>1
  <2>4. CASE kind # "request"
    BY <1>3, <2>1, <2>2, <2>3, <2>4 DEF Only
  <2>5. CASE kind = "request"
    <3>1. Service!Move({n}, "delivered")
      <4>1. \A m \in Ids : PlaceBy(m)' = IF m \in {n} THEN "delivered" ELSE PlaceBy(m)
        BY <1>2, <2>1, <2>2, <2>3, <2>5 DEF PlaceBy, Only
      <4> QED BY <4>1, PlaceMoves
    <3>2. Service!Pass(n)
      BY <1>1, <2>1, <2>2, <2>3, <3>1 DEF Service!Pass
    <3> QED BY <2>1, <3>2 DEF Service!ServiceNext
  <2> QED BY <2>4, <2>5
<1>7. ASSUME NEW kind \in Kinds, NEW n \in Ids, HeldBack(kind, n)
      PROVE  [Service!ServiceNext]_Service!serviceVars
  <2>1. /\ n = Len(arrived) + 1 /\ arrived' = Append(arrived, kind) /\ Joins(kind, n)
        /\ state # "stopped" /\ state' # "stopped"
        /\ pendingRequests' = pendingRequests
    BY <1>7 DEF HeldBack, Joins, Starting
  <2>2. Held' = Held \cup Only(kind = "request", n)
    BY <1>0, <2>1, JoinedSets DEF Only
  <2>3. /\ NumbersOf("request")' = NumbersOf("request") \cup Only(kind = "request", n)
        /\ n \notin NumbersOf("request")
    BY <1>5, <2>1
  <2>4. CASE kind # "request"
    BY <1>3, <2>1, <2>2, <2>3, <2>4 DEF Only
  <2>5. CASE kind = "request"
    <3>1. Service!Move({n}, "held")
      <4>1. \A m \in Ids : PlaceBy(m)' = IF m \in {n} THEN "held" ELSE PlaceBy(m)
        BY <1>2, <2>1, <2>2, <2>3, <2>5 DEF PlaceBy, Only
      <4> QED BY <4>1, PlaceMoves
    <3>2. Service!Hold(n)
      BY <1>1, <2>1, <2>3, <3>1 DEF Service!Hold
    <3> QED BY <2>1, <3>2 DEF Service!ServiceNext
  <2> QED BY <2>4, <2>5
<1>8. ASSUME NEW kind \in Kinds, NEW n \in Ids, TurnedAway(kind, n)
      PROVE  [Service!ServiceNext]_Service!serviceVars
  <2>1. /\ n = Len(arrived) + 1 /\ arrived' = Append(arrived, kind)
        /\ pendingRequests' = pendingRequests /\ Held' = Held
    BY <1>8 DEF TurnedAway, Held
  <2>2. /\ NumbersOf("request")' = NumbersOf("request") \cup Only(kind = "request", n)
        /\ n \notin NumbersOf("request")
    BY <1>5, <2>1
  <2>3. CASE kind # "request"
    BY <1>3, <2>1, <2>2, <2>3 DEF Only
  <2>4. CASE kind = "request"
    <3>1. Service!Move({n}, "answered")
      <4>1. \A m \in Ids : PlaceBy(m)' = IF m \in {n} THEN "answered" ELSE PlaceBy(m)
        BY <1>2, <2>1, <2>2, <2>4 DEF PlaceBy, Only
      <4> QED BY <4>1, PlaceMoves
    <3>2. Service!Refuse(n)
      BY <1>1, <2>2, <3>1 DEF Service!Refuse
    <3>3. CASE Open' = Open
      BY <3>2, <3>3 DEF Service!ServiceNext, Open
    <3>4. CASE Open' # Open
      <4>1. Service!Close
        BY <3>4 DEF Service!Close, Open
      <4> QED BY <3>2, <4>1 DEF Service!ServiceNext
    <3> QED BY <3>3, <3>4
  <2> QED BY <2>3, <2>4
<1>9. ASSUME NEW s \in settled, ResumeInitOk(s)
      PROVE  [Service!ServiceNext]_Service!serviceVars
  <2>1. /\ arrived' = arrived /\ buffer' = <<>> /\ state' = "running"
        /\ pendingRequests' = pendingRequests \cup Held
    BY <1>9 DEF ResumeInitOk, clientVars, Held
  <2>2. state # "stopped"
    BY <1>9, HandshakeChild DEF Starting
  <2>3. Held' = {} /\ NumbersOf("request")' = NumbersOf("request")
    BY <2>1 DEF Held, ClientRequestsIn, NumbersOf
  <2>4. CASE Held = {}
    BY <1>3, <2>1, <2>3, <2>4
  <2>5. CASE Held # {}
    <3>1. Service!Move(Held, "delivered")
      <4>1. \A m \in Ids : PlaceBy(m)' = IF m \in Held THEN "delivered" ELSE PlaceBy(m)
        BY <1>2, <2>1, <2>3 DEF PlaceBy
      <4> QED BY <4>1, PlaceMoves
    <3>2. Service!HandOver
      BY <1>1, <2>2, <2>5, <3>1 DEF Service!HandOver
    <3> QED BY <2>1, <2>2, <3>2 DEF Service!ServiceNext
  <2> QED BY <2>4, <2>5
<1> QED BY <1>4, <1>6, <1>7, <1>8, <1>9 DEF FlowStep

(* A managed server implements the service of RequestService: lazy starts,
   crashes, restarts, timeouts and teardown keep each request where the client
   may expect it. *)
THEOREM TheServerKeepsItsPromise == Spec => KeepsRequestPromise
<1>1. Init => Service!ServiceInit
  <2> SUFFICES ASSUME Init PROVE Service!ServiceInit
    OBVIOUS
  <2>1. RequestNumbers = {} /\ state = "idle"
    BY DEF Init, RequestNumbers
  <2>2. \A n \in Ids : PlaceOf(n) = "unsent"
    BY <2>1 DEF PlaceOf
  <2> QED BY <2>1, <2>2 DEF Service!ServiceInit
<1>2. (ServerInv /\ FlowInv) /\ (ServerInv /\ FlowInv)' /\ [Next]_vars
        => [Service!ServiceNext]_Service!serviceVars
  <2> SUFFICES ASSUME ServerInv, FlowInv, ServerInv', FlowInv', [Next]_vars
               PROVE  [Service!ServiceNext]_Service!serviceVars
    OBVIOUS
  <2>1. TypeOK'
    BY DEF ServerInv
  <2>2. FlowStep
    BY <2>1, NextFlows
  <2>3. state = "stopped" => state' = "stopped"
    BY StoppedStays
  <2> QED BY <2>1, <2>2, <2>3, ServiceStep
<1> QED BY <1>1, <1>2, FlowInvariant, PTL DEF Spec, KeepsRequestPromise, Service!ServiceSpec

-----------------------------------------------------------------------------
(* What each child hears, position by position in the log. *)

Heard(log, c, kind) == \E j \in DOMAIN log : log[j].to = c /\ log[j].kind = kind
HeardBefore(log, i, kind) == \E j \in 1..(i - 1) : log[j].to = log[i].to /\ log[j].kind = kind
OnlyBefore(log, i, kind) == \A j \in 1..(i - 1) : log[j].to = log[i].to => log[j].kind = kind
GreetedOnly(log, i) ==
  \A j \in 1..(i - 1) : log[j].to = log[i].to => log[j].kind \in {"initialize", "initialized"}

Opens(log, i) ==
  /\ log[i].kind = "initialize" => \A j \in 1..(i - 1) : log[j].to # log[i].to
  /\ log[i].kind = "initialized" => HeardBefore(log, i, "initialize") /\ OnlyBefore(log, i, "initialize")
  /\ log[i].kind = "replay" => HeardBefore(log, i, "initialize") /\ GreetedOnly(log, i)
  /\ log[i].kind = "exit" => HeardBefore(log, i, "initialize")
  /\ log[i].kind \notin {"initialize", "initialized", "exit"} => HeardBefore(log, i, "initialized")

Documents(log) == {i \in DOMAIN log : log[i].kind \in {"replay", "sync"}}
Grow(log) == \A i, j \in Documents(log) : i < j /\ log[i].to = log[j].to => log[i].n < log[j].n

(* A child speaks only of what was written to it: the handshake in order, and
   versions of the documents that grow up to the tracker's. *)
HearInv ==
  /\ server <= spawned
  /\ \A i \in DOMAIN wrote : wrote[i].to \in 1..spawned /\ Opens(wrote, i)
  /\ state \in Starting /\ server # 0 =>
       /\ Heard(wrote, server, "initialize")
       /\ \A i \in DOMAIN wrote : wrote[i].to = server => wrote[i].kind = "initialize"
  /\ state = "running" => Heard(wrote, server, "initialized")

VersionInv ==
  /\ documents <= Len(arrived)
  /\ \A i \in Documents(wrote) : wrote[i].n <= documents
  /\ Grow(wrote)
  /\ state = "running" /\ documents # 0 =>
       \E i \in Documents(wrote) : wrote[i].to = server /\ wrote[i].n = documents

(* A log that grew: what it said is as it was. *)
Extends(longer, log) ==
  /\ DOMAIN log \subseteq DOMAIN longer
  /\ \A i \in DOMAIN log : longer[i] = log[i]
  /\ \A i \in DOMAIN log : 1..(i - 1) \subseteq DOMAIN log
  /\ DOMAIN longer \subseteq Nat

LEMMA LaterOpens ==
  ASSUME NEW log, NEW longer, Extends(longer, log), NEW i \in DOMAIN log, Opens(log, i)
  PROVE  Opens(longer, i)
<1>1. longer[i] = log[i] /\ \A j \in 1..(i - 1) : longer[j] = log[j]
  BY DEF Extends
<1>2. \A k : HeardBefore(longer, i, k) = HeardBefore(log, i, k)
  BY <1>1 DEF HeardBefore
<1>3. \A k : OnlyBefore(longer, i, k) = OnlyBefore(log, i, k)
  BY <1>1 DEF OnlyBefore
<1>4. \A j \in 1..(i - 1) : longer[j].to = log[j].to
  BY <1>1
<1>5. GreetedOnly(longer, i) = GreetedOnly(log, i)
  BY <1>1 DEF GreetedOnly
<1> QED BY <1>1, <1>2, <1>3, <1>4, <1>5 DEF Opens

(* One more version of the documents, newer than any its child has. *)
LEMMA LaterGrows ==
  ASSUME NEW log, NEW longer, Extends(longer, log), Grow(log),
         NEW p, \A i \in Documents(longer) : i \in DOMAIN log \/ i = p,
         \A i \in DOMAIN log : i < p,
         \A i \in Documents(log) : log[i].to = longer[p].to => log[i].n < longer[p].n,
         p \in Nat
  PROVE  Grow(longer)
<1>1. \A i \in Documents(longer) : i \in Documents(log) \/ i = p
  BY DEF Extends, Documents
<1>2. SUFFICES ASSUME NEW i \in Documents(longer), NEW j \in Documents(longer),
                      i < j, longer[i].to = longer[j].to
               PROVE  longer[i].n < longer[j].n
  BY DEF Grow
<1>3. i \in Nat /\ j \in Nat
  BY DEF Documents, Extends
<1>4. CASE i \in Documents(log) /\ j \in Documents(log)
  BY <1>2, <1>4 DEF Grow, Extends, Documents
<1>5. CASE i \in Documents(log) /\ j = p
  BY <1>2, <1>5 DEF Extends, Documents
<1>6. CASE i = p
  BY <1>1, <1>2, <1>3, <1>6 DEF Documents
<1> QED BY <1>1, <1>4, <1>5, <1>6

(* The log with one entry more. *)
LEMMA OneMore ==
  ASSUME TypeOK, NEW e \in Entry, wrote' = Append(wrote, e)
  PROVE  /\ Extends(wrote', wrote) /\ Len(wrote) \in Nat
         /\ DOMAIN wrote = 1..Len(wrote) /\ DOMAIN wrote' = 1..(Len(wrote) + 1)
         /\ wrote'[Len(wrote) + 1] = e
<1>1. wrote \in Seq(Entry)
  BY DEF TypeOK
<1>2. /\ Len(wrote') = Len(wrote) + 1 /\ wrote'[Len(wrote) + 1] = e
      /\ \A i \in 1..Len(wrote) : wrote'[i] = wrote[i]
      /\ wrote' \in Seq(Entry)
  BY <1>1, AppendProperties
<1>3. DOMAIN wrote = 1..Len(wrote) /\ Len(wrote) \in Nat /\ DOMAIN wrote' = 1..(Len(wrote) + 1)
  BY <1>1, <1>2, LenProperties
<1> QED BY <1>2, <1>3 DEF Extends

LEMMA OneMoreOpens ==
  ASSUME TypeOK, HearInv, NEW e \in Entry, wrote' = Append(wrote, e),
         spawned' \in Nat, spawned <= spawned', e.to \in 1..spawned',
         e.kind = "initialize" => \A i \in DOMAIN wrote : wrote[i].to # e.to,
         e.kind \notin {"initialized", "replay"},
         e.kind = "exit" => Heard(wrote, e.to, "initialize"),
         e.kind \notin {"initialize", "exit"} => Heard(wrote, e.to, "initialized")
  PROVE  /\ \A i \in DOMAIN wrote' : wrote'[i].to \in 1..spawned' /\ Opens(wrote', i)
         /\ \A c, k : Heard(wrote', c, k) <=> Heard(wrote, c, k) \/ (c = e.to /\ k = e.kind)
<1> DEFINE last == Len(wrote) + 1
<1>1. /\ Extends(wrote', wrote) /\ Len(wrote) \in Nat
      /\ DOMAIN wrote = 1..Len(wrote) /\ DOMAIN wrote' = 1..last
      /\ wrote'[last] = e
  BY OneMore
<1>2. last \in Nat /\ last - 1 = Len(wrote) /\ DOMAIN wrote' = DOMAIN wrote \cup {last}
  BY <1>1
<1> HIDE DEF last
<1>3. \A i \in DOMAIN wrote : wrote'[i] = wrote[i]
  BY <1>1 DEF Extends
<1>4. \A k : Heard(wrote, e.to, k) <=> HeardBefore(wrote', last, k)
  BY <1>1, <1>2, <1>3 DEF Heard, HeardBefore
<1>5. Opens(wrote', last)
  BY <1>1, <1>2, <1>3, <1>4 DEF Opens
<1>6. \A i \in DOMAIN wrote : Opens(wrote', i)
  BY <1>1, LaterOpens DEF HearInv
<1>7. \A i \in DOMAIN wrote : wrote'[i].to \in 1..spawned'
  BY <1>3 DEF HearInv, TypeOK
<1>8. \A i \in DOMAIN wrote' : wrote'[i].to \in 1..spawned' /\ Opens(wrote', i)
  BY <1>1, <1>2, <1>5, <1>6, <1>7
<1>9. ASSUME NEW c, NEW k
      PROVE  Heard(wrote', c, k) <=> Heard(wrote, c, k) \/ (c = e.to /\ k = e.kind)
  BY <1>1, <1>2, <1>3 DEF Heard
<1> QED BY <1>8, <1>9

(* What the handlers do to what a child hears. *)
Counted == documents <= documents' /\ documents' <= Len(arrived')

Silent ==
  /\ wrote' = wrote /\ spawned' = spawned
  /\ server' # 0 => server' = server /\ state' = state
  /\ Counted /\ (state' = "running" => documents' = documents)

Greeted ==
  /\ wrote' = Append(wrote, To(spawned + 1, "initialize", 0))
  /\ spawned' = spawned + 1 /\ server' = spawned' /\ state' \in Starting
  /\ Counted

Spoken(kind, n) ==
  /\ state = "running" /\ UNCHANGED <<state, server, spawned>>
  /\ wrote' = Append(wrote, To(server, kind, n))
  /\ Counted
  /\ IF kind = "sync" THEN documents < n /\ n = documents' ELSE documents' = documents

ToldToExit ==
  /\ server # 0 /\ server' = 0 /\ spawned' = spawned
  /\ wrote' = Append(wrote, To(server, "exit", 0))
  /\ Counted

HearStep ==
  \/ Silent \/ Greeted \/ ToldToExit
  \/ \E kind \in Kinds \cup {"shutdown"}, n \in Nat : Spoken(kind, n)
  \/ \E s \in settled : ResumeInitOk(s)

LEMMA VersionsTyped ==
  ASSUME TypeOK
  PROVE  \A i \in Documents(wrote) : i \in DOMAIN wrote /\ wrote[i].n \in Nat
<1>1. wrote \in Seq(Entry) /\ DOMAIN wrote = 1..Len(wrote)
  BY LenProperties DEF TypeOK
<1>2. \A i \in 1..Len(wrote) : wrote[i] \in Entry
  BY <1>1, ElementOfSeq
<1>3. \A e \in Entry : e.n \in Nat
  BY DEF Entry
<1> QED BY <1>1, <1>2, <1>3 DEF Documents

LEMMA SilentKeeps ==
  ASSUME TypeOK, TypeOK', ChildInv', HearInv, VersionInv, Silent
  PROVE  HearInv' /\ VersionInv'
<1>1. documents \in Nat /\ documents' \in Nat /\ Len(arrived') \in Nat /\ spawned \in Nat
  <2>1. MaxMessages \in Nat
    BY ManagedServerAssumption
  <2>2. arrived' \in Seq(Kinds)
    BY DEF TypeOK
  <2> QED BY <2>1, <2>2, LenProperties DEF TypeOK
<1>2. state' = "running" => server' # 0
  BY DEF ChildInv
<1>3. HearInv'
  <2>1. server' <= spawned'
    BY <1>1 DEF Silent, HearInv
  <2> QED BY <1>2, <2>1 DEF Silent, HearInv
<1>4. VersionInv'
  <2>1. Documents(wrote') = Documents(wrote)
    BY DEF Silent
  <2>2. \A i \in Documents(wrote) : wrote[i].n \in Nat
    BY VersionsTyped
  <2>3. \A i \in Documents(wrote') : wrote'[i].n <= documents'
    <3>1. wrote' = wrote /\ documents <= documents'
      BY DEF Silent, Counted
    <3>2. \A i \in Documents(wrote) : wrote[i].n <= documents
      BY DEF VersionInv
    <3>3. \A i \in Documents(wrote) : wrote[i].n <= documents'
      BY <1>1, <2>2, <3>1, <3>2
    <3> QED BY <2>1, <3>1, <3>3
  <2>4. Grow(wrote')
    BY DEF Silent, VersionInv
  <2>5. ASSUME state' = "running", documents' # 0
        PROVE  \E i \in Documents(wrote') : wrote'[i].to = server' /\ wrote'[i].n = documents'
    BY <1>2, <2>1, <2>5 DEF Silent, VersionInv
  <2> QED BY <2>3, <2>4, <2>5 DEF VersionInv, Silent, Counted
<1> QED BY <1>3, <1>4

(* A log that grew by nothing about the documents. *)
LEMMA VersionsStay ==
  ASSUME TypeOK, TypeOK', VersionInv, NEW e \in Entry, wrote' = Append(wrote, e),
         e.kind \notin {"replay", "sync"}, Counted,
         state' = "running" => state = "running" /\ server' = server /\ documents' = documents
  PROVE  VersionInv'
<1>1. /\ Extends(wrote', wrote) /\ Len(wrote) \in Nat
      /\ DOMAIN wrote = 1..Len(wrote) /\ DOMAIN wrote' = 1..(Len(wrote) + 1)
      /\ wrote'[Len(wrote) + 1] = e
  BY OneMore
<1>2. \A i \in DOMAIN wrote : wrote'[i] = wrote[i]
  BY <1>1 DEF Extends
<1>3. \A i : i \in Documents(wrote') <=> i \in Documents(wrote)
  BY <1>1, <1>2 DEF Documents
<1>4. \A i \in Documents(wrote) : wrote'[i] = wrote[i] /\ wrote[i].n \in Nat
  BY <1>2, VersionsTyped
<1>5. documents \in Nat /\ documents' \in Nat
  BY ManagedServerAssumption DEF TypeOK
<1>6. \A i \in Documents(wrote') : wrote'[i].n <= documents'
  <2>1. \A i \in Documents(wrote) : wrote[i].n <= documents
    BY DEF VersionInv
  <2>2. documents <= documents'
    BY DEF Counted
  <2>3. ASSUME NEW i \in Documents(wrote') PROVE wrote'[i].n <= documents'
    <3>1. i \in Documents(wrote)
      BY <1>3
    <3>2. wrote'[i] = wrote[i] /\ wrote[i].n \in Nat /\ wrote[i].n <= documents
      BY <1>4, <2>1, <3>1
    <3> QED BY <1>5, <2>2, <3>2
  <2> QED BY <2>3
<1>7. Grow(wrote')
  <2> SUFFICES ASSUME NEW i \in Documents(wrote'), NEW j \in Documents(wrote'),
                      i < j, wrote'[i].to = wrote'[j].to
               PROVE  wrote'[i].n < wrote'[j].n
    BY DEF Grow
  <2>1. i \in Documents(wrote) /\ j \in Documents(wrote)
    BY <1>3
  <2>2. wrote'[i] = wrote[i] /\ wrote'[j] = wrote[j]
    BY <1>4, <2>1
  <2> QED BY <2>1, <2>2 DEF VersionInv, Grow
<1>8. ASSUME state' = "running", documents' # 0
      PROVE  \E i \in Documents(wrote') : wrote'[i].to = server' /\ wrote'[i].n = documents'
  <2>1. PICK i \in Documents(wrote) : wrote[i].to = server /\ wrote[i].n = documents
    BY <1>8 DEF VersionInv
  <2>2. i \in Documents(wrote')
    BY <1>3, <2>1
  <2> QED BY <1>4, <1>8, <2>1, <2>2
<1> QED BY <1>6, <1>7, <1>8 DEF VersionInv, Counted

LEMMA GreetedKeeps ==
  ASSUME TypeOK, TypeOK', HearInv, VersionInv, Greeted
  PROVE  HearInv' /\ VersionInv'
<1> DEFINE e == To(spawned + 1, "initialize", 0)
<1>1. spawned \in Nat /\ spawned' = spawned + 1 /\ server' = spawned + 1
  BY DEF TypeOK, Greeted
<1>2. e \in Entry /\ e.to = spawned + 1 /\ e.kind = "initialize" /\ e.n = 0
  BY <1>1, EntryTyped DEF To
<1>3. wrote' = Append(wrote, e) /\ state' \in Starting /\ Counted
  BY DEF Greeted
<1> HIDE DEF e
<1>4. \A i \in DOMAIN wrote : wrote[i].to # e.to
  BY <1>1, <1>2 DEF HearInv
<1>5. /\ \A i \in DOMAIN wrote' : wrote'[i].to \in 1..spawned' /\ Opens(wrote', i)
      /\ \A c, k : Heard(wrote', c, k) <=> Heard(wrote, c, k) \/ (c = e.to /\ k = e.kind)
  BY <1>1, <1>2, <1>3, <1>4, OneMoreOpens
<1>6. \A i \in DOMAIN wrote' : wrote'[i].to = server' => wrote'[i].kind = "initialize"
  BY <1>1, <1>2, <1>3, <1>4, OneMore DEF Extends
<1>7. server' <= spawned' /\ state' # "running"
  BY <1>1, <1>3 DEF Starting
<1>8. Heard(wrote', server', "initialize")
  BY <1>1, <1>2, <1>5
<1>9. HearInv'
  BY <1>5, <1>6, <1>7, <1>8 DEF HearInv
<1>10. VersionInv'
  BY <1>2, <1>3, <1>7, VersionsStay
<1> QED BY <1>9, <1>10

(* A child that was initialized has heard initialize. *)
LEMMA InitializedFirst ==
  ASSUME HearInv, NEW c, Heard(wrote, c, "initialized"), TypeOK
  PROVE  Heard(wrote, c, "initialize")
<1>1. PICK i \in DOMAIN wrote : wrote[i].to = c /\ wrote[i].kind = "initialized"
  BY DEF Heard
<1>2. PICK j \in 1..(i - 1) : wrote[j].to = c /\ wrote[j].kind = "initialize"
  BY <1>1 DEF HearInv, Opens, HeardBefore
<1>3. j \in DOMAIN wrote
  <2>1. DOMAIN wrote = 1..Len(wrote) /\ Len(wrote) \in Nat
    BY LenProperties DEF TypeOK
  <2> QED BY <2>1
<1> QED BY <1>2, <1>3 DEF Heard

LEMMA ToldToExitKeeps ==
  ASSUME TypeOK, TypeOK', ChildInv, ChildInv', HearInv, VersionInv, ToldToExit
  PROVE  HearInv' /\ VersionInv'
<1> DEFINE e == To(server, "exit", 0)
<1>1. server \in Nat \ {0} /\ server <= spawned /\ spawned \in Nat /\ spawned' = spawned /\ server' = 0
  BY DEF TypeOK, HearInv, ToldToExit
<1>2. e \in Entry /\ e.to = server /\ e.kind = "exit" /\ e.n = 0
  BY <1>1, EntryTyped DEF To
<1>3. wrote' = Append(wrote, e) /\ Counted
  BY DEF ToldToExit
<1> HIDE DEF e
<1>4. Heard(wrote, server, "initialize")
  <2>1. state \in Starting \/ state = "running"
    BY <1>1 DEF ChildInv, TypeOK, States, Starting
  <2> QED BY <1>1, <2>1, InitializedFirst DEF HearInv
<1>5. \A i \in DOMAIN wrote' : wrote'[i].to \in 1..spawned' /\ Opens(wrote', i)
  BY <1>1, <1>2, <1>3, <1>4, OneMoreOpens
<1>6. state' # "running"
  BY <1>1 DEF ChildInv
<1>7. HearInv'
  BY <1>1, <1>5, <1>6 DEF HearInv
<1>8. VersionInv'
  BY <1>2, <1>3, <1>6, VersionsStay
<1> QED BY <1>7, <1>8

LEMMA SpokenKeeps ==
  ASSUME TypeOK, TypeOK', ChildInv, HearInv, VersionInv,
         NEW kind \in Kinds \cup {"shutdown"}, NEW n \in Nat, Spoken(kind, n)
  PROVE  HearInv' /\ VersionInv'
<1> DEFINE e == To(server, kind, n)
<1>1. /\ server \in Nat \ {0} /\ server <= spawned /\ spawned \in Nat
      /\ spawned' = spawned /\ server' = server /\ state = "running" /\ state' = "running"
  BY DEF TypeOK, HearInv, ChildInv, Spoken
<1>2. e \in Entry /\ e.to = server /\ e.kind = kind /\ e.n = n
  BY <1>1, EntryTyped DEF To
<1>3. wrote' = Append(wrote, e) /\ Counted
  BY DEF Spoken
<1> HIDE DEF e
<1>4. Heard(wrote, server, "initialized")
  BY <1>1 DEF HearInv
<1>5. kind \notin {"initialize", "initialized", "replay", "exit"}
  BY DEF Kinds
<1>6. /\ \A i \in DOMAIN wrote' : wrote'[i].to \in 1..spawned' /\ Opens(wrote', i)
      /\ \A c, k : Heard(wrote', c, k) <=> Heard(wrote, c, k) \/ (c = e.to /\ k = e.kind)
  BY <1>1, <1>2, <1>3, <1>4, <1>5, OneMoreOpens
<1>7. HearInv'
  BY <1>1, <1>4, <1>6 DEF HearInv, Starting
<1>8. VersionInv'
  <2>1. CASE kind # "sync"
    BY <1>1, <1>2, <1>3, <1>5, <2>1, VersionsStay DEF Spoken, Kinds
  <2>2. CASE kind = "sync"
    <3>1. documents < n /\ n = documents' /\ documents \in Nat
      BY <2>2, ManagedServerAssumption DEF Spoken, TypeOK
    <3>2. /\ Extends(wrote', wrote) /\ Len(wrote) \in Nat
          /\ DOMAIN wrote = 1..Len(wrote) /\ DOMAIN wrote' = 1..(Len(wrote) + 1)
          /\ wrote'[Len(wrote) + 1] = e
      BY <1>2, <1>3, OneMore
    <3>3. \A i \in DOMAIN wrote : wrote'[i] = wrote[i]
      BY <3>2 DEF Extends
    <3>4. \A i \in Documents(wrote') : i \in DOMAIN wrote \/ i = Len(wrote) + 1
      BY <3>2 DEF Documents
    <3>5. \A i \in Documents(wrote) : i \in DOMAIN wrote /\ wrote[i].n \in Nat /\ wrote[i].n < n
      <4>1. \A i \in Documents(wrote) : wrote[i].n <= documents
        BY DEF VersionInv
      <4> QED BY <3>1, <4>1, VersionsTyped
    <3>6. Grow(wrote')
      BY <1>2, <3>2, <3>4, <3>5, LaterGrows DEF VersionInv
    <3>7. \A i \in Documents(wrote') : wrote'[i].n <= documents'
      BY <1>2, <3>1, <3>2, <3>3, <3>4, <3>5 DEF Documents
    <3>8. Len(wrote) + 1 \in Documents(wrote')
      BY <1>2, <2>2, <3>2 DEF Documents
    <3> QED BY <1>1, <1>2, <1>3, <3>1, <3>2, <3>6, <3>7, <3>8 DEF VersionInv, Counted
  <2> QED BY <2>1, <2>2
<1> QED BY <1>7, <1>8

(* The handover is heard in order: initialized, the documents, the messages. *)
LEMMA HandoverHeard ==
  ASSUME ServerInv, TypeOK', HearInv, VersionInv, NEW s \in settled, ResumeInitOk(s)
  PROVE  HearInv' /\ VersionInv'
<1> DEFINE c == server
<1>0. /\ TypeOK /\ c \in attached /\ c # 0 /\ state \in Starting
      /\ server' = c /\ spawned' = spawned /\ arrived' = arrived /\ documents' = documents
      /\ state' = "running"
      /\ Write(c, <<To(c, "initialized", 0)>> \o Replay(c) \o ForwardTo(c, buffer))
  BY HandshakeChild DEF ServerInv, ResumeInitOk, clientVars, processVars
<1>1. /\ c \in Nat /\ c \in 1..spawned /\ documents \in Nat /\ spawned \in Nat
      /\ Heard(wrote, c, "initialize")
      /\ \A i \in DOMAIN wrote : wrote[i].to = c => wrote[i].kind = "initialize"
  BY <1>0, ManagedServerAssumption DEF TypeOK, HearInv
<1> HIDE DEF c
<1> DEFINE first == Len(wrote) + 1
<1>2. PICK base \in Nat :
        /\ base > Len(wrote) /\ Len(wrote) \in Nat
        /\ \A i \in 1..Len(wrote) : wrote'[i] = wrote[i]
        /\ wrote'[first] = To(c, "initialized", 0)
        /\ \A i \in (Len(wrote) + 2)..base :
             documents # 0 /\ i = base /\ wrote'[i] = To(c, "replay", documents)
        /\ documents # 0 => base = Len(wrote) + 2
        /\ DOMAIN wrote' = 1..(base + Len(buffer))
        /\ \A j \in 1..Len(buffer) : wrote'[base + j] = To(c, buffer[j].kind, buffer[j].n)
  BY <1>0, HandoverShape
<1>3. /\ DOMAIN wrote = 1..Len(wrote) /\ Len(buffer) \in Nat
      /\ \A j \in 1..Len(buffer) : buffer[j].kind \in {"request", "internal", "note"}
  BY <1>0, LenProperties, BufferElements DEF TypeOK, Kinds
<1>4. Extends(wrote', wrote)
  BY <1>2, <1>3 DEF Extends
<1>5. first \in Nat /\ first \in DOMAIN wrote' /\ first = Len(wrote) + 1
  BY <1>2, <1>3
<1> HIDE DEF first
<1>6. \A k, n : To(c, k, n).to = c /\ To(c, k, n).kind = k /\ To(c, k, n).n = n
  BY DEF To
(* What is new in the log, position by position. *)
<1>7. ASSUME NEW i \in DOMAIN wrote', i \notin DOMAIN wrote
      PROVE  \/ i = first /\ wrote'[i] = To(c, "initialized", 0)
             \/ i > first /\ documents # 0 /\ i = base /\ wrote'[i] = To(c, "replay", documents)
             \/ /\ i > first
                /\ \E j \in 1..Len(buffer) : wrote'[i] = To(c, buffer[j].kind, buffer[j].n)
  <2>1. i \in 1..(base + Len(buffer)) /\ i \in Nat /\ i > Len(wrote)
    BY <1>2, <1>3, <1>7
  <2>2. CASE i = first
    BY <1>2, <2>2
  <2>3. CASE i # first /\ i <= base
    <3>1. i \in (Len(wrote) + 2)..base /\ i > first
      BY <1>2, <1>5, <2>1, <2>3
    <3> QED BY <1>2, <3>1
  <2>4. CASE i > base
    <3>1. i - base \in 1..Len(buffer) /\ i = base + (i - base)
      BY <1>2, <1>3, <2>1, <2>4
    <3>2. wrote'[i] = To(c, buffer[i - base].kind, buffer[i - base].n)
      BY <1>2, <3>1
    <3>3. i > first
      BY <1>2, <1>5, <2>1, <2>4
    <3> QED BY <3>1, <3>2, <3>3
  <2>5. i <= base \/ i > base
    BY <1>2, <2>1
  <2> QED BY <2>2, <2>3, <2>4, <2>5
<1>8. ASSUME NEW i \in DOMAIN wrote', i \notin DOMAIN wrote
      PROVE  wrote'[i].to \in 1..spawned' /\ Opens(wrote', i)
  <2>1. wrote'[i].to = c /\ i \in Nat /\ i >= first
    BY <1>2, <1>5, <1>6, <1>7, <1>8
  <2>2. CASE i = first
    <3>1. wrote'[i].kind = "initialized"
      BY <1>2, <1>6, <2>2
    <3>2. \A j \in 1..(i - 1) : j \in DOMAIN wrote /\ wrote'[j] = wrote[j]
      BY <1>2, <1>3, <1>5, <2>2
    <3>3. OnlyBefore(wrote', i, "initialize")
      BY <1>1, <2>1, <3>2 DEF OnlyBefore
    <3>4. HeardBefore(wrote', i, "initialize")
      <4>1. PICK j \in DOMAIN wrote : wrote[j].to = c /\ wrote[j].kind = "initialize"
        BY <1>1 DEF Heard
      <4>2. j \in 1..(i - 1)
        BY <1>3, <1>5, <2>2, <1>2
      <4> QED BY <2>1, <3>2, <4>1, <4>2 DEF HeardBefore
    <3> QED BY <1>0, <1>1, <2>1, <3>1, <3>3, <3>4 DEF Opens
  <2>3. CASE i # first
    <3>1. wrote'[i].kind \in {"replay", "request", "internal", "note"}
      BY <1>3, <1>6, <1>7, <1>8, <2>3
    <3>2. first \in 1..(i - 1) /\ wrote'[first].to = c /\ wrote'[first].kind = "initialized"
      BY <1>2, <1>5, <1>6, <2>1, <2>3
    <3>3. HeardBefore(wrote', i, "initialized")
      BY <2>1, <3>2 DEF HeardBefore
    <3>4. ASSUME wrote'[i].kind = "replay"
          PROVE  HeardBefore(wrote', i, "initialize") /\ GreetedOnly(wrote', i)
      <4>1. documents # 0 /\ i = base
        BY <1>3, <1>6, <1>7, <1>8, <2>3, <3>4
      <4>2. i = Len(wrote) + 2
        BY <1>2, <4>1
      <4>3. \A j \in 1..(i - 1) : j \in DOMAIN wrote \/ j = first
        BY <1>2, <1>3, <1>5, <4>2
      <4>4. \A j \in DOMAIN wrote : wrote'[j] = wrote[j] /\ j \in 1..(i - 1)
        BY <1>2, <1>3, <4>2
      <4>5. GreetedOnly(wrote', i)
        BY <1>1, <2>1, <3>2, <4>3, <4>4 DEF GreetedOnly
      <4>6. PICK j \in DOMAIN wrote : wrote[j].to = c /\ wrote[j].kind = "initialize"
        BY <1>1 DEF Heard
      <4> QED BY <2>1, <4>4, <4>5, <4>6 DEF HeardBefore
    <3> QED BY <1>0, <1>1, <2>1, <3>1, <3>3, <3>4 DEF Opens
  <2> QED BY <2>2, <2>3
<1>9. \A i \in DOMAIN wrote' : wrote'[i].to \in 1..spawned' /\ Opens(wrote', i)
  <2> SUFFICES ASSUME NEW i \in DOMAIN wrote'
               PROVE  wrote'[i].to \in 1..spawned' /\ Opens(wrote', i)
    OBVIOUS
  <2>1. CASE i \in DOMAIN wrote
    <3>1. wrote[i].to \in 1..spawned /\ Opens(wrote, i)
      BY <2>1 DEF HearInv
    <3>2. wrote'[i] = wrote[i]
      BY <1>4, <2>1 DEF Extends
    <3> QED BY <1>0, <1>4, <2>1, <3>1, <3>2, LaterOpens
  <2> QED BY <1>8, <2>1
<1>10. HearInv'
  <2>1. Heard(wrote', c, "initialized")
    BY <1>2, <1>5, <1>6 DEF Heard
  <2>2. server' <= spawned'
    BY <1>0, <1>1
  <2> QED BY <1>0, <1>9, <2>1, <2>2 DEF HearInv, Starting
<1>11. VersionInv'
  <2>1. \A i \in Documents(wrote) : /\ i \in DOMAIN wrote /\ wrote'[i] = wrote[i] /\ wrote[i].to # c
                                    /\ wrote[i].n <= documents
    <3>1. \A i \in Documents(wrote) : i \in DOMAIN wrote /\ wrote[i].kind # "initialize"
      BY DEF Documents
    <3>2. \A i \in Documents(wrote) : wrote[i].to # c
      BY <1>1, <3>1
    <3> QED BY <1>4, <3>1, <3>2 DEF VersionInv, Extends
  <2>2. ASSUME NEW i \in Documents(wrote')
        PROVE  \/ i \in Documents(wrote)
               \/ documents # 0 /\ i = base /\ wrote'[i] = To(c, "replay", documents)
    <3>1. i \in DOMAIN wrote' /\ wrote'[i].kind \in {"replay", "sync"}
      BY <2>2 DEF Documents
    <3>2. CASE i \in DOMAIN wrote
      BY <1>4, <3>1, <3>2 DEF Documents, Extends
    <3>3. CASE i \notin DOMAIN wrote
      BY <1>3, <1>6, <1>7, <3>1, <3>3
    <3> QED BY <3>2, <3>3
  <2>3. \A i \in Documents(wrote') : wrote'[i].n <= documents'
    BY <1>0, <1>1, <1>6, <2>1, <2>2
  <2>4. \A i \in DOMAIN wrote : i < base
    BY <1>2, <1>3
  <2>5. Grow(wrote')
    <3>1. \A i \in Documents(wrote') : i \in DOMAIN wrote \/ i = base
      BY <2>1, <2>2
    <3>2. CASE wrote'[base].to = c
      <4>1. \A i \in Documents(wrote) :
              wrote[i].to = wrote'[base].to => wrote[i].n < wrote'[base].n
        BY <2>1, <3>2
      <4> QED BY <1>4, <2>4, <3>1, <4>1, LaterGrows DEF VersionInv
    <3>3. CASE wrote'[base].to # c
      <4> SUFFICES ASSUME NEW i \in Documents(wrote'), NEW j \in Documents(wrote'),
                          i < j, wrote'[i].to = wrote'[j].to
                   PROVE  wrote'[i].n < wrote'[j].n
        BY DEF Grow
      <4>1. i \in Documents(wrote) /\ j \in Documents(wrote)
        BY <1>6, <2>2, <3>3
      <4>2. wrote'[i] = wrote[i] /\ wrote'[j] = wrote[j]
        BY <2>1, <4>1
      <4> QED BY <4>1, <4>2 DEF VersionInv, Grow
    <3> QED BY <3>2, <3>3
  <2>6. ASSUME documents # 0
        PROVE  \E i \in Documents(wrote') : wrote'[i].to = server' /\ wrote'[i].n = documents'
    <3>1. base \in (Len(wrote) + 2)..base /\ base \in DOMAIN wrote'
      BY <1>2, <1>3, <2>6
    <3>2. wrote'[base] = To(c, "replay", documents)
      BY <1>2, <3>1
    <3>3. base \in Documents(wrote')
      BY <1>6, <3>1, <3>2 DEF Documents
    <3> QED BY <1>0, <1>6, <3>2, <3>3
  <2>7. documents' <= Len(arrived')
    BY <1>0 DEF VersionInv
  <2> QED BY <1>0, <2>3, <2>5, <2>6, <2>7 DEF VersionInv
<1> QED BY <1>10, <1>11

(* Every handler is one of these steps. *)

LEMMA CountersStay ==
  ASSUME TypeOK, VersionInv, UNCHANGED <<documents, arrived>>
  PROVE  Counted
<1>1. documents \in Nat
  BY ManagedServerAssumption DEF TypeOK
<1> QED BY <1>1 DEF Counted, VersionInv

LEMMA ArrivalsCount ==
  ASSUME TypeOK, VersionInv, NEW kind \in Kinds, NEW n \in Ids, Arrives(kind, n)
  PROVE  /\ Counted /\ n \in Nat
         /\ IF kind = "sync" THEN documents < n /\ n = documents' ELSE documents' = documents
<1>1. /\ arrived' = Append(arrived, kind) /\ n = Len(arrived) + 1
      /\ documents' = IF kind = "sync" THEN n ELSE documents
  BY DEF Arrives
<1>2. documents \in Nat /\ Len(arrived) \in Nat /\ documents <= Len(arrived)
  BY ManagedServerAssumption, BufferElements DEF TypeOK, VersionInv
<1>3. Len(arrived') = Len(arrived) + 1
  BY <1>1, ArrivalShape
<1> QED BY <1>1, <1>2, <1>3 DEF Counted

LEMMA SpawnHeard ==
  ASSUME NEW expected \in Starting, NEW calls, SpawnAndInitialize(expected, calls),
         state' \in Starting, Counted
  PROVE  Greeted
BY DEF SpawnAndInitialize, Greeted

LEMMA SendHeard ==
  ASSUME ServerInv, VersionInv, NEW kind \in Kinds, NEW n \in Ids, Send(kind, n)
  PROVE  HearStep
<1>0. TypeOK /\ ChildInv
  BY DEF ServerInv
<1>1. Arrives(kind, n)
  BY DEF Send, SendRunning, SendBuffered, SendLazily, SendRefused
<1>2. /\ Counted /\ n \in Nat
      /\ IF kind = "sync" THEN documents < n /\ n = documents' ELSE documents' = documents
  BY <1>0, <1>1, ArrivalsCount
<1>3. CASE SendRunning(kind, n)
  <2>1. /\ state = "running" /\ UNCHANGED <<state, server, spawned>> /\ server \in attached
        /\ Write(server, <<To(server, kind, n)>>)
    BY <1>0, <1>3 DEF SendRunning, processVars, ChildInv
  <2>2. To(server, kind, n) \in Entry
    BY <1>0, <1>2, EntryTyped DEF TypeOK
  <2>3. wrote' = Append(wrote, To(server, kind, n))
    BY <1>0, <2>1, <2>2, AppendIsConcat DEF Write, TypeOK
  <2>4. Spoken(kind, n)
    BY <1>2, <2>1, <2>3 DEF Spoken
  <2> QED BY <1>2, <2>4 DEF HearStep
<1>4. CASE SendBuffered(kind, n)
  <2>1. Silent
    BY <1>2, <1>4 DEF SendBuffered, Silent, processVars, Starting
  <2> QED BY <2>1 DEF HearStep
<1>5. CASE SendRefused(kind, n)
  <2>1. Silent
    BY <1>2, <1>5 DEF SendRefused, Silent, processVars
  <2> QED BY <2>1 DEF HearStep
<1>6. CASE SendLazily(kind, n)
  <2>1. CASE SpawnThrows
    <3>1. Silent
      <4>1. state' # "running"
        BY <1>6 DEF SendLazily, ScheduleRetry, StopAndErrorBuffered, SpawnAndInitialize
      <4> QED BY <1>2, <2>1, <4>1 DEF SpawnThrows, Silent
    <3> QED BY <3>1 DEF HearStep
  <2>2. CASE ~SpawnThrows
    <3>1. /\ SpawnAndInitialize("starting", CallsWith(kind, n))
          /\ state' = "starting"
      BY <1>6, <2>2 DEF SendLazily
    <3>2. Greeted
      BY <1>2, <3>1, SpawnHeard DEF Starting
    <3> QED BY <3>2 DEF HearStep
  <2> QED BY <2>1, <2>2
<1> QED BY <1>3, <1>4, <1>5, <1>6 DEF Send

LEMMA RetryHeard ==
  ASSUME ServerInv, VersionInv, NEW expected \in Starting, RetryFires(expected)
  PROVE  HearStep
<1>0. TypeOK /\ UNCHANGED <<documents, arrived>>
  BY DEF ServerInv, RetryFires, clientVars
<1>1. Counted
  BY <1>0, CountersStay
<1>2. CASE UNCHANGED <<state, server, spawned, wrote>>
  BY <1>0, <1>1, <1>2 DEF HearStep, Silent
<1>3. CASE SpawnAndInitialize(expected, callbacks) /\ state = expected /\ state' = state
  BY <1>1, <1>3, SpawnHeard DEF HearStep
<1>4. CASE SpawnThrows
  BY <1>0, <1>1, <1>4 DEF HearStep, Silent, SpawnThrows
<1> QED BY <1>2, <1>3, <1>4 DEF RetryFires, processVars

LEMMA TeardownHeard ==
  ASSUME ServerInv, VersionInv, Shutdown \/ Stop \/ StopEnds
  PROVE  HearStep
<1>0. TypeOK /\ ChildInv /\ UNCHANGED <<documents, arrived>>
  BY DEF ServerInv, Shutdown, ShutdownStarting, ShutdownStopped, ShutdownRunning, ShutdownAsked,
         Stop, StopEnds, clientVars
<1>1. Counted /\ server \in Nat /\ 0 \in Nat
  BY <1>0, CountersStay DEF TypeOK
<1>2. CASE ShutdownStarting \/ ShutdownStopped \/ StopEnds
  <2>1. Silent
    BY <1>0, <1>1, <1>2 DEF ShutdownStarting, ShutdownStopped, ShutdownAsked, StopEnds, Silent
  <2> QED BY <2>1 DEF HearStep
<1>3. ASSUME server # 0, NEW kind \in {"shutdown", "exit"}, Write(server, <<To(server, kind, 0)>>)
      PROVE  wrote' = Append(wrote, To(server, kind, 0))
  <2>1. To(server, kind, 0) \in Entry /\ server \in attached
    BY <1>0, <1>1, <1>3, EntryTyped DEF ChildInv
  <2> QED BY <1>0, <1>3, <2>1, AppendIsConcat DEF Write, TypeOK
<1>4. CASE ShutdownRunning
  <2>1. state = "running" /\ server # 0 /\ UNCHANGED <<state, server, spawned>>
    BY <1>0, <1>4 DEF ShutdownRunning, ShutdownAsked, ChildInv
  <2>2. wrote' = Append(wrote, To(server, "shutdown", 0))
    BY <1>3, <1>4, <2>1 DEF ShutdownRunning
  <2>3. Spoken("shutdown", 0)
    BY <1>0, <1>1, <2>1, <2>2 DEF Spoken
  <2> QED BY <1>1, <2>3 DEF HearStep
<1>5. CASE Stop
  <2>1. server' = 0 /\ spawned' = spawned
    BY <1>5 DEF Stop
  <2>2. CASE server = 0
    <3>1. Silent
      BY <1>0, <1>1, <1>5, <2>1, <2>2 DEF Stop, Silent
    <3> QED BY <3>1 DEF HearStep
  <2>3. CASE server # 0
    <3>1. wrote' = Append(wrote, To(server, "exit", 0))
      BY <1>3, <1>5, <2>3 DEF Stop
    <3>2. ToldToExit
      BY <1>1, <2>1, <2>3, <3>1 DEF ToldToExit
    <3> QED BY <3>2 DEF HearStep
  <2> QED BY <2>2, <2>3
<1> QED BY <1>2, <1>4, <1>5 DEF Shutdown

(* An exit takes the current child away, and writes nothing. *)
LEMMA ExitHeard ==
  ASSUME ServerInv, VersionInv, NEW c \in attached, ServerExit(c)
  PROVE  Silent
<1>0. TypeOK /\ UNCHANGED <<documents, arrived, wrote, spawned>>
  BY DEF ServerInv, ServerExit, ExitStopped, ExitBeforeHandshake, ExitAfterShutdown,
         ExitWhileStarting, ExitRunning, ExitLive, ExitEvent, clientVars
<1>1. Counted
  BY <1>0, CountersStay
<1>2. server' # 0 => server' = server /\ state' = state
  BY DEF ServerExit, ExitStopped, ExitBeforeHandshake, ExitAfterShutdown,
         ExitWhileStarting, ExitRunning, ExitLive
<1> QED BY <1>0, <1>1, <1>2 DEF Silent

LEMMA ResumeHeard ==
  ASSUME ServerInv, ChildInv', VersionInv, NEW s \in settled,
         \/ ResumeInitSuperseded(s) \/ ResumeInitFailed(s)
         \/ ResumeSendRequest(s) \/ ResumeShutdown(s)
  PROVE  Silent
<1>0. TypeOK /\ UNCHANGED <<documents, arrived, wrote, spawned>>
  BY DEF ServerInv, ResumeInitSuperseded, ResumeInitFailed, ResumeSendRequest, ResumeShutdown,
         clientVars, processVars
<1>1. Counted
  BY <1>0, CountersStay
<1>2. state' = "stopped" => server' = 0
  BY DEF ChildInv
<1>3. CASE UNCHANGED server /\ (state' = state \/ state' = "stopped")
  BY <1>0, <1>1, <1>2, <1>3 DEF Silent
<1>4. CASE server' = 0 /\ state' # "running"
  BY <1>0, <1>1, <1>4 DEF Silent
<1>5. CASE ResumeInitSuperseded(s)
  BY <1>3, <1>5 DEF ResumeInitSuperseded, ScheduleRetry, StopAndErrorBuffered
<1>6. CASE ResumeInitFailed(s)
  <2>1. state \in Starting
    BY <1>0, <1>6 DEF ResumeInitFailed, Resumes, Superseded, TypeOK, Settled, Call
  <2> QED BY <1>4, <1>6, <2>1
          DEF ResumeInitFailed, ScheduleRetry, StopAndErrorBuffered, Starting
<1>7. CASE ResumeSendRequest(s) \/ ResumeShutdown(s)
  BY <1>3, <1>7 DEF ResumeSendRequest, ResumeShutdown
<1> QED BY <1>5, <1>6, <1>7

LEMMA NextHeard ==
  ASSUME ServerInv, ChildInv', VersionInv, [Next]_vars
  PROVE  HearStep
<1>0. TypeOK
  BY DEF ServerInv
<1>1. CASE UNCHANGED <<state, server, spawned, wrote, documents, arrived>>
  BY <1>0, <1>1, CountersStay DEF HearStep, Silent
<1>2. CASE SetInitParams \/ SendInitialized \/ RefundFires \/ UNCHANGED vars
  BY <1>1, <1>2 DEF SetInitParams, SendInitialized, RefundFires, vars, clientVars, processVars
<1>3. ASSUME NEW kind \in Kinds, NEW n \in Ids, Send(kind, n) PROVE HearStep
  BY <1>3, SendHeard
<1>4. ASSUME NEW n \in Ids, CancelBuffered(n) PROVE HearStep
  BY <1>1, <1>4 DEF CancelBuffered, clientVars, processVars
<1>5. ASSUME NEW c \in attached, ServerExit(c) PROVE HearStep
  BY <1>5, ExitHeard DEF HearStep
<1>6. ASSUME NEW o \in owed, ReplyToClient(o) \/ LateReply(o) PROVE HearStep
  BY <1>1, <1>6 DEF ReplyToClient, LateReply, clientVars, processVars
<1>7. ASSUME NEW k \in callbacks, NEW ok \in BOOLEAN, ReplyToCall(k, ok) \/ CallTimesOut(k)
      PROVE  HearStep
  BY <1>1, <1>7 DEF ReplyToCall, CallTimesOut, clientVars, processVars
<1>8. ASSUME NEW s \in settled,
             \/ ResumeInitSuperseded(s) \/ ResumeInitFailed(s)
             \/ ResumeSendRequest(s) \/ ResumeShutdown(s)
      PROVE  HearStep
  BY <1>8, ResumeHeard DEF HearStep
<1>9. ASSUME NEW s \in settled, ResumeInitOk(s) PROVE HearStep
  BY <1>9 DEF HearStep
<1>10. ASSUME NEW expected \in Starting, RetryFires(expected) PROVE HearStep
  BY <1>10, RetryHeard
<1>11. CASE Shutdown \/ Stop \/ StopEnds
  BY <1>11, TeardownHeard
<1> QED BY <1>2, <1>3, <1>4, <1>5, <1>6, <1>7, <1>8, <1>9, <1>10, <1>11 DEF Next, Resume

LEMMA HearInit == Init => HearInv /\ VersionInv
BY DEF Init, HearInv, VersionInv, Starting, Documents, Grow

(* What children hear is invariant: handshakes in order, versions that grow. *)
THEOREM HearInvariant == Spec => [](HearInv /\ VersionInv /\ ServerInv)
<1>1. Init => HearInv /\ VersionInv /\ ServerInv
  BY InvInit, HearInit
<1>2. HearInv /\ VersionInv /\ ServerInv /\ [Next]_vars => (HearInv /\ VersionInv /\ ServerInv)'
  <2> SUFFICES ASSUME HearInv, VersionInv, ServerInv, [Next]_vars
               PROVE  (HearInv /\ VersionInv /\ ServerInv)'
    OBVIOUS
  <2>1. ServerInv'
    BY InvStep
  <2>2. TypeOK /\ TypeOK' /\ ChildInv /\ ChildInv'
    BY <2>1 DEF ServerInv
  <2>3. HearStep
    BY <2>2, NextHeard
  <2>4. CASE Silent
    BY <2>1, <2>2, <2>4, SilentKeeps
  <2>5. CASE Greeted
    BY <2>1, <2>2, <2>5, GreetedKeeps
  <2>6. CASE ToldToExit
    BY <2>1, <2>2, <2>6, ToldToExitKeeps
  <2>7. ASSUME NEW kind \in Kinds \cup {"shutdown"}, NEW n \in Nat, Spoken(kind, n)
        PROVE  HearInv' /\ VersionInv'
    BY <2>2, <2>7, SpokenKeeps
  <2>8. ASSUME NEW s \in settled, ResumeInitOk(s)
        PROVE  HearInv' /\ VersionInv'
    BY <2>2, <2>8, HandoverHeard
  <2> QED BY <2>1, <2>3, <2>4, <2>5, <2>6, <2>7, <2>8 DEF HearStep
<1> QED BY <1>1, <1>2, PTL DEF Spec

(* A child that crashed in its handshake, was restarted or is told to exit
   heard initialize before anything else, initialized before any message, and
   the documents before the messages that were buffered. *)
THEOREM HandshakesComeFirst == Spec => []HandshakeFirst
<1>1. HearInv /\ VersionInv /\ ServerInv => HandshakeFirst
  <2> SUFFICES ASSUME HearInv, TypeOK, NEW i \in DOMAIN wrote
               PROVE  LET before == {wrote[j].kind :
                                       j \in {k \in 1..(i - 1) : wrote[k].to = wrote[i].to}} IN
                      CASE wrote[i].kind = "initialize"  -> before = {}
                        [] wrote[i].kind = "initialized" -> before = {"initialize"}
                        [] wrote[i].kind = "replay"      -> before = {"initialize", "initialized"}
                        [] wrote[i].kind = "exit"        -> "initialize" \in before
                        [] OTHER                         -> "initialized" \in before
    BY DEF HandshakeFirst, ServerInv
  <2> DEFINE before == {wrote[j].kind : j \in {k \in 1..(i - 1) : wrote[k].to = wrote[i].to}}
  <2>1. \A k : k \in before <=> HeardBefore(wrote, i, k)
    BY DEF HeardBefore
  <2>2. (\A j \in 1..(i - 1) : wrote[j].to # wrote[i].to) => before = {}
    OBVIOUS
  <2>3. OnlyBefore(wrote, i, "initialize") => before \subseteq {"initialize"}
    BY DEF OnlyBefore
  <2>4. Opens(wrote, i)
    BY DEF HearInv
  <2> HIDE DEF before
  <2>5. wrote[i].kind = "initialize" => before = {}
    BY <2>2, <2>4 DEF Opens
  <2>6. wrote[i].kind = "initialized" => before = {"initialize"}
    BY <2>1, <2>3, <2>4 DEF Opens
  <2>7. wrote[i].kind = "exit" => "initialize" \in before
    BY <2>1, <2>4 DEF Opens
  <2>8. wrote[i].kind \notin {"initialize", "initialized", "exit"} => "initialized" \in before
    BY <2>1, <2>4 DEF Opens
  <2>9. wrote[i].kind = "replay" => before = {"initialize", "initialized"}
    <3>1. GreetedOnly(wrote, i) => before \subseteq {"initialize", "initialized"}
      BY DEF before, GreetedOnly
    <3> QED BY <2>1, <2>4, <3>1 DEF Opens
  <2> QED BY <2>5, <2>6, <2>7, <2>8, <2>9 DEF before
<1> QED BY <1>1, HearInvariant, PTL

(* A server that runs has the documents as the tracker has them, through
   crashes and replays, and no child gets a version twice or out of order. *)
THEOREM DocumentsStayInStep == Spec => []DocumentsInStep
<1>1. HearInv /\ VersionInv /\ ServerInv => DocumentsInStep
  <2> SUFFICES ASSUME VersionInv PROVE DocumentsInStep
    OBVIOUS
  <2>1. \A c, i : i \in DocumentEntries(c) <=> i \in Documents(wrote) /\ wrote[i].to = c
    BY DEF DocumentEntries, Documents
  <2>2. ASSUME state = "running", documents # 0
        PROVE  \E i \in DocumentEntries(server) : wrote[i].n = documents
    BY <2>1, <2>2 DEF VersionInv
  <2>3. ASSUME NEW c \in 1..spawned, NEW i \in DocumentEntries(c), NEW j \in DocumentEntries(c), i < j
        PROVE  wrote[i].n < wrote[j].n
    BY <2>1, <2>3 DEF VersionInv, Grow
  <2> QED BY <2>2, <2>3 DEF DocumentsInStep
<1> QED BY <1>1, HearInvariant, PTL
=============================================================================
