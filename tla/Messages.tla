------------------------------- MODULE Messages -------------------------------
(***************************************************************************)
(* Both directions at once: to the servers' requests and lives             *)
(* (ServerRequests) this adds the client's requests (client-messages.ts),  *)
(* each routed to the primary server of its document, and there written,   *)
(* held, or refused (managed-server.ts, message-buffer.ts). What the       *)
(* client is told when a server crashes, gives up or is cancelled comes    *)
(* back through the proxy (proxy.ts).                                      *)
(*                                                                         *)
(* A buffer also holds what is not modelled here, so that it is full at    *)
(* any time. The end of the connection, and so of all that is in progress, *)
(* is ProxyLifecycle's.                                                    *)
(***************************************************************************)
EXTENDS ServerRequests

CONSTANTS
  RequestIds,   \* ids of the client's requests, each used once
  Reserved      \* those that look like the proxy's own (isInternalRequestId)

ASSUME MessagesAssumption == Reserved \subseteq RequestIds

VARIABLES
  requestRouting,   \* the server of each request of the client's, or None
  held,             \* requests in the buffer of each server
  pending,          \* requests each server has been written and not answered
  sent,             \* requests the client has sent
  replies           \* history: replies the client got to each

clientVars == <<requestRouting, held, pending, sent, replies>>
messagesVars == <<vars, clientVars>>

MessagesTypeOK ==
  /\ TypeOK
  /\ requestRouting \in [RequestIds -> Servers \cup {None}]
  /\ held \in [Servers -> SUBSET RequestIds] /\ pending \in [Servers -> SUBSET RequestIds]
  /\ sent \subseteq RequestIds /\ replies \in [RequestIds -> Nat]

MessagesInit ==
  /\ Init
  /\ requestRouting = [n \in RequestIds |-> None]
  /\ held = [s \in Servers |-> {}] /\ pending = [s \in Servers |-> {}]
  /\ sent = {} /\ replies = [n \in RequestIds |-> 0]

-----------------------------------------------------------------------------
(* What the client is told. *)

Reply(requests) ==
  replies' = [n \in RequestIds |-> IF n \in requests THEN replies[n] + 1 ELSE replies[n]]

Untrack(requests) ==
  requestRouting' = [n \in RequestIds |-> IF n \in requests THEN None ELSE requestRouting[n]]

(* sendErrorToClient for a request that goes no further. *)
AnswerWithError(n) ==
  /\ Reply({n})
  /\ UNCHANGED <<vars, requestRouting, held, pending>>

(* handlePendingErrors: each of these requests is answered with an error. *)
PendingErrors(requests) == Reply(requests) /\ Untrack(requests)

-----------------------------------------------------------------------------
(* Requests of the client's. *)

Sends(n) == n \notin sent /\ sent' = sent \cup {n}

RejectReserved(n) == Sends(n) /\ n \in Reserved /\ AnswerWithError(n)

(* Mutant: reserved ids are taken like any other. *)
AcceptsAny(n) == Sends(n)

Accepts(n) == Sends(n) /\ n \notin Reserved

(* Before initialize, and after shutdown. *)
RejectNotServing(n) == Accepts(n) /\ proxy \in {"idle", "stopped"} /\ AnswerWithError(n)

(* routeRequestToPrimary: the router names the server. *)
Routes(n, s) == Accepts(n) /\ proxy = "running"

Track(n, s) == requestRouting' = [requestRouting EXCEPT ![n] = s]

(* writeToRunning: an id of the proxy's own would not count as the client's. *)
RequestWritten(n, s) ==
  /\ Routes(n, s) /\ state[s] = "running" /\ Track(n, s)
  /\ pending' = [pending EXCEPT ![s] = @ \cup ({n} \ Reserved)]
  /\ UNCHANGED <<vars, held, replies>>

RequestHeld(n, s) ==
  /\ Routes(n, s) /\ state[s] \in Starting /\ Track(n, s)
  /\ held' = [held EXCEPT ![s] = @ \cup {n}]
  /\ UNCHANGED <<vars, pending, replies>>

RequestStarts(n, s) ==
  /\ Routes(n, s) /\ StartLazily(s) /\ Track(n, s)
  /\ held' = [held EXCEPT ![s] = @ \cup {n}]
  /\ UNCHANGED <<pending, replies>>

(* send() returns false: the server has stopped, has a full buffer, or is idle
   and the client's initialized has not come. *)
RequestRefused(n, s) ==
  /\ Routes(n, s)
  /\ state[s] \in Starting \cup {"stopped"} \/ (state[s] = "idle" /\ ~initialized)
  /\ AnswerWithError(n)

ClientRequests(n) ==
  \/ RejectReserved(n) \/ RejectNotServing(n)
  \/ \E s \in Servers :
       RequestWritten(n, s) \/ RequestHeld(n, s) \/ RequestStarts(n, s) \/ RequestRefused(n, s)

(* handleCancelRequest, of a request that is in a buffer. Otherwise the
   notification is passed on, and the server answers as it sees fit. *)
CancelRequest(n) ==
  /\ proxy = "running" /\ n \notin Reserved /\ \E s \in Servers : n \in held[s]
  /\ held' = [s \in Servers |-> held[s] \ {n}]
  /\ PendingErrors({n})
  /\ UNCHANGED <<vars, pending, sent>>

(* The server answers: untrackClientRequest, and on to the client. *)
ServerReplies(s, n) ==
  /\ state[s] = "running" /\ n \in pending[s]
  /\ pending' = [pending EXCEPT ![s] = @ \ {n}]
  /\ PendingErrors({n})
  /\ UNCHANGED <<vars, held, sent>>

-----------------------------------------------------------------------------
(* What the servers' lives do to the requests. *)

(* flushBufferedMessages. *)
HoldsUntilUp(s) ==
  /\ ComesUp(s)
  /\ pending' = [pending EXCEPT ![s] = @ \cup (held[s] \ Reserved)]
  /\ held' = [held EXCEPT ![s] = {}]
  /\ UNCHANGED <<requestRouting, sent, replies>>

(* handleServerExit: the requests in flight are answered with errors. *)
PendingDie(s) ==
  /\ Crashes(s) \/ ExitsAsAsked(s)
  /\ PendingErrors(pending[s]) /\ pending' = [pending EXCEPT ![s] = {}]
  /\ UNCHANGED <<held, sent>>

(* errorBufferedRequests. *)
HeldAreRefused(s) ==
  /\ GivesUp(s)
  /\ PendingErrors(held[s] \ Reserved) /\ held' = [held EXCEPT ![s] = {}]
  /\ UNCHANGED <<pending, sent>>

(* All else the servers do and the client answers, and a shutdown, which leaves
   the buffer of a server it stops as it is. *)
Others ==
  /\ \/ Initialize \/ Initialized \/ ClientShutdown \/ ShutdownEnds \/ ClientResponds
     \/ \E s \in Servers : ShutdownServer(s) \/ StartLazily(s) \/ ServerAsks(s)
  /\ UNCHANGED clientVars

MessagesNext ==
  \/ \E n \in RequestIds : ClientRequests(n) \/ CancelRequest(n)
  \/ \E s \in Servers :
       \/ HoldsUntilUp(s) \/ PendingDie(s) \/ HeldAreRefused(s)
       \/ \E n \in RequestIds : ServerReplies(s, n)
  \/ Others

MessagesSpec == MessagesInit /\ [][MessagesNext]_messagesVars

-----------------------------------------------------------------------------
(* Properties. *)

(* Is a request in a place from which it can still be answered: held by a server
   that is coming up, or in flight with one that is. A shutdown that finds the
   server starting takes that away from what it holds. *)
With(n, s) ==
  \/ n \in held[s] /\ (state[s] \in Starting \/ (state[s] = "stopped" /\ shutdownSent[s]))
  \/ n \in pending[s] /\ state[s] = "running"

(* Every request is answered exactly once or is with exactly one server, the one
   the proxy has noted for it. What is noted is what is outstanding: nothing is
   forgotten, nothing left over. *)
ClientHears ==
  \A n \in sent :
    \/ /\ replies[n] = 1 /\ requestRouting[n] = None
       /\ \A s \in Servers : n \notin held[s] \cup pending[s]
    \/ /\ replies[n] = 0 /\ requestRouting[n] \in Servers /\ With(n, requestRouting[n])
       /\ \A s \in Servers : n \in held[s] \cup pending[s] => s = requestRouting[n]
=============================================================================
