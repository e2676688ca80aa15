---------------------------- MODULE ServerRequests ----------------------------
(***************************************************************************)
(* Requests the servers make (server-messages.ts): some the proxy answers  *)
(* itself, the others it passes on to the client under the id the server   *)
(* chose, and it remembers by that id which server the client's response   *)
(* is for (client-messages.ts). Watcher registrations are kept by          *)
(* registration id (file-watcher.ts) and go when their server restarts.    *)
(*                                                                         *)
(* Of a server's life only its state is modelled, and which of its         *)
(* children speaks. Messages adds what the client asks of it.              *)
(***************************************************************************)
EXTENDS Naturals, FiniteSets

CONSTANTS
  Servers, None,
  Configured,   \* servers with settings of their own
  ProactivePull,\* the proxy pulls diagnostics, for a client that does not
  RegIds,       \* registration ids
  WatchKinds,   \* kinds of changes a registration can be for
  Numbering,    \* of requests: "unique", or "counting" from 1 in every child
  MaxRequests,  \* bound: requests made, in all or by one child
  MaxLives      \* bound: children of a server that come up

ASSUME ServerRequestsAssumption ==
  /\ None \notin Servers /\ Configured \subseteq Servers /\ ProactivePull \in BOOLEAN
  /\ WatchKinds \subseteq {"created", "changed", "deleted"}
  /\ Numbering \in {"unique", "counting"}
  /\ MaxRequests \in Nat /\ MaxLives \in Nat

VARIABLES
  proxy,                \* the state of the proxy
  initialized,          \* the client's initialized notification has arrived
  localFileWatching,    \* the proxy watches files, for a client that does not
  shuttingDown, toShut, \* a shutdown is under way; the servers it has yet to ask
  state,                \* the state of each server
  life,                 \* number of its children that came up
  shutdownSent,         \* isShutdownSent of each server
  counted,              \* requests it has numbered
  asked,                \* requests it waits for an answer to
  watching,             \* what its child has registered for, by registration
  serverRequestRouting,
  watchRegistrations,   \* the server of each registration and its kinds, or Absent
  toClient,             \* requests the client has not answered yet
  untracked             \* those of the requests asked that nothing is tracked of

proxyVars == <<proxy, initialized, localFileWatching, shuttingDown, toShut>>
lifeVars == <<state, life, shutdownSent>>
askVars == <<counted, asked, serverRequestRouting, toClient, untracked>>
watchVars == <<watching, watchRegistrations>>
vars == <<proxyVars, lifeVars, askVars, watchVars>>

Ids == 1..MaxRequests
Children == [server : Servers, life : 0..MaxLives]
Child(s) == [server |-> s, life |-> life[s]]
Absent == [server |-> None, kinds |-> {}]
Starting == {"starting", "restarting"}

TypeOK ==
  /\ proxy \in {"idle", "running", "stopped", "disposed"} /\ initialized \in BOOLEAN
  /\ localFileWatching \in BOOLEAN
  /\ shuttingDown \in BOOLEAN /\ toShut \subseteq Servers
  /\ state \in [Servers -> {"idle", "running", "stopped"} \cup Starting]
  /\ life \in [Servers -> 0..MaxLives] /\ shutdownSent \in [Servers -> BOOLEAN]
  /\ counted \in [Servers -> 0..MaxRequests]
  /\ asked \in [Servers -> SUBSET Ids]
  /\ watching \in [Servers -> [RegIds -> SUBSET WatchKinds]]
  /\ serverRequestRouting \in [Ids -> Servers \cup {None}]
  /\ watchRegistrations \in [RegIds -> [server : Servers \cup {None}, kinds : SUBSET WatchKinds]]
  /\ toClient \in SUBSET [id : Ids, from : Children]
  /\ untracked \in [Servers -> SUBSET Ids]

Init ==
  /\ proxy = "idle" /\ initialized = FALSE
  /\ localFileWatching = TRUE /\ shuttingDown = FALSE /\ toShut = {}
  /\ state = [s \in Servers |-> "idle"] /\ life = [s \in Servers |-> 0]
  /\ shutdownSent = [s \in Servers |-> FALSE]
  /\ counted = [s \in Servers |-> 0] /\ asked = [s \in Servers |-> {}]
  /\ watching = [s \in Servers |-> [r \in RegIds |-> {}]]
  /\ serverRequestRouting = [id \in Ids |-> None]
  /\ watchRegistrations = [r \in RegIds |-> Absent]
  /\ toClient = {} /\ untracked = [s \in Servers |-> {}]

-----------------------------------------------------------------------------
(* The client's handshake and its shutdown.                                  *)

(* analyzeClientCapabilities: the proxy does for the client what that has not
   advertised with dynamic registration. *)
Capabilities == {"didChangeWatchedFiles", "diagnostic"}
Compensated(capability, advertised) == capability \notin advertised

Initialize ==
  /\ proxy = "idle" /\ proxy' = "running"
  /\ \E advertised \in SUBSET Capabilities :
       /\ localFileWatching' = Compensated("didChangeWatchedFiles", advertised)
       /\ ProactivePull = Compensated("diagnostic", advertised)
  /\ UNCHANGED <<initialized, shuttingDown, toShut, lifeVars, askVars, watchVars>>

Initialized ==
  /\ proxy = "running" /\ ~initialized /\ initialized' = TRUE
  /\ UNCHANGED <<proxy, localFileWatching, shuttingDown, toShut,
                 lifeVars, askVars, watchVars>>

ClientShutdown ==
  /\ proxy = "running" /\ ~shuttingDown
  /\ shuttingDown' = TRUE /\ toShut' = Servers
  /\ UNCHANGED <<proxy, initialized, localFileWatching,
                 lifeVars, askVars, watchVars>>

(* handleServerStateChange: the last server to stop takes the proxy along. *)
LastStops(states) ==
  proxy' = IF proxy = "running" /\ \A s \in Servers : states[s] = "stopped"
           THEN "disposed" ELSE proxy

(* shutdownAllServers asks a server: one that is starting is stopped at once. *)
ShutdownServer(s) ==
  /\ shuttingDown /\ s \in toShut /\ toShut' = toShut \ {s}
  /\ shutdownSent' = [shutdownSent EXCEPT ![s] = @ \/ state[s] # "idle"]
  /\ state' = [state EXCEPT ![s] = IF @ \in Starting THEN "stopped" ELSE @]
  /\ LastStops(state')
  /\ UNCHANGED <<initialized, localFileWatching, shuttingDown, life,
                 askVars, watchVars>>

ShutdownEnds ==
  /\ shuttingDown /\ toShut = {} /\ shuttingDown' = FALSE
  /\ proxy' = IF proxy = "disposed" THEN proxy ELSE "stopped"
  /\ UNCHANGED <<initialized, localFileWatching, toShut,
                 lifeVars, askVars, watchVars>>

-----------------------------------------------------------------------------
(* The servers' lives.                                                       *)

(* Mutant: the registrations stay. *)
UnregisterNothing(s) == UNCHANGED watchRegistrations

(* unregisterServer, when a server is starting or restarting. *)
UnregisterServer(s) ==
  watchRegistrations' = [r \in RegIds |->
    IF watchRegistrations[r].server = s THEN Absent ELSE watchRegistrations[r]]

(* A message finds the server idle. *)
StartLazily(s) ==
  /\ state[s] = "idle" /\ initialized
  /\ state' = [state EXCEPT ![s] = "starting"]
  /\ UnregisterServer(s)
  /\ UNCHANGED <<proxyVars, life, shutdownSent, askVars, watching>>

ComesUp(s) ==
  /\ state[s] \in Starting /\ state' = [state EXCEPT ![s] = "running"]
  /\ life[s] < MaxLives /\ life' = [life EXCEPT ![s] = @ + 1]
  /\ counted' = IF Numbering = "unique" THEN counted ELSE [counted EXCEPT ![s] = 0]
  /\ UNCHANGED <<proxyVars, shutdownSent, asked, serverRequestRouting, toClient, untracked,
                 watchVars>>

GivesUp(s) ==
  /\ state[s] \in Starting /\ state' = [state EXCEPT ![s] = "stopped"]
  /\ LastStops(state')
  /\ UNCHANGED <<initialized, localFileWatching, shuttingDown, toShut, life,
                 shutdownSent, askVars, watchVars>>

(* A running child exits: what it asked and registered dies with it, and what
   the proxy tracks for the client's answers stays. The registrations of a server
   that exits for good stay too, and have nobody to go to. *)
ChildDies(s) ==
  /\ asked' = [asked EXCEPT ![s] = {}] /\ untracked' = [untracked EXCEPT ![s] = {}]
  /\ watching' = [watching EXCEPT ![s] = [r \in RegIds |-> {}]]
  /\ UNCHANGED <<life, shutdownSent, counted, serverRequestRouting, toClient>>

Crashes(s) ==
  /\ state[s] = "running" /\ ~shutdownSent[s]
  /\ state' = [state EXCEPT ![s] = "restarting"]
  /\ ChildDies(s) /\ UnregisterServer(s)
  /\ UNCHANGED proxyVars

ExitsAsAsked(s) ==
  /\ state[s] = "running" /\ shutdownSent[s]
  /\ state' = [state EXCEPT ![s] = "stopped"]
  /\ LastStops(state') /\ ChildDies(s)
  /\ UNCHANGED <<initialized, localFileWatching, shuttingDown, toShut,
                 watchRegistrations>>

-----------------------------------------------------------------------------
(* The servers' requests. Each takes the next id of its child's numbering.   *)

TakeId(s, id) ==
  /\ state[s] = "running" /\ id \in Ids /\ id = counted[s] + 1
  /\ counted' = [t \in Servers |->
       IF t = s \/ Numbering = "unique" THEN counted[t] + 1 ELSE counted[t]]

(* ackToServer, or an answer of the proxy's own: nothing is left to wait for. *)
AnswerNow(s, id) == UNCHANGED <<asked, serverRequestRouting, toClient, untracked>>

(* Mutant: nothing is tracked. *)
PassOnUntracked(s, id) ==
  /\ asked' = [asked EXCEPT ![s] = @ \cup {id}]
  /\ toClient' = toClient \cup {[id |-> id, from |-> Child(s)]}
  /\ UNCHANGED <<serverRequestRouting, untracked>>

(* trackServerRequest, then on to the client. *)
PassOn(s, id) ==
  /\ asked' = [asked EXCEPT ![s] = @ \cup {id}]
  /\ toClient' = toClient \cup {[id |-> id, from |-> Child(s)]}
  /\ serverRequestRouting' = [serverRequestRouting EXCEPT ![id] = s]
  /\ UNCHANGED untracked

PassOnAsItIs(s, id) ==
  /\ asked' = [asked EXCEPT ![s] = @ \cup {id}]
  /\ toClient' = toClient \cup {[id |-> id, from |-> Child(s)]}
  /\ untracked' = [untracked EXCEPT ![s] = @ \cup {id}]
  /\ UNCHANGED serverRequestRouting

(* handleWorkspaceConfiguration and handleRefresh answer; without settings, and
   for a client that pulls, the request is one like any other. *)
Request(s, id, method) ==
  /\ TakeId(s, id)
  /\ IF (method = "configuration" /\ s \in Configured) \/ (method = "refresh" /\ ProactivePull)
     THEN AnswerNow(s, id) ELSE PassOn(s, id)
  /\ UNCHANGED <<proxyVars, lifeVars, watchVars>>

(* What a (un)register request holds beside watchers of the right form. *)
Items == {"malformed watcher", "settings", "other"}

(* The proxy handles what is about settings, when registered, and about watchers
   if it watches; the rest goes to the client, and the client's answer stands for
   all. A request that cannot be parsed, or is empty, is not even tracked. *)
Respond(s, id, handled, passed) ==
  IF passed # {} THEN PassOn(s, id)
  ELSE IF handled # {} THEN AnswerNow(s, id)
  ELSE PassOnAsItIs(s, id)

WatcherItems(regs) == IF regs = {} THEN {} ELSE {"watcher"}
Own(items) ==
  items \cap ({"settings"} \cup (IF localFileWatching THEN {"watcher", "malformed watcher"} ELSE {}))

(* handleRegisterCapability. Servers do not share registration ids. *)
RegisterCapability(s, id, regs, kinds, rest) ==
  LET items == WatcherItems(regs) \cup rest IN
  /\ TakeId(s, id) /\ Respond(s, id, Own(items), items \ Own(items))
  /\ \A r \in regs : watchRegistrations[r].server \in {s, None}
  /\ IF localFileWatching
     THEN /\ watching' = [watching EXCEPT ![s] =
                            [r \in RegIds |-> IF r \in regs THEN kinds ELSE @[r]]]
          /\ watchRegistrations' = [r \in RegIds |->
               IF r \in regs THEN [server |-> s, kinds |-> kinds] ELSE watchRegistrations[r]]
     ELSE UNCHANGED watchVars
  /\ UNCHANGED <<proxyVars, lifeVars>>

(* handleUnregisterCapability. An id says which registration, and not whose. *)
UnregisterCapability(s, id, regs, rest) ==
  LET items == WatcherItems(regs) \cup rest
      own == items \cap (IF localFileWatching THEN {"watcher"} ELSE {}) IN
  /\ TakeId(s, id) /\ Respond(s, id, own, items \ own)
  /\ \A r \in regs : watchRegistrations[r].server \in {s, None}
  /\ IF localFileWatching
     THEN /\ watching' = [watching EXCEPT ![s] =
                            [r \in RegIds |-> IF r \in regs THEN {} ELSE @[r]]]
          /\ watchRegistrations' = [r \in RegIds |->
               IF r \in regs THEN Absent ELSE watchRegistrations[r]]
     ELSE UNCHANGED watchVars
  /\ UNCHANGED <<proxyVars, lifeVars>>

-----------------------------------------------------------------------------
(* The client answers, in any order. *)

(* routeClientResponse: the server tracked for the id, if any, and no other. *)
Target(m) == {serverRequestRouting[m.id]} \ {None}

ClientAnswers(m) ==
  /\ m \in toClient /\ proxy = "running" /\ toClient' = toClient \ {m}
  /\ serverRequestRouting' = [serverRequestRouting EXCEPT ![m.id] = None]
  /\ asked' = [s \in Servers |-> IF s \in Target(m) THEN asked[s] \ {m.id} ELSE asked[s]]
  /\ UNCHANGED <<proxyVars, lifeVars, counted, untracked, watchVars>>

(* handleStoppedMessage takes no responses. *)
AnswerDropped(m) ==
  /\ m \in toClient /\ proxy = "stopped" /\ toClient' = toClient \ {m}
  /\ UNCHANGED <<proxyVars, lifeVars, counted, asked, serverRequestRouting, untracked,
                 watchVars>>

ServerAsks(s) ==
  \E id \in Ids :
    \/ \E method \in {"configuration", "refresh", "other"} : Request(s, id, method)
    \/ \E regs \in SUBSET RegIds, kinds \in SUBSET WatchKinds, rest \in SUBSET Items :
         RegisterCapability(s, id, regs, kinds, rest)
    \/ \E regs \in SUBSET RegIds, rest \in SUBSET {"settings", "other"} :
         UnregisterCapability(s, id, regs, rest)

ClientResponds == \E m \in toClient : ClientAnswers(m) \/ AnswerDropped(m)

Next ==
  \/ Initialize \/ Initialized \/ ClientShutdown \/ ShutdownEnds
  \/ \E s \in Servers :
       \/ ShutdownServer(s) \/ StartLazily(s) \/ ComesUp(s) \/ GivesUp(s)
       \/ Crashes(s) \/ ExitsAsAsked(s) \/ ServerAsks(s)
  \/ ClientResponds

Spec == Init /\ [][Next]_vars

-----------------------------------------------------------------------------
(* matchEvent: the servers with a registration for a change. The watcher takes a
   file that is there for changed, and one that is not for deleted. *)
ClassifyChange(present) == IF present THEN "changed" ELSE "deleted"
Matching(kind) ==
  {watchRegistrations[r].server : r \in {q \in RegIds : kind \in watchRegistrations[q].kinds}}

-----------------------------------------------------------------------------
(* Properties. *)

(* A request stops waiting when its child dies or the client has answered this
   very request: never for an answer to another server's, or to that of an
   earlier child of the same. *)
AnswersReachTheAsker ==
  [][\A s \in Servers : state'[s] = "running" =>
       \A id \in asked[s] \ asked'[s] :
         \E m \in toClient \ toClient' : m.id = id /\ m.from = Child(s)]_vars

(* While the proxy serves, a request that was tracked, and that a live child waits
   for an answer to, is with the client, and the way back is known: no other
   server's traffic and no restart loses it. *)
AskersWillHear ==
  proxy = "running" =>
    \A s \in Servers : \A id \in asked[s] \ untracked[s] :
      /\ serverRequestRouting[id] = s
      /\ \E m \in toClient : m.id = id /\ m.from = Child(s)

(* A change of a file goes to the servers whose live child registered for such a
   change and to no others: not to one that was restarted meanwhile and has not
   registered again. What a stopped server is sent it does not get. *)
WatchersAreOfTheLiving ==
  \A present \in BOOLEAN :
    LET kind == ClassifyChange(present) IN
    {s \in Matching(kind) : state[s] # "stopped"}
      = {s \in Servers : \E r \in RegIds : kind \in watching[s][r]}
=============================================================================
