--------------------------- MODULE Messages_proofs ----------------------------
(***************************************************************************)
(* Proofs about the requests of the servers and of the client, and about   *)
(* watcher registrations, for any set of servers, requests and             *)
(* registrations. What is said of the client's answers holds of servers    *)
(* whose request ids never coincide: Numbering = "unique".                 *)
(***************************************************************************)
EXTENDS Messages, TLAPS

USE ServerRequestsAssumption, MessagesAssumption

(* The steps of the servers' requests, by what they do to those in progress. *)
Keeps == UNCHANGED askVars
Asks(s, id) ==
  /\ TakeId(s, id)
  /\ AnswerNow(s, id) \/ PassOn(s, id) \/ PassOnAsItIs(s, id)
  /\ UNCHANGED <<proxyVars, lifeVars>>
NewChild(s) == ComesUp(s)
Dies(s) == Crashes(s) \/ ExitsAsAsked(s)

LEMMA StepIsAsking ==
  ASSUME NEW s \in Servers, ServerAsks(s)
  PROVE  \E id \in Ids : Asks(s, id)
<1>1. PICK id \in Ids :
        \/ \E method \in {"configuration", "refresh", "other"} : Request(s, id, method)
        \/ \E regs \in SUBSET RegIds, kinds \in SUBSET WatchKinds, rest \in SUBSET Items :
             RegisterCapability(s, id, regs, kinds, rest)
        \/ \E regs \in SUBSET RegIds, rest \in SUBSET {"settings", "other"} :
             UnregisterCapability(s, id, regs, rest)
  BY DEF ServerAsks
<1>2. ASSUME NEW method, Request(s, id, method) PROVE Asks(s, id)
  BY <1>2 DEF Request, Asks
<1>3. ASSUME NEW regs, NEW kinds, NEW rest, RegisterCapability(s, id, regs, kinds, rest)
      PROVE  Asks(s, id)
  BY <1>3 DEF RegisterCapability, Respond, Asks
<1>4. ASSUME NEW regs, NEW rest, UnregisterCapability(s, id, regs, rest) PROVE Asks(s, id)
  BY <1>4 DEF UnregisterCapability, Respond, Asks
<1> QED BY <1>1, <1>2, <1>3, <1>4

LEMMA StepsOfRequests ==
  ASSUME [Next]_vars
  PROVE  \/ Keeps /\ UNCHANGED life
         \/ \E s \in Servers : NewChild(s) \/ Dies(s) \/ \E id \in Ids : Asks(s, id)
         \/ \E m \in toClient : ClientAnswers(m) \/ AnswerDropped(m)
<1>1. ASSUME NEW s \in Servers, ServerAsks(s) PROVE \E id \in Ids : Asks(s, id)
  BY <1>1, StepIsAsking
<1>2. ASSUME NEW s \in Servers, ShutdownServer(s) \/ StartLazily(s) \/ GivesUp(s)
      PROVE  Keeps /\ UNCHANGED life
  BY <1>2 DEF ShutdownServer, StartLazily, GivesUp, Keeps
<1>3. ASSUME Initialize \/ Initialized \/ ClientShutdown \/ ShutdownEnds \/ UNCHANGED vars
      PROVE  Keeps /\ UNCHANGED life
  BY <1>3 DEF Initialize, Initialized, ClientShutdown, ShutdownEnds, vars, lifeVars, Keeps
<1> QED BY <1>1, <1>2, <1>3 DEF Next, ClientResponds, NewChild, Dies

-----------------------------------------------------------------------------
(* Types. *)

(* All numberings are one, and every id in use has been counted. *)
Counted(id) == \A s \in Servers : id <= counted[s]
OneNumbering ==
  /\ \A s, t \in Servers : counted[s] = counted[t]
  /\ \A s \in Servers : \A id \in asked[s] \cup untracked[s] : Counted(id)
  /\ \A m \in toClient : Counted(m.id)
  /\ \A id \in Ids : serverRequestRouting[id] # None => Counted(id)

(* An id is in use once, and the way back is known of tracked requests only. *)
IdsInUse ==
  /\ \A m1, m2 \in toClient : m1.id = m2.id => m1 = m2
  /\ \A s \in Servers : \A id \in untracked[s] : serverRequestRouting[id] = None

NumberingInv == Numbering = "unique" => OneNumbering /\ IdsInUse

(* Only a child that runs waits for an answer. *)
SilentInv == \A s \in Servers : state[s] # "running" => asked[s] = {}

RequestsInv == TypeOK /\ NumberingInv /\ SilentInv

AskTypes ==
  /\ counted \in [Servers -> 0..MaxRequests]
  /\ asked \in [Servers -> SUBSET Ids]
  /\ serverRequestRouting \in [Ids -> Servers \cup {None}]
  /\ toClient \in SUBSET [id : Ids, from : Children]
  /\ untracked \in [Servers -> SUBSET Ids]

LifeTypes ==
  /\ proxy \in {"idle", "running", "stopped", "disposed"} /\ initialized \in BOOLEAN
  /\ localFileWatching \in BOOLEAN
  /\ shuttingDown \in BOOLEAN /\ toShut \subseteq Servers
  /\ state \in [Servers -> {"idle", "running", "stopped"} \cup Starting]
  /\ life \in [Servers -> 0..MaxLives] /\ shutdownSent \in [Servers -> BOOLEAN]

WatchTypes ==
  /\ watching \in [Servers -> [RegIds -> SUBSET WatchKinds]]
  /\ watchRegistrations \in [RegIds -> [server : Servers \cup {None}, kinds : SUBSET WatchKinds]]

LEMMA TypesByPart == TypeOK <=> AskTypes /\ LifeTypes /\ WatchTypes
BY DEF TypeOK, AskTypes, LifeTypes, WatchTypes

LEMMA RequestsInit == Init => RequestsInv
<1> SUFFICES ASSUME Init PROVE RequestsInv
  OBVIOUS
<1> USE DEF Init
<1>1. TypeOK
  <2>1. AskTypes /\ LifeTypes
    <3>1. AskTypes
      BY DEF AskTypes, Ids, Children
    <3>2. proxy \in {"idle", "running", "stopped", "disposed"} /\ toShut \subseteq Servers
          /\ state \in [Servers -> {"idle", "running", "stopped"} \cup Starting]
          /\ life \in [Servers -> 0..MaxLives]
      OBVIOUS
    <3>3. shutdownSent \in [Servers -> BOOLEAN]
      OBVIOUS
    <3>4. initialized \in BOOLEAN /\ localFileWatching \in BOOLEAN /\ shuttingDown \in BOOLEAN
      OBVIOUS
    <3> QED BY <3>1, <3>2, <3>3, <3>4 DEF LifeTypes
  <2>2. WatchTypes
    <3>1. Absent \in [server : Servers \cup {None}, kinds : SUBSET WatchKinds]
      BY DEF Absent
    <3> QED BY <3>1 DEF WatchTypes
  <2> QED BY <2>1, <2>2, TypesByPart
<1>2. OneNumbering /\ IdsInUse
  BY DEF OneNumbering, IdsInUse, Counted
<1>3. SilentInv
  BY DEF SilentInv
<1> QED BY <1>1, <1>2, <1>3 DEF RequestsInv, NumberingInv

LEMMA ChildTyped ==
  ASSUME TypeOK, NEW s \in Servers
  PROVE  Child(s) \in Children
BY DEF TypeOK, Child, Children

(* Taking an id keeps the counters in their range. *)
LEMMA CountedTyped ==
  ASSUME RequestsInv, NEW s \in Servers, NEW id \in Ids, TakeId(s, id)
  PROVE  counted' \in [Servers -> 0..MaxRequests]
<1>1. id = counted[s] + 1 /\ id \in 1..MaxRequests
  BY DEF TakeId, Ids
<1>2. counted' = [t \in Servers |->
                    IF t = s \/ Numbering = "unique" THEN counted[t] + 1 ELSE counted[t]]
  BY DEF TakeId
<1>3. \A t \in Servers : counted[t] \in 0..MaxRequests
  BY DEF RequestsInv, TypeOK
<1>4. Numbering = "unique" => \A t \in Servers : counted[t] = counted[s]
  BY DEF RequestsInv, NumberingInv, OneNumbering
<1>5. \A t \in Servers : (t = s \/ Numbering = "unique") => counted[t] + 1 = id
  BY <1>1, <1>4
<1>6. \A t \in Servers : counted'[t] \in 0..MaxRequests
  BY <1>1, <1>2, <1>3, <1>5
<1> QED BY <1>2, <1>6

LEMMA AskTypesStep == RequestsInv /\ [Next]_vars => AskTypes'
<1> SUFFICES ASSUME RequestsInv, [Next]_vars PROVE AskTypes'
  OBVIOUS
<1> USE DEF AskTypes
<1>0. TypeOK /\ AskTypes /\ LifeTypes
  BY TypesByPart DEF RequestsInv
<1>1. ASSUME NEW s \in Servers, NEW id \in Ids, Asks(s, id) PROVE AskTypes'
  <2>1. TakeId(s, id)
    BY <1>1 DEF Asks
  <2>2. counted' \in [Servers -> 0..MaxRequests]
    BY <2>1, CountedTyped
  <2>3. Child(s) \in Children
    BY <1>0, ChildTyped
  <2>4. CASE AnswerNow(s, id)
    BY <1>0, <2>2, <2>4 DEF AnswerNow
  <2>5. CASE PassOn(s, id) \/ PassOnAsItIs(s, id)
    <3>1. toClient' = toClient \cup {[id |-> id, from |-> Child(s)]}
          /\ asked' = [asked EXCEPT ![s] = @ \cup {id}]
      BY <2>5 DEF PassOn, PassOnAsItIs
    <3>2. toClient' \in SUBSET [id : Ids, from : Children]
      BY <1>0, <2>3, <3>1
    <3>3. asked' \in [Servers -> SUBSET Ids]
      BY <1>0, <3>1
    <3>4. serverRequestRouting' \in [Ids -> Servers \cup {None}]
          /\ untracked' \in [Servers -> SUBSET Ids]
      BY <1>0, <2>5 DEF PassOn, PassOnAsItIs
    <3> QED BY <2>2, <3>2, <3>3, <3>4
  <2> QED BY <1>1, <2>4, <2>5 DEF Asks
<1>2. ASSUME NEW s \in Servers, NewChild(s) PROVE AskTypes'
  BY <1>0, <1>2 DEF NewChild, ComesUp
<1>3. ASSUME NEW s \in Servers, Dies(s) PROVE AskTypes'
  BY <1>0, <1>3 DEF Dies, Crashes, ExitsAsAsked, ChildDies
<1>4. ASSUME NEW m \in toClient, ClientAnswers(m) \/ AnswerDropped(m) PROVE AskTypes'
  BY <1>0, <1>4 DEF ClientAnswers, AnswerDropped
<1>5. CASE Keeps
  BY <1>0, <1>5 DEF Keeps, askVars
<1> QED BY <1>1, <1>2, <1>3, <1>4, <1>5, StepsOfRequests

LEMMA LifeTypesStep == TypeOK /\ [Next]_vars => LifeTypes'
<1> SUFFICES ASSUME TypeOK, [Next]_vars PROVE LifeTypes'
  OBVIOUS
<1>0. LifeTypes
  BY TypesByPart
<1> USE DEF LifeTypes, Starting
<1>1. ASSUME UNCHANGED <<proxyVars, lifeVars>> PROVE LifeTypes'
  BY <1>0, <1>1 DEF proxyVars, lifeVars
<1>2. ASSUME NEW s \in Servers, ShutdownServer(s) PROVE LifeTypes'
  BY <1>0, <1>2 DEF ShutdownServer, LastStops
<1>3. ASSUME NEW s \in Servers, StartLazily(s) PROVE LifeTypes'
  BY <1>0, <1>3 DEF StartLazily, proxyVars
<1>4. ASSUME NEW s \in Servers, ComesUp(s) PROVE LifeTypes'
  BY <1>0, <1>4 DEF ComesUp, proxyVars
<1>5. ASSUME NEW s \in Servers, GivesUp(s) PROVE LifeTypes'
  BY <1>0, <1>5 DEF GivesUp, LastStops
<1>6. ASSUME NEW s \in Servers, Crashes(s) PROVE LifeTypes'
  BY <1>0, <1>6 DEF Crashes, ChildDies, proxyVars
<1>7. ASSUME NEW s \in Servers, ExitsAsAsked(s) PROVE LifeTypes'
  BY <1>0, <1>7 DEF ExitsAsAsked, ChildDies, LastStops
<1>8. ASSUME Initialize \/ Initialized \/ ClientShutdown \/ ShutdownEnds PROVE LifeTypes'
  BY <1>0, <1>8 DEF Initialize, Compensated, Initialized, ClientShutdown, ShutdownEnds, lifeVars
<1>9. ASSUME NEW s \in Servers, ServerAsks(s) PROVE UNCHANGED <<proxyVars, lifeVars>>
  BY <1>9 DEF ServerAsks, Request, RegisterCapability, UnregisterCapability
<1>10. ASSUME ClientResponds PROVE UNCHANGED <<proxyVars, lifeVars>>
  BY <1>10 DEF ClientResponds, ClientAnswers, AnswerDropped
<1>11. UNCHANGED vars => UNCHANGED <<proxyVars, lifeVars>>
  BY DEF vars
<1> QED BY <1>1, <1>2, <1>3, <1>4, <1>5, <1>6, <1>7, <1>8, <1>9, <1>10, <1>11 DEF Next

-----------------------------------------------------------------------------
(* Watchers. *)

(* What a child has registered for is what the proxy keeps for its server, as
   long as that is not stopped for good; one that does not run has nothing. *)
KeptOf(s, r) == IF watchRegistrations[r].server = s THEN watchRegistrations[r].kinds ELSE {}
WatchInv ==
  /\ \A s \in Servers, r \in RegIds : state[s] # "running" => watching[s][r] = {}
  /\ \A s \in Servers, r \in RegIds : state[s] # "stopped" => watching[s][r] = KeptOf(s, r)
  /\ \A r \in RegIds : watchRegistrations[r].server = None => watchRegistrations[r].kinds = {}

LEMMA UnregisterTyped ==
  ASSUME WatchTypes, NEW s \in Servers, UnregisterServer(s)
  PROVE  /\ watchRegistrations' \in [RegIds -> [server : Servers \cup {None}, kinds : SUBSET WatchKinds]]
         /\ \A r \in RegIds : watchRegistrations'[r] =
              IF watchRegistrations[r].server = s THEN Absent ELSE watchRegistrations[r]
<1>1. Absent \in [server : Servers \cup {None}, kinds : SUBSET WatchKinds]
  BY DEF Absent
<1> QED BY <1>1 DEF UnregisterServer, WatchTypes

LEMMA Unregistered ==
  ASSUME TypeOK, WatchInv, NEW s \in Servers, UnregisterServer(s),
         \A t \in Servers, r \in RegIds : watching'[t][r] = IF t = s THEN {} ELSE watching[t][r],
         \A t \in Servers \ {s} : state'[t] = state[t],
         state'[s] # "running"
  PROVE  WatchInv'
<1>0. WatchTypes
  BY TypesByPart
<1>1. \A r \in RegIds : watchRegistrations'[r] =
        IF watchRegistrations[r].server = s THEN Absent ELSE watchRegistrations[r]
  BY <1>0, UnregisterTyped
<1>2. ASSUME NEW t \in Servers, NEW r \in RegIds, state'[t] # "running" PROVE watching'[t][r] = {}
  BY <1>2 DEF WatchInv
<1>3. ASSUME NEW t \in Servers, NEW r \in RegIds, state'[t] # "stopped"
      PROVE  watching'[t][r] = KeptOf(t, r)'
  <2>1. KeptOf(t, r)' = IF t = s THEN {} ELSE KeptOf(t, r)
    BY <1>1 DEF KeptOf, Absent
  <2> QED BY <1>3, <2>1 DEF WatchInv
<1>4. ASSUME NEW r \in RegIds, watchRegistrations'[r].server = None
      PROVE  watchRegistrations'[r].kinds = {}
  BY <1>1, <1>4 DEF WatchInv, Absent
<1> QED BY <1>2, <1>3, <1>4 DEF WatchInv

(* What both requests do: the registrations `regs` of a server become `new`, and
   what its child has registered for becomes `now`. *)
Replaced(s, regs, kinds, new, now) ==
  /\ state[s] = "running" /\ UNCHANGED state
  /\ regs \subseteq RegIds /\ kinds \subseteq WatchKinds
  /\ new \in [server : Servers \cup {None}, kinds : SUBSET WatchKinds]
  /\ new = [server |-> s, kinds |-> kinds] \/ (new = Absent /\ kinds = {})
  /\ \A r \in regs : watchRegistrations[r].server \in {s, None}
  /\ now \in [RegIds -> SUBSET WatchKinds]
  /\ \A r \in RegIds : now[r] = IF r \in regs THEN kinds ELSE watching[s][r]
  /\ watching' = [watching EXCEPT ![s] = now]
  /\ watchRegistrations' = [r \in RegIds |-> IF r \in regs THEN new ELSE watchRegistrations[r]]

LEMMA Reregistered ==
  ASSUME TypeOK, WatchInv, NEW s \in Servers,
         NEW regs, NEW kinds, NEW new, NEW now, Replaced(s, regs, kinds, new, now)
  PROVE  WatchTypes' /\ WatchInv'
<1> USE DEF Replaced
<1> USE DEF TypeOK
<1>1. watchRegistrations' \in [RegIds -> [server : Servers \cup {None}, kinds : SUBSET WatchKinds]]
  OBVIOUS
<1>3. WatchTypes'
  BY <1>1 DEF WatchTypes
<1>4. \A t \in Servers, r \in RegIds :
        watching'[t][r] = IF t = s /\ r \in regs THEN kinds ELSE watching[t][r]
  OBVIOUS
<1>5. (new.server = s \/ new.server = None) /\ new.kinds = kinds
  <2>1. new = [server |-> s, kinds |-> kinds] => new.server = s /\ new.kinds = kinds
    OBVIOUS
  <2>2. new = Absent /\ kinds = {} => new.server = None /\ new.kinds = kinds
    BY DEF Absent
  <2> QED BY <2>1, <2>2
<1>6. ASSUME NEW t \in Servers, NEW r \in RegIds, state[t] # "running" PROVE watching'[t][r] = {}
  BY <1>4, <1>6 DEF WatchInv
<1>7. ASSUME NEW t \in Servers, NEW r \in RegIds, state[t] # "stopped"
      PROVE  watching'[t][r] = KeptOf(t, r)'
  <2>1. watching[t][r] = KeptOf(t, r)
    BY <1>7 DEF WatchInv
  <2>2. CASE r \notin regs
    BY <1>4, <2>1, <2>2 DEF KeptOf
  <2>3. CASE r \in regs /\ t = s
    BY <1>4, <1>5, <2>3 DEF KeptOf, Absent
  <2>4. CASE r \in regs /\ t # s
    BY <1>4, <1>5, <2>1, <2>4 DEF KeptOf
  <2> QED BY <2>2, <2>3, <2>4
<1>8. ASSUME NEW r \in RegIds, watchRegistrations'[r].server = None
      PROVE  watchRegistrations'[r].kinds = {}
  BY <1>8 DEF WatchInv, Absent
<1> QED BY <1>3, <1>6, <1>7, <1>8 DEF WatchInv

LEMMA WatchStep == TypeOK /\ WatchInv /\ [Next]_vars => WatchTypes' /\ WatchInv'
<1> SUFFICES ASSUME TypeOK, WatchInv, [Next]_vars PROVE WatchTypes' /\ WatchInv'
  OBVIOUS
<1>0. WatchTypes
  BY TypesByPart
<1> USE DEF TypeOK
<1>1. ASSUME UNCHANGED watchVars,
             \A s \in Servers : \/ state'[s] = state[s]
                                \/ state[s] # "running" /\ state[s] # "stopped"
      PROVE  WatchTypes' /\ WatchInv'
  <2>1. WatchTypes'
    BY <1>0, <1>1 DEF WatchTypes, watchVars
  <2>2. UNCHANGED <<watching, watchRegistrations>>
    BY <1>1 DEF watchVars
  <2>3. \A s \in Servers : /\ state'[s] # "running" => state[s] # "running"
                           /\ state'[s] # "stopped" => state[s] # "stopped"
    BY <1>1
  <2> QED BY <2>1, <2>2, <2>3 DEF WatchInv, KeptOf
<1>2. ASSUME NEW s \in Servers, ShutdownServer(s) \/ ComesUp(s) \/ GivesUp(s)
      PROVE  WatchTypes' /\ WatchInv'
  <2>1. UNCHANGED watchVars
    BY <1>2 DEF ShutdownServer, ComesUp, GivesUp
  <2>2. \A t \in Servers : \/ state'[t] = state[t]
                           \/ state[t] # "running" /\ state[t] # "stopped"
    BY <1>2 DEF ShutdownServer, ComesUp, GivesUp, Starting
  <2> QED BY <1>1, <2>1, <2>2
<1>3. ASSUME Initialize \/ Initialized \/ ClientShutdown \/ ShutdownEnds \/ ClientResponds
             \/ UNCHANGED vars
      PROVE  WatchTypes' /\ WatchInv'
  <2>1. UNCHANGED watchVars /\ UNCHANGED state
    BY <1>3 DEF Initialize, Initialized, ClientShutdown, ShutdownEnds, ClientResponds,
                ClientAnswers, AnswerDropped, vars, lifeVars
  <2> QED BY <1>1, <2>1
<1>4. ASSUME NEW s \in Servers, StartLazily(s) PROVE WatchTypes' /\ WatchInv'
  <2>1. UNCHANGED watching /\ state' = [state EXCEPT ![s] = "starting"] /\ state[s] = "idle"
        /\ UnregisterServer(s)
    BY <1>4 DEF StartLazily
  <2>2. WatchTypes'
    BY <1>0, <2>1, UnregisterTyped DEF WatchTypes
  <2>3. \A r \in RegIds : watching[s][r] = {}
    BY <2>1 DEF WatchInv
  <2>4. \A t \in Servers, r \in RegIds : watching'[t][r] = IF t = s THEN {} ELSE watching[t][r]
    BY <2>1, <2>3
  <2>5. state'[s] = "starting" /\ \A t \in Servers \ {s} : state'[t] = state[t]
    BY <2>1
  <2>6. WatchInv'
    BY <2>1, <2>4, <2>5, Unregistered
  <2> QED BY <2>2, <2>6
<1>5. ASSUME NEW s \in Servers, Dies(s) PROVE WatchTypes' /\ WatchInv'
  <2>1. watching' = [watching EXCEPT ![s] = [r \in RegIds |-> {}]] /\ state[s] = "running"
    BY <1>5 DEF Dies, Crashes, ExitsAsAsked, ChildDies
  <2>2. watching' \in [Servers -> [RegIds -> SUBSET WatchKinds]]
        /\ \A t \in Servers, r \in RegIds : watching'[t][r] = IF t = s THEN {} ELSE watching[t][r]
    BY <2>1
  <2>3. CASE Crashes(s)
    <3>1. UnregisterServer(s) /\ state' = [state EXCEPT ![s] = "restarting"]
      BY <2>3 DEF Crashes
    <3>2. WatchTypes'
      BY <1>0, <2>2, <3>1, UnregisterTyped DEF WatchTypes
    <3>3. state'[s] = "restarting" /\ \A t \in Servers \ {s} : state'[t] = state[t]
      BY <3>1
    <3>4. WatchInv'
      BY <2>2, <3>1, <3>3, Unregistered
    <3> QED BY <3>2, <3>4
  <2>4. CASE ExitsAsAsked(s)
    <3>1. UNCHANGED watchRegistrations /\ state' = [state EXCEPT ![s] = "stopped"]
      BY <2>4 DEF ExitsAsAsked
    <3>2. WatchTypes'
      BY <1>0, <2>2, <3>1 DEF WatchTypes
    <3>3. WatchInv'
      BY <2>2, <3>1 DEF WatchInv, KeptOf
    <3> QED BY <3>2, <3>3
  <2> QED BY <1>5, <2>3, <2>4 DEF Dies
<1>6. ASSUME NEW s \in Servers, ServerAsks(s) PROVE WatchTypes' /\ WatchInv'
  <2>1. PICK id \in Ids :
          \/ \E method \in {"configuration", "refresh", "other"} : Request(s, id, method)
          \/ \E regs \in SUBSET RegIds, kinds \in SUBSET WatchKinds, rest \in SUBSET Items :
               RegisterCapability(s, id, regs, kinds, rest)
          \/ \E regs \in SUBSET RegIds, rest \in SUBSET {"settings", "other"} :
               UnregisterCapability(s, id, regs, rest)
    BY <1>6 DEF ServerAsks
  <2>2. ASSUME NEW method, Request(s, id, method) PROVE WatchTypes' /\ WatchInv'
    BY <1>1, <2>2 DEF Request, lifeVars
  <2>3. ASSUME NEW regs \in SUBSET RegIds, NEW kinds \in SUBSET WatchKinds, NEW rest,
               RegisterCapability(s, id, regs, kinds, rest)
        PROVE  WatchTypes' /\ WatchInv'
    <3>1. state[s] = "running" /\ UNCHANGED state
          /\ \A r \in regs : watchRegistrations[r].server \in {s, None}
      BY <2>3 DEF RegisterCapability, TakeId, lifeVars
    <3>2. CASE localFileWatching
      <4>1. [server |-> s, kinds |-> kinds] \in [server : Servers \cup {None}, kinds : SUBSET WatchKinds]
        OBVIOUS
      <4> DEFINE now == [r \in RegIds |-> IF r \in regs THEN kinds ELSE watching[s][r]]
      <4>2. /\ watching' = [watching EXCEPT ![s] = now]
            /\ watchRegistrations' = [r \in RegIds |->
                 IF r \in regs THEN [server |-> s, kinds |-> kinds] ELSE watchRegistrations[r]]
        BY <2>3, <3>2 DEF RegisterCapability
      <4>3. now \in [RegIds -> SUBSET WatchKinds]
            /\ \A r \in RegIds : now[r] = IF r \in regs THEN kinds ELSE watching[s][r]
        OBVIOUS
      <4> DEFINE new == [server |-> s, kinds |-> kinds]
      <4>4. new \in [server : Servers \cup {None}, kinds : SUBSET WatchKinds]
            /\ new = [server |-> s, kinds |-> kinds]
            /\ watchRegistrations' = [r \in RegIds |-> IF r \in regs THEN new ELSE watchRegistrations[r]]
        BY <4>1, <4>2
      <4> HIDE DEF now, new
      <4>5. Replaced(s, regs, kinds, new, now)
        BY <3>1, <4>2, <4>3, <4>4 DEF Replaced
      <4> QED BY <4>5, Reregistered
    <3>3. CASE ~localFileWatching
      <4>1. UNCHANGED watchVars
        BY <2>3, <3>3 DEF RegisterCapability
      <4> QED BY <1>1, <3>1, <4>1
    <3> QED BY <3>2, <3>3
  <2>4. ASSUME NEW regs \in SUBSET RegIds, NEW rest, UnregisterCapability(s, id, regs, rest)
        PROVE  WatchTypes' /\ WatchInv'
    <3>1. state[s] = "running" /\ UNCHANGED state
          /\ \A r \in regs : watchRegistrations[r].server \in {s, None}
      BY <2>4 DEF UnregisterCapability, TakeId, lifeVars
    <3>2. CASE localFileWatching
      <4>1. Absent \in [server : Servers \cup {None}, kinds : SUBSET WatchKinds]
        BY DEF Absent
      <4> DEFINE now == [r \in RegIds |-> IF r \in regs THEN {} ELSE watching[s][r]]
      <4>2. /\ watching' = [watching EXCEPT ![s] = now]
            /\ watchRegistrations' = [r \in RegIds |->
                 IF r \in regs THEN Absent ELSE watchRegistrations[r]]
        BY <2>4, <3>2 DEF UnregisterCapability
      <4>3. now \in [RegIds -> SUBSET WatchKinds]
            /\ \A r \in RegIds : now[r] = IF r \in regs THEN {} ELSE watching[s][r]
        OBVIOUS
      <4> HIDE DEF now
      <4>4. Replaced(s, regs, {}, Absent, now)
        BY <3>1, <4>1, <4>2, <4>3 DEF Replaced
      <4> QED BY <4>4, Reregistered
    <3>3. CASE ~localFileWatching
      <4>1. UNCHANGED watchVars
        BY <2>4, <3>3 DEF UnregisterCapability
      <4> QED BY <1>1, <3>1, <4>1
    <3> QED BY <3>2, <3>3
  <2> QED BY <2>1, <2>2, <2>3, <2>4
<1> QED BY <1>2, <1>3, <1>4, <1>5, <1>6 DEF Next, Dies

-----------------------------------------------------------------------------
(* Numbering. *)

(* What taking a fresh id does to the ids in use. *)
LEMMA FreshId ==
  ASSUME RequestsInv, Numbering = "unique", NEW s \in Servers, NEW id \in Ids, TakeId(s, id)
  PROVE  /\ \A t \in Servers : counted'[t] = counted[t] + 1 /\ counted[t] + 1 = id
         /\ \A n \in Ids : Counted(n) => n # id /\ Counted(n)'
         /\ Counted(id)'
<1>1. \A t \in Servers : counted'[t] = counted[t] + 1 /\ counted[t] = counted[s]
  BY DEF TakeId, RequestsInv, NumberingInv, OneNumbering
<1>2. id = counted[s] + 1
  BY DEF TakeId
<1>3. \A t \in Servers : counted[t] \in Nat
  BY DEF RequestsInv, TypeOK
<1>4. \A t \in Servers : counted'[t] = counted[t] + 1 /\ counted[t] + 1 = id
  BY <1>1, <1>2
<1>5. ASSUME NEW n \in Ids, Counted(n) PROVE n # id /\ Counted(n)'
  <2>1. n <= counted[s]
    BY <1>5 DEF Counted
  <2>2. \A t \in Servers : n <= counted'[t]
    BY <1>3, <1>4, <1>5 DEF Counted, Ids
  <2> QED BY <1>2, <1>3, <2>1, <2>2 DEF Counted, Ids
<1>6. Counted(id)'
  BY <1>3, <1>4 DEF Counted
<1> QED BY <1>4, <1>5, <1>6

LEMMA NumberingStep == RequestsInv /\ [Next]_vars => NumberingInv'
<1> SUFFICES ASSUME RequestsInv, [Next]_vars, Numbering = "unique" PROVE OneNumbering' /\ IdsInUse'
  BY DEF NumberingInv
<1> USE DEF RequestsInv, NumberingInv, OneNumbering, IdsInUse, TypeOK
<1>1. ASSUME NEW s \in Servers, NEW id \in Ids, Asks(s, id) PROVE OneNumbering' /\ IdsInUse'
  <2>1. TakeId(s, id)
    BY <1>1 DEF Asks
  <2>2. /\ \A m \in toClient : m.id # id
        /\ \A t \in Servers : id \notin asked[t] \cup untracked[t]
        /\ serverRequestRouting[id] = None
    BY <2>1, FreshId
  <2>3. CASE AnswerNow(s, id)
    BY <2>1, <2>3, FreshId DEF AnswerNow
  <2>4. CASE PassOn(s, id)
    <3>1. OneNumbering'
      BY <2>1, <2>4, FreshId DEF PassOn
    <3>2. IdsInUse'
      BY <2>2, <2>4 DEF PassOn
    <3> QED BY <3>1, <3>2
  <2>5. CASE PassOnAsItIs(s, id)
    <3>1. OneNumbering'
      BY <2>1, <2>5, FreshId DEF PassOnAsItIs
    <3>2. IdsInUse'
      BY <2>2, <2>5 DEF PassOnAsItIs
    <3> QED BY <3>1, <3>2
  <2> QED BY <1>1, <2>3, <2>4, <2>5 DEF Asks
<1>2. ASSUME NEW s \in Servers, NewChild(s) PROVE OneNumbering' /\ IdsInUse'
  BY <1>2 DEF NewChild, ComesUp, Counted
<1>3. ASSUME NEW s \in Servers, Dies(s) PROVE OneNumbering' /\ IdsInUse'
  <2>1. UNCHANGED <<counted, serverRequestRouting, toClient>>
        /\ asked' = [asked EXCEPT ![s] = {}] /\ untracked' = [untracked EXCEPT ![s] = {}]
    BY <1>3 DEF Dies, Crashes, ExitsAsAsked, ChildDies
  <2> QED BY <2>1 DEF Counted
<1>4. ASSUME NEW m \in toClient, ClientAnswers(m) PROVE OneNumbering' /\ IdsInUse'
  <2>1. UNCHANGED <<counted, untracked>> /\ toClient' = toClient \ {m}
        /\ serverRequestRouting' = [serverRequestRouting EXCEPT ![m.id] = None]
        /\ \A s \in Servers : asked'[s] \subseteq asked[s]
    BY <1>4 DEF ClientAnswers
  <2> QED BY <2>1 DEF Counted
<1>5. ASSUME NEW m \in toClient, AnswerDropped(m) PROVE OneNumbering' /\ IdsInUse'
  <2>1. UNCHANGED <<counted, asked, untracked, serverRequestRouting>> /\ toClient' = toClient \ {m}
    BY <1>5 DEF AnswerDropped
  <2> QED BY <2>1 DEF Counted
<1>6. CASE Keeps
  BY <1>6 DEF Keeps, askVars, Counted
<1> QED BY <1>1, <1>2, <1>3, <1>4, <1>5, <1>6, StepsOfRequests

LEMMA SilentStep == TypeOK /\ SilentInv /\ [Next]_vars => SilentInv'
<1> SUFFICES ASSUME TypeOK, SilentInv, [Next]_vars PROVE SilentInv'
  OBVIOUS
<1> USE DEF TypeOK, SilentInv
<1>1. ASSUME NEW s \in Servers, ShutdownServer(s) \/ StartLazily(s) \/ GivesUp(s) PROVE SilentInv'
  BY <1>1 DEF ShutdownServer, StartLazily, GivesUp, askVars, Starting
<1>2. ASSUME NEW s \in Servers, ComesUp(s) PROVE SilentInv'
  BY <1>2 DEF ComesUp
<1>3. ASSUME NEW s \in Servers, Dies(s) PROVE SilentInv'
  BY <1>3 DEF Dies, Crashes, ExitsAsAsked, ChildDies
<1>4. ASSUME NEW s \in Servers, ServerAsks(s) PROVE SilentInv'
  <2>1. PICK id \in Ids : Asks(s, id)
    BY <1>4, StepIsAsking
  <2>2. state[s] = "running" /\ UNCHANGED state /\ \A t \in Servers \ {s} : asked'[t] = asked[t]
    BY <2>1 DEF Asks, TakeId, lifeVars, AnswerNow, PassOn, PassOnAsItIs
  <2> QED BY <2>2
<1>5. ASSUME ClientResponds PROVE SilentInv'
  <2>1. UNCHANGED state /\ \A s \in Servers : asked'[s] \subseteq asked[s]
    BY <1>5 DEF ClientResponds, ClientAnswers, AnswerDropped, lifeVars
  <2> QED BY <2>1
<1>6. ASSUME Initialize \/ Initialized \/ ClientShutdown \/ ShutdownEnds \/ UNCHANGED vars
      PROVE  SilentInv'
  BY <1>6 DEF Initialize, Initialized, ClientShutdown, ShutdownEnds, vars, lifeVars, askVars
<1> QED BY <1>1, <1>2, <1>3, <1>4, <1>5, <1>6 DEF Next, Dies

THEOREM RequestsInvariant == Spec => [](RequestsInv /\ WatchInv)
<1>1. Init => WatchInv
  BY DEF Init, WatchInv, KeptOf, Absent
<1>2. RequestsInv /\ WatchInv /\ [Next]_vars => RequestsInv' /\ WatchInv'
  <2> SUFFICES ASSUME RequestsInv, WatchInv, [Next]_vars PROVE RequestsInv' /\ WatchInv'
    OBVIOUS
  <2>1. TypeOK
    BY DEF RequestsInv
  <2>2. AskTypes' /\ LifeTypes' /\ WatchTypes' /\ WatchInv'
    BY <2>1, AskTypesStep, LifeTypesStep, WatchStep
  <2>3. TypeOK'
    BY <2>2 DEF TypeOK, AskTypes, LifeTypes, WatchTypes
  <2> QED BY <2>2, <2>3, NumberingStep, SilentStep DEF RequestsInv
<1> QED BY <1>1, <1>2, RequestsInit, PTL DEF Spec

(* The types of ServerRequests. *)
THEOREM ServerRequestsTypeCorrect == Spec => []TypeOK
<1>1. RequestsInv => TypeOK
  BY DEF RequestsInv
<1> QED BY <1>1, RequestsInvariant, PTL

(* A file event goes to the servers whose live child registered for it, however
   they register, unregister, crash, restart and stop. *)
THEOREM WatchersGoWithTheirServer == Spec => []WatchersAreOfTheLiving
<1>1. ASSUME RequestsInv, WatchInv PROVE WatchersAreOfTheLiving
  <2> SUFFICES ASSUME NEW kind, NEW s
               PROVE  s \in Matching(kind) /\ state[s] # "stopped"
                        <=> s \in Servers /\ \E r \in RegIds : kind \in watching[s][r]
    BY DEF WatchersAreOfTheLiving, Matching, RequestsInv, TypeOK
  <2>1. ASSUME s \in Matching(kind), state[s] # "stopped"
        PROVE  s \in Servers /\ \E r \in RegIds : kind \in watching[s][r]
    <3>1. PICK r \in RegIds : kind \in watchRegistrations[r].kinds /\ watchRegistrations[r].server = s
      BY <2>1 DEF Matching
    <3>2. s \in Servers
      BY <1>1, <3>1 DEF WatchInv, RequestsInv, TypeOK
    <3>3. watching[s][r] = watchRegistrations[r].kinds
      BY <1>1, <2>1, <3>1, <3>2 DEF WatchInv, KeptOf
    <3> QED BY <3>1, <3>2, <3>3
  <2>2. ASSUME s \in Servers, NEW r \in RegIds, kind \in watching[s][r]
        PROVE  s \in Matching(kind) /\ state[s] # "stopped"
    <3>1. state[s] = "running"
      BY <1>1, <2>2 DEF WatchInv
    <3>2. watching[s][r] = KeptOf(s, r)
      BY <1>1, <2>2, <3>1 DEF WatchInv
    <3>3. watchRegistrations[r].server = s /\ kind \in watchRegistrations[r].kinds
      BY <2>2, <3>2 DEF KeptOf
    <3> QED BY <2>2, <3>1, <3>3 DEF Matching
  <2> QED BY <2>1, <2>2
<1>2. RequestsInv /\ WatchInv => WatchersAreOfTheLiving
  BY <1>1
<1> QED BY <1>2, RequestsInvariant, PTL

-----------------------------------------------------------------------------
(* The way back. Before the client has initialized, as while the proxy serves. *)

WayBack(s, id) ==
  /\ serverRequestRouting[id] = s
  /\ \E m \in toClient : m.id = id /\ m.from = Child(s)
WaysBack ==
  proxy \in {"idle", "running"} =>
    \A s \in Servers : \A id \in asked[s] \ untracked[s] : WayBack(s, id)

LEMMA WaysBackStep ==
  ASSUME Numbering = "unique", RequestsInv, WaysBack, [Next]_vars
  PROVE  WaysBack'
<1> USE DEF RequestsInv, TypeOK
<1> SUFFICES ASSUME proxy' \in {"idle", "running"}
             PROVE  \A s \in Servers : \A id \in asked'[s] \ untracked'[s] : WayBack(s, id)'
  BY DEF WaysBack
<1>0. proxy \in {"idle", "running"}
  <2>1. UNCHANGED proxy => proxy \in {"idle", "running"}
    OBVIOUS
  <2>2. ASSUME NEW s \in Servers, ShutdownServer(s) \/ GivesUp(s) \/ ExitsAsAsked(s)
        PROVE  proxy \in {"idle", "running"}
    BY <2>2 DEF ShutdownServer, GivesUp, ExitsAsAsked, LastStops
  <2>3. ASSUME NEW s \in Servers, StartLazily(s) \/ ComesUp(s) \/ Crashes(s) PROVE UNCHANGED proxy
    BY <2>3 DEF StartLazily, ComesUp, Crashes, proxyVars
  <2>4. ASSUME NEW s \in Servers, ServerAsks(s) PROVE UNCHANGED proxy
    BY <2>4 DEF ServerAsks, Request, RegisterCapability, UnregisterCapability, proxyVars
  <2>5. ASSUME ClientResponds PROVE UNCHANGED proxy
    BY <2>5 DEF ClientResponds, ClientAnswers, AnswerDropped, proxyVars
  <2>6. ASSUME Initialize \/ Initialized \/ ClientShutdown \/ ShutdownEnds
        PROVE  proxy \in {"idle", "running"}
    BY <2>6 DEF Initialize, Initialized, ClientShutdown, ShutdownEnds
  <2> QED BY <2>1, <2>2, <2>3, <2>4, <2>5, <2>6 DEF Next, vars, proxyVars
<1>1. \A s \in Servers : \A id \in asked[s] \ untracked[s] : WayBack(s, id)
  BY <1>0 DEF WaysBack
<1>2. ASSUME NEW s \in Servers, NEW id \in Ids, Asks(s, id),
             NEW t \in Servers, NEW n \in asked'[t] \ untracked'[t]
      PROVE  WayBack(t, n)'
  <2>0. TakeId(s, id) /\ UNCHANGED life
    BY <1>2 DEF Asks, lifeVars
  <2>1. Child(t)' = Child(t)
    BY <2>0 DEF Child
  <2>2. \A u \in Servers : id \notin asked[u] \cup untracked[u]
    BY <2>0, FreshId DEF NumberingInv, OneNumbering
  <2>3. CASE AnswerNow(s, id)
    BY <1>1, <1>2, <2>1, <2>3 DEF AnswerNow, WayBack
  <2>4. CASE PassOn(s, id)
    <3>1. toClient' = toClient \cup {[id |-> id, from |-> Child(s)]} /\ UNCHANGED untracked
          /\ serverRequestRouting' = [serverRequestRouting EXCEPT ![id] = s]
          /\ asked' = [asked EXCEPT ![s] = @ \cup {id}]
      BY <2>4 DEF PassOn
    <3>2. CASE n = id
      <4>1. t = s
        BY <1>2, <2>2, <3>1, <3>2
      <4>2. serverRequestRouting'[id] = s
        BY <3>1
      <4> DEFINE m == [id |-> id, from |-> Child(s)]
      <4>3. m \in toClient' /\ m.id = id /\ m.from = Child(s)
        BY <3>1
      <4> QED BY <2>1, <3>2, <4>1, <4>2, <4>3 DEF WayBack
    <3>3. CASE n # id
      <4>1. n \in asked[t] \ untracked[t]
        BY <1>2, <3>1, <3>3
      <4> QED BY <1>1, <2>1, <3>1, <3>3, <4>1 DEF WayBack
    <3> QED BY <3>2, <3>3
  <2>5. CASE PassOnAsItIs(s, id)
    <3>1. /\ asked' = [asked EXCEPT ![s] = @ \cup {id}]
          /\ untracked' = [untracked EXCEPT ![s] = @ \cup {id}]
      BY <2>5 DEF PassOnAsItIs
    <3>2. n \in asked[t] \ untracked[t]
      BY <1>2, <3>1
    <3>3. toClient \subseteq toClient' /\ UNCHANGED serverRequestRouting
      BY <2>5 DEF PassOnAsItIs
    <3> QED BY <1>1, <2>1, <3>2, <3>3 DEF WayBack
  <2> QED BY <1>2, <2>3, <2>4, <2>5 DEF Asks
<1>3. ASSUME NEW s \in Servers, NewChild(s), NEW t \in Servers, NEW n \in asked'[t] \ untracked'[t]
      PROVE  WayBack(t, n)'
  <2>1. UNCHANGED <<asked, untracked, serverRequestRouting, toClient>>
        /\ life' = [life EXCEPT ![s] = @ + 1] /\ state[s] \in Starting
    BY <1>3 DEF NewChild, ComesUp
  <2>2. asked[s] = {}
    BY <2>1 DEF Starting, SilentInv
  <2>3. t # s
    BY <1>3, <2>1, <2>2
  <2>4. Child(t)' = Child(t)
    BY <2>1, <2>3 DEF Child
  <2> QED BY <1>1, <1>3, <2>1, <2>4 DEF WayBack
<1>4. ASSUME NEW s \in Servers, Dies(s), NEW t \in Servers, NEW n \in asked'[t] \ untracked'[t]
      PROVE  WayBack(t, n)'
  <2>1. UNCHANGED <<life, serverRequestRouting, toClient>>
        /\ asked' = [asked EXCEPT ![s] = {}] /\ untracked' = [untracked EXCEPT ![s] = {}]
    BY <1>4 DEF Dies, Crashes, ExitsAsAsked, ChildDies
  <2>2. n \in asked[t] \ untracked[t]
    BY <1>4, <2>1
  <2> QED BY <1>1, <2>1, <2>2 DEF WayBack, Child
<1>5. ASSUME NEW m \in toClient, ClientAnswers(m),
             NEW t \in Servers, NEW n \in asked'[t] \ untracked'[t]
      PROVE  WayBack(t, n)'
  <2>1. UNCHANGED <<life, untracked>> /\ toClient' = toClient \ {m}
        /\ serverRequestRouting' = [serverRequestRouting EXCEPT ![m.id] = None]
        /\ asked' = [s \in Servers |-> IF s \in Target(m) THEN asked[s] \ {m.id} ELSE asked[s]]
    BY <1>5 DEF ClientAnswers, lifeVars
  <2>2. n \in asked[t] \ untracked[t] /\ n \in Ids
    BY <1>5, <2>1
  <2>3. serverRequestRouting[n] = t
    BY <1>1, <2>2 DEF WayBack
  <2>4. n # m.id
    BY <1>5, <2>1, <2>3 DEF Target
  <2>5. PICK k \in toClient : k.id = n /\ k.from = Child(t)
    BY <1>1, <2>2 DEF WayBack
  <2>6. k \in toClient' /\ k.id = n /\ k.from = Child(t)'
    BY <2>1, <2>4, <2>5 DEF Child
  <2>7. serverRequestRouting'[n] = t
    BY <2>1, <2>2, <2>3, <2>4
  <2> QED BY <2>6, <2>7 DEF WayBack
<1>6. ASSUME NEW m \in toClient, AnswerDropped(m) PROVE FALSE
  BY <1>0, <1>6 DEF AnswerDropped
<1>7. ASSUME Keeps, UNCHANGED life, NEW t \in Servers, NEW n \in asked'[t] \ untracked'[t]
      PROVE  WayBack(t, n)'
  BY <1>1, <1>7 DEF Keeps, askVars, WayBack, Child
<1> QED BY <1>2, <1>3, <1>4, <1>5, <1>6, <1>7, StepsOfRequests

(* A live child's tracked request is with the client and its way back is known,
   for servers whose ids never coincide. *)
THEOREM TheWayBackIsKnown ==
  ASSUME Numbering = "unique"
  PROVE  Spec => []AskersWillHear
<1>1. Init => WaysBack
  BY DEF Init, WaysBack
<1>2. RequestsInv /\ WaysBack /\ [Next]_vars => WaysBack'
  BY WaysBackStep
<1>3. WaysBack => AskersWillHear
  BY DEF WaysBack, WayBack, AskersWillHear
<1> QED BY <1>1, <1>2, <1>3, RequestsInvariant, PTL DEF Spec

(* With ids that never coincide, an answer settles the request of the very child
   that made it: that ids coincide is all that is wrong with routing by id. *)
THEOREM UniqueIdsSuffice ==
  ASSUME Numbering = "unique"
  PROVE  Spec => AnswersReachTheAsker
<1>1. Init => WaysBack
  BY DEF Init, WaysBack
<1>2. RequestsInv /\ WaysBack /\ [Next]_vars => WaysBack'
  BY WaysBackStep
<1> DEFINE Right ==
      \A s \in Servers : state'[s] = "running" =>
        \A id \in asked[s] \ asked'[s] :
          \E m \in toClient \ toClient' : m.id = id /\ m.from = Child(s)
<1>3. ASSUME RequestsInv, WaysBack, [Next]_vars PROVE [Right]_vars
  <2> SUFFICES ASSUME NEW s \in Servers, state'[s] = "running", NEW id \in asked[s] \ asked'[s]
               PROVE  \E m \in toClient \ toClient' : m.id = id /\ m.from = Child(s)
    OBVIOUS
  <2> USE DEF RequestsInv, TypeOK
  <2>1. ASSUME NEW m \in toClient, ClientAnswers(m)
        PROVE  \E k \in toClient \ toClient' : k.id = id /\ k.from = Child(s)
    <3>0. /\ proxy = "running" /\ toClient' = toClient \ {m}
          /\ asked' = [t \in Servers |->
               IF t \in Target(m) THEN asked[t] \ {m.id} ELSE asked[t]]
      BY <2>1 DEF ClientAnswers
    <3>5a. asked'[s] = IF s \in Target(m) THEN asked[s] \ {m.id} ELSE asked[s]
      BY <3>0
    <3>1. s \in Target(m) /\ id = m.id /\ proxy = "running" /\ toClient' = toClient \ {m}
      <4>1. id \in asked[s] /\ id \notin asked'[s]
        OBVIOUS
      <4> HIDE DEF RequestsInv, TypeOK
      <4> QED BY <3>0, <3>5a, <4>1
    <3>2. serverRequestRouting[id] = s
      BY <3>1 DEF Target
    <3>3. id \notin untracked[s]
      BY <1>3, <3>2 DEF NumberingInv, IdsInUse
    <3>4. PICK k \in toClient : k.id = id /\ k.from = Child(s)
      BY <1>3, <3>1, <3>3 DEF WaysBack, WayBack
    <3>5. k = m
      BY <1>3, <3>1, <3>4 DEF NumberingInv, IdsInUse
    <3> QED BY <3>1, <3>4, <3>5
  <2>2. ASSUME NEW t \in Servers, Dies(t) PROVE FALSE
    <3>1. asked' = [asked EXCEPT ![t] = {}] /\ state'[t] # "running"
      BY <1>3, <2>2 DEF Dies, Crashes, ExitsAsAsked, ChildDies
    <3> QED BY <1>3, <3>1
  <2>3. ASSUME NEW t \in Servers, NEW n \in Ids, Asks(t, n) PROVE FALSE
    <3>1. asked \in [Servers -> SUBSET Ids]
      BY <1>3
    <3>2. asked' = asked \/ asked' = [asked EXCEPT ![t] = @ \cup {n}]
      BY <2>3 DEF Asks, AnswerNow, PassOn, PassOnAsItIs
    <3> HIDE DEF RequestsInv, TypeOK
    <3>3. asked[s] \subseteq asked'[s]
      BY <3>1, <3>2
    <3> QED BY <3>3
  <2>4. ASSUME NEW t \in Servers, NewChild(t) PROVE FALSE
    BY <2>4 DEF NewChild, ComesUp
  <2>5. ASSUME NEW m \in toClient, AnswerDropped(m) PROVE FALSE
    BY <2>5 DEF AnswerDropped
  <2>6. ASSUME Keeps PROVE FALSE
    BY <2>6 DEF Keeps, askVars
  <2> QED BY <1>3, <2>1, <2>2, <2>3, <2>4, <2>5, <2>6, StepsOfRequests
<1>4. RequestsInv /\ WaysBack /\ [Next]_vars => [Right]_vars
  BY <1>3
<1> QED BY <1>1, <1>2, <1>4, RequestsInvariant, PTL DEF Spec, AnswersReachTheAsker

-----------------------------------------------------------------------------
(* The client's requests. With them, the servers' requests and lives still step
   as ServerRequests says: what is proved of Spec holds of both directions. *)

LEMMA OneDirection ==
  ASSUME [MessagesNext]_messagesVars
  PROVE  [Next]_vars
<1>1. ASSUME NEW n \in RequestIds, ClientRequests(n) PROVE [Next]_vars
  <2>1. CASE \E s \in Servers : RequestStarts(n, s)
    BY <2>1 DEF RequestStarts, Next
  <2>2. CASE UNCHANGED vars
    BY <2>2
  <2> QED BY <1>1, <2>1, <2>2 DEF ClientRequests, RejectReserved, RejectNotServing,
               RequestWritten, RequestHeld, RequestRefused, AnswerWithError
<1>2. ASSUME NEW n \in RequestIds, CancelRequest(n) PROVE [Next]_vars
  BY <1>2 DEF CancelRequest
<1>3. ASSUME NEW s \in Servers, NEW n \in RequestIds, ServerReplies(s, n) PROVE [Next]_vars
  BY <1>3 DEF ServerReplies
<1>4. ASSUME NEW s \in Servers, HoldsUntilUp(s) \/ PendingDie(s) \/ HeldAreRefused(s)
      PROVE  Next
  BY <1>4 DEF HoldsUntilUp, PendingDie, HeldAreRefused, Next
<1>5. ASSUME Others PROVE Next
  BY <1>5 DEF Others, Next
<1>6. ASSUME UNCHANGED messagesVars PROVE UNCHANGED vars
  BY <1>6 DEF messagesVars
<1> QED BY <1>1, <1>2, <1>3, <1>4, <1>5, <1>6 DEF MessagesNext

LEMMA BothDirections == MessagesSpec => Spec
<1>1. MessagesInit => Init
  BY DEF MessagesInit
<1>2. [MessagesNext]_messagesVars => [Next]_vars
  BY OneDirection
<1> QED BY <1>1, <1>2, PTL DEF MessagesSpec, Spec

(* The way a server's answers find back is known whatever the client asks. *)
COROLLARY MessagesKeepTheWayBack ==
  ASSUME Numbering = "unique"
  PROVE  MessagesSpec => []AskersWillHear
BY BothDirections, TheWayBackIsKnown, PTL

(* Watchers go with their servers whatever the client asks. *)
COROLLARY MessagesKeepWatchers == MessagesSpec => []WatchersAreOfTheLiving
BY BothDirections, WatchersGoWithTheirServer, PTL

ClientTypes ==
  /\ requestRouting \in [RequestIds -> Servers \cup {None}]
  /\ held \in [Servers -> SUBSET RequestIds] /\ pending \in [Servers -> SUBSET RequestIds]
  /\ sent \subseteq RequestIds /\ replies \in [RequestIds -> Nat]

LEMMA ClientTypesInit == MessagesInit => ClientTypes
BY DEF MessagesInit, ClientTypes

LEMMA ReplyTyped ==
  ASSUME ClientTypes, NEW R, Reply(R)
  PROVE  replies' \in [RequestIds -> Nat]
BY DEF ClientTypes, Reply

LEMMA UntrackTyped ==
  ASSUME ClientTypes, NEW R, Untrack(R)
  PROVE  requestRouting' \in [RequestIds -> Servers \cup {None}]
BY DEF ClientTypes, Untrack

LEMMA ClientTypesStep ==
  ASSUME ClientTypes, [MessagesNext]_messagesVars
  PROVE  ClientTypes'
<1> USE DEF ClientTypes
<1>1. ASSUME NEW n \in RequestIds, ClientRequests(n) PROVE ClientTypes'
  <2>1. sent' \subseteq RequestIds
    BY <1>1 DEF ClientRequests, RejectReserved, RejectNotServing, RequestWritten, RequestHeld,
                RequestStarts, RequestRefused, Routes, Accepts, Sends
  <2>2. ASSUME AnswerWithError(n) PROVE ClientTypes'
    BY <2>1, <2>2, ReplyTyped DEF AnswerWithError
  <2>3. ASSUME NEW s \in Servers, Track(n, s)
        PROVE  requestRouting' \in [RequestIds -> Servers \cup {None}]
    BY <2>3 DEF Track
  <2>4. ASSUME NEW s \in Servers, RequestWritten(n, s) PROVE ClientTypes'
    BY <2>1, <2>3, <2>4 DEF RequestWritten
  <2>5. ASSUME NEW s \in Servers, RequestHeld(n, s) \/ RequestStarts(n, s) PROVE ClientTypes'
    BY <2>1, <2>3, <2>5 DEF RequestHeld, RequestStarts
  <2> QED BY <1>1, <2>2, <2>4, <2>5
          DEF ClientRequests, RejectReserved, RejectNotServing, RequestRefused
<1>2. ASSUME NEW n \in RequestIds, CancelRequest(n) PROVE ClientTypes'
  BY <1>2, ReplyTyped, UntrackTyped DEF CancelRequest, PendingErrors
<1>3. ASSUME NEW s \in Servers, NEW n \in RequestIds, ServerReplies(s, n) PROVE ClientTypes'
  BY <1>3, ReplyTyped, UntrackTyped DEF ServerReplies, PendingErrors
<1>4. ASSUME NEW s \in Servers, HoldsUntilUp(s) PROVE ClientTypes'
  BY <1>4 DEF HoldsUntilUp
<1>5. ASSUME NEW s \in Servers, PendingDie(s) PROVE ClientTypes'
  BY <1>5, ReplyTyped, UntrackTyped DEF PendingDie, PendingErrors
<1>6. ASSUME NEW s \in Servers, HeldAreRefused(s) PROVE ClientTypes'
  BY <1>6, ReplyTyped, UntrackTyped DEF HeldAreRefused, PendingErrors
<1>7. ASSUME Others \/ UNCHANGED messagesVars PROVE ClientTypes'
  BY <1>7 DEF Others, messagesVars, clientVars
<1> QED BY <1>1, <1>2, <1>3, <1>4, <1>5, <1>6, <1>7 DEF MessagesNext

-----------------------------------------------------------------------------
(* Where a request is: nowhere, or with the one server noted for it. *)

Has(n, s) == n \in held[s] \cup pending[s]

Fate(n) ==
  /\ n \notin sent => replies[n] = 0 /\ requestRouting[n] = None
  /\ \A s \in Servers : Has(n, s) => requestRouting[n] = s
  /\ requestRouting[n] # None => replies[n] = 0 /\ Has(n, requestRouting[n])
  /\ n \in sent /\ requestRouting[n] = None => replies[n] = 1

Fates == \A n \in RequestIds : Fate(n)

(* A server holds requests only while it may still come up, or when a shutdown
   stopped it while it might; it is asked nothing unless it runs. *)
Holding(s) ==
  /\ held[s] # {} => state[s] \in Starting \/ (state[s] = "stopped" /\ shutdownSent[s])
  /\ pending[s] # {} => state[s] = "running"

Holdings == \A s \in Servers : Holding(s)

Unreserved == \A s \in Servers : \A n \in held[s] \cup pending[s] : n \notin Reserved

ClientInv == ClientTypes /\ Fates /\ Holdings /\ Unreserved

LEMMA ClientInvInit == MessagesInit => ClientInv
<1> SUFFICES ASSUME MessagesInit PROVE ClientInv
  OBVIOUS
<1>1. ClientTypes
  BY ClientTypesInit
<1>2. Fates /\ Holdings /\ Unreserved
  BY DEF MessagesInit, Fates, Fate, Has, Holdings, Holding, Unreserved
<1> QED BY <1>1, <1>2 DEF ClientInv

(* The fates of the requests that are settled, and of the one that is sent. *)
LEMMA FatesOfTheSettled ==
  ASSUME ClientTypes, Fates, NEW R \in SUBSET RequestIds, PendingErrors(R), sent' = sent,
         \A n \in R : requestRouting[n] # None,
         \A n \in RequestIds, s \in Servers : Has(n, s)' <=> Has(n, s) /\ n \notin R
  PROVE  Fates'
<1> SUFFICES ASSUME NEW n \in RequestIds PROVE Fate(n)'
  BY DEF Fates
<1>1. replies'[n] = IF n \in R THEN replies[n] + 1 ELSE replies[n]
  BY DEF PendingErrors, Reply
<1>2. requestRouting'[n] = IF n \in R THEN None ELSE requestRouting[n]
  BY DEF PendingErrors, Untrack
<1>3. Fate(n) /\ requestRouting[n] \in Servers \cup {None}
  BY DEF Fates, ClientTypes
<1>4. \A s \in Servers : Has(n, s)' <=> Has(n, s) /\ n \notin R
  OBVIOUS
<1>5. CASE n \in R
  <2>1. requestRouting[n] # None
    BY <1>5
  <2> QED BY <1>1, <1>2, <1>3, <1>4, <1>5, <2>1 DEF Fate
<1>6. CASE n \notin R
  <2>1. replies'[n] = replies[n] /\ requestRouting'[n] = requestRouting[n]
    BY <1>1, <1>2, <1>6
  <2>2. \A s \in Servers : Has(n, s)' <=> Has(n, s)
    BY <1>4, <1>6
  <2> QED BY <1>3, <2>1, <2>2 DEF Fate
<1> QED BY <1>5, <1>6

LEMMA FatesOfTheRefused ==
  ASSUME ClientTypes, Fates, NEW n \in RequestIds, Sends(n), AnswerWithError(n)
  PROVE  Fates'
<1> SUFFICES ASSUME NEW k \in RequestIds PROVE Fate(k)'
  BY DEF Fates
<1>1. replies'[k] = IF k = n THEN replies[k] + 1 ELSE replies[k]
  BY DEF AnswerWithError, Reply
<1>2. n \notin sent /\ sent' = sent \cup {n} /\ UNCHANGED <<requestRouting, held, pending>>
  BY DEF AnswerWithError, Sends
<1>3. Fate(k)
  BY DEF Fates
<1> QED BY <1>1, <1>2, <1>3 DEF Fate, Has

LEMMA FatesOfThePlaced ==
  ASSUME ClientTypes, Fates, NEW n \in RequestIds, NEW s \in Servers, Sends(n), Track(n, s),
         replies' = replies,
         \A k \in RequestIds, t \in Servers : Has(k, t)' <=> Has(k, t) \/ (k = n /\ t = s)
  PROVE  Fates'
<1> SUFFICES ASSUME NEW k \in RequestIds PROVE Fate(k)'
  BY DEF Fates
<1>1. requestRouting'[k] = IF k = n THEN s ELSE requestRouting[k]
  BY DEF Track, ClientTypes
<1>2. n \notin sent /\ sent' = sent \cup {n}
  BY DEF Sends
<1>3. Fate(k) /\ requestRouting[k] \in Servers \cup {None}
  BY DEF Fates, ClientTypes
<1>4. \A t \in Servers : Has(k, t)' <=> Has(k, t) \/ (k = n /\ t = s)
  OBVIOUS
<1>5. CASE k = n
  <2>1. \A t \in Servers : ~Has(k, t)
    BY <1>2, <1>3, <1>5 DEF Fate
  <2> QED BY <1>1, <1>2, <1>3, <1>4, <1>5, <2>1 DEF Fate
<1>6. CASE k # n
  <2>1. \A t \in Servers : Has(k, t)' <=> Has(k, t)
    BY <1>4, <1>6
  <2> QED BY <1>1, <1>2, <1>3, <1>6, <2>1 DEF Fate
<1> QED BY <1>5, <1>6

LEMMA FatesKept ==
  ASSUME ClientTypes, Fates, UNCHANGED <<requestRouting, replies, sent>>,
         \A n \in RequestIds, s \in Servers : Has(n, s)' <=> Has(n, s)
  PROVE  Fates'
<1> SUFFICES ASSUME NEW n \in RequestIds PROVE Fate(n)'
  BY DEF Fates
<1>1. Fate(n) /\ requestRouting[n] \in Servers \cup {None}
  BY DEF Fates, ClientTypes
<1> QED BY <1>1 DEF Fate

(* Nobody is told of a request held where none can be held. *)
LEMMA HeldByOne ==
  ASSUME ClientInv, NEW n \in RequestIds, NEW s \in Servers, Has(n, s)
  PROVE  /\ requestRouting[n] = s /\ requestRouting[n] # None
         /\ \A t \in Servers : Has(n, t) => t = s
BY DEF ClientInv, Fates, Fate

LEMMA ClientInvStep ==
  ASSUME TypeOK, ClientInv, [MessagesNext]_messagesVars
  PROVE  ClientInv'
<1>0. ClientTypes'
  BY ClientTypesStep DEF ClientInv
<1> DEFINE Kept(s) == held'[s] = held[s] /\ pending'[s] = pending[s]
<1>1. /\ state \in [Servers -> {"idle", "running", "stopped"} \cup Starting]
      /\ shutdownSent \in [Servers -> BOOLEAN]
  BY DEF TypeOK
<1>2. /\ ClientTypes /\ Fates /\ Holdings /\ Unreserved
      /\ held \in [Servers -> SUBSET RequestIds] /\ pending \in [Servers -> SUBSET RequestIds]
  BY DEF ClientInv, ClientTypes
<1> SUFFICES Fates' /\ Holdings' /\ Unreserved'
  BY <1>0 DEF ClientInv
(* The requests. *)
<1>3. ASSUME NEW n \in RequestIds, Sends(n), AnswerWithError(n)
      PROVE  Fates' /\ Holdings' /\ Unreserved'
  <2>1. Fates'
    BY <1>2, <1>3, FatesOfTheRefused
  <2>2. Holdings' /\ Unreserved'
    BY <1>2, <1>3 DEF AnswerWithError, vars, lifeVars, Holdings, Holding, Unreserved
  <2> QED BY <2>1, <2>2
<1>4. ASSUME NEW n \in RequestIds, NEW s \in Servers, RequestWritten(n, s)
      PROVE  Fates' /\ Holdings' /\ Unreserved'
  <2>1. /\ Sends(n) /\ n \notin Reserved /\ Track(n, s) /\ UNCHANGED <<vars, held, replies>>
        /\ state[s] = "running" /\ pending' = [pending EXCEPT ![s] = @ \cup ({n} \ Reserved)]
    BY <1>4 DEF RequestWritten, Routes, Accepts
  <2>2. \A t \in Servers : pending'[t] = IF t = s THEN pending[t] \cup {n} ELSE pending[t]
    BY <1>2, <2>1
  <2>3. \A k \in RequestIds, t \in Servers : Has(k, t)' <=> Has(k, t) \/ (k = n /\ t = s)
    BY <2>1, <2>2 DEF Has
  <2>4. Fates'
    BY <1>2, <2>1, <2>3, FatesOfThePlaced
  <2>5. Holdings' /\ Unreserved'
    BY <1>2, <2>1, <2>2 DEF vars, lifeVars, Holdings, Holding, Unreserved
  <2> QED BY <2>4, <2>5
<1>5. ASSUME NEW n \in RequestIds, NEW s \in Servers, RequestHeld(n, s) \/ RequestStarts(n, s)
      PROVE  Fates' /\ Holdings' /\ Unreserved'
  <2>1. /\ Sends(n) /\ n \notin Reserved /\ Track(n, s) /\ UNCHANGED <<pending, replies>>
        /\ held' = [held EXCEPT ![s] = @ \cup {n}]
    BY <1>5 DEF RequestHeld, RequestStarts, Routes, Accepts
  <2>2. /\ UNCHANGED shutdownSent /\ state'[s] \in Starting
        /\ \A t \in Servers : t # s => state'[t] = state[t]
        /\ state[s] # "running"
    BY <1>1, <1>5 DEF RequestHeld, RequestStarts, StartLazily, Starting, vars, lifeVars
  <2>3. \A t \in Servers : held'[t] = IF t = s THEN held[t] \cup {n} ELSE held[t]
    BY <1>2, <2>1
  <2>4. \A k \in RequestIds, t \in Servers : Has(k, t)' <=> Has(k, t) \/ (k = n /\ t = s)
    BY <2>1, <2>3 DEF Has
  <2>5. Fates'
    BY <1>2, <2>1, <2>4, FatesOfThePlaced
  <2>6. Holdings'
    BY <1>2, <2>1, <2>2, <2>3 DEF Holdings, Holding
  <2>7. Unreserved'
    BY <1>2, <2>1, <2>3 DEF Unreserved
  <2> QED BY <2>5, <2>6, <2>7
<1>6. ASSUME NEW n \in RequestIds, ClientRequests(n) PROVE Fates' /\ Holdings' /\ Unreserved'
  <2>1. CASE Sends(n) /\ AnswerWithError(n)
    BY <2>1, <1>3
  <2> QED BY <1>4, <1>5, <1>6, <2>1 DEF ClientRequests, RejectReserved, RejectNotServing,
             RequestRefused, Routes, Accepts
(* The answers. *)
<1>7. ASSUME NEW n \in RequestIds, CancelRequest(n) PROVE Fates' /\ Holdings' /\ Unreserved'
  <2>1. /\ PendingErrors({n}) /\ UNCHANGED <<vars, pending, sent>>
        /\ held' = [t \in Servers |-> held[t] \ {n}]
    BY <1>7 DEF CancelRequest
  <2>2. PICK s \in Servers : n \in held[s]
    BY <1>7 DEF CancelRequest
  <2>3. requestRouting[n] # None /\ \A t \in Servers : Has(n, t) => t = s
    BY <2>2, HeldByOne DEF Has
  <2>4. \A t \in Servers : n \notin pending[t]
    <3>1. pending[s] = {}
      BY <1>2, <2>2 DEF Holdings, Holding, Starting
    <3> QED BY <2>3, <3>1 DEF Has
  <2>5. \A k \in RequestIds, t \in Servers : Has(k, t)' <=> Has(k, t) /\ k \notin {n}
    BY <2>1, <2>4 DEF Has
  <2>6. Fates'
    BY <1>2, <2>1, <2>3, <2>5, FatesOfTheSettled
  <2>7. Holdings' /\ Unreserved'
    BY <1>2, <2>1 DEF vars, lifeVars, Holdings, Holding, Unreserved
  <2> QED BY <2>6, <2>7
<1>8. ASSUME NEW s \in Servers, NEW n \in RequestIds, ServerReplies(s, n)
      PROVE  Fates' /\ Holdings' /\ Unreserved'
  <2>1. /\ PendingErrors({n}) /\ UNCHANGED <<vars, held, sent>>
        /\ pending' = [pending EXCEPT ![s] = @ \ {n}] /\ n \in pending[s]
        /\ state[s] = "running"
    BY <1>8 DEF ServerReplies
  <2>2. \A t \in Servers : pending'[t] = IF t = s THEN pending[t] \ {n} ELSE pending[t]
    BY <1>2, <2>1
  <2>3. requestRouting[n] # None /\ \A t \in Servers : Has(n, t) => t = s
    BY <2>1, HeldByOne DEF Has
  <2>4. held[s] = {}
    BY <1>2, <2>1 DEF Holdings, Holding, Starting
  <2>5. \A k \in RequestIds, t \in Servers : Has(k, t)' <=> Has(k, t) /\ k \notin {n}
    BY <2>1, <2>2, <2>3, <2>4 DEF Has
  <2>6. Fates'
    BY <1>2, <2>1, <2>3, <2>5, FatesOfTheSettled
  <2>7. Holdings' /\ Unreserved'
    BY <1>2, <2>1, <2>2 DEF vars, lifeVars, Holdings, Holding, Unreserved
  <2> QED BY <2>6, <2>7
(* The servers' lives. *)
<1>9. ASSUME NEW s \in Servers, HoldsUntilUp(s) PROVE Fates' /\ Holdings' /\ Unreserved'
  <2>1. /\ UNCHANGED <<requestRouting, sent, replies, shutdownSent>>
        /\ pending' = [pending EXCEPT ![s] = @ \cup (held[s] \ Reserved)]
        /\ held' = [held EXCEPT ![s] = {}] /\ state' = [state EXCEPT ![s] = "running"]
    BY <1>9 DEF HoldsUntilUp, ComesUp
  <2>2. held[s] \ Reserved = held[s]
    BY <1>2 DEF Unreserved
  <2>3. \A t \in Servers : /\ pending'[t] = IF t = s THEN pending[t] \cup held[t] ELSE pending[t]
                           /\ held'[t] = IF t = s THEN {} ELSE held[t]
                           /\ state'[t] = IF t = s THEN "running" ELSE state[t]
    BY <1>1, <1>2, <2>1, <2>2
  <2>4. \A k \in RequestIds, t \in Servers : Has(k, t)' <=> Has(k, t)
    BY <2>3 DEF Has
  <2>5. Fates'
    BY <1>2, <2>1, <2>4, FatesKept
  <2>6. Holdings'
    BY <1>2, <2>1, <2>3 DEF Holdings, Holding
  <2>7. Unreserved'
    BY <1>2, <2>3 DEF Unreserved
  <2> QED BY <2>5, <2>6, <2>7
<1>10. ASSUME NEW s \in Servers, PendingDie(s) PROVE Fates' /\ Holdings' /\ Unreserved'
  <2>1. /\ PendingErrors(pending[s]) /\ UNCHANGED <<held, sent, shutdownSent>>
        /\ pending' = [pending EXCEPT ![s] = {}] /\ state[s] = "running"
        /\ \A t \in Servers : t # s => state'[t] = state[t]
    BY <1>1, <1>10 DEF PendingDie, Crashes, ExitsAsAsked, ChildDies
  <2>2. \A t \in Servers : pending'[t] = IF t = s THEN {} ELSE pending[t]
    BY <1>2, <2>1
  <2>3. held[s] = {}
    BY <1>2, <2>1 DEF Holdings, Holding, Starting
  <2>4. \A n \in pending[s] : requestRouting[n] # None /\ \A t \in Servers : Has(n, t) => t = s
    BY <1>2, HeldByOne DEF Has
  <2>5. \A k \in RequestIds, t \in Servers : Has(k, t)' <=> Has(k, t) /\ k \notin pending[s]
    BY <2>1, <2>2, <2>3, <2>4 DEF Has
  <2>6. Fates'
    <3>1. pending[s] \in SUBSET RequestIds
      BY <1>2
    <3> QED BY <1>2, <2>1, <2>4, <2>5, <3>1, FatesOfTheSettled
  <2>7. Holdings' /\ Unreserved'
    BY <1>2, <2>1, <2>2, <2>3 DEF Holdings, Holding, Unreserved
  <2> QED BY <2>6, <2>7
<1>11. ASSUME NEW s \in Servers, HeldAreRefused(s) PROVE Fates' /\ Holdings' /\ Unreserved'
  <2>1. /\ held[s] \ Reserved = held[s]
        /\ PendingErrors(held[s] \ Reserved) /\ UNCHANGED <<pending, sent, shutdownSent>>
        /\ held' = [held EXCEPT ![s] = {}] /\ state[s] \in Starting
        /\ \A t \in Servers : t # s => state'[t] = state[t]
    BY <1>1, <1>2, <1>11 DEF HeldAreRefused, GivesUp, Unreserved
  <2>2. \A t \in Servers : held'[t] = IF t = s THEN {} ELSE held[t]
    BY <1>2, <2>1
  <2>3. pending[s] = {}
    BY <1>2, <2>1 DEF Holdings, Holding, Starting
  <2>4. \A n \in held[s] : requestRouting[n] # None /\ \A t \in Servers : Has(n, t) => t = s
    BY <1>2, HeldByOne DEF Has
  <2>5. \A k \in RequestIds, t \in Servers : Has(k, t)' <=> Has(k, t) /\ k \notin held[s]
    BY <2>1, <2>2, <2>3, <2>4 DEF Has
  <2>6. Fates'
    <3>1. held[s] \in SUBSET RequestIds
      BY <1>2
    <3> QED BY <1>2, <2>1, <2>4, <2>5, <3>1, FatesOfTheSettled
  <2>7. Holdings' /\ Unreserved'
    BY <1>2, <2>1, <2>2, <2>3 DEF Holdings, Holding, Unreserved
  <2> QED BY <2>6, <2>7
<1>12. ASSUME Others \/ UNCHANGED messagesVars PROVE Fates' /\ Holdings' /\ Unreserved'
  <2>1. UNCHANGED <<requestRouting, held, pending, sent, replies>>
    BY <1>12 DEF Others, messagesVars, clientVars
  <2>2. \A t \in Servers :
          /\ state[t] = "running" => state'[t] = "running"
          /\ state[t] \in Starting =>
               state'[t] \in Starting \/ (state'[t] = "stopped" /\ shutdownSent'[t])
          /\ state[t] = "stopped" /\ shutdownSent[t] => state'[t] = "stopped" /\ shutdownSent'[t]
    <3>1. CASE UNCHANGED lifeVars
      BY <3>1 DEF lifeVars
    <3>2. CASE \E s \in Servers : ShutdownServer(s)
      BY <1>1, <3>2 DEF ShutdownServer, Starting
    <3>3. CASE \E s \in Servers : StartLazily(s)
      BY <1>1, <3>3 DEF StartLazily, Starting
    <3>4. ASSUME NEW s \in Servers, ServerAsks(s) PROVE UNCHANGED lifeVars
      BY <3>4, StepIsAsking DEF Asks
    <3> QED BY <1>12, <3>1, <3>2, <3>3, <3>4 DEF Others, Initialize, Initialized, ClientShutdown,
               ShutdownEnds, ClientResponds, ClientAnswers, AnswerDropped, messagesVars, vars
  <2>3. Holdings'
    BY <1>2, <2>1, <2>2 DEF Holdings, Holding
  <2>4. Fates' /\ Unreserved'
    BY <1>2, <2>1, FatesKept DEF Has, Unreserved
  <2> QED BY <2>3, <2>4
<1> QED BY <1>6, <1>7, <1>8, <1>9, <1>10, <1>11, <1>12 DEF MessagesNext

(* Every request the client sends is answered once, or is with the one server the
   proxy has noted for it. *)
THEOREM EveryRequestHasItsFate == MessagesSpec => []ClientHears
<1>1. ClientInv => ClientHears
  <2> SUFFICES ASSUME ClientInv, NEW n \in sent
               PROVE  \/ /\ replies[n] = 1 /\ requestRouting[n] = None
                         /\ \A s \in Servers : n \notin held[s] \cup pending[s]
                      \/ /\ replies[n] = 0 /\ requestRouting[n] \in Servers
                         /\ With(n, requestRouting[n])
                         /\ \A s \in Servers : n \in held[s] \cup pending[s] => s = requestRouting[n]
    BY DEF ClientHears
  <2>1. n \in RequestIds /\ Fate(n) /\ requestRouting[n] \in Servers \cup {None}
    BY DEF ClientInv, ClientTypes, Fates
  <2>2. CASE requestRouting[n] = None
    BY <2>1, <2>2 DEF Fate, Has
  <2>3. CASE requestRouting[n] # None
    <3>1. requestRouting[n] \in Servers /\ replies[n] = 0 /\ Has(n, requestRouting[n])
      BY <2>1, <2>3 DEF Fate
    <3>2. With(n, requestRouting[n])
      BY <3>1 DEF Has, With, ClientInv, Holdings, Holding
    <3> QED BY <2>1, <3>1, <3>2 DEF Fate, Has
  <2> QED BY <2>2, <2>3
<1>2. MessagesInit => ClientInv
  BY ClientInvInit
<1>3. TypeOK /\ ClientInv /\ [MessagesNext]_messagesVars => ClientInv'
  BY ClientInvStep
<1>4. MessagesSpec => []TypeOK
  BY BothDirections, ServerRequestsTypeCorrect, PTL
<1> QED BY <1>1, <1>2, <1>3, <1>4, PTL DEF MessagesSpec

(* Every state of both directions is one its types describe. *)
THEOREM MessagesTypeCorrect == MessagesSpec => []MessagesTypeOK
<1>1. ClientTypes /\ [MessagesNext]_messagesVars => ClientTypes'
  BY ClientTypesStep
<1>2. MessagesSpec => []TypeOK
  BY BothDirections, ServerRequestsTypeCorrect, PTL
<1>3. TypeOK /\ ClientTypes => MessagesTypeOK
  BY DEF ClientTypes, MessagesTypeOK
<1>4. MessagesInit => ClientTypes
  BY ClientTypesInit
<1> QED BY <1>1, <1>2, <1>3, <1>4, PTL DEF MessagesSpec
=============================================================================
