-------------------------------- MODULE Bridge --------------------------------
(***************************************************************************)
(* Requests of one server that another one answers (bridge.ts): the source *)
(* sends a notification with an id and holds a handler open for it; the    *)
(* proxy runs the command on the target, as a request of its own, and      *)
(* sends the body back in a notification with that id.                     *)
(*                                                                         *)
(* The source sends what its library sends, so nothing malformed. It asks  *)
(* only while it runs, and its handlers die with it: an answer that waits  *)
(* in the buffer of a restarting source has nobody to wait for it.         *)
(***************************************************************************)
EXTENDS Naturals, FiniteSets

CONSTANTS
  MaxAsked,     \* bound: requests of one child of the source
  MaxLives      \* bound: children of each server

ASSUME BridgeAssumption == MaxAsked \in Nat /\ MaxLives \in Nat \ {0}

VARIABLES
  source, life,         \* the state of the source, and its number of children
  asked,                \* requests this child has made; ids are counted per child
  handlers,             \* ids it holds a handler open for
  target, targetLife,   \* the state of the target, and its number of children
  calls                 \* executeCommand requests in progress

sourceVars == <<source, life, asked>>
targetVars == <<target, targetLife>>
bridgeVars == <<source, life, asked, handlers, target, targetLife, calls>>

Ids == 1..MaxAsked
Outcomes == {"none", "body", "nothing"}

BridgeTypeOK ==
  /\ source \in {"running", "restarting", "stopped"} /\ life \in 1..MaxLives
  /\ asked \in 0..MaxAsked /\ handlers \in SUBSET Ids
  /\ target \in {"idle", "starting", "running", "restarting", "stopped"}
  /\ targetLife \in 0..MaxLives
  /\ calls \in SUBSET [id : Ids, life : 1..MaxLives, outcome : Outcomes]

BridgeStart ==
  /\ source = "running" /\ life = 1 /\ asked = 0 /\ handlers = {}
  /\ target = "idle" /\ targetLife = 0 /\ calls = {}

(* Continuations run before the next handler. *)
Quiet == \A c \in calls : c.outcome = "none"

-----------------------------------------------------------------------------

(* A command for an idle target starts it. *)
Started == IF target = "idle" THEN "starting" ELSE target

(* What is known of a command once it is handed over: a target that is stopped
   fails it at once, and so does one on its way up whose buffer is full. *)
Delivery ==
  IF target = "stopped" THEN {"nothing"}
  ELSE IF target \in {"starting", "restarting"} THEN {"none", "nothing"}
  ELSE {"none"}

(* tsserver/request. *)
Ask ==
  /\ Quiet /\ source = "running" /\ asked < MaxAsked
  /\ asked' = asked + 1 /\ handlers' = handlers \cup {asked'}
  /\ target' = Started
  /\ \E outcome \in Delivery :
       calls' = calls \cup {[id |-> asked', life |-> life, outcome |-> outcome]}
  /\ UNCHANGED <<source, life, targetLife>>

Settle(c, outcome) == calls' = (calls \ {c}) \cup {[c EXCEPT !.outcome = outcome]}

(* The target's result; one that cannot be read, or an error, has no body. *)
CommandAnswered(c) ==
  /\ Quiet /\ target = "running"
  /\ \E outcome \in {"body", "nothing"} : Settle(c, outcome)
  /\ UNCHANGED <<sourceVars, handlers, targetVars>>

CommandTimesOut(c) ==
  /\ Quiet /\ Settle(c, "nothing")
  /\ UNCHANGED <<sourceVars, handlers, targetVars>>

(* Mutant: only what has a body is answered. *)
RespondWithBody(c) ==
  /\ c.outcome # "none" /\ calls' = calls \ {c}
  /\ handlers' = IF source = "running" /\ c.outcome = "body" THEN handlers \ {c.id} ELSE handlers
  /\ UNCHANGED <<sourceVars, targetVars>>

(* tsserver/response: an empty body is answered like any other. The source is
   looked up by name, so it is its present child that is answered. *)
Respond(c) ==
  /\ c.outcome # "none" /\ calls' = calls \ {c}
  /\ handlers' = IF source = "running" THEN handlers \ {c.id} ELSE handlers
  /\ UNCHANGED <<sourceVars, targetVars>>

(* rejectAll, of the target's request channel. *)
RejectAll ==
  calls' = {IF c.outcome = "none" THEN [c EXCEPT !.outcome = "nothing"] ELSE c : c \in calls}

TargetComesUp ==
  /\ Quiet /\ target \in {"starting", "restarting"} /\ targetLife < MaxLives
  /\ target' = "running" /\ targetLife' = targetLife + 1
  /\ UNCHANGED <<sourceVars, handlers, calls>>

TargetCrashes ==
  /\ Quiet /\ target = "running" /\ target' = "restarting"
  /\ RejectAll
  /\ UNCHANGED <<sourceVars, handlers, targetLife>>

TargetGivesUp ==
  /\ Quiet /\ target \in {"starting", "restarting"} /\ target' = "stopped"
  /\ RejectAll
  /\ UNCHANGED <<sourceVars, handlers, targetLife>>

SourceCrashes ==
  /\ Quiet /\ source = "running" /\ source' = "restarting"
  /\ handlers' = {}
  /\ UNCHANGED <<life, asked, targetVars, calls>>

SourceComesUp ==
  /\ Quiet /\ source = "restarting" /\ life < MaxLives
  /\ source' = "running" /\ life' = life + 1 /\ asked' = 0
  /\ UNCHANGED <<handlers, targetVars, calls>>

SourceGivesUp ==
  /\ Quiet /\ source = "restarting" /\ source' = "stopped"
  /\ UNCHANGED <<life, asked, handlers, targetVars, calls>>

BridgeNext ==
  \/ Ask \/ TargetComesUp \/ TargetCrashes \/ TargetGivesUp
  \/ SourceCrashes \/ SourceComesUp \/ SourceGivesUp
  \/ \E c \in calls : CommandAnswered(c) \/ CommandTimesOut(c) \/ Respond(c)

BridgeSpec == BridgeStart /\ [][BridgeNext]_bridgeVars

-----------------------------------------------------------------------------
(* Properties. *)

(* The source server holds a handler open for every id it sends, and none is
   stranded: while it is open its own request is still being worked on, by a
   target that runs or is on its way up, though both servers crash and answers
   to an earlier child come late. *)
NoHandlerStranded ==
  \A id \in handlers :
    \E c \in calls : /\ c.id = id /\ c.life = life
                     /\ c.outcome = "none" => target \notin {"idle", "stopped"}
=============================================================================
