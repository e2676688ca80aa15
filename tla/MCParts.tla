------------------------------- MODULE MCParts -------------------------------
(***************************************************************************)
(* Five small parts of the proxy, none of which shares state with another: *)
(* the two pure algorithms, whose initial states are all inputs of a       *)
(* bounded size, the configuration files, the bridge and the restarts of a *)
(* server that keeps failing. A behaviour is of one of them; the others    *)
(* wait in an initial state, the failing server in its last one, where     *)
(* nothing is asked of its timers.                                         *)
(***************************************************************************)
EXTENDS Router, TextEdits, MCConfiguration, Bridge, CrashLoop

VARIABLE part

RouterIdle == config = [n \in 1..N |-> <<>>]
TextIdle == content = <<>> /\ client = <<>>
ConfigIdle == ConfigInit /\ files = [base |-> Torn, local |-> Missing]
LoopIdle ==
  /\ phase = "stopped" /\ attempt = 0 /\ retryIn = Off /\ refundIn = Off
  /\ upFor = 0 /\ spentAtUp = 0 /\ flaps = 0 /\ waited = 0

PartsInit ==
  \/ part = "router" /\ RouterInit /\ TextIdle /\ ConfigIdle /\ BridgeStart /\ LoopIdle
  \/ part = "text" /\ RouterIdle /\ TextInit /\ ConfigIdle /\ BridgeStart /\ LoopIdle
  \/ part = "configuration" /\ RouterIdle /\ TextIdle /\ ConfigInit /\ BridgeStart /\ LoopIdle
  \/ part = "bridge" /\ RouterIdle /\ TextIdle /\ ConfigIdle /\ BridgeStart /\ LoopIdle
  \/ part = "loop" /\ RouterIdle /\ TextIdle /\ ConfigIdle /\ BridgeStart /\ Init

PartsNext ==
  /\ \/ part = "text" /\ TextNext /\ UNCHANGED <<configVars, bridgeVars, vars>>
     \/ part = "configuration" /\ ConfigNext /\ UNCHANGED <<textVars, bridgeVars, vars>>
     \/ part = "bridge" /\ BridgeNext /\ UNCHANGED <<textVars, configVars, vars>>
     \/ part = "loop" /\ Next /\ UNCHANGED <<textVars, configVars, bridgeVars>>
  /\ UNCHANGED <<config, part>>

PartsSpec ==
  /\ PartsInit
  /\ [][PartsNext]_<<config, textVars, configVars, bridgeVars, vars, part>>
  /\ Fairness
=============================================================================
