----------------------------- MODULE Configuration -----------------------------
(***************************************************************************)
(* The configuration files (config.ts, config-schema.ts) and what          *)
(* bin/main.ts makes of them: they are loaded and checked once for the     *)
(* proxy, and loaded again, for the log level alone, whenever a watched    *)
(* file has changed.                                                       *)
(*                                                                         *)
(* The content of a file is a record of the fields it has, or it is Torn   *)
(* (no JSON), or there is no file. A load reads the two files one after    *)
(* the other, so a change may come in between, and nothing keeps a second  *)
(* load from beginning while the first one waits for the disk.             *)
(***************************************************************************)
EXTENDS Naturals, FiniteSets, SequencesExt, Functions

CONSTANTS
  Bases, Locals,  \* what the two files may hold
  Registered,     \* servers the registry knows
  Torn, NotObject, Missing,
  MaxEdits        \* bound: changes of the files

ASSUME ConfigurationAssumption == MaxEdits \in Nat

VARIABLES
  stage,      \* of main(): "loading", "servers", "serving", or its end
  files,      \* what is on the disk
  watched,    \* files whose changes are still reported
  raised,     \* files with a report that has not been taken up
  armed,      \* the debounce timer runs
  loads,      \* loads in progress: their number, and the base file once it is read
  begun,      \* loads begun so far; main's own is 0
  booted,     \* the configuration the proxy has been given
  level,      \* of the logger
  edits,      \* changes made, for the bound
  unseen,     \* changes that no load can know of: "early" ones, before the
              \* watches, and "late" ones
  last        \* the load that ended last

diskVars == <<files, watched, raised, edits>>
configVars ==
  <<stage, files, watched, raised, armed, loads, begun, booted, level, edits, unseen, last>>

FileNames == {"base", "local"}
Levels == {"DEBUG", "INFO", "WARN", "ERROR"}

ConfigInit ==
  /\ stage = "loading"
  /\ files \in [base : Bases, local : Locals]
  /\ watched = {} /\ raised = {} /\ armed = FALSE
  /\ loads = {[n |-> 0, base |-> Missing]} /\ begun = 0
  /\ booted = Missing /\ level = "INFO"
  /\ edits = 0 /\ unseen = {} /\ last = 0

-----------------------------------------------------------------------------
(* What the files say. *)

Field(c, name, default) == IF name \in DOMAIN c THEN c[name] ELSE default

(* deepMerge: a list of the local file replaces the base's. *)
Merged(base, local) ==
  IF Torn \in {base, local} THEN Torn
  ELSE IF local \in {Missing, NotObject} THEN base
  ELSE [f \in DOMAIN local \cup DOMAIN base |-> IF f \in DOMAIN local THEN local[f] ELSE base[f]]

BridgesOf(c) == Field(c, "bridges", <<>>)

(* What the two files may hold is either told apart or a record. *)
ASSUME ContentsAssumption ==
  /\ {NotObject, Missing} \cap Bases = {}
  /\ \A c \in (Bases \cup Locals) \ {Torn, NotObject, Missing} : DOMAIN BridgesOf(c) \subseteq Nat

(* Mutant: bridges are checked each for itself. *)
AcceptedOneByOne(c) ==
  /\ c # Torn
  /\ LET servers == Field(c, "servers", <<>>)
         bridges == BridgesOf(c)
     IN /\ servers # <<>> /\ IsInjective(servers)
        /\ \A b \in Range(bridges) : {b.from, b.to} \subseteq Range(servers) /\ b.from # b.to
  /\ Field(c, "logLevel", "INFO") \in Levels

(* ProxyConfigSchema. *)
Accepted(c) ==
  /\ c # Torn
  /\ LET servers == Field(c, "servers", <<>>)
         bridges == BridgesOf(c)
     IN /\ servers # <<>> /\ IsInjective(servers)
        /\ \A b \in Range(bridges) : {b.from, b.to} \subseteq Range(servers) /\ b.from # b.to
        /\ IsInjective([i \in DOMAIN bridges |-> bridges[i].from])
  /\ Field(c, "logLevel", "INFO") \in Levels

(* loadServerConfig: the server's own file, where there is one, goes on top of
   the registry's entry; a package must be installed unless the command is the
   file's. *)
Overrides == {Missing, Torn, "settings", "whole"}
ServerAccepted(server, override, installed) ==
  /\ override # Torn
  /\ server \in Registered \/ override = "whole"
  /\ server \in Registered \ installed => override = "whole"

-----------------------------------------------------------------------------
(* Loads. *)

ReadBase(l) ==
  /\ l.base = Missing
  /\ loads' = (loads \ {l}) \cup {[l EXCEPT !.base = files.base]}
  /\ UNCHANGED <<stage, diskVars, armed, begun, booted, level, unseen, last>>

(* The load of main(). What it throws ends the program. *)
Boot(c) ==
  /\ stage' = IF Accepted(c) THEN "servers" ELSE "fatal"
  /\ booted' = IF Accepted(c) THEN c ELSE Missing

(* A load ends: at the base file if that is torn, else once the local file is
   read. One that throws leaves the level alone; no field means INFO. *)
EndLoad(l) ==
  /\ l.base # Missing
  /\ loads' = loads \ {l} /\ last' = l.n
  /\ LET c == Merged(l.base, files.local)
     IN /\ level' = IF Accepted(c) THEN Field(c, "logLevel", "INFO") ELSE level
        /\ IF l.n = 0 THEN Boot(c) ELSE UNCHANGED <<stage, booted>>
  /\ UNCHANGED <<diskVars, armed, begun, unseen>>

(* The servers' own files, and then the watches: of the local file only if it
   is there by now. *)
LoadServers ==
  /\ stage = "servers"
  /\ \E override \in [Range(booted.servers) -> Overrides], installed \in SUBSET Registered :
       stage' = IF \A s \in Range(booted.servers) : ServerAccepted(s, override[s], installed)
                THEN "serving" ELSE "fatal"
  /\ watched' = IF stage' = "serving" THEN {f \in FileNames : files[f] # Missing} ELSE {}
  /\ UNCHANGED <<files, raised, edits, armed, loads, begun, booted, level, unseen, last>>

Ends ==
  /\ stage = "serving" /\ stage' = "exited"
  /\ watched' = {} /\ raised' = {} /\ armed' = FALSE
  /\ UNCHANGED <<files, edits, loads, begun, booted, level, unseen, last>>

(* Mutant: no timer is set while a load is under way. *)
ReloadUnlessBusy(f) ==
  /\ f \in raised /\ raised' = raised \ {f}
  /\ armed' = (armed \/ loads = {})
  /\ UNCHANGED <<stage, files, watched, edits, loads, begun, booted, level, unseen, last>>

Reload(f) ==
  /\ f \in raised /\ raised' = raised \ {f}
  /\ armed' = TRUE
  /\ UNCHANGED <<stage, files, watched, edits, loads, begun, booted, level, unseen, last>>

ApplyLatestLogLevel ==
  /\ armed /\ armed' = FALSE
  /\ begun' = begun + 1
  /\ loads' = loads \cup {[n |-> begun', base |-> Missing]}
  /\ unseen' = {}
  /\ UNCHANGED <<stage, diskVars, booted, level, last>>

-----------------------------------------------------------------------------
(* Changes of the files. *)

Changed(f, c) ==
  /\ stage \notin {"fatal", "exited"} /\ edits < MaxEdits
  /\ edits' = edits + 1
  /\ files' = [files EXCEPT ![f] = c]
  /\ raised' = IF f \in watched THEN raised \cup {f} ELSE raised
  /\ unseen' = IF f \in watched THEN unseen
               ELSE unseen \cup {IF stage = "serving" THEN "late" ELSE "early"}
  /\ UNCHANGED <<stage, armed, loads, begun, booted, level, last>>

Contents(f) == IF f = "base" THEN Bases ELSE Locals

WriteInPlace(f) ==
  /\ files[f] # Missing
  /\ \E c \in Contents(f) \ {Missing} : Changed(f, c)
  /\ UNCHANGED watched

(* A new file under the old name, as many editors save, or none. The watch was
   of the old one: it reports that it went and nothing more. *)
Replace(f) ==
  /\ \E c \in Contents(f) : Changed(f, c)
  /\ watched' = watched \ {f}

ConfigNext ==
  \/ LoadServers \/ Ends \/ ApplyLatestLogLevel
  \/ \E l \in loads : ReadBase(l) \/ EndLoad(l)
  \/ \E f \in FileNames : Reload(f) \/ WriteInPlace(f) \/ Replace(f)

ConfigSpec == ConfigInit /\ [][ConfigNext]_configVars

-----------------------------------------------------------------------------
(* Properties. *)

(* createBridgeRouter: a map from sources to targets, in which the last bridge
   of a source wins. *)
Target(from) ==
  LET bridges == BridgesOf(booted)
      index == CHOOSE i \in DOMAIN bridges :
                 bridges[i].from = from /\ \A j \in DOMAIN bridges : bridges[j].from = from => j <= i
  IN bridges[index].to

(* A proxy that serves routes every bridge of its configuration, each to another
   of its servers, whichever of the two files the servers and the bridges come
   from: no bridge replaces another in the router's map and none leads to a
   server that is not there. *)
EveryBridgeRoutes ==
  stage = "serving" =>
    \A b \in Range(BridgesOf(booted)) :
      Target(b.from) = b.to /\ b.to # b.from /\ {b.from, b.to} \subseteq Range(booted.servers)

(* No change is on its way to the logger. *)
Settled == stage = "serving" /\ raised = {} /\ ~armed /\ loads = {}

OnDisk == Merged(files.base, files.local)
LevelApplied == Accepted(OnDisk) => level = Field(OnDisk, "logLevel", "INFO")

(* Two things aside, the log level is what the files say once all is quiet: no
   change went unreported, and of the loads that ran at once the one that began
   last has ended last. The debounce loses no change, not one that comes while
   a load is between the two files. *)
LevelFollowsTheFiles == Settled /\ unseen = {} /\ last = begun => LevelApplied

(* What the documentation promises: the level is watched at run time, and
   changes apply without a restart. (One that comes before the proxy serves may
   be called too early.) *)
ChangesApply == Settled /\ "early" \notin unseen => LevelApplied
=============================================================================
