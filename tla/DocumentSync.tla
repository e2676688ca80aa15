----------------------------- MODULE DocumentSync -----------------------------
(***************************************************************************)
(* The text of one document: what the client edits, what the proxy tracks, *)
(* what is on the disk, and what every server has been told                *)
(* (document-tracker.ts, version-offsets.ts, doc-sync.ts, and their uses   *)
(* in proxy.ts, client-messages.ts and workspace-watcher.ts).              *)
(*                                                                         *)
(* The proxy announces full document sync, so a text is a whole: a stamp   *)
(* taken when it was first written, by the client or on the disk, so that  *)
(* a newer text has a greater stamp. The client decides the versions. A    *)
(* server that is down gets its copy by replay when it comes up; that this *)
(* closes the gap left by the messages it missed is shown in ManagedServer *)
(* (DocumentsInStep).                                                      *)
(***************************************************************************)
EXTENDS Integers

CONSTANTS
  Servers,
  Routed,       \* the servers that the router gives for the document
  Versioning,   \* how the client numbers its versions
  MaxTexts,     \* bound: texts written, by the client or on the disk
  MaxVersion    \* bound: versions the client uses

ASSUME DocumentSyncAssumption ==
  /\ Routed \subseteq Servers
  /\ Versioning \in {"climbing", "restarting", "constant"}
  /\ MaxTexts \in Nat /\ MaxVersion \in Nat \ {0}

VARIABLES
  document,     \* the tracked document, or NoDoc
  offset,       \* the document's versionOffset
  clientText,   \* what the client's editor shows
  clientVersion,\* the last version the client used
  disk,         \* the text of the file, or Missing
  event,        \* a file event of this document waits for a flush
  resync,       \* the classification of an event in progress
  up,           \* servers that have finished their handshake
  copy,         \* each server's copy of the document
  texts,        \* number of texts written so far
  diskIsLatest, \* history: the disk was written after the client's last edit
  skipped       \* history: a resync gave up: too large, unreadable, or edited

trackedVars == <<document, offset>>
clientVars == <<clientText, clientVersion>>
serverVars == <<up, copy>>
fileVars == <<disk, event>>
vars == <<document, offset, clientText, clientVersion, disk, event, resync, up, copy,
          texts, diskIsLatest, skipped>>

Texts == 0..MaxTexts
Missing == -1
NoDoc == [version |-> 0, text |-> Missing]
Versions == 1..MaxVersion
Documents == [version : Versions, text : Texts]
Open == document # NoDoc

(* The phases of classifyEvent and resyncTrackedFile between their awaits:
   the file is looked up, then read, then what was read is put in place. *)
Idle == [phase |-> "idle", tracked |-> NoDoc, text |-> Missing]
LookingUp == [phase |-> "lookup", tracked |-> NoDoc, text |-> Missing]
Reading(tracked) == [phase |-> "reading", tracked |-> tracked, text |-> Missing]
HasRead(text) == [phase |-> "read", tracked |-> resync.tracked, text |-> text]

TypeOK ==
  /\ document \in Documents \cup {NoDoc} /\ offset \in Nat
  /\ clientText \in Texts /\ clientVersion \in 0..MaxVersion
  /\ disk \in Texts \cup {Missing} /\ event \in BOOLEAN
  /\ resync \in [phase : {"idle", "lookup", "reading", "read"},
                 tracked : Documents \cup {NoDoc}, text : Texts \cup {Missing}]
  /\ up \in [Servers -> BOOLEAN]
  /\ copy \in [Servers -> [version : Nat, text : Texts \cup {Missing}]]
  /\ texts \in Texts /\ diskIsLatest \in BOOLEAN /\ skipped \in BOOLEAN

Init ==
  /\ document = NoDoc /\ offset = 0 /\ clientText = 0 /\ clientVersion = 0
  /\ disk = 0 /\ event = FALSE /\ resync = Idle
  /\ up = [s \in Servers |-> FALSE] /\ copy = [s \in Servers |-> NoDoc]
  /\ texts = 0 /\ diskIsLatest = TRUE /\ skipped = FALSE

NewText(text) == texts < MaxTexts /\ text = texts + 1 /\ texts' = text

(* What the servers are to know of the tracked document. *)
AtServerVersion(doc, off) ==
  IF doc = NoDoc THEN NoDoc ELSE [version |-> doc.version + off, text |-> doc.text]

(* A message for the document goes to the servers routed to it that are up. *)
SendRouted(doc) == copy' = [s \in Servers |-> IF up[s] /\ s \in Routed THEN doc ELSE copy[s]]

(* Mutant: a client's change is sent on with the client's own version. *)
ForwardUnshifted(doc, off) == SendRouted(doc)

(* rewriteDocSyncVersion on the way out. *)
Forward(doc, off) == SendRouted(AtServerVersion(doc, off))

-----------------------------------------------------------------------------
(* The client. The tracker and the offset are updated before the servers     *)
(* are sent anything.                                                        *)

NextVersion(version, opening) ==
  /\ version \in Versions
  /\ version = IF Versioning = "constant" \/ (Versioning = "restarting" /\ opening)
               THEN 1 ELSE clientVersion + 1

(* didOpen, with what the client has read from the disk or an unsaved text.
   The client's version is authoritative again. *)
DidOpen ==
  /\ ~Open
  /\ \E version \in Versions, text \in Texts :
       /\ NextVersion(version, TRUE)
       /\ NewText(text) \/ (text = disk /\ UNCHANGED texts)
       /\ document' = [version |-> version, text |-> text]
       /\ clientText' = text /\ clientVersion' = version
       /\ diskIsLatest' = (text = disk)
  /\ offset' = 0
  /\ Forward(document', 0)
  /\ UNCHANGED <<fileVars, resync, up, skipped>>

DidChange ==
  /\ Open
  /\ \E version \in Versions, text \in Texts :
       /\ NextVersion(version, FALSE) /\ NewText(text)
       /\ document' = [version |-> version, text |-> text]
       /\ clientText' = text /\ clientVersion' = version
  /\ diskIsLatest' = FALSE
  /\ Forward(document', offset)
  /\ UNCHANGED <<offset, fileVars, resync, up, skipped>>

DidClose ==
  /\ Open
  /\ document' = NoDoc /\ offset' = 0
  /\ Forward(NoDoc, 0)
  /\ UNCHANGED <<clientVars, fileVars, resync, up, texts, diskIsLatest, skipped>>

(* The client saves its text: a write like any other to the watcher. *)
Save ==
  /\ Open
  /\ disk' = clientText /\ event' = TRUE /\ diskIsLatest' = TRUE
  /\ UNCHANGED <<trackedVars, clientVars, resync, serverVars, texts, skipped>>

-----------------------------------------------------------------------------
(* The disk and the watcher. Flushes do not overlap, so at most one           *)
(* classification is in progress.                                             *)

ExternalWrite ==
  /\ \E text \in Texts : NewText(text) /\ disk' = text
  /\ event' = TRUE /\ diskIsLatest' = TRUE
  /\ UNCHANGED <<trackedVars, clientVars, resync, serverVars, skipped>>

ExternalDelete ==
  /\ disk # Missing /\ disk' = Missing
  /\ event' = TRUE
  /\ UNCHANGED <<trackedVars, clientVars, resync, serverVars, texts, diskIsLatest, skipped>>

(* classifyEvent takes the event. A file that is not open has no text to keep. *)
ClassifyBegins ==
  /\ resync = Idle /\ event /\ event' = FALSE
  /\ resync' = IF Open THEN LookingUp ELSE Idle
  /\ skipped' = FALSE
  /\ UNCHANGED <<trackedVars, clientVars, disk, serverVars, texts, diskIsLatest>>

(* The file was found: the tracked document is remembered, the read begins. *)
ResyncBegins ==
  /\ resync = LookingUp
  /\ resync' = IF disk = Missing \/ ~Open THEN Idle ELSE Reading(document)
  /\ UNCHANGED <<trackedVars, clientVars, fileVars, serverVars, texts, diskIsLatest, skipped>>

ResyncReads ==
  /\ resync.phase = "reading" /\ disk # Missing
  /\ resync' = HasRead(disk)
  /\ UNCHANGED <<trackedVars, clientVars, fileVars, serverVars, texts, diskIsLatest, skipped>>

(* Too large, unreadable, or gone meanwhile. *)
ResyncGivesUp ==
  /\ resync.phase = "reading" /\ resync' = Idle /\ skipped' = TRUE
  /\ UNCHANGED <<trackedVars, clientVars, fileVars, serverVars, texts, diskIsLatest>>

(* Mutant: what was tracked when the read began is taken to be tracked still. *)
UntouchedUnlessClosed == Open

(* The client has not changed the document during the read: all that is
   compared is the version. *)
Untouched == Open /\ document.version = resync.tracked.version

(* Mutant: events that arrived since the read began are dropped with its own. *)
ResyncSkipsAll ==
  /\ resync.phase = "read"
  /\ resync.text = resync.tracked.text \/ ~Untouched
  /\ resync' = Idle /\ event' = FALSE
  /\ skipped' = (resync.text # resync.tracked.text)
  /\ UNCHANGED <<trackedVars, clientVars, disk, serverVars, texts, diskIsLatest>>

ResyncSkips ==
  /\ resync.phase = "read"
  /\ resync.text = resync.tracked.text \/ ~Untouched
  /\ resync' = Idle
  /\ skipped' = (resync.text # resync.tracked.text)
  /\ UNCHANGED <<trackedVars, clientVars, fileVars, serverVars, texts, diskIsLatest>>

(* Mutant: the offset is not advanced. *)
ResyncInPlace ==
  /\ resync.phase = "read" /\ resync.text # resync.tracked.text /\ Untouched
  /\ resync' = Idle
  /\ document' = [version |-> document.version, text |-> resync.text]
  /\ Forward(document', offset)
  /\ UNCHANGED <<offset, clientVars, fileVars, up, texts, diskIsLatest, skipped>>

(* The tracked text is replaced at the client's version, and the servers are
   sent the change one version further on. *)
ResyncReplaces ==
  /\ resync.phase = "read" /\ resync.text # resync.tracked.text /\ Untouched
  /\ resync' = Idle
  /\ document' = [version |-> document.version, text |-> resync.text]
  /\ offset' = offset + 1
  /\ Forward(document', offset')
  /\ UNCHANGED <<clientVars, fileVars, up, texts, diskIsLatest, skipped>>

-----------------------------------------------------------------------------
(* Servers. *)

Crash(s) ==
  /\ up[s] /\ up' = [up EXCEPT ![s] = FALSE]
  /\ copy' = [copy EXCEPT ![s] = NoDoc]
  /\ UNCHANGED <<trackedVars, clientVars, fileVars, resync, texts, diskIsLatest, skipped>>

(* Mutant: documents are replayed at the client's versions. *)
ReplayedUnshifted == document

(* applyToDocuments: what a server that comes up is replayed. *)
Replayed == AtServerVersion(document, offset)

(* Every tracked document is replayed to every server that comes up. *)
ComesUp(s) ==
  /\ ~up[s] /\ up' = [up EXCEPT ![s] = TRUE]
  /\ copy' = [copy EXCEPT ![s] = Replayed]
  /\ UNCHANGED <<trackedVars, clientVars, fileVars, resync, texts, diskIsLatest, skipped>>

Next ==
  \/ DidOpen \/ DidChange \/ DidClose \/ Save
  \/ ExternalWrite \/ ExternalDelete
  \/ ClassifyBegins \/ ResyncBegins \/ ResyncReads \/ ResyncGivesUp
  \/ ResyncSkips \/ ResyncReplaces
  \/ \E s \in Servers : Crash(s) \/ ComesUp(s)

Spec == Init /\ [][Next]_vars

-----------------------------------------------------------------------------
(* Properties. *)

(* Every server that handles the document and is up has the tracked text, at
   the tracked version plus the offset: whatever crashes, resyncs and edits
   came in what order, a replayed server and one that saw it all agree. *)
CopiesInStep ==
  \A s \in Routed : up[s] => copy[s] = AtServerVersion(document, offset)

(* Between an open and a close, a server sees versions strictly increase,
   also when resyncs and the client's own changes alternate. *)
VersionsClimb ==
  [][\A s \in Servers :
       copy[s] # NoDoc /\ copy'[s] # NoDoc /\ copy'[s] # copy[s]
         => copy'[s].version > copy[s].version]_vars

Replaces == resync.phase = "read" /\ document' # document /\ resync' # resync

(* A resync only ever replaces the very document its read began with: an edit
   that arrives while the file is being read is not undone. *)
EditsDuringReadKept == [][Replaces => document = resync.tracked]_vars

(* Once all events of the file are through, an open document that was written
   on the disk last has the text of the disk, wherever between the awaits of a
   resync the writes fell. *)
ConvergesToDisk ==
  Open /\ disk # Missing /\ diskIsLatest /\ ~skipped /\ ~event /\ resync = Idle
    => document.text = disk
=============================================================================
