-------------------------- MODULE DocumentSync_proofs --------------------------
(***************************************************************************)
(* Proofs about DocumentSync, for any servers, any routing and any bounds. *)
(* What the versions promise needs a client that counts them: CopiesInStep *)
(* and ConvergesToDisk hold for every client, VersionsClimb and            *)
(* EditsDuringReadKept for one whose versions climb.                       *)
(***************************************************************************)
EXTENDS DocumentSync, TLAPS

(* What a server is sent is a document, or none. *)
LEMMA ServerVersionType ==
  ASSUME NEW doc \in Documents \cup {NoDoc}, NEW off \in Nat
  PROVE  /\ AtServerVersion(doc, off) \in [version : Nat, text : Texts \cup {Missing}]
         /\ doc = NoDoc => AtServerVersion(doc, off) = NoDoc
         /\ doc # NoDoc => /\ AtServerVersion(doc, off) # NoDoc
                           /\ AtServerVersion(doc, off).version = doc.version + off
BY DocumentSyncAssumption DEF AtServerVersion, Documents, NoDoc, Versions, Texts, Missing

(* The tracked text, the phases of a resync and the client's version. *)
TrackedOK ==
  /\ document \in Documents \cup {NoDoc} /\ offset \in Nat
  /\ clientText \in Texts /\ clientVersion \in 0..MaxVersion
  /\ disk \in Texts \cup {Missing} /\ event \in BOOLEAN
  /\ texts \in Texts /\ diskIsLatest \in BOOLEAN /\ skipped \in BOOLEAN
  /\ Open => document.version = clientVersion

ResyncOK ==
  /\ resync \in [phase : {"idle", "lookup", "reading", "read"},
                 tracked : Documents \cup {NoDoc}, text : Texts \cup {Missing}]
  /\ resync.phase = "idle" => resync = Idle
  /\ resync.phase = "lookup" => resync = LookingUp
  /\ resync.phase \in {"reading", "read"} => resync.tracked # NoDoc
  /\ resync.phase = "read" => resync.text # Missing

ServersOK ==
  /\ up \in [Servers -> BOOLEAN]
  /\ copy \in [Servers -> [version : Nat, text : Texts \cup {Missing}]]
  /\ \A s \in Servers : ~up[s] => copy[s] = NoDoc

(* The inductive invariant behind CopiesInStep and the types. *)
SyncInv == TrackedOK /\ ResyncOK /\ ServersOK /\ CopiesInStep

-----------------------------------------------------------------------------

(* A message to the routed servers leaves all of those that are up with what
   it says, and the others as they were. *)
LEMMA ForwardReaches ==
  ASSUME NEW doc \in Documents \cup {NoDoc}, NEW off \in Nat,
         ServersOK, Forward(doc, off), up' = up
  PROVE  /\ ServersOK'
         /\ \A s \in Routed : up[s] => copy'[s] = AtServerVersion(doc, off)
<1> DEFINE sent == AtServerVersion(doc, off)
<1>1. sent \in [version : Nat, text : Texts \cup {Missing}]
  BY ServerVersionType
<1>2. copy' = [s \in Servers |-> IF up[s] /\ s \in Routed THEN sent ELSE copy[s]]
  BY DEF Forward, SendRouted
<1> HIDE DEF sent
<1>3. ServersOK'
  BY <1>1, <1>2 DEF ServersOK
<1>4. \A s \in Routed : up[s] => copy'[s] = sent
  BY <1>2, DocumentSyncAssumption
<1> QED BY <1>3, <1>4 DEF sent

LEMMA InitSyncInv == Init => SyncInv
<1> SUFFICES ASSUME Init PROVE SyncInv
  OBVIOUS
<1> USE DocumentSyncAssumption DEF Init
<1>1. TrackedOK
  <2>1. document \in Documents \cup {NoDoc} /\ ~Open
    BY DEF Open
  <2>2. /\ offset \in Nat /\ clientText \in Texts /\ clientVersion \in 0..MaxVersion
        /\ disk \in Texts \cup {Missing} /\ texts \in Texts
    BY DEF Texts
  <2> QED BY <2>1, <2>2 DEF TrackedOK
<1>2. ResyncOK
  BY DEF ResyncOK, Idle, NoDoc, Missing, Texts
<1>3. ServersOK
  BY DEF ServersOK, NoDoc, Missing
<1>4. CopiesInStep
  BY DEF CopiesInStep
<1> QED BY <1>1, <1>2, <1>3, <1>4 DEF SyncInv

(* The tracker and the client: every action keeps them in shape. *)
LEMMA TrackedStep == SyncInv /\ [Next]_vars => TrackedOK'
<1> SUFFICES ASSUME SyncInv, [Next]_vars PROVE TrackedOK'
  OBVIOUS
<1> USE DEF SyncInv, TrackedOK, trackedVars, clientVars, serverVars, fileVars
<1>1. CASE DidOpen
  BY <1>1, DocumentSyncAssumption
     DEF DidOpen, NextVersion, NewText, Open, NoDoc, Missing, Documents, Texts, Versions
<1>2. CASE DidChange
  <2>1. PICK version \in Versions, text \in Texts :
          /\ NewText(text)
          /\ document' = [version |-> version, text |-> text]
          /\ clientText' = text /\ clientVersion' = version
    BY <1>2 DEF DidChange
  <2>2. /\ document' \in Documents /\ document'.version = clientVersion'
        /\ clientText' \in Texts /\ clientVersion' \in 0..MaxVersion /\ texts' \in Texts
    BY <2>1, DocumentSyncAssumption DEF NewText, Documents, Versions
  <2>3. /\ offset' = offset /\ disk' = disk /\ event' = event
        /\ diskIsLatest' = FALSE /\ skipped' = skipped
    BY <1>2 DEF DidChange
  <2> QED BY <2>2, <2>3
<1>3. CASE DidClose
  BY <1>3 DEF DidClose, Open
<1>4. CASE Save
  BY <1>4 DEF Save, Open
<1>5. CASE ExternalWrite
  BY <1>5 DEF ExternalWrite, NewText, Open
<1>6. CASE ExternalDelete
  BY <1>6 DEF ExternalDelete, Open
<1>7. CASE ClassifyBegins \/ ResyncBegins \/ ResyncReads \/ ResyncGivesUp \/ ResyncSkips
  BY <1>7 DEF ClassifyBegins, ResyncBegins, ResyncReads, ResyncGivesUp, ResyncSkips, Open
<1>8. CASE ResyncReplaces
  BY <1>8 DEF ResyncReplaces, ResyncOK, Untouched, Open, NoDoc, Missing, Documents, Texts, Versions
<1>9. CASE \E s \in Servers : Crash(s) \/ ComesUp(s)
  BY <1>9 DEF Crash, ComesUp, Open
<1>10. CASE UNCHANGED vars
  BY <1>10 DEF vars, Open
<1> QED BY <1>1, <1>2, <1>3, <1>4, <1>5, <1>6, <1>7, <1>8, <1>9, <1>10 DEF Next

(* A resync remembers a document from its second phase on, a text in its last. *)
LEMMA ResyncStep == SyncInv /\ [Next]_vars => ResyncOK'
<1> SUFFICES ASSUME SyncInv, [Next]_vars PROVE ResyncOK'
  OBVIOUS
<1> USE DEF SyncInv, TrackedOK, ResyncOK, Idle, LookingUp, Reading, HasRead
<1>1. CASE ClassifyBegins
  BY <1>1 DEF ClassifyBegins, NoDoc, Missing
<1>2. CASE ResyncBegins
  BY <1>2 DEF ResyncBegins, Open
<1>3. CASE ResyncReads
  BY <1>3 DEF ResyncReads
<1>4. CASE ResyncGivesUp \/ ResyncSkips \/ ResyncReplaces
  BY <1>4 DEF ResyncGivesUp, ResyncSkips, ResyncReplaces, NoDoc
<1>5. CASE UNCHANGED resync
  BY <1>5
<1> QED BY <1>1, <1>2, <1>3, <1>4, <1>5
        DEF Next, vars, DidOpen, DidChange, DidClose, Save, ExternalWrite, ExternalDelete,
            Crash, ComesUp

(* Whatever is sent, replayed or lost, the servers agree with the tracker. *)
LEMMA ServersStep == SyncInv /\ [Next]_vars => ServersOK' /\ CopiesInStep'
<1> SUFFICES ASSUME SyncInv, [Next]_vars PROVE ServersOK' /\ CopiesInStep'
  OBVIOUS
<1>0. TrackedOK'
  BY TrackedStep
<1>1. CASE /\ document' \in Documents \cup {NoDoc}
           /\ offset' \in Nat
           /\ Forward(document', offset')
           /\ up' = up
  BY <1>1, ForwardReaches DEF SyncInv, CopiesInStep
<1>2. ASSUME DidOpen \/ DidChange \/ DidClose \/ ResyncReplaces
      PROVE  Forward(document', offset') /\ up' = up
  BY <1>2 DEF DidOpen, DidChange, DidClose, ResyncReplaces
<1>3. ASSUME NEW s \in Servers, Crash(s) PROVE ServersOK' /\ CopiesInStep'
  <2>1. ServersOK'
    BY <1>3 DEF Crash, SyncInv, ServersOK, NoDoc, Missing
  <2>2. CopiesInStep'
    BY <1>3, DocumentSyncAssumption DEF Crash, SyncInv, ServersOK, CopiesInStep, trackedVars
  <2> QED BY <2>1, <2>2
<1>4. ASSUME NEW s \in Servers, ComesUp(s) PROVE ServersOK' /\ CopiesInStep'
  <2> DEFINE sent == AtServerVersion(document, offset)
  <2>1. sent \in [version : Nat, text : Texts \cup {Missing}]
    BY ServerVersionType DEF SyncInv, TrackedOK
  <2>2. /\ up' = [up EXCEPT ![s] = TRUE]
        /\ copy' = [copy EXCEPT ![s] = sent]
        /\ document' = document /\ offset' = offset
    BY <1>4 DEF ComesUp, Replayed, trackedVars
  <2>3. AtServerVersion(document, offset)' = sent
    BY <2>2
  <2> HIDE DEF sent
  <2>4. ServersOK'
    BY <2>1, <2>2 DEF SyncInv, ServersOK
  <2>5. ASSUME NEW t \in Routed, up'[t] PROVE copy'[t] = sent
    <3>1. CASE t = s
      BY <3>1, <2>2, DocumentSyncAssumption DEF SyncInv, ServersOK
    <3>2. CASE t # s
      BY <3>2, <2>2, <2>5, DocumentSyncAssumption DEF SyncInv, ServersOK, CopiesInStep, sent
    <3> QED BY <3>1, <3>2
  <2>6. CopiesInStep'
    BY <2>3, <2>5 DEF CopiesInStep
  <2> QED BY <2>4, <2>6
<1>5. CASE UNCHANGED <<trackedVars, serverVars>>
  BY <1>5 DEF SyncInv, ServersOK, CopiesInStep, trackedVars, serverVars
<1>6. CASE Next
  BY <1>6, <1>0, <1>1, <1>2, <1>3, <1>4, <1>5
     DEF Next, TrackedOK, Save, ExternalWrite, ExternalDelete, ClassifyBegins, ResyncBegins,
         ResyncReads, ResyncGivesUp, ResyncSkips, serverVars
<1>7. CASE UNCHANGED vars
  BY <1>7, <1>5 DEF vars, trackedVars, serverVars
<1> QED BY <1>6, <1>7

(* The tracker, the resync in progress and the servers stay consistent, for
   every client and every order of edits, file events, crashes and restarts. *)
THEOREM SyncInvariant == Spec => []SyncInv
<1>1. SyncInv /\ [Next]_vars => SyncInv'
  BY TrackedStep, ResyncStep, ServersStep DEF SyncInv
<1> QED BY <1>1, InitSyncInv, PTL DEF Spec

(* The types of DocumentSync. *)
THEOREM DocumentSyncTypeCorrect == Spec => []TypeOK
<1>1. SyncInv => TypeOK
  BY DEF SyncInv, TrackedOK, ResyncOK, ServersOK, TypeOK
<1> QED BY <1>1, SyncInvariant, PTL

(* Every routed server that is up has the tracked text at the version the
   offset gives, whatever client, for any number of servers. *)
THEOREM ServersAgree == Spec => []CopiesInStep
<1>1. SyncInv => CopiesInStep
  BY DEF SyncInv
<1> QED BY <1>1, SyncInvariant, PTL

-----------------------------------------------------------------------------

(* The servers that see the document change are the routed ones that are up;
   what they held before is what CopiesInStep says. *)
LEMMA ChangeClimbs ==
  ASSUME Versioning # "constant", SyncInv, SyncInv', Next, NEW s \in Servers,
         copy[s] # NoDoc, copy'[s] # NoDoc, copy'[s] # copy[s]
  PROVE  copy'[s].version > copy[s].version
<1>1. up[s]
  BY DEF SyncInv, ServersOK
<1>2. CASE DidOpen
  <2>1. document = NoDoc
    BY <1>2 DEF DidOpen, Open
  <2>2. s \notin Routed
    <3>1. SUFFICES ASSUME s \in Routed PROVE FALSE
      OBVIOUS
    <3>2. copy[s] = AtServerVersion(document, offset)
      BY <1>1, <3>1 DEF SyncInv, CopiesInStep
    <3> QED BY <2>1, <3>2 DEF AtServerVersion
  <2> QED BY <1>2, <2>2 DEF DidOpen, Forward, SendRouted, SyncInv, ServersOK
<1>3. CASE DidClose
  <2>1. AtServerVersion(NoDoc, 0) = NoDoc
    BY DEF AtServerVersion
  <2> QED BY <1>1, <1>3, <2>1 DEF SyncInv, ServersOK, DidClose, Forward, SendRouted
<1>4. CASE DidChange
  <2>1. Open /\ Open' /\ up' = up /\ offset' = offset
    BY <1>4 DEF DidChange, Open, NoDoc, Missing, Texts
  <2>2. s \in Routed
    BY <1>4, <1>1 DEF DidChange, Forward, SendRouted, SyncInv, ServersOK
  <2>3. clientVersion' = clientVersion + 1
    BY <1>4 DEF DidChange, NextVersion
  <2>4. copy[s].version = clientVersion + offset
    <3>1. copy[s] = AtServerVersion(document, offset)
      BY <1>1, <2>1, <2>2 DEF SyncInv, CopiesInStep
    <3>2. document # NoDoc /\ document.version = clientVersion
      BY <2>1 DEF SyncInv, TrackedOK, Open
    <3> QED BY <3>1, <3>2 DEF AtServerVersion
  <2>5. copy'[s].version = clientVersion' + offset'
    <3>1. copy'[s] = AtServerVersion(document, offset)'
      BY <1>1, <2>1, <2>2 DEF SyncInv, CopiesInStep
    <3>2. document' # NoDoc /\ document'.version = clientVersion'
      BY <2>1 DEF SyncInv, TrackedOK, Open
    <3> QED BY <3>1, <3>2 DEF AtServerVersion
  <2> QED BY <2>1, <2>3, <2>4, <2>5 DEF SyncInv, TrackedOK
<1>5. CASE ResyncReplaces
  <2>1. Open /\ up' = up /\ offset' = offset + 1 /\ clientVersion' = clientVersion
    BY <1>5 DEF ResyncReplaces, Untouched, clientVars
  <2>2. Open'
    BY <1>5 DEF ResyncReplaces, SyncInv, ResyncOK, Open, NoDoc, Missing, Texts
  <2>3. s \in Routed
    BY <1>5, <1>1 DEF ResyncReplaces, Forward, SendRouted, SyncInv, ServersOK
  <2>4. copy[s].version = clientVersion + offset
    <3>1. copy[s] = AtServerVersion(document, offset)
      BY <1>1, <2>1, <2>3 DEF SyncInv, CopiesInStep
    <3>2. document # NoDoc /\ document.version = clientVersion
      BY <2>1 DEF SyncInv, TrackedOK, Open
    <3> QED BY <3>1, <3>2 DEF AtServerVersion
  <2>5. copy'[s].version = clientVersion' + offset'
    <3>1. copy'[s] = AtServerVersion(document, offset)'
      BY <1>1, <2>1, <2>2, <2>3 DEF SyncInv, CopiesInStep
    <3>2. document' # NoDoc /\ document'.version = clientVersion'
      BY <2>2 DEF SyncInv, TrackedOK, Open
    <3> QED BY <3>1, <3>2 DEF AtServerVersion
  <2> QED BY <2>1, <2>4, <2>5 DEF SyncInv, TrackedOK
<1>6. CASE \E t \in Servers : Crash(t) \/ ComesUp(t)
  BY <1>6, <1>1 DEF Crash, ComesUp, SyncInv, ServersOK
<1>7. CASE UNCHANGED copy
  BY <1>7
<1> QED BY <1>2, <1>3, <1>4, <1>5, <1>6, <1>7
        DEF Next, Save, ExternalWrite, ExternalDelete, ClassifyBegins, ResyncBegins,
            ResyncReads, ResyncGivesUp, ResyncSkips, serverVars

(* Servers see the versions of a document strictly increase, whatever mixture
   of edits, resyncs and restarts, if the client does not repeat its own. *)
THEOREM ServerVersionsClimb ==
  ASSUME Versioning # "constant"
  PROVE  Spec => VersionsClimb
<1>1. SyncInv /\ SyncInv' /\ [Next]_vars
        => [\A s \in Servers :
             copy[s] # NoDoc /\ copy'[s] # NoDoc /\ copy'[s] # copy[s]
               => copy'[s].version > copy[s].version]_vars
  BY ChangeClimbs
<1> QED BY <1>1, SyncInvariant, PTL DEF Spec, VersionsClimb

-----------------------------------------------------------------------------

(* While a file is read, the document that was tracked when the read began is
   the only one that can bear its version. *)
ReadInv ==
  resync.phase \in {"reading", "read"} =>
    /\ resync.tracked.version <= clientVersion
    /\ Open /\ document.version = resync.tracked.version => document = resync.tracked

LEMMA ReadStep ==
  ASSUME Versioning = "climbing", SyncInv, SyncInv', ReadInv, [Next]_vars
  PROVE  ReadInv'
<1>1. CASE DidOpen \/ DidChange
  <2>1. /\ clientVersion' = clientVersion + 1 /\ document'.version = clientVersion'
        /\ resync' = resync
    BY <1>1 DEF DidOpen, DidChange, NextVersion
  <2>2. clientVersion \in Nat
    BY DocumentSyncAssumption DEF SyncInv, TrackedOK
  <2>3. resync.phase \in {"reading", "read"} => resync.tracked.version \in Nat
    BY DEF SyncInv, ResyncOK, Documents, Versions
  <2> QED BY <2>1, <2>2, <2>3 DEF ReadInv
<1>2. CASE DidClose
  BY <1>2 DEF DidClose, ReadInv, Open, clientVars
<1>3. CASE ResyncBegins
  BY <1>3, DocumentSyncAssumption
     DEF ResyncBegins, Reading, Idle, ReadInv, SyncInv, TrackedOK, Open, trackedVars, clientVars,
         Documents, Versions
<1>4. CASE ResyncReads
  BY <1>4 DEF ResyncReads, HasRead, ReadInv, Open, trackedVars, clientVars
<1>5. CASE ClassifyBegins \/ ResyncGivesUp \/ ResyncSkips \/ ResyncReplaces
  BY <1>5 DEF ClassifyBegins, ResyncGivesUp, ResyncSkips, ResyncReplaces, Idle, LookingUp, ReadInv
<1>6. CASE UNCHANGED <<document, clientVersion, resync>>
  BY <1>6 DEF ReadInv, Open
<1> QED BY <1>1, <1>2, <1>3, <1>4, <1>5, <1>6
        DEF Next, vars, Save, ExternalWrite, ExternalDelete, Crash, ComesUp, trackedVars, clientVars

(* If the client never uses a version twice, a resync undoes no edit that came
   while the file was being read, wherever in the read it came. *)
THEOREM NoEditIsUndone ==
  ASSUME Versioning = "climbing"
  PROVE  Spec => EditsDuringReadKept
<1>1. Init => ReadInv
  BY DEF Init, ReadInv, Idle
<1>2. SyncInv /\ SyncInv' /\ ReadInv /\ [Next]_vars => ReadInv'
  BY ReadStep
<1>3. ReadInv /\ [Next]_vars => [Replaces => document = resync.tracked]_vars
  <2> SUFFICES ASSUME ReadInv, Next, Replaces PROVE document = resync.tracked
    OBVIOUS
  <2>1. resync.phase = "read" /\ document' # document /\ resync' # resync
    BY DEF Replaces
  <2>2. CASE ResyncReplaces
    BY <2>2, <2>1 DEF ResyncReplaces, Untouched, ReadInv
  <2> QED BY <2>1, <2>2
          DEF Next, DidOpen, DidChange, DidClose, Save, ExternalWrite, ExternalDelete,
              ClassifyBegins, ResyncBegins, ResyncReads, ResyncGivesUp, ResyncSkips,
              Crash, ComesUp, trackedVars, Idle
<1> QED BY <1>1, <1>2, <1>3, SyncInvariant, PTL DEF Spec, EditsDuringReadKept

-----------------------------------------------------------------------------

(* What has been read is what is on the disk, or an event says otherwise. *)
ReadIsCurrent == resync.phase = "read" /\ disk # Missing /\ ~event => resync.text = disk

(* With no event waiting and the disk the latest, the document has its text,
   or the read in progress will find it as it was when the read began. *)
Settled == Open /\ disk # Missing /\ diskIsLatest /\ ~skipped /\ ~event
DiskInv ==
  /\ ReadIsCurrent
  /\ resync.phase # "idle" => skipped = FALSE
  /\ Settled /\ resync = Idle => document.text = disk
  /\ Settled /\ resync.phase \in {"reading", "read"}
       => document = resync.tracked \/ document.text = disk

LEMMA DiskStep == SyncInv /\ DiskInv /\ [Next]_vars => DiskInv'
<1> SUFFICES ASSUME SyncInv, DiskInv, [Next]_vars PROVE DiskInv'
  OBVIOUS
<1> USE DEF DiskInv, ReadIsCurrent, Settled, trackedVars, clientVars, serverVars, fileVars
<1>1. CASE DidOpen
  <2>0. /\ resync' = resync /\ disk' = disk /\ event' = event /\ skipped' = skipped
    BY <1>1 DEF DidOpen
  <2>1. diskIsLatest' => document'.text = disk
    <3>1. PICK version \in Versions, text \in Texts :
            document' = [version |-> version, text |-> text] /\ diskIsLatest' = (text = disk)
      BY <1>1 DEF DidOpen
    <3>2. document'.text = text
      BY <3>1
    <3> QED BY <3>1, <3>2
  <2>2. ReadIsCurrent' /\ (resync'.phase # "idle" => skipped' = FALSE)
    BY <2>0
  <2>3. Settled' => document'.text = disk'
    BY <2>0, <2>1
  <2> QED BY <2>2, <2>3
<1>2. CASE DidChange \/ DidClose
  BY <1>2 DEF DidChange, DidClose, Open
<1>3. CASE Save \/ ExternalWrite \/ ExternalDelete
  BY <1>3 DEF Save, ExternalWrite, ExternalDelete
<1>4. CASE ClassifyBegins
  <2>1. resync' = LookingUp \/ (resync' = Idle /\ ~Open')
    BY <1>4 DEF ClassifyBegins, Open
  <2>2. skipped' = FALSE
    BY <1>4 DEF ClassifyBegins
  <2> QED BY <2>1, <2>2 DEF LookingUp, Idle
<1>5. CASE ResyncBegins
  BY <1>5 DEF ResyncBegins, LookingUp, Reading, Idle, Open
<1>6. CASE ResyncReads
  BY <1>6 DEF ResyncReads, HasRead, Idle, Open
<1>7. CASE ResyncGivesUp
  BY <1>7 DEF ResyncGivesUp, Idle
<1>8. CASE ResyncSkips
  <2>1. /\ resync.phase = "read" /\ resync' = Idle
        /\ document' = document /\ disk' = disk /\ event' = event /\ diskIsLatest' = diskIsLatest
        /\ ~skipped' => resync.text = resync.tracked.text
    BY <1>8 DEF ResyncSkips
  <2> QED BY <2>1 DEF Idle, Open
<1>9. CASE ResyncReplaces
  BY <1>9 DEF ResyncReplaces, Untouched, Idle, Open
<1>10. CASE UNCHANGED <<trackedVars, clientVars, fileVars, resync, texts, diskIsLatest, skipped>>
  BY <1>10 DEF Open
<1> QED BY <1>1, <1>2, <1>3, <1>4, <1>5, <1>6, <1>7, <1>8, <1>9, <1>10
        DEF Next, Crash, ComesUp, vars

(* An open file that was last written on the disk ends up with the text of the
   disk, for any client and wherever its writes fell between two awaits. *)
THEOREM DocumentsConverge == Spec => []ConvergesToDisk
<1>1. Init => DiskInv
  BY DEF Init, DiskInv, ReadIsCurrent, Settled, Idle, Open, NoDoc
<1>2. DiskInv => ConvergesToDisk
  BY DEF DiskInv, Settled, ConvergesToDisk
<1> QED BY <1>1, <1>2, DiskStep, SyncInvariant, PTL DEF Spec
=============================================================================
