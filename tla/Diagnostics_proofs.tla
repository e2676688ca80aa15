-------------------------- MODULE Diagnostics_proofs ---------------------------
(***************************************************************************)
(* Proofs about the merged diagnostics, for any servers, any number of     *)
(* pulls at once and any number of lives.                                  *)
(***************************************************************************)
EXTENDS Diagnostics, TLAPS

(* What the store holds that was pushed comes from a child that lives, or died
   for good. *)
StoredAreOfTheLiving ==
  \A s \in Servers : store[s].from = "push" =>
    life[s] = store[s].life /\ state[s] \in {"running", "stopped"}

(* What a pull has gathered was not pushed. *)
GotWasPulled == \A p \in Pulls : \A s \in Servers : pulls[p].got[s].from # "push"

DiagnosticsInv ==
  /\ TypeOK
  /\ shown = store
  /\ GotWasPulled
  /\ StoredAreOfTheLiving

Answers == Lists \cup {None, Empty, Failed}
PullRecords ==
  [kind : {"free", "proxy", "client"}, waiting : SUBSET Servers, got : [Servers -> Answers]]

-----------------------------------------------------------------------------
(* What the handlers' parts do to the pulls and to the store. *)

(* The pulls are of their type and have gathered nothing that was pushed. *)
PullsOK(ps) ==
  ps \in [Pulls -> PullRecords] /\ \A p \in Pulls : \A s \in Servers : ps[p].got[s].from # "push"

LEMMA PullsAreOK == DiagnosticsInv <=> /\ TypeOK /\ PullsOK(pulls) /\ shown = store
                                       /\ StoredAreOfTheLiving
BY DEF DiagnosticsInv, TypeOK, PullsOK, PullRecords, Answers, GotWasPulled

LEMMA StartPullOK ==
  ASSUME TypeOK, PullsOK(pulls), NEW kind \in {"proxy", "client"}, StartPull(kind)
  PROVE  /\ PullsOK(pulls')
         /\ state' \in [Servers -> States]
         /\ \A s \in Servers : state[s] \in {"running", "stopped"} => state'[s] = state[s]
<1>1. PICK p \in Pulls :
        pulls' = [pulls EXCEPT ![p] =
            [kind |-> kind, waiting |-> {s \in Servers : state[s] # "stopped"},
             got |-> [s \in Servers |-> IF state[s] = "stopped" THEN Failed ELSE None]]]
  BY DEF StartPull
<1> DEFINE record == [kind |-> kind, waiting |-> {s \in Servers : state[s] # "stopped"},
                      got |-> [s \in Servers |-> IF state[s] = "stopped" THEN Failed ELSE None]]
<1>2. record \in PullRecords /\ \A s \in Servers : record.got[s].from # "push"
  BY DEF PullRecords, Answers, Failed, None
<1>3. PullsOK(pulls')
  <2> HIDE DEF record
  <2> QED BY <1>1, <1>2 DEF PullsOK, record
<1> QED BY <1>3 DEF StartPull, TypeOK, States

LEMMA SettleOK ==
  ASSUME PullsOK(pulls), NEW p \in Pulls, NEW s \in Servers,
         NEW list \in Answers, list.from # "push",
         pulls' = [pulls EXCEPT ![p] = Settled(p, s, list)]
  PROVE  PullsOK(pulls')
<1>1. pulls[p] \in PullRecords
  BY DEF PullsOK
<1>3. Settled(p, s, list) \in PullRecords
  BY <1>1 DEF Settled, PullRecords
<1>4. \A t \in Servers : Settled(p, s, list).got[t].from # "push"
  BY <1>1 DEF Settled, PullsOK, PullRecords
<1> HIDE DEF Settled
<1> QED BY <1>3, <1>4 DEF PullsOK

LEMMA RejectOK ==
  ASSUME PullsOK(pulls), NEW gone \in SUBSET Servers, RejectCalls(gone)
  PROVE  PullsOK(pulls')
<1> DEFINE rejected(p) ==
      [kind |-> pulls[p].kind, waiting |-> pulls[p].waiting \ gone,
       got |-> [s \in Servers |-> IF s \in gone \cap pulls[p].waiting THEN Failed ELSE pulls[p].got[s]]]
<1>1. \A p \in Pulls : pulls[p] \in PullRecords
  BY DEF PullsOK
<1>2. pulls' = [p \in Pulls |-> rejected(p)]
  BY DEF RejectCalls
<1>3. \A p \in Pulls : rejected(p) \in PullRecords
  BY <1>1 DEF PullRecords, Answers
<1>4. \A p \in Pulls : \A s \in Servers : rejected(p).got[s].from # "push"
  BY DEF PullsOK, Failed
<1> HIDE DEF rejected
<1> QED BY <1>2, <1>3, <1>4 DEF PullsOK

LEMMA FreeOK ==
  ASSUME PullsOK(pulls), NEW p \in Pulls, pulls' = [pulls EXCEPT ![p] = Free]
  PROVE  PullsOK(pulls')
<1>1. Free \in PullRecords /\ \A s \in Servers : Free.got[s].from # "push"
  BY DEF Free, PullRecords, Answers, None
<1> HIDE DEF Free
<1> QED BY <1>1 DEF PullsOK

(* The store keeps its type and what it promises as long as no list is stored as
   pushed, and no server whose pushed list is in it comes up or goes down. *)
LEMMA StoreKept ==
  ASSUME StoredAreOfTheLiving,
         \A s \in Servers : store'[s].from = "push" =>
           /\ store'[s] = store[s] /\ life'[s] = life[s]
           /\ state[s] \in {"running", "stopped"} => state'[s] \in {"running", "stopped"}
  PROVE  StoredAreOfTheLiving'
BY DEF StoredAreOfTheLiving

-----------------------------------------------------------------------------

LEMMA DiagnosticsInit == Init => DiagnosticsInv
<1> SUFFICES ASSUME Init PROVE DiagnosticsInv
  OBVIOUS
<1>1. Free \in PullRecords /\ \A s \in Servers : Free.got[s].from # "push"
  BY DEF Free, PullRecords, Answers, None
<1>2. PullsOK(pulls)
  <2> HIDE DEF Free
  <2> QED BY <1>1 DEF Init, PullsOK
<1>3. TypeOK
  <2>1. pulls \in [Pulls -> PullRecords]
    BY <1>2 DEF PullsOK
  <2> QED BY <2>1 DEF Init, TypeOK, States, PullRecords, Answers
<1> QED BY <1>2, <1>3, PullsAreOK DEF Init, StoredAreOfTheLiving, None

(* A step but for the pulls: types and what the store promises. *)
Rest ==
  /\ state \in [Servers -> States] /\ life \in [Servers -> Nat]
  /\ store \in [Servers -> Lists \cup {None}]
  /\ isOpen \in BOOLEAN /\ delayed \in Nat /\ isStopped \in BOOLEAN
  /\ shown = store
  /\ StoredAreOfTheLiving

LEMMA RestAndPulls == DiagnosticsInv <=> Rest /\ PullsOK(pulls)
BY DEF DiagnosticsInv, Rest, TypeOK, PullsOK, PullRecords, Answers, GotWasPulled

LEMMA PullStep ==
  ASSUME Rest, PullsOK(pulls),
         \/ ClientPull \/ SyncAndPull \/ SyncAndPullLater \/ DidClose \/ DelayedPull
         \/ \E s \in Servers : Refresh(s)
  PROVE  Rest' /\ PullsOK(pulls')
<1> USE DEF Rest
<1>0. TypeOK
  BY RestAndPulls DEF DiagnosticsInv
<1>1. \/ /\ \E kind \in {"proxy", "client"} : StartPull(kind)
      \/ /\ UNCHANGED pulls
         /\ state' \in {state, SyncedStates}
  BY DEF ClientPull, SyncAndPull, SyncAndPullLater, DidClose, DelayedPull, Refresh, serverVars
<1>2. UNCHANGED <<life, store, shown, isStopped>>
  BY DEF ClientPull, SyncAndPull, SyncAndPullLater, DidClose, DelayedPull, Refresh, serverVars
<1>3. isOpen' \in BOOLEAN
  BY DEF ClientPull, SyncAndPull, SyncAndPullLater, DidClose, DelayedPull, Refresh
<1>4. delayed' \in Nat
  BY DEF ClientPull, SyncAndPull, SyncAndPullLater, DidClose, DelayedPull, Refresh
<1>5. /\ PullsOK(pulls') /\ state' \in [Servers -> States]
      /\ \A s \in Servers : state[s] \in {"running", "stopped"} => state'[s] = state[s]
  <2>1. CASE \E kind \in {"proxy", "client"} : StartPull(kind)
    BY <1>0, <2>1, StartPullOK
  <2>2. CASE UNCHANGED pulls /\ state' \in {state, SyncedStates}
    BY <2>2 DEF SyncedStates, States, PullsOK
  <2> QED BY <1>1, <2>1, <2>2
<1>6. StoredAreOfTheLiving'
  BY <1>2, <1>5, StoreKept
<1> QED BY <1>2, <1>3, <1>4, <1>5, <1>6

LEMMA AnswerStep ==
  ASSUME Rest, PullsOK(pulls), NEW p \in Pulls,
         \/ \E s \in Servers : Reply(p, s) \/ TimesOut(p, s)
         \/ PullEnds(p) \/ ClientPullEnds(p)
  PROVE  Rest' /\ PullsOK(pulls')
<1> USE DEF Rest
<1>1. ASSUME NEW s \in Servers, Reply(p, s) \/ TimesOut(p, s) PROVE Rest' /\ PullsOK(pulls')
  <2>1. UNCHANGED <<serverVars, store, shown, isOpen, delayed, isStopped>>
    BY <1>1 DEF Reply, TimesOut
  <2>2. PICK list \in {Failed, Empty, [life |-> life[s], from |-> "pull"]} :
          pulls' = [pulls EXCEPT ![p] = Settled(p, s, list)]
    BY <1>1 DEF Reply, TimesOut
  <2>3. list \in Answers /\ list.from # "push"
    BY DEF Answers, Failed, Empty, Lists
  <2> QED BY <2>1, <2>2, <2>3, SettleOK DEF serverVars, StoredAreOfTheLiving
<1>2. CASE ClientPullEnds(p)
  BY <1>2, FreeOK DEF ClientPullEnds, serverVars, StoredAreOfTheLiving
<1>3. CASE PullEnds(p)
  <2>1. UNCHANGED <<serverVars, isOpen, delayed, isStopped>> /\ pulls' = [pulls EXCEPT ![p] = Free]
    BY <1>3 DEF PullEnds
  <2>2. store' = Collected(pulls[p].got)
    BY <1>3 DEF PullEnds
  <2>3. pulls[p].got \in [Servers -> Answers] /\ \A s \in Servers : pulls[p].got[s].from # "push"
    BY DEF PullsOK, PullRecords
  <2>4. \A s \in Servers :
          LET g == pulls[p].got[s] IN
            store'[s] = IF g \in {None, Failed} THEN store[s] ELSE IF g = Empty THEN None ELSE g
    BY <2>2, <2>3 DEF Collected, Updated, None, Failed, Empty
  <2>5. store' \in [Servers -> Lists \cup {None}]
    <3>1. \A s \in Servers : store'[s] \in Lists \cup {None}
      BY <2>3, <2>4 DEF Answers
    <3>2. store' = [s \in Servers |-> store'[s]]
      BY <2>2 DEF Collected
    <3> QED BY <3>1, <3>2
  <2>6. StoredAreOfTheLiving'
    BY <2>1, <2>3, <2>4, StoreKept DEF serverVars, None
  <2>7. shown' = store'
    <3>1. CASE \E s \in Servers : pulls[p].got[s] # Failed
      BY <1>3, <3>1 DEF PullEnds, PublishMerged
    <3>2. CASE \A s \in Servers : pulls[p].got[s] = Failed
      <4>1. shown' = shown
        BY <1>3, <3>2 DEF PullEnds
      <4>2. \A s \in Servers : store'[s] = store[s]
        BY <2>4, <3>2
      <4> QED BY <2>5, <4>1, <4>2
    <3> QED BY <3>1, <3>2
  <2> QED BY <2>1, <2>5, <2>6, <2>7, FreeOK DEF serverVars
<1> QED BY <1>1, <1>2, <1>3

LEMMA ServerStep ==
  ASSUME Rest, PullsOK(pulls), NEW s \in Servers,
         Publish(s) \/ ComesUp(s) \/ Crash(s) \/ GivesUp(s)
  PROVE  Rest' /\ PullsOK(pulls')
<1> USE DEF Rest
<1>1. CASE Publish(s)
  <2>1. PICK list \in {Empty, [life |-> life[s], from |-> "push"]} : store' = Updated(store, s, list)
    BY <1>1 DEF Publish
  <2>0. list # Failed
    BY <2>1 DEF Failed, Empty
  <2>2. /\ store' = [store EXCEPT ![s] = IF list = Empty THEN None ELSE list]
        /\ UNCHANGED <<serverVars, pulls, isOpen, delayed, isStopped>> /\ shown' = store'
        /\ state[s] = "running"
    BY <1>1, <2>0, <2>1 DEF Publish, Updated, PublishMerged
  <2>3. store'[s] \in Lists \cup {None}
        /\ (store'[s].from = "push" => store'[s].life = life[s])
    BY <2>1, <2>2 DEF Lists, None, Empty
  <2>4. store' \in [Servers -> Lists \cup {None}]
    BY <2>2, <2>3
  <2>5. StoredAreOfTheLiving'
    BY <2>2, <2>3 DEF StoredAreOfTheLiving, serverVars
  <2> QED BY <2>2, <2>4, <2>5 DEF serverVars, PullsOK
<1>2. CASE ComesUp(s)
  <2>1. StoredAreOfTheLiving'
    BY <1>2 DEF ComesUp, StoredAreOfTheLiving
  <2> QED BY <1>2, <2>1 DEF ComesUp, States, PullsOK
<1>3. CASE Crash(s)
  <2>1. PullsOK(pulls')
    BY <1>3, RejectOK DEF Crash
  <2>2. store' = [store EXCEPT ![s] = None] /\ shown' = store'
    BY <1>3 DEF Crash, ClearServer, PublishMerged
  <2>3. StoredAreOfTheLiving'
    BY <1>3, <2>2 DEF Crash, StoredAreOfTheLiving, None
  <2> QED BY <1>3, <2>1, <2>2, <2>3 DEF Crash, States
<1>4. CASE GivesUp(s)
  <2>1. PullsOK(pulls')
    BY <1>4, RejectOK DEF GivesUp
  <2>2. StoredAreOfTheLiving'
    BY <1>4, StoreKept DEF GivesUp
  <2> QED BY <1>4, <2>1, <2>2 DEF GivesUp, States
<1> QED BY <1>1, <1>2, <1>3, <1>4

LEMMA StopStep == ASSUME Rest, PullsOK(pulls), ProxyStops PROVE Rest' /\ PullsOK(pulls')
<1> USE DEF Rest, ProxyStops
<1>1. PullsOK(pulls')
  BY RejectOK
<1>2. StoredAreOfTheLiving'
  BY StoreKept
<1> QED BY <1>1, <1>2 DEF States

LEMMA DiagnosticsStep == DiagnosticsInv /\ [Next]_vars => DiagnosticsInv'
<1>0. Rest' /\ PullsOK(pulls)' => DiagnosticsInv'
  BY DEF DiagnosticsInv, Rest, TypeOK, PullsOK, PullRecords, Answers, GotWasPulled
<1> SUFFICES ASSUME Rest, PullsOK(pulls), [Next]_vars PROVE Rest' /\ PullsOK(pulls')
  BY <1>0, RestAndPulls DEF PullsOK
<1>1. CASE UNCHANGED vars
  BY <1>1 DEF vars, Rest, PullsOK, StoredAreOfTheLiving
<1>2. CASE Next
  BY <1>2, PullStep, AnswerStep, ServerStep, StopStep DEF Next
<1> QED BY <1>1, <1>2

LEMMA DiagnosticsInvariant == Spec => []DiagnosticsInv
BY DiagnosticsInit, DiagnosticsStep, PTL DEF Spec

(* The types, for any servers, pulls and lives. *)
THEOREM DiagnosticsTypeCorrect == Spec => []TypeOK
<1>1. DiagnosticsInv => TypeOK
  BY DEF DiagnosticsInv
<1> QED BY <1>1, DiagnosticsInvariant, PTL

(* What the client shows as pushed comes from children that live or died for
   good: crashes clear it, pulls that end late do not bring it back, and the
   client is sent what is stored. *)
THEOREM ShownIsOfTheLiving == Spec => []PushedByTheLiving
<1>1. DiagnosticsInv => PushedByTheLiving
  BY DEF DiagnosticsInv, StoredAreOfTheLiving, PushedByTheLiving
<1> QED BY <1>1, DiagnosticsInvariant, PTL

-----------------------------------------------------------------------------
(* What a pull has heard and what it waits for. *)

(* A pull in progress has an answer of every server it does not wait for, and
   it does not wait for a server that is stopped, which nothing would settle. *)
HearingInv ==
  \A p \in Pulls :
    /\ pulls[p].kind = "free" => pulls[p] = Free
    /\ pulls[p].kind # "free" =>
         \A s \in Servers : s \in pulls[p].waiting <=> pulls[p].got[s] = None
    /\ \A s \in pulls[p].waiting : state[s] # "stopped"

(* A pull begins, hears more, or ends when it has heard all. *)
Begins(p, kind) ==
  /\ pulls[p] = Free
  /\ pulls'[p] = [kind |-> kind, waiting |-> {s \in Servers : state[s] # "stopped"},
                  got |-> [s \in Servers |-> IF state[s] = "stopped" THEN Failed ELSE None]]
Hears(p) ==
  /\ pulls'[p].kind = pulls[p].kind /\ pulls'[p].waiting \subseteq pulls[p].waiting
  /\ pulls'[p].got \in [Servers -> Answers]
  /\ \A s \in Servers :
       IF s \in pulls[p].waiting \ pulls'[p].waiting
       THEN pulls'[p].got[s] # None
       ELSE pulls'[p].got[s] = pulls[p].got[s]
Ends(p) == pulls[p].kind # "free" /\ pulls[p].waiting = {} /\ pulls'[p] = Free

PullMoves(p) ==
  \/ pulls'[p] = pulls[p]
  \/ \E kind \in {"proxy", "client"} : Begins(p, kind)
  \/ Hears(p) \/ Ends(p)

(* What servers do while pulls move: one that is stopped stays so, and one that
   stops is not waited for any more. *)
StopsHeard ==
  \A s \in Servers : state'[s] = "stopped" =>
    state[s] = "stopped" \/ \A p \in Pulls : s \notin pulls'[p].waiting

LEMMA StartPullMoves ==
  ASSUME DiagnosticsInv, NEW kind \in {"proxy", "client"}, StartPull(kind)
  PROVE  StopsHeard /\ \A p \in Pulls : PullMoves(p)
<1>1. PICK q \in Pulls :
        /\ pulls[q] = Free
        /\ pulls' = [pulls EXCEPT ![q] =
            [kind |-> kind, waiting |-> {s \in Servers : state[s] # "stopped"},
             got |-> [s \in Servers |-> IF state[s] = "stopped" THEN Failed ELSE None]]]
  BY DEF StartPull
<1>2. ASSUME NEW p \in Pulls PROVE PullMoves(p)
  <2>1. CASE p = q
    <3>1. Begins(p, kind)
      BY <1>1, <2>1 DEF DiagnosticsInv, TypeOK, Begins
    <3> QED BY <3>1 DEF PullMoves
  <2>2. CASE p # q
    BY <1>1, <2>2 DEF DiagnosticsInv, TypeOK, PullMoves
  <2> QED BY <2>1, <2>2
<1>3. StopsHeard
  BY DEF StartPull, StopsHeard
<1> QED BY <1>2, <1>3

LEMMA RejectMoves ==
  ASSUME DiagnosticsInv, NEW gone \in SUBSET Servers, RejectCalls(gone)
  PROVE  /\ \A p \in Pulls : PullMoves(p)
         /\ \A p \in Pulls : \A s \in gone : s \notin pulls'[p].waiting
<1>1. ASSUME NEW p \in Pulls
      PROVE  Hears(p) /\ \A s \in gone : s \notin pulls'[p].waiting
  <2>1. pulls[p] \in PullRecords
    BY DEF DiagnosticsInv, TypeOK, PullRecords, Answers
  <2>2. pulls'[p] = [kind |-> pulls[p].kind, waiting |-> pulls[p].waiting \ gone,
           got |-> [s \in Servers |->
                      IF s \in gone \cap pulls[p].waiting THEN Failed ELSE pulls[p].got[s]]]
    BY DEF RejectCalls
  <2>3. pulls'[p].got \in [Servers -> Answers]
    BY <2>1, <2>2 DEF PullRecords, Answers
  <2>4. \A s \in Servers :
          pulls'[p].got[s] = IF s \in gone \cap pulls[p].waiting THEN Failed ELSE pulls[p].got[s]
    BY <2>2
  <2> QED BY <2>2, <2>3, <2>4 DEF Hears, None, Failed
<1> QED BY <1>1 DEF PullMoves

LEMMA AnswerMoves ==
  ASSUME DiagnosticsInv, NEW q \in Pulls,
         \/ \E s \in Servers : Reply(q, s) \/ TimesOut(q, s)
         \/ PullEnds(q) \/ ClientPullEnds(q)
  PROVE  StopsHeard /\ \A p \in Pulls : PullMoves(p)
<1>1. UNCHANGED state
  BY DEF Reply, TimesOut, PullEnds, ClientPullEnds, serverVars
<1>2. pulls \in [Pulls -> PullRecords]
  BY DEF DiagnosticsInv, TypeOK, PullRecords, Answers
<1>3. ASSUME NEW s \in Servers, Reply(q, s) \/ TimesOut(q, s) PROVE \A p \in Pulls : PullMoves(p)
  <2>1. PICK list \in {Failed, Empty, [life |-> life[s], from |-> "pull"]} :
          pulls' = [pulls EXCEPT ![q] = Settled(q, s, list)]
    BY <1>3 DEF Reply, TimesOut
  <2>2. list \in Answers /\ list # None
    BY <2>1 DEF Failed, Empty, None, Answers, Lists, DiagnosticsInv, TypeOK
  <2>3. s \in pulls[q].waiting
    BY <1>3 DEF Reply, TimesOut
  <2>4. Hears(q)
    <3>1. pulls'[q] = Settled(q, s, list)
      BY <1>2, <2>1
    <3>2. pulls[q] \in PullRecords
      BY <1>2
    <3>3. /\ pulls'[q].kind = pulls[q].kind
          /\ pulls'[q].waiting = pulls[q].waiting \ {s}
          /\ pulls'[q].got = [pulls[q].got EXCEPT ![s] = list]
      BY <3>1 DEF Settled
    <3>4. pulls[q].got \in [Servers -> Answers]
      BY <3>2 DEF PullRecords
    <3>5. pulls'[q].got \in [Servers -> Answers]
      BY <2>2, <3>3, <3>4
    <3>6. ASSUME NEW t \in Servers
          PROVE  IF t \in pulls[q].waiting \ pulls'[q].waiting
                 THEN pulls'[q].got[t] # None
                 ELSE pulls'[q].got[t] = pulls[q].got[t]
      BY <2>2, <2>3, <3>3, <3>4
    <3>7. pulls'[q].kind = pulls[q].kind /\ pulls'[q].waiting \subseteq pulls[q].waiting
      BY <3>3
    <3> QED BY <3>5, <3>6, <3>7 DEF Hears
  <2>5. \A p \in Pulls \ {q} : pulls'[p] = pulls[p]
    BY <1>2, <2>1
  <2> QED BY <2>4, <2>5 DEF PullMoves
<1>4. CASE PullEnds(q) \/ ClientPullEnds(q)
  <2>1. pulls' = [pulls EXCEPT ![q] = Free] /\ pulls[q].kind # "free" /\ pulls[q].waiting = {}
    BY <1>4 DEF PullEnds, ClientPullEnds
  <2>2. Ends(q) /\ \A p \in Pulls \ {q} : pulls'[p] = pulls[p]
    BY <1>2, <2>1 DEF Ends
  <2> QED BY <1>1, <2>2 DEF PullMoves, StopsHeard
<1> QED BY <1>1, <1>3, <1>4 DEF StopsHeard

LEMMA MovesStep ==
  ASSUME DiagnosticsInv, [Next]_vars
  PROVE  StopsHeard /\ \A p \in Pulls : PullMoves(p)
<1>1. ASSUME UNCHANGED pulls, \A s \in Servers : state'[s] = "stopped" => state[s] = "stopped"
      PROVE  StopsHeard /\ \A p \in Pulls : PullMoves(p)
  BY <1>1 DEF StopsHeard, PullMoves
<1>2. CASE UNCHANGED vars
  BY <1>1, <1>2 DEF vars
<1>3. CASE ClientPull \/ SyncAndPull \/ DelayedPull \/ \E s \in Servers : Refresh(s)
  <2>1. CASE \E kind \in {"proxy", "client"} : StartPull(kind)
    BY <2>1, StartPullMoves
  <2>2. CASE UNCHANGED <<state, pulls>>
    BY <1>1, <2>2
  <2> QED BY <1>3, <2>1, <2>2 DEF ClientPull, SyncAndPull, DelayedPull, Refresh
<1>4. CASE SyncAndPullLater \/ DidClose
  BY <1>1, <1>4 DEF SyncAndPullLater, DidClose, SyncedStates, serverVars
<1>5. ASSUME NEW s \in Servers, Publish(s) \/ ComesUp(s)
      PROVE  StopsHeard /\ \A p \in Pulls : PullMoves(p)
  BY <1>1, <1>5 DEF Publish, ComesUp, serverVars, DiagnosticsInv, TypeOK
<1>6. ASSUME NEW s \in Servers, Crash(s) \/ GivesUp(s)
      PROVE  StopsHeard /\ \A p \in Pulls : PullMoves(p)
  <2>1. RejectCalls({s})
    BY <1>6 DEF Crash, GivesUp
  <2>2. \A t \in Servers \ {s} : state'[t] = state[t]
    BY <1>6 DEF Crash, GivesUp, DiagnosticsInv, TypeOK
  <2> QED BY <2>1, <2>2, RejectMoves DEF StopsHeard
<1>7. CASE ProxyStops
  <2>1. RejectCalls(Servers)
    BY <1>7 DEF ProxyStops
  <2>2. /\ \A p \in Pulls : PullMoves(p)
        /\ \A p \in Pulls : \A s \in Servers : s \notin pulls'[p].waiting
    BY <2>1, RejectMoves
  <2> QED BY <2>2 DEF StopsHeard
<1> QED BY <1>2, <1>3, <1>4, <1>5, <1>6, <1>7, AnswerMoves DEF Next

LEMMA HearingStep ==
  ASSUME DiagnosticsInv, HearingInv, [Next]_vars
  PROVE  HearingInv'
<1>1. ASSUME NEW p \in Pulls
      PROVE  /\ pulls'[p].kind = "free" => pulls'[p] = Free
             /\ pulls'[p].kind # "free" =>
                  \A s \in Servers : s \in pulls'[p].waiting <=> pulls'[p].got[s] = None
             /\ \A s \in pulls'[p].waiting : state'[s] # "stopped"
  <2>0. pulls[p] \in PullRecords /\ pulls'[p] \in PullRecords
    BY DiagnosticsStep DEF DiagnosticsInv, TypeOK, PullRecords, Answers
  <2>8. PullMoves(p)
    BY MovesStep
  <2>1. \/ pulls'[p].waiting \subseteq pulls[p].waiting
        \/ \A s \in pulls'[p].waiting : state[s] # "stopped"
    <3>1. CASE \E kind \in {"proxy", "client"} : Begins(p, kind)
      BY <3>1 DEF Begins
    <3>2. CASE Hears(p) \/ pulls'[p] = pulls[p]
      BY <3>2 DEF Hears
    <3>3. CASE Ends(p)
      BY <3>3 DEF Ends, Free
    <3> QED BY <2>8, <3>1, <3>2, <3>3 DEF PullMoves
  <2>2. ASSUME NEW s \in pulls'[p].waiting PROVE state'[s] # "stopped"
    <3>1. s \in Servers
      BY <2>0 DEF PullRecords
    <3>2. state[s] # "stopped"
      BY <2>1 DEF HearingInv
    <3> QED BY <3>1, <3>2, MovesStep DEF StopsHeard
  <2>3. CASE pulls'[p] = pulls[p]
    BY <2>2, <2>3 DEF HearingInv
  <2>4. ASSUME NEW kind \in {"proxy", "client"}, Begins(p, kind)
        PROVE  /\ pulls'[p].kind # "free"
               /\ \A s \in Servers : s \in pulls'[p].waiting <=> pulls'[p].got[s] = None
    BY <2>4 DEF Begins, None, Failed
  <2>5. CASE Ends(p)
    BY <2>2, <2>5 DEF Ends, Free
  <2>6. CASE Hears(p) /\ pulls[p].kind # "free"
    <3>1. \A s \in Servers : s \in pulls[p].waiting <=> pulls[p].got[s] = None
      BY <2>6 DEF HearingInv
    <3> QED BY <2>2, <2>6, <3>1 DEF Hears
  <2>7. CASE Hears(p) /\ pulls[p].kind = "free"
    <3>1. pulls[p] = Free
      BY <2>7 DEF HearingInv
    <3>2. pulls'[p].kind = "free" /\ pulls'[p].waiting = {}
      BY <2>7, <3>1 DEF Hears, Free
    <3>3. \A s \in Servers : pulls'[p].got[s] = None
      BY <2>7, <3>1 DEF Hears, Free
    <3>4. pulls'[p].got = [s \in Servers |-> None]
      BY <2>0, <3>3 DEF PullRecords
    <3>5. pulls'[p] = [kind |-> "free", waiting |-> {}, got |-> [s \in Servers |-> None]]
      BY <2>0, <3>2, <3>4 DEF PullRecords
    <3> QED BY <2>2, <3>2, <3>5 DEF Free
  <2> QED BY <2>2, <2>3, <2>4, <2>5, <2>6, <2>7, <2>8 DEF PullMoves
<1> QED BY <1>1 DEF HearingInv

LEMMA HearingInvariant == Spec => [](DiagnosticsInv /\ HearingInv)
<1>1. Init => HearingInv
  BY DEF Init, HearingInv, Free
<1>2. DiagnosticsInv /\ HearingInv /\ [Next]_vars => DiagnosticsInv' /\ HearingInv'
  BY DiagnosticsStep, HearingStep
<1> QED BY <1>1, <1>2, DiagnosticsInit, PTL DEF Spec

(* No pull is stuck: it waits only for servers whose request has its timeout
   running, none of which is stopped, and when it waits for none it has something
   of every server to store or to pass on. *)
THEOREM NoPullIsStuck == Spec => []HearingInv
BY HearingInvariant, PTL

(* What a pull in progress does in a step: it keeps what it has heard, and ends
   only if it waits for nobody. *)
KeepsWhatItHeard(p) ==
  pulls[p] # Free =>
    \/ pulls'[p] = Free /\ pulls[p].waiting = {}
    \/ /\ pulls'[p].kind = pulls[p].kind /\ pulls'[p].waiting \subseteq pulls[p].waiting
       /\ \A s \in Servers \ pulls[p].waiting : pulls'[p].got[s] = pulls[p].got[s]

(* A pull ends only after every server was heard, and what it has heard of one
   it keeps until then, whatever crashes, stops or answers late. *)
THEOREM PullsHearAll == Spec => [][\A p \in Pulls : KeepsWhatItHeard(p)]_vars
<1>1. ASSUME DiagnosticsInv, [Next]_vars, NEW p \in Pulls
      PROVE  KeepsWhatItHeard(p)
  <2>1. PullMoves(p)
    BY <1>1, MovesStep
  <2> QED BY <2>1 DEF KeepsWhatItHeard, PullMoves, Begins, Hears, Ends
<1>2. DiagnosticsInv /\ [Next]_vars => [\A p \in Pulls : KeepsWhatItHeard(p)]_vars
  BY <1>1
<1> QED BY <1>2, DiagnosticsInvariant, PTL DEF Spec
=============================================================================
