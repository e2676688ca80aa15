# A verification of lsp-mux

`lsp-mux` is a proxy between one LSP client and several language servers. Its
core is `packages/proxy/src`: a single-threaded Node program that starts the
servers when they are first needed, restarts them when they crash, keeps them
told of the open documents and of file changes, and merges what they report.
These modules model that core, TLC checks them on small instances, and TLAPS
proves the results that matter most for all instances.

Contents: [components](#components), [modules](#modules), [runs](#runs),
[fairness](#fairness), [proofs](#proofs), [findings](#findings),
[what is not modelled](#what-is-not-modelled), [plan](#plan).

## Components

Everything runs in one thread. What makes the program hard is therefore not
parallel code but the order of events: between any two handlers anything may
have happened, a child process may exit between being written to and answering,
every `await` is a point where the state that was read before it goes stale,
and timers fire for reasons that are gone. Paths are relative to
`packages/proxy/src`.

| component | state | operations | interacts with |
|---|---|---|---|
| restart scheduler (`restart-scheduler.ts`) | attempts spent, retry timer, refund timer | schedule, markStarted, cancel, both timers | called by the managed server, calls back into it |
| managed server (`managed-server.ts`, `child-server.ts`, `message-buffer.ts`, `proxy-request-channel.ts`, `server-replay.ts`) | server state, current child, requests in flight, buffer, internal requests, flags of the handshake | send, sendRequest, cancel, exits, replies, timeouts, handshake, shutdown, stop | the proxy hands it messages and hears of its state; reads the tracked documents for a replay |
| flush scheduler (`flush-scheduler.ts`) | debounce and max-wait timer, flush in progress | notify, flush, dispose | used by the workspace watcher |
| workspace watcher (`workspace-watcher.ts`) | pending file events, batch of the flush | event, flush, classification, resync, dispose | reads the disk, replaces tracked documents, tells the servers |
| documents and versions (`document-tracker.ts`, `version-offsets.ts`, `doc-sync.ts`) | text and version of the open documents, offset of each | open, change, close, resync, replay | client messages, watcher, replay |
| diagnostics (`diagnostics-coordinator.ts`, `diagnostics-store.ts`) | diagnostics per document and server, pulls in progress, delayed pull | publish, pull, refresh, clear | asks the servers through the managed servers; cleared by their state changes |
| server messages (`server-messages.ts`, `file-watcher.ts`) | which server asked under which id, watcher registrations | forward, register, unregister, configuration, refresh | the client answers what is forwarded |
| client messages (`client-messages.ts`) | none of its own | one handler per message | all of the above |
| proxy (`proxy.ts`, `teardown.ts`, `bounded-wait.ts`) | lifecycle state, shutdown loops, teardown | initialize, initialized, shutdown, exit, close, server state changes | owns the others |
| router (`router.ts`) | none after construction | servers for a uri, a language | read by the message handlers |
| bridge (`bridge.ts`) | none of its own; requests in progress | request of one server to be run by another | managed servers by name |
| configuration (`config.ts`, `config-schema.ts`, `../../registry/src/deep-merge.ts`) | two files on the disk | load, merge, check | read by the command line |
| command line (`../bin/main.ts`, `logger.ts`) | the phase of `main`, watches, debounce timer, log level | first load, servers' own files, watching, reloads | starts the proxy, exits with it |
| capabilities (`capabilities.ts`, `client-capabilities.ts`) | none | what the proxy compensates for | decides whether it watches files and pulls diagnostics |
| schemas, types, uris, registry, plugin generator | none at run time | pure functions, generated types and files | |

What makes each correct:

* *restart scheduler*: a crash loop ends at the cap although each success earns
  something back; a long-lived server earns its budget back; the restarts are
  spread out.
* *managed server*: one child speaks for the server; a start that is under way
  has exactly one cause; a request is answered exactly once and delivered in
  order, whatever dies; the handshake comes first and the documents with it;
  a stop is final; every start and every teardown ends.
* *flush scheduler and watcher*: no event is forgotten or waits beyond the
  longest wait; flushes do not follow one another without rest; what a server
  is told of a file last is what is true.
* *documents*: all servers have the same text at the same version; versions
  climb; an edit is not undone by a read that began before it; the disk wins in
  the end.
* *diagnostics*: none survive the child that pushed them; every pull ends.
* *messages*: every request of the client is answered exactly once, or is with the
  one server noted for it; the way back of an answer to a server is known as long
  as somebody waits for it, and leads to the one who asked; changes of files go to
  the children that registered for such changes.
* *proxy*: it serves while any server can; it stays disposed; it resolves after
  all servers are gone; every shutdown is answered unless a teardown comes first.
* *router, text edits*: they compute what their definitions say.
* *bridge*: the server that asked is never left holding a handler open.
* *configuration*: reloads lose no change that was reported, whatever they overlap
  with; every bridge that was accepted has its own route.

## Modules

```
RestartScheduler  <-refines-  CrashLoop             the budget, and its time
   ^ instance, and refined
ManagedServer     -refines->  RequestService        one server; its promise to the client
FlushScheduler    <-extends-  WorkspaceWatcher      when to flush; what a flush does
DocumentSync                                        one document, all servers
Diagnostics                                         one document, all servers
ServerRequests    <-extends-  Messages              what servers ask, watchers; what the
                                                    client asks of servers that live and die
ProxyLifecycle                                      all servers, start to teardown
Router, TextEdits,
Configuration, Bridge,
CrashLoop  <-extends-  MCParts                      the small parts
```

A step is one handler, run to its end. Two things follow an `await`:

* In `ManagedServer`, `Diagnostics`, `ProxyLifecycle` and `Bridge` a continuation is a
  step of its own, and `Quiet` says that no continuation is due. Handlers are taken from the
  event loop only in quiet states, as promise continuations run before the next
  event. This is what decides whether an exit can slip between the settling of
  `initialize` and the code after its await (it cannot) and whether one can slip
  in before (it can).
* In `WorkspaceWatcher`, `DocumentSync` and `Configuration` the awaits are on the disk,
  so anything may come in between.

### RestartScheduler and CrashLoop

`RestartScheduler` is the budget without time: `attempt`, the two timers, and the
callbacks a retry may run. `schedule` overwrites the handle of a timer that is
still armed, so the module keeps such timers in `unnamed`: `cancel` does not
reach them. `ManagedServer` instantiates it; every step of the server is a step of
the scheduler or leaves it alone, and no such timer ever comes to be (proved).
`CrashLoop` adds ticks: the exponential backoff with its jitter and cap
(`Delays`), the stability window, and a server that fails as it likes. It
refines `RestartScheduler` (`ImplementsScheduler`).

### ManagedServer and RequestService

The variables are the closure variables of `createManagedServer` under their own
names, with `callbacks` for the request channel's map and `attached` for the
children that have not been disposed. Children are numbered. Messages are
numbered in the order the proxy hands them over and have one of four kinds,
which is what `send` tells apart. `wrote` is the log of what was written to which
child, `owed` what the children have not answered, `answers` counts what the
client got. `SendRunning`, `SendBuffered`, `SendLazily` and `SendRefused` are the
branches of `send`; `ServerExit` is `handleServerExit` by its branches;
`LateReply` is a reply to a request of the proxy that has been settled, by its timeout
or by an exit, and is swallowed. `shutdowns` counts the shutdown requests that were
written: the client may send several. `ResumeInitSuperseded`, `ResumeInitFailed` and `ResumeInitOk` are what follows the
await in `performInitSequence`; `Shutdown...` and `Stop` are the two ways to end.

`handleServerExit` and `handleServerMessage` are not told which child raised
them. Nothing but the disposal of every earlier child makes that right, and
`OnlyCurrentChildSpeaks` says so.

`RequestService` is the promise to the client in a page: every request is held,
handed over, or answered; in order, at most once; nothing more once closed.
`KeepsRequestPromise` checks that `ManagedServer` implements it.

### FlushScheduler and WorkspaceWatcher

`FlushScheduler` has both timers in ticks. A due timer fires before time moves on,
but what else is due at the same tick may come first. `WorkspaceWatcher` extends
it with the bounded set of pending events, the files on the disk, the batch, and
`told`, the last thing the server heard of each file. `fs.watch` callbacks are
delayed at will (`raised`). The classification of each file reads the disk at its
own time.

### DocumentSync and TextEdits

A text is a stamp (`DocumentSync`): full sync makes every text a whole, and what
matters is which one. The resync of an open document has three steps, up to its
two awaits and after them; edits, closes, reopens, saves, writes, crashes and
replays come in between. `Versioning` is how the client counts: `climbing` as the
protocol asks, `restarting` at every open, or `constant`, as the client described
in the repository's README does. `TextEdits` has real characters: it applies
range edits by line and column over CR, LF and CR LF. `LineOffsets` is the loop of
`positionToOffset`, as a function: where each line begins, found from the line
before it (`NextLine`), or `PastEnd`. The client has no such loop: the place it means
is the one with so many line ends before it (`StartsBefore`).

### Diagnostics

A list of diagnostics is the life of the server that made it and the way it came
(push or pull). Pulls ask all servers and wait for all of them; servers crash,
give up, and come up meanwhile. The client opens and closes the document, a
change or a refresh pulls, a document opened while its servers start is pulled
for again later, by a timer that nobody cancels (`delayed` counts them), and the
proxy stops at any time.

### ServerRequests and Messages

`ServerRequests` has what the servers ask: each request is acknowledged or answered
by the proxy, passed on and tracked, or passed on as it is. A registration is a set
of items, of which the proxy takes those it handles; watchers are kept by
registration id with the kinds of change they are for, and `Matching` is
`matchEvent` up to the path. Forwarded requests keep the id their server chose.
`Numbering` is how servers choose: `unique`, or `counting` from 1 in every child, as
the usual libraries do. A server's crash, its return and its giving up are steps of
their own, and so are the turns of a shutdown: what a server that is restarting has
lost, and what it has not, is visible in between.

`Messages` extends it with the client's requests: routed to the primary server of
their document, written to it, held in its buffer, or refused; answered by the
server, or by the proxy when a child dies, the buffer is full, the attempts are used
up, the request is cancelled, the id is one of the proxy's own, or the proxy does not
serve. The two share the servers' lives, so that a step such as `Crashes` answers the
client and forgets the registrations at once, as `handleServerExit` does.

### Configuration

The two files and what `main` does with them: one load for the proxy (`Boot`), the
servers' own files (`LoadServers`), then watches on the files that are there, a
debounce timer (`Reload`), and a load for the log level each time the timer fires
(`ApplyLatestLogLevel`). A load is two steps, as it reads one file after the other,
and several may be under way. Files are changed at any moment, in place or by
another file under the name. Contents are torn, missing, no object, or a record of
the fields that matter; `Merged` is `deepMerge` on these and `Accepted` the schema.
`begun` and `last` number the loads; `unseen` is a history of the changes that
nothing reports.

### ProxyLifecycle

Four ways to a teardown race with a shutdown that asks one server after the
other: exit, a closed connection, the last server giving up, and the shutdown
making servers stop. The bounded waits of `child-server.ts` are the steps
`FlushEnds` and `GraceEnds`; `waitForExit` does not wait for a process that is
already gone. The answer to a shutdown is not written when the loop ends but handed
to the writer (`Writing`), which writes it on a later turn of the event loop
(`AnswerWritten`). `StartResolves` is also the end of the process: `main` calls
`process.exit(0)` on the line after `await proxy.start()` (`../bin/main.ts:128-129`),
so no step of the program is taken after it. `AnsweredUnlessTornDown` says what the
shutdown loop promises, and `ShutdownAnswered`, without the exception, is finding 5.

### Bridge

The source holds a handler for every id, counts ids per child and looks up its
partner by name; both sides crash. A command for a target that is stopped, or that is
on its way up with a full buffer, fails at once (`Delivery`).

### Router and MCParts

A state of `Router` is a configuration of servers. The first claim of an extension,
which the code finds by filling a map, is the least of the pairs of a server and an
entry of it (`Claims`, `FirstOf`); a list of servers is a set of them in
`InConfigOrder`. `MCParts` puts four small parts and `CrashLoop` side by side, which
share no state: a behaviour is of one of them. For the two pure algorithms an initial state is an input, and all configurations and all texts of
the bounded size are initial states.

### Modelling decisions

* `didOpen` is sent only for a document that is not open, as the protocol asks.
* Servers do not share registration ids (they are UUIDs in practice).
* Servers ask and register only once they are initialized, as the protocol demands:
  in `ServerRequests`, only while running.
* In `Messages` a buffer also holds what the module leaves out, so it may be full at
  any time. A shutdown that finds a server starting leaves its buffer as it is, as
  the code does.
* A watch of `fs.watch` follows the file and not its name (Linux, macOS). This is
  outside `src` and marked external, with the changes of files by the user.
* `initialize()` of a managed server is left out: nothing in `src` calls it.
* Children whose `spawn` throws are modelled (`SpawnThrows`); a child whose `error`
  event fires is a child that exits.
* `initialized` reaches a managed server once, as the protocol has it. Shutdown requests
  overlap in `ManagedServer` and `ProxyLifecycle`; in `ServerRequests` one is under way at a
  time, as registrations and requests under way do not depend on their number.
* In `ServerRequests` the client's answer to a server that is restarting is settled or
  dropped at once. The code buffers it for the next child, which never asked.
* `Messages` has the requests that are routed to a primary server. Shutdown is in
  `ProxyLifecycle`, `textDocument/diagnostic` in `Diagnostics`; that no server is configured
  at all (`client-messages.ts:223-225`) is excluded by the schema.
* In `Diagnostics` a proxy that stops takes all servers along at once and not in turn:
  each of them may have stopped by itself before (`GivesUp`).
* In `Configuration` the base file is there and holds an object (`ContentsAssumption`);
  without one a load fails (`config.ts:91-93`), as it does for a torn one, which is modelled.
* A message dropped because the buffer is full, and an event dropped because the
  pending set is full, are what the code chose to do. The properties except them.

## Runs

State counts are distinct states. Every bound is a constant of its module.

| run | states | bounds | shows |
|---|---|---|---|
| `managed_server` | 379,809 | buffer 2, 1 retry, 3 messages, 4 messages and shutdown requests together, 1 crash | 11 properties of one server |
| `workspace_watcher` | 28,220 | 2 files, pending set of 1, 4 changes, delays 2 and 3 | nothing forgotten, nothing late, nothing false |
| `document_sync` | 1,247,002 | 2 servers (1 routed), 4 texts, 4 versions | copies in step, versions climb, edits kept, disk wins |
| `diagnostics` | 216,223 | 2 servers, 2 pulls, 2 lives, 2 delayed pulls | pushes of the living, pulls end |
| `messages` | 532,336 | 2 servers with 2 lives each, 1 registration of 2 kinds, 2 requests each way, one of the client's reserved | every request has its fate, the way back, watchers |
| `proxy_lifecycle` | 61,747 | 3 servers, 2 shutdowns, 3 processes | teardown and shutdown in any order |
| `parts` | 146,561 | 3 servers, 2 languages, 2 extensions; texts of 4 characters, insertions of 2; 5 base files, 8 local files, 2 changes; a bridge with 2 requests per child and 3 lives each; a crash loop with 3 retries, delays 1 to 3, window 2, runs of up to 9 ticks | router, text edits, configuration, no handler stranded; cap, refund, backoff, end of a crash loop, refinement |
| `document_sync_constant` | | | violates `VersionsClimb` |
| `diagnostics_stale` | | | violates `RestartingHasNone` |
| `server_requests_counting` | | | violates `AnswersReachTheAsker` |
| `config_promise` | | | violates `ChangesApply` |
| `shutdown_answer` | | 2 servers, 1 shutdown, a client that stays | violates `ShutdownAnswered` |

Why the bounds are enough:

* `parts`, the crash loop: three retries reach the cap of the delay and go beyond; runs of 9
  ticks earn back the whole budget and more, one attempt at a time.
* `managed_server`: one retry and one crash give a first start, a restart, a failed
  restart and a refusal; a crash after a refund gives a second restart. Three
  messages fill the buffer of two and find it full, and give every order of
  request, sync, internal request and notification around a crash. With two messages
  or fewer a second shutdown follows the first; a client that shuts down sends little
  else.
* `workspace_watcher`: a set of one with two files is full at once; four changes
  let a file change again in each phase of a flush.
* `document_sync`: what goes wrong needs a text before a read, one during it and
  one after; four leave room for a client edit and a disk write in each.
* `diagnostics`: a pull that waits for the second server while the first crashes
  and comes up again needs two lives; two pulls overlap, and two are put off.
* `messages`: with two servers one answers, restarts or gives up while the other
  waits; two requests each way coincide in time, and a second life shows what the
  first has left behind. Servers are symmetric: nothing but the routing, which is
  a choice, tells them apart. Registrations are held one by one, by their ids, so
  one is as good as many; two kinds tell a match from a miss.
* `parts`: two languages that share two extensions give every conflict of claims;
  four characters hold a CR LF, a lone CR and text around them. Two changes of the
  files put one before and one during a load, or one on either side of a watch;
  the files include each way to break the schema and lists that one file takes
  over from the other.
* `proxy_lifecycle`: three servers let one be idle, one be down and one run when a
  shutdown passes; two shutdowns overlap.

Each passing run's properties have a mutant of the code that breaks them (listed in
`PROJECT.json`, written next to the definition they replace and marked *Mutant*):
a dropped guard, a missing reset, a wait without a bound, an order reversed. `CHECK_DEADLOCK` is off
where the system stops: a stopped server, a disposed proxy, an exhausted bound.

## Fairness

Only the program's own obligations are fair, never a server's or the client's.

* `CrashLoop`: timers fire, and a start ends one way or another, since
  `initialize` has a timeout. Nothing makes a server crash.
* `ManagedServer`: continuations run, the retry timer fires, an internal request
  times out (`proxy-request-channel.ts` arms a timer with every request), and the
  waits of `stop()` are bounded. No child has to answer, exit or live.
* `WorkspaceWatcher`: due timers fire, time passes, a look at the disk is answered
  and an accepted callback is called.
* `Diagnostics`: continuations run; strong fairness for the timeout of a pull, which
  is an event that stays due while other handlers and continuations come first.
* `ProxyLifecycle`: continuations of the shutdown loop and of `stopServers`, the
  writer, and the two bounded waits. Nothing of it is left once the process has ended. A shutdown request has the channel's timeout.

## Proofs

Eight modules of proofs, all for every value of the constants.

**CrashLoop_proofs.** `BudgetInv` is inductive: it ties the number of restarts since
a stable run to the attempts spent, by way of the refund timer, which is armed
only while the server is up and cannot fire before its window is over. From it:
types, `CrashLoopCapped`, and that the timed scheduler implements the untimed one
(`TimedImplementsUntimed`), step by step. `RefundInv` counts the windows of a run that
are over by the refunds it has had, from which `OneRefundPerWindow` follows for
windows and runs of any length.

`BackoffSpreadsRestarts` is about a sum and a power, and so needs induction on the
number of attempts. The induction theorems of the library take an operator; here
the claim is put as a set of natural numbers that holds 0 and with each number the
next (`EveryNatural`). That the recursive functions of the model exist and satisfy
their recursions is proved from it (`RecursionDefines`), and that powers of two grow
(`PowerIsMonotone`) from the size of power sets, by `FS_SUBSET` of the library's
`FiniteSetTheorems`.

**ManagedServer_proofs.** All safety properties of the run, in three layers.

*Starts.* `ServerInv` has three parts: the types; `ChildInv`, that
the children attached are the current one and the one `stop()` waits for; and
`StartInv`, that a start has one cause. `OneStartAtATime` is stated for quiet states
and is not inductive: between the settling of `initialize` and its continuation
there is no timer and no handshake outstanding but one continuation that will see
to the start. `StartInv` counts outstanding and settled handshakes together, with
the expectation each carries, and holds in all states. From `ServerInv`: the
types, with the bound of the budget; `OnlyCurrentChildSpeaks`;
`CurrentChildIsAlive`; `OneStartAtATime`; that refunds run only while the server is
up; and `StopsForGood`. One lemma per group of actions carries the proof.

*Messages.* `FlowInv` says of the buffer that it is in order of arrival and empty
while the server is idle or running (`BufferInv`); of the internal requests that one
in the buffer is outstanding or has just failed (`CallsInv`); of the log that it is
in order, that what was written is older than what is held, and that what is owed
was written (`LogInv`); and of every client request that it is in exactly one place
(`RequestInv`). Handlers are many and do few things to messages, so each is first
shown to be a `FlowStep` -- it settles requests, writes to a running child, holds a
message back, turns it away, or hands the buffer over after the handshake -- and then
each kind of step, and not each handler, is shown to keep `FlowInv` and to be a step
of `RequestService` or none. This gives `RequestsAccountedFor`, `DeliveredInOrder`,
`NoAbandonedCallBuffered` and the refinement `KeepsRequestPromise`.

*Handshake and documents.* In the same way each handler is a `HearStep`, by what
children hear of it: nothing, `initialize`, a message, `exit`, or the end of the
handshake with the replay. `HearInv` says what the current child has heard at
each stage, `VersionInv` that the versions of the documents written to a child climb
and reach the tracker's while it runs. From these `HandshakeFirst`, which also has
the documents come before all that waited in the buffer, and `DocumentsInStep`.

*The neighbours.* `ServerDrivesScheduler` is the refinement of `RestartScheduler`: all
handlers together call `schedule`, `markStarted` and `cancel` only when the scheduler
allows it. It needs `StartInv`, which excludes a retry scheduled while one is armed;
that no timer loses its handle (`NoRetryLosesItsName`) follows.
`ServersLiveAsAssumed` says which states follow one another (`Lives`): `Diagnostics`,
`ServerRequests` with `Messages`, and `ProxyLifecycle` have servers of their own that
live so, and this is what entitles them to it.

**WorkspaceWatcher_proofs.** First the promises of the flush scheduler. The
strengthening says
that both timers are armed together and only for a notification no flush covers
(`TimersTogether`), what a flush covers (`FlushCovers`), and that rest and remaining
time add up to the two delays (`RestCounts`), from which `FlushesSpacedOut` follows.
The watcher drives the scheduler step for step
(`WatcherDrivesScheduler`), so these results hold of it. `WatcherInv` adds
that a file none of whose changes is on its way is known as it is, to the batch
if it is in there and otherwise to the server (`KnownAsItIs`). From it
`LastToldIsCurrent`, the bound of the pending set, and that no event in the set is
left lying (`NoEventLeftLying`).

**DocumentSync_proofs.** `SyncInv` gives `CopiesInStep` for any client. `VersionsClimb`
assumes `Versioning # "constant"`; `EditsDuringReadKept` assumes
`Versioning = "climbing"` and needs that a version identifies what the client has
written (`ReadInv`); `ConvergesToDisk` follows from where the text of the disk is at
each phase of a resync (`DiskInv`).

**Diagnostics_proofs.** `PushedByTheLiving` is about what the client was last shown.
It rests on the same of what is stored (`StoredAreOfTheLiving`) and on a pull having
gathered nothing that was pushed (`GotWasPulled`): a late answer may bring a dead
child's list (finding 2) but never a pushed one. `HearingInv` says that a pull
has an answer of exactly the servers it does not wait for and that it never waits for
a server that is stopped, whose answer nothing would settle; with it a pull ends only
after all were heard, and keeps what it has heard (`PullsHearAll`). This is the safe
half of `PullsEnd`.

**Messages_proofs.** `WatchersAreOfTheLiving` follows, for any numbering, from
`WatchInv`: the proxy keeps for a server what its child has registered for, until the
server is stopped for good. `AskersWillHear` and `AnswersReachTheAsker` assume
`Numbering = "unique"` and rest on two facts: all counters are one and no id in use
is beyond it (`OneNumbering`), so an id that is taken is nobody else's; and an id is
in use once (`IdsInUse`). `UniqueIdsSuffice` is the other half of finding 3:
coinciding ids are all that goes wrong with routing by id. `Messages` takes every
step of `ServerRequests` with a part of its own, so its behaviours are behaviours of
`ServerRequests` (`MessagesSpec => Spec`) and these results carry over. For the
client's requests `ClientInv` has the types; the fate of each request, which is
`ClientHears` (`Fate`); which states of a server have a buffer and which have
requests in flight (`Holding`); and that no reserved id gets as far as a server
(`Unreserved`), without which a flush of the buffer would lose a request.

**ProxyLifecycle_proofs.** `LifecycleInv` says what holds before the handshake
(`IdleInv`), while the proxy serves (`ServingInv`: a server that is stopped has lost
its process, nothing is being torn down) and after a teardown (`DisposedInv`: what
has been waited for is gone). Every handler that changes a server's state ends in
`StateChange`, so one lemma (`StateChangeKeepsInv`) carries the three that may tear the
proxy down. From it `ResolvesLast`, `ServesWhileAnyCan`, `ExitOfOneIsSurvived`, and
that a disposed proxy stays disposed (`StaysDisposed`, which no run repeats).

The order of the configuration is `SetToSeq` of the servers, which `OrderOfServers`
shows to be a sequence of all of them without repetition. `ShutdownInv` says that
every shutdown holds a last part of it and waits for the first server of that part.
From it all types (`ProxyTypeCorrect`) and that the answer to a shutdown is
handed to the writer only after every server has had its turn, in order
(`ShutdownAsksAll`), the safe half of `AnsweredUnlessTornDown`. For the teardown the
stages of a stop are ordered (`Advances`): none is ever gone back (`TeardownAdvances`), and after a disposal a server is in a bounded
wait, the second one only for a process that is alive, or done (`NoTeardownIsStuck`).

**Parts_proofs.** For the bridge, `NoHandlerStranded` with the types and
`HandlersAreOfTheLiving`: a source that does not run holds no handler, and ids are
given once. For the configuration, `ConfigInv` with `FreshInv` at its heart: once no
report of a change is waiting and the timer is not armed, the load that began last has
read, or will read, the files as they are. It holds for any number of loads at once,
any contents and any changes, and gives `LevelFollowsTheFiles`; that an accepted
configuration is what the proxy was given (`BootedInv`) gives `EveryBridgeRoutes`.

For the router, `RoutesAreAsConfigured`: a finite set of pairs has a first one
(a least server, and a least entry of it), so an extension that is claimed has a
language; where the servers agree on the extensions of that language, those with the
language are those that list the extension. Without that agreement it is false, as
the note on `router.ts:90` below has it.

For the text edits, `TheTextIsTheClients`, for texts and changes of any length: the
loop of the proxy finds the line the client means. By induction on the lines, again
with sets for operators, the k-th place that `LineOffsets` finds is the one with k
line ends before it, and it is past the end exactly when the text has fewer.

Constants are assumed to be what they must: natural numbers, a buffer and a pending
set that hold something, `Routed` a subset of `Servers`, finitely many languages to
route, finitely many servers to start and shut down (there is at least one), file
contents that are records or one of the named exceptions, and `"none"` and
`"client"` no servers.
Other sets of servers, of files, requests and messages are arbitrary.

Every invariant and action property that a passing run checks has a theorem. Only
model-checked are the six properties that are eventual: `CrashLoopEnds`,
`StartsOrStops`, `TeardownEnds`, `EventsTakenUp`, `PullsEnd` and `AnsweredUnlessTornDown`. They
rest on weak and strong fairness, so on when an action is enabled, which the provers
cannot establish, and on measures that go down, which takes induction over temporal
formulas. Proved is that what is awaited is always on its way: `StartsNeitherLostNorDoubled`
for `StartsOrStops`, `RestartsAreCapped` for `CrashLoopEnds`, `NoEventLeftLying` for
`EventsTakenUp`, and those named above for the other three.

## Findings

Five runs show the code doing what the repository says it does not.

1. `document_sync_constant`. The top-level README (26-27) gives a client that always
   sends `version: 1` as a reason for the proxy. The proxy adds an offset to the
   version the client sends (`client-messages.ts:150`), so that client's servers see
   the same version for different texts.
2. `diagnostics_stale`. `pull()` stores no answer before it has all
   (`diagnostics-coordinator.ts:110`). A server that answers and then crashes while
   another is still silent is cleared first and stored afterwards: the client is
   shown diagnostics of a server that is restarting, against
   `diagnostics-coordinator.ts:69`.
3. `server_requests_counting`. Answers find their way back by an id that servers
   choose without knowing of each other (`server-messages.ts:235`). With servers
   that count from 1, the second request under an id takes the answer to the first,
   against `client-messages.ts:112`.

4. `config_promise`. `main` watches the configuration file by `fs.watch` on its path
   (`../bin/main.ts:40`), a watch that follows the file and is never renewed. Once
   an editor or a checkout has put a new file in its place, changes are not reported
   any more, against `packages/proxy/README.md:45` ("changes apply without restart")
   and the top-level README (151).
5. `shutdown_answer`. A client sends shutdown and waits. The last server that runs exits
   instead of answering, or is not up yet and is stopped on the spot; with it the
   proxy is disposed (`proxy.ts:235-238`) in the middle of the loop. There is nothing
   left to wait for, so `start()` resolves within the same turn of the event loop, and
   `main` ends the process (`../bin/main.ts:129`) before the writer has had its turn
   with the answer of `proxy.ts:206`. `test/proxy/shutdown.test.ts:150` says: "The client is
   owed its answer even though the teardown got there first." It tests the proxy in
   its own process, which nothing ends.

Met while modelling, without a run, since nothing in the repository says
otherwise in so many words:

* A document that was saved and then edited before the flush is put back to its
  saved text by the resync. The resync compares the document with what it was when
  its read began, not with what was saved (`workspace-watcher.ts:203`).
* A document closed and reopened during a resync, by a client that restarts its
  versions at each open, passes the version test and is overwritten with what was
  read before (`Versioning = "restarting"` breaks `EditsDuringReadKept`). So does an edit
  by a client whose version never changes, the one of finding 1 (`"constant"`): the test
  at `workspace-watcher.ts:198` cannot see it.
* A server that is not routed to a document gets it by replay when it comes up and
  never hears of it again (`server-replay.ts`), not even of its close.
* A `registerCapability` that is empty or malformed goes to the client untracked
  (`server-messages.ts:106`); the answer has nowhere to go and the server waits.
* A server that lists an extension under a language of its own is left out when
  another language claims the extension first (`router.ts:90`).
* A shutdown that finds a server starting leaves the client requests in its buffer
  unanswered (`managed-server.ts:423`).
* The registration of `workspace/didChangeConfiguration` is acknowledged by the proxy,
  its unregistration is passed on to a client that never saw it
  (`server-messages.ts:137` and `169-181`).
* `client-capabilities.ts:22-25` speaks of clients that advertise
  `textDocument.diagnostic`; line 41 asks for `dynamicRegistration`.
* A local configuration file that is created after the start is never watched, and a
  change between the first load (`../bin/main.ts:96`) and the watch (120) is missed.
  Two reloads that wait for the disk at once may end in the reverse of their order.
* A bridge's answer that is late reaches the next child of the source and closes that
  child's handler of the same id (`bridge.ts:107`).
* A proxy that is disposed while it looks for the workspace root starts its watcher
  afterwards (`proxy.ts:181`), whose events are ignored and which stays until the
  process exits.

## What is not modelled

* Schemas, types, uris, log lines and the pruning of logs, the capabilities the proxy
  advertises (a constant) and `mergeCapabilities` (which only tests use): no state, no
  order, nothing that depends on another handler.
* Registry and plugin generator: lookups, whose outcomes are choices in
  `Configuration`, and generation of files at build time.
* Pipes and processes below `ChildServer`: a child is alive or not, and messages to a
  child arrive in order or with it die.
* Which path a pattern of a watcher matches, and paths outside of the root or excluded:
  glob matching and symbolic links. A registration's kinds are modelled.
* The body of the answer to `workspace/configuration`; the resolution of relative
  paths in the configuration and the shape of a server's fields.
* Diagnostics of several documents at once: documents do not interact but by the
  servers they share. Two pulls whose answers come in the reverse of their order,
  between which the code does not distinguish.
* The start of the watcher after a teardown, which has no consequence (see above).
* `initialize()` of a managed server, which nothing calls.

## Plan

Order: what can lose or duplicate the client's requests first, what can go stale
next, what only computes last.

Done: every component that keeps state at run time has its module, its runs and its
proofs; the managed server's promise to the client is a theorem, as are the fates of
requests in both directions. Every invariant and action property of the runs is a
theorem, and so is the way the managed server uses its scheduler.

Left, in this order:

1. `Diagnostics` over two documents, for the refresh that pulls for all of them and the
   crash that clears all of them.
2. `Messages` over `ManagedServer` instead of the servers' states, with the buffer in
   its order.
3. `WorkspaceWatcher` with the registrations of `ServerRequests`: several servers, each
   told of what it asked for.
