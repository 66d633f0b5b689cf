# TLA+ models and proofs for the AVS Device SDK

This directory models the core of the AVS (Alexa Voice Service) Device SDK in TLA+,
model-checks it with TLC on small instances and proves, with TLAPS, what can be proved for
every instance. Each module is translated from the C++ source; each definition that stands
for code is listed with its lines in `PROJECT.json` ("map").

To check a module: `tlc -workers 2 -config MCFocusManager.cfg MCFocusManager.tla`.
To check proofs: `tlapm DirectiveProcessorProofs.tla` (and the other `*Proofs` modules).

Contents: [1 inventory](#1-inventory) · [2 modules](#2-the-modules) · [3 runs](#3-the-runs) ·
[4 bounds](#4-bounds) · [5 fairness](#5-fairness) · [6 proofs](#6-proofs) ·
[7 findings](#7-where-code-and-documentation-disagree) · [8 not modelled](#8-what-is-not-modelled) ·
[9 plan](#9-plan)

## 1 Inventory

The SDK connects a device to AVS. AVS sends *directives* down an HTTP/2 connection; the
client sends *events* up. Nearly every part is an object with a mutex, a worker thread or an
`Executor` (a thread that runs submitted tasks one at a time), and observers that it calls
back; the mutex is usually released for the call. Those gaps are where the difficulty lies.

    AVS --HTTP2Transport--> MessageRouter --> MessageInterpreter --> DirectiveSequencer
         <--(events)------       |                                     |            |
                                 | status                     DirectiveRouter  DirectiveProcessor
                          AVSConnectionManager                          \      /
                                 |                                  DirectiveHandlers
                   CertifiedSender, PostConnectSynchronizer       (capability agents)
                                                                   |          |
                                 ContextManager <--- state --------+     FocusManager

| Component (source) | State | Operations | Hard behaviour | What makes it correct |
|---|---|---|---|---|
| `DirectiveProcessor` (ADSL) | handling and canceling queues, directive being pre-handled, current dialog, `m_isHandlingDirective` | `onDirective`, `setDialogRequestId`, `enable/disable`, results from handlers, `shutdown`, `processingLoop` | two threads and any number of handlers; the lock is released for every handler call; a dialog ends while a call is in progress | a dialog ends as a whole; order; a blocking directive holds the queue; nothing forgotten; no lost wake-up |
| `DirectiveSequencer` (ADSL) | receiving queue, enabled and shutdown flags | `onDirective`, `setDialogRequestId`, `enable/disable`, `receivingLoop`, `doShutdown` | `disable()` is two critical sections of the processor; the shutdown joins two threads | one answer for each directive, in order; nothing after shutdown; shutdown returns |
| `DirectiveRouter` (ADSL) | name → handler map, reference count for each handler | add, remove, four kinds of call, shutdown | removal during calls, shutdown during everything, two mutexes | counts are uses; a handler is registered wholly or not at all; the removed handler is told |
| `FocusManager`, `Channel` (AFML) | channel states, set of active channels, task queue | `acquireChannel`, `releaseChannel`, `stopForegroundActivity` | tasks submitted in front; state captured at submission and used later | one foreground; priority; observers told the truth; only the owner releases |
| `MessageRouter` (ACL) | status, active transport, list of transports, executor | `enable/disable`, `setAVSEndpoint`, `sendMessage`, callbacks of transports, shutdown | joins network threads with the mutex released; late callbacks of old transports | disabled is down; no thread lost; calls return; reconnects |
| `HTTP2Transport` (ACL) | network thread, streams, request queue, flags, observers | `connect`, `send`, `shutdown`, `networkLoop` | the end of the loop against messages in three places; two threads to join, one of which may join the other | every message accounted for once; callbacks in order; stops when told |
| `PostConnectSynchronizer` (ACL) | thread, transport, fetch-in-progress and done flags | `doPostConnect`, context and send callbacks, shutdown | retries that meet late callbacks; shutdown on the network thread | a loop that waits has something to wait for; the router hears of no connection after its end |
| `AVSConnectionManager`, `AbstractConnection` | observers, last status | enable, reconnect, add and remove observers | status delivered to a new observer while it changes | each observer's last word is the status |
| `CertifiedSender` | deque, database table, connection flag, request in flight | `sendJSONMessage`, `clearData`, `mainloop`, status callback, destructor | crash and restart, retry, failing storage | stored before sent; order; unique ids; destructor returns |
| `ContextManager` | map of states, pending providers, token, queue of requesters | `setStateProvider`, `setState`, `getContext`, `updateStatesLoop` | iterates over a map with its lock released; late answers; timeouts | fresh context; everyone answered |
| `Executor`, `TaskQueue`, `Timer`, `RequiresShutdown` (Utils) | task queue, thread, flags | submit, submit to front, shutdown; start, stop | shutdown races submission | tasks run once, in order, none after shutdown |
| `SharedDataStream`, attachments (Utils, AVS) | ring buffer, cursors of the writer and the readers, the barrier, three mutexes, two condition variables | write, read, seek, close, create and destroy readers | atomic cursors read without a lock; the barrier is computed while they move | the barrier passes no reader; what is read was written; nobody sleeps through a notification |
| `SpeechSynthesizer`, `CapabilityAgent`, `MediaPlayer` | queue of directives, current one, state and desired state, focus, media source | directives, focus changes, callbacks of the player, shutdown | the focus manager's thread waits for the executor; callbacks, cancellation and focus in any order | current is in front; silent without focus; what is handled is completed |
| Other capability agents: Alerts, AudioPlayer, AudioInputProcessor, SpeakerManager, TemplateRuntime, ExternalMediaPlayer, Notifications, PlaybackController, Settings, System | activity state machine, queue of directives | directives, focus changes, media-player callbacks, buttons | focus and player callbacks in any order with directives; waits under a mutex | every directive completed; one activity; events match states |
| `AuthDelegate` | token, expiry, observer | refresh thread | expiry against retries | the state told is the token's |
| `RegistrationManager` | handlers of customer data | `logout` | partial failure | all data cleared, nothing sent meanwhile |
| MessageInterpreter, MimeParser, JSON, SQLite, logging, MediaPlayer, PlaylistParser, KWD, ESP, SampleApp, DefaultClient | – | parsing, adapters, wiring | mostly sequential, or a library's | – |

The hazards of the code, each at its line, are listed in `PROJECT.json` ("hazards"); the
properties below are aimed at them.

## 2 The modules

Conventions. One action is one critical section of the component's main mutex, or one call
made with that mutex released: whatever other threads may do between two steps in the code,
they may do between two actions. Members guarded by one mutex form one record or one group of
variables; threads have a program counter; a history variable records what the environment
saw. `notify_one` moves a sleeping thread back to test its predicate (and does nothing
otherwise, so that a lost wake-up is possible). The names are the source's, without `m_`.
Directives, messages, handlers and transports are model values or numbers.

Each module also has operators marked "Fault": small changes of a definition, the way a
plausible bug would change it (a dropped test, a missing notification). No specification uses
them; `PROJECT.json` ("mutants") pairs each with a property that it violates.

**Deque** — sequence helpers shared by the queues: the elements, and the parts in or not in a
set.

**DirectiveProcessor** (`ADSL/src/DirectiveProcessor.cpp`). `dp` is the record of members under
`m_mutex`. The functions with `Locked` in their name are operators from record to record
(`Scrubbed`, `Removed`, `AllForCancellation`, `WithDialog`, `Admitted`, `Handled`); the actions
call them, as the methods do, and `Release` is the end of a critical section, which delivers
the notification. `rx` is the thread in `onDirective()` (`m_onDirectiveMutex` admits one),
`proc` the processing thread, `shutdownPc` the thread in `shutdown()`. A handler may report a
result (`SetCompleted`, `SetFailed`) at any time after it was given the result object, also
during its own `preHandleDirective()` and after it was canceled, once. The history variables
`offered`, `preHandled`, `handled`, `blocking`, `canceled`, `reported` record the calls.

**DirectiveLifecycle** — the abstract specification: the phase of each directive (new, offered,
pending, handling, canceling, over), without queues, locks or threads. `DirectiveProcessor!Phase`
is the refinement mapping, `ImplementsLifecycle` the property.

**DirectiveSequencer** (`ADSL/src/DirectiveSequencer.cpp`) extends `DirectiveProcessor` and
composes with it: the processor's `onDirective()` actions become steps of the receiving thread,
its clients those of the sequencer, and `shutdown()` follows the join of the receiving thread.
`seq.holder` says that a client is between the two calls of `disable()`, with the sequencer's
`m_mutex` held.

**DirectiveRouter** (`ADSL/src/DirectiveRouter.cpp`, `RequiresShutdown.cpp`). Any thread may be
in any method. `BeginAdd`/`EndAdd` separate the locking of `m_mutex` from `isShutdown()`, which
needs `RequiresShutdown::m_mutex`. The four calls to handlers go through one `HandlerCallScope`
and are one action. `Notify` is `onDeregistered()`, called with the mutex released.
`getConfiguration()` is assumed to return the same for a handler each time.

**FocusManager** (`AFML/src/FocusManager.cpp`, `Channel.cpp`). A task of the executor is a record;
it runs in steps, one for each critical section or call of observers. `ReadForeground` and
`SubmitStop` are the two halves of `stopForegroundActivity()`. `told` is what each activity's
observer last heard.

**CertifiedSender** (`CertifiedSender.cpp`, `SQLiteMessageStorage.cpp`, `MessageRequest.cpp`).
`rows` is the database table and survives `Restart`, which stands for a crash at any step as
well. `NextId` is the storage's maximum id plus one. `store`, `erase` and `clearDatabase` may
fail. `corrupted` is set when the code pops an empty deque (see section 7): then nothing more is
claimed of the run, and no further step of the sender is modelled.

**ContextManager** (`ContextManager.cpp`). A state is the number of the round it was provided in,
which is what freshness is about. The iteration over the map is a set of entries still owed;
an insertion may reorder the hash table, which the model allows as any choice of the rest
(`disturbed`). Use of an erased entry or of a null provider sets `corrupted`.

**MessageRouter** (`MessageRouter.cpp` and the part of `HTTP2Transport.cpp` that the router
sees). Transports are numbered by creation; each has a network thread `net[t].pc`. A client that
runs `disconnectAllTransportsLocked()` takes the transports along in `call[c].moved`, lets go of
the mutex, and shuts down and joins one after the other. The executor runs the releases.

Its abstract view of a transport, `Life(t)`, is checked against `TransportLife` (`TransportsKeepLife`).

**TransportLife** — the abstract specification of one connection: the order in which the router
hears of it, and that it is shut down after its end. It is what the composition rests on:
`MessageRouter`, where a transport is a thread that may do little else than call back, implements it
for each transport (`TransportsKeepLife`), and so does `HTTP2Transport` with all of its streams and
its synchronizer (`ImplementsLife`).

**PostConnectSynchronizer** (`PostConnectSynchronizer.cpp`): `postConnectLoop()` by the places
between its critical sections, the answers of the context manager, and the operations that the
network thread and the owner perform on it, as functions that give the members they leave behind.

**HTTP2Transport** (`HTTP2Transport.cpp`) extends it. `net` is the network thread with the streams
that `curl_multi_perform()` reported finished and the observers still to be told; what libcurl
does is a choice (streams finish, get a response, stall; anything may fail). `answers` counts
the calls of `sendCompleted()` of each message, `lost` are those whose stream was released without.
A message that is taken from the queue gets a stream, or is answered at once without one
(`SendsNext`), or libcurl refuses the handle of its stream (`AddHandleFails`): then the stream is reset before it
is asked to notify, `sendCompleted()` is called through a null pointer, and the process ends
(`"crashed"`; no thread takes a step after that, `Alive`). The event of the synchronizer is a message
like the others, and its answer a step of the network thread.

**SharedDataStream** (`AVSCommon/Utils/SDS`): the cursors are atomic, so an action is what happens
between two points where another thread can tell the difference: a write is claim, publish and
notify, a scan for the oldest reader is one step for each reader it compares and one more where
the code loads the cursor a second time. A word of data is the index it was written at, or `Torn`
while it is being written. `raced` and `behind` are history variables for the two ways in which
the barrier can be wrong (section 7).

**SpeechSynthesizer** (`SpeechSynthesizer.cpp`, with what it uses of `CapabilityAgent.cpp`,
`MediaPlayer.cpp` and `FocusManager.cpp`). The tasks of the executor are one step each, and a
handler is an operator from the agent's record to the record it leaves, since handlers call each
other (`StopPlaying` may end in `PlaybackError`). `caller` is the focus manager's thread inside
`onFocusChanged()`. `CancelledWaiting` erases the first match in the queue, as the loop with its
`break` does (483-488). `halted` records a null pointer that is used or a mutex that is locked twice:
nothing is claimed after that. `agent.again` records that the player was to play while it had a source,
which section 7 explains; `SilentWithoutFocus` claims nothing after that either. The specifications are
called `SpeechSpec` and `FairSpeechSpec`.

**MC modules** fix the constants for TLC. **Proof modules** are in section 6.

## 3 The runs

| Run | Distinct states | What it shows |
|---|---|---|
| DirectiveProcessor | 953,273 | A failure ends the dialog until a client sets it again (`FailedDialogsStayEnded`); a blocking directive holds the queue (`BlockingHoldsQueue`); nothing overtakes (`HandledInOrder`) or is forgotten (`NothingForgotten`); refinement of `DirectiveLifecycle` |
| DirectiveSequencer | 128,336 | One answer for each directive, no "unsupported" after a handler had it (`OneAnswer`); no lost wake-up in either thread (`EveryDirectiveAnswered`, `QueueServed`); `doShutdown()` returns (`SeqShutdownReturns`) |
| DirectiveRouter | 48,584 | `CountsAreUses`, `AllOrNothing`, `RemovedIsTold`, `ShutdownLeavesNoHandler` with four threads |
| FocusManager | 195,989 | `OneForeground` at every step; `FocusByPriority` between tasks; `ToldIsTrue`; `AcquireServed` although stops go in front |
| CertifiedSender | 136,982 | `OpenIsQueuedAndStored`: an accepted, unanswered message is queued and stored under the id to be erased; `SentInOrder` with retries; `DestroyReturns`; `QueueDrains` |
| ContextManager | 780,823 | `ContextIsFresh`: no late answer and no earlier state is handed out; `RequestersAnswered` whatever providers do |
| MessageRouter | 375,160 | `DisabledIsDown` with late callbacks and unlocked joins; `TransportsAreHeld`; `TransportsKeepLife`: the transports it is checked with are those of `TransportLife`; `CallsReturn`: no join waits for a thread that waits for the joiner |
| HTTP2Transport | 58,053 | `AnsweredOnce`: an accepted message is queued, on a stream, answered or dropped with its stream, when the loop or the process ends, once; `ConnectNeverBlocks`; `FirstFetchIsInProgress`; `ImplementsLife`: what `MessageRouter` assumes of a transport; `QueueServed`; `ShutdownReturns` |
| SharedDataStream | 11,702,286 | `BarrierHolds` while cursors move under the scan; `ReadsAreIntact` without a mutex around the copy; `WriterSleepsWhenFull` and `NobodySleepsAfterClose`: no notification is missed |
| SpeechSynthesizer | 2,093,333 | `FrontIsCurrent`; `SilentWithoutFocus`; `HandledIsAnswered` |
| SharedDataStreamNotify, SpeechSynthesizerCancel | – | the first two disagreements of section 7, each with a counterexample |

The modules state more properties than the runs list. The proofs of section 6 establish or use the
type invariants, `CurrentDialogOnly`, `DisabledQueuesNothing` and `SleepsOnlyIdle` of
DirectiveProcessor, `SeqTypeOK`, `HandledInArrivalOrder`, `NothingAfterShutdown` and
`ReceiverSleepsOnlyIdle` of DirectiveSequencer, `OnlyOwnerReleases` of FocusManager, `IdsDiffer` and
`WorkerSleepsOnlyIdle` of CertifiedSender (of those on sleeping threads, the runs check what rests on
them, the liveness properties). `CancellationServed` of DirectiveSequencer holds on the instance of its
run. Those that section 7 says the code does not keep fail on theirs. To check one, add it to the cfg of
its module.

All runs say `CHECK_DEADLOCK FALSE`: each system may legitimately stop, after shutdown, after
the destructor, or when the bounded inputs are used up. That it does not stop early is what the
liveness properties check.

## 4 Bounds

- DirectiveProcessor: three directives, two of one dialog and one of none, and a second dialog
  without directives to switch to. A third directive is needed so that one is handled, one
  waits and one is being pre-handled. The two of one dialog are symmetric (no liveness there).
  Each directive is offered once; results are reported once. DirectiveSequencer: two directives
  (one of a dialog, one of none) because it checks liveness; the third would add queues of
  length three only.
- DirectiveRouter: three handlers with overlapping names `{n1,n2}`, `{n2,n3}`, `{n3}`, so that
  configurations conflict in part; four threads: caller, remover, adder and shutdown. The
  state space is finite without further bounds.
- FocusManager: three channels and four activities, two of one interface on one channel with
  different observers, two on different channels with the same observer; each activity is
  requested once, up to `MaxQueue` = 2 tasks wait behind the running one: enough for a stale
  task and one that overtakes it.
- CertifiedSender: three messages, `HardLimit` 2 so that the queue is full and refuses, one
  `clearData()` (`MaxClears`), one restart (`MaxRestarts`).
- ContextManager: two names, two requesters, two insertions into the map (`MaxInserts`). The
  token has 16 bits (`TokenRange`): no run comes near the wrap, and that is deliberate, as the
  real one has at least as many rounds.
- MessageRouter: two clients, three transports (`MaxTransports`), three calls (`MaxCalls`).
  Three transports give an old one, a draining one and a new one. `createTransport` past the
  bound behaves as a failed one, which the code handles too.
- HTTP2Transport: two messages beside the event and a pool of two streams (`MaxStreams`), one of
  which the downchannel has: the pool is full, a message waits in the queue while another is on a
  stream, and the event competes with both. Otherwise the state space is finite by itself.
- SharedDataStream: a buffer of two words (`DataSize`), three words ever written (`MaxIndex`), so that the
  buffer wraps and is full; two readers (`MaxReaders`), the least for which a scan can go wrong; four
  calls of the readers in all (`MaxCalls`), each in its steps: create both, and two more that race.
  A write has at most `MaxWrite` = 2 words, so that an ALL_OR_NOTHING write larger than the buffer,
  of which section 7 speaks, is not part of the run.
- SpeechSynthesizer: two directives; one event out of a bad payload, a failure of the player,
  another observer of the channel, and IDLE (`MaxEvents` = 1). Acquisition by the agent itself
  already takes the channel away from it, so that focus is lost without using that bound.

## 5 Fairness

The C++ threads are scheduled by the operating system: a thread that can step does so, hence
weak fairness on the steps of each thread. Clients, handlers, providers, the network and AVS
have none, with these exceptions, each stated in the specification that needs it:

- `ReportingSeqSpec`: a handler that was asked to handle a directive reports a result. A
  blocking handler that never does holds the queue by design.
- `SF` on `RecvStep` (DirectiveSequencer) and on `Continue` (DirectiveRouter): these threads
  wait for a mutex that others take and release over and over; strong fairness says that a
  mutex is granted in the end to a thread that wants it.
- Calls to handlers, observers and transports return (they are steps of the calling thread).
- ContextManager: the timeout of `wait_for` fires, being a step of the loop.
- `QueueDrains` (CertifiedSender) states its own premises: the connection comes to stay, ACL
  completes each request, and AVS answers again and again. `DestroyReturns` needs none of it.
- HTTP2Transport: the network thread, the synchronizer's and the owner's run. A message on a stream
  comes to an end (`SF` on `MessageEnds`): libcurl finishes it or `hasProgressTimedOut()` does.
  That libcurl or a ping fails (`Stops`, `AddHandleFails`) is not fair. `QueueServed` and `ShutdownReturns`
  promise nothing once the process has ended in `AddHandleFails`.
- SharedDataStream has no liveness property: a writer may wait for ever for readers that do not
  read. That nobody sleeps without reason is stated as invariants.
- SpeechSynthesizer: the executor, the focus manager's thread and the player run; the five seconds
  of `wait_for` are a step of the waiting thread. The sequencer, IDLE and failures are not fair.
- MessageRouter: a network thread that was told to stop, or has to call back, does so;
  connecting and losing connections are not fair.

## 6 Proofs

TLAPS checks the following for every value of the constants, subject to the named `ASSUME`s of
the modules, which the runs evaluate: any set of directives, dialogs, clients; any number of
transports; any handlers, and any finite sets of names and threads; any channels, activities and
length of the task queue; any number of readers and size of the buffer; any messages, limits and
restarts; any names, providers and requesters.

**DirectiveProcessorProofs**

- `TypeCorrect`: `Spec => []TypeOK`. The inductive invariant is `TypeInv`, `TypeOK` and
  `ThreadsHoldDirectives`: a thread in a call holds a directive, and the one that cancels has
  some left. Each `Locked` function has a lemma for its type, and `Release` one.
- `OnlyCurrentDialogWaits` and `FailureEndsDialog`: `CurrentDialogOnly` and
  `FailedDialogsStayEnded` are proved together (`DialogInv`), because a failure ends a dialog by
  scrubbing it, and a scrub is complete only because what waits is of the current dialog. The
  strengthening `PreHandledIsReceived` ties the directive being pre-handled to the thread in
  `onDirective()`: without it `Admitted` could queue a directive that was never tested.
- `MarkIsFront`: `FrontIsHandled`, that `m_isHandlingDirective` marks exactly the front. It is the
  fact on which every later test `m_isHandlingDirective && front == directive` relies. The proof
  needs to know that no directive is queued twice and that what comes off the queues keeps its
  order (`FrontInv`, `CallsAgree`).
- `DisabledIsEmpty`: `DisabledQueuesNothing`; the functions other than `Admitted` only take
  directives away (`LockedFunctionsLose`), and `Admitted` queues only what nobody took.
- `NothingIsForgotten`, `BlockingHolds` and `HandledInOrderOfArrival` rest on `PlacesInv`: what is to be
  canceled neither waits nor is being pre-handled, it was offered before, and a directive whose
  `handleDirective()` has not returned does not count as blocking yet. Every step but those of six kinds
  is one that `Settles` describes: it takes some directives out and queues others for cancellation
  (`Moves`). Each later invariant is proved once for all such steps, and once for each of the six.
  `KeptInv` is `NothingForgotten` with the directive that is being routed; `HeldInv` is
  `BlockingHoldsQueue` with the directive whose call has not returned; `OrderInv` says that the queue has
  the order of the offers and that nothing still in it was overtaken.
- `LifecycleImplemented`: `Spec => ImplementsLifecycle`, the refinement of `DirectiveLifecycle` under
  `Phase`. Each step maps to a step of the abstract specification or to a stutter.
- About DirectiveSequencer, for which `SequencerRunsProcessor` shows that its steps are steps of the
  processor (`SeqSpec => Spec`), so that all of the above holds in the composition: `AnsweredOnceOnly`
  (`OneAnswer`), `HandledAsArrived` (the order of arrival is kept across both queues) and
  `SilentAfterShutdown`. Their invariant is `SeqInv`, the processor's
  with `ArrivalInv`: what waits came last, what was answered or offered came before it, and the receiving
  thread holds the one in between, which has no answer yet.
- `NoWakeUpIsLost` (`SleepsOnlyIdle`) and `NoArrivalIsMissed` (`ReceiverSleepsOnlyIdle`): neither thread
  sleeps while its predicate is true. `Notifies(s, t)` says of a `Locked` function that it
  notifies if it makes the predicate true, or leaves it as it was; each such function has it
  (`LockedFunctionsNotify`), it composes, and a critical section that has it wakes the thread
  (`ReleaseWakes`). A scrub must also notify when it clears `m_isHandlingDirective`: it does so because
  the front it unmarks is one of the directives it moves.
- The module begins with the lemmas on `Keep` and `Without`, that is on `SelectSeq`: what they keep, that
  they keep the order, that they return a sequence over the same set. They are by induction on the
  length, from the definition, with a least counterexample in place of the library's induction operator.

**HTTP2TransportProofs**. `TypeInv`, `NetHolds` and `StreamsHold` are the types and what the network
thread has at hand at each of its places; `TypeCorrect` is their conclusion. The rest is in layers:

- `EndsInv` says who may still run when: before `connect()` nothing has happened (`FreshInv`); when the network
  thread is done the transport is stopping and no stream is active (`OverInv`); the owner stops before it
  joins (`OwnerInv`). `ConnectGoesOn` (`ConnectNeverBlocks`) follows: the synchronizer is not shut down before
  the transport is stopping or its network thread runs.
- `PlacesInv`: the queue, the streams, the messages lost with their streams (`AddHandleFails` included)
  and the answered ones are disjoint, and together what was accepted; the event is accepted once, as its sender takes the
  synchronizer's transport away. `AnsweredOnlyOnce` is `AnsweredOnce`.
- `FetchInv` says what a fetch in progress waits for: `FirstFetchInProgress`.
- `LifeInv` (`SaidInv`, `ClosedInv`) ties what the router was told, and what it still has to hear, to
  the flags and to the network thread's place. With it each step is one of `TransportLife` or a stutter: `LifeImplemented`.

**MessageRouterProofs**: `TypeCorrect` (`TypeOK` is inductive as it stands: it says that the active
transport is one of `transports` and that these have not ended), `DisabledStaysDown` and
`NoThreadIsLost`, which follow by one lemma for each action from `TypeOK` and themselves.
`TransportsLive` is the other side of `LifeImplemented`: what the router's module takes from a
transport is `TransportLife`, for each of any number of transports. The two specifications are compared
with the same abstract one; that the two modules, put together, do what each of them does alone is
an argument about their interface, and not a theorem.

**DirectiveRouterProofs**. The inductive invariant is `RouterInv`: `TypeOK`, `ThreadsHold` (a thread
that adds or calls holds a handler, and only a thread with notices to give has any),
`AllOrNothing` and `CountsAreUses`. None of the last three parts is inductive alone: a removal
subtracts the size of the handler's configuration, which leaves a count that is not negative only
because the handler has all of its names and the count is mappings plus calls.
`TypeCorrect`, `RegisteredWhole` and `CountsAreRight` follow at once. `ShutdownIsFinal` adds
`DownInv`: nothing is mapped while a thread is between `doShutdown()`'s removal and the end of
`shutdown()`, since `addDirectiveHandler()` needs the mutex that thread holds.
`NobodyIsForgotten` is `RemovedIsTold`: it needs `RouterInv`, because the last call to return
tells the handler exactly when the count it finds is one.

**FocusManagerProofs**. The inductive invariant is `FocusInv`: `TypeOK`, `TasksFit` (a task is made
for a channel, and for an activity of that channel), `OwnersFit` (an activity owns no channel but its own), `ToldIsTrue`, and one part for each place of the running task: `BetweenTasks`, `Entering`, `Granting`,
`GrantingNext`, `Dropping`, `Leaving`, `PassingOn`. Between tasks the focus of every channel is a
function of the set of active ones; within a task it is so but for the channels that the task has
still to tell, and each part says which. `OneForeground` holds within a task because every
acquisition takes the foreground away before it grants it, and every release passes it on after it
took it away. The channel of highest priority exists because `<` on priorities is well-founded
(the `Highest` lemmas), which needs `PriorityAssumption`, that no two channels have the same
priority. `ForegroundIsOne`, `FocusIsByPriority`, `ObserversKnow` and `TypeCorrect` follow.
`OwnersRelease` is the action property `OnlyOwnerReleases`: the helper for a release tests the owner
without the mutex and takes the channel away later; `ReleasedIsOwned` says that the owner is still the
same then, since only the executor changes owners.

The second half is about SpeechSynthesizer, which names its actions so that one module can hold
both. `SpeechInvariant` gives `SpeechTypeOK` and `FrontInv`: `FrontHolds`, that a current directive
that is in the map is the front of the queue; `NewIsNew` and `Unasked`, that a task which puts a directive into
the map has one that is neither current nor queued, and no earlier task can bring it there. `SpeechTypeCorrect` and `FrontIsAlwaysCurrent` follow. `SilentUnlessFocused` adds
`SilentInv`, which holds while nothing has disturbed the agent: `SourceHolds` (without a source the player
is silent and none of its callbacks is pending; `finished` comes once, after `started`), `FocusHolds` (without
focus the desired state is FINISHED; with it no change of state is queued behind the end of the playback)
and `CallerHolds` (`onFocusChanged()` has returned in the state that it was to achieve). The steps of the agent are grouped by the operator that they
end in, for which there is one lemma each.

**SharedDataStreamProofs**. The inductive invariant is `StreamInv`, with the parts `TypeOK`,
`ReadersFit`, `AllAwake` and `SleepsWhenFull` (who sleeps, and why), `ScansSeeAll` and `BarrierBefore`
(a scan in progress has no oldest reader so far that is ahead of one it has passed: otherwise a
barrier computed from it would pass that reader), `WritesFit`, `WordsStay` and `CopyIntact` (the
words between the barrier and the writer stay in their slots until they are copied). The last three
rest on `SlotsApart`: indices less than `DataSize` apart have different slots, and a write
claims only such. The actions are grouped by what they leave alone (`QuietStep`, `PlacedStep`,
`ScanStep`, `WriterStep`). `BarrierIsBehind`, `WriterIsWoken`, `ReadersAreWoken`, `TypeCorrect` hold
for any size of write; `WordsAreIntact` assumes `MaxWrite <= DataSize`, as a larger
ALL_OR_NOTHING write puts words into the wrong slots (section 7).

**CertifiedSenderProofs**. The inductive invariant is `SenderInv`: `TypeOK`, `WorkerFits`, `RowsFit`,
`QueueFits` (each queued request is stored, under an id of its own), `AcceptedOnce`, `InOrder` (the
queue has the order of acceptance) and `OpenWaits` (nothing owed to AVS has left it). That the id drawn
by `store` is new needs a maximum, which exists because `RowsFit` bounds the ids (well-foundedness
again). The request in
flight stays at the front from its transmission to its answer, unless `clearData()` raced it: so what
`pop_front()` removes is what was answered, and what a retry pushes back takes its old place.
`NothingIsLost`, `OrderIsKept`, `IdsAreUnique` and `TypeCorrect` follow, from `SenderAssumption`.
`WorkerIsWoken` is `WorkerSleepsOnlyIdle`: with the types of `SenderInv` it is inductive, since whoever
makes a message sendable, or tells the worker to stop, wakes it. `sendJSONMessage()` and the destructor
notify after they have let go of the mutex, which the model has as one step with the change.

**ContextManagerProofs**. The inductive invariant is `ContextInv`. `Gathered` says that in a round
that no insertion disturbed, a state that is refreshed was told in this round, or its provider is
still to be asked or awaited; hence everything handed out after a wait that did not time out has this
round's number (`Handed`). `RoundsFit` says that nobody in the queue waits for a later round than the
one that will answer. Both are false if tokens come round again: `TurnFits` counts that there
are no more rounds than answered requesters, and one, and the theorems assume `NoFullTurn`, that
there are fewer requests than tokens. `AnswersAreFresh` and `TypeCorrect` follow.

Every invariant that a passing run checks is stated by a theorem, and so are the three refinements and
`HandledInOrder`. Model-checked only, as TLAPS has no ENABLED, are the liveness properties:
`EveryDirectiveAnswered`, `QueueServed` and `SeqShutdownReturns` of DirectiveSequencer, `AcquireServed`,
`DestroyReturns`, `QueueDrains`, `RequestersAnswered`, `CallsReturn`, `QueueServed` and `ShutdownReturns` of
HTTP2Transport, and `HandledIsAnswered`. That no wake-up is lost, on which `EveryDirectiveAnswered`,
`QueueServed` of DirectiveSequencer and `QueueDrains` rest beside the fairness, is proved: `NoWakeUpIsLost`,
`NoArrivalIsMissed`, `WorkerIsWoken`. The two violated properties of section 7 are counterexamples
of TLC.

## 7 Where code and documentation disagree

The first two are runs that TLC finds violated.

1. **SharedDataStreamNotify.** `Writer.h:281-293`: the comment wants `dataAvailableMutex` locked while
   `writeStartCursor` moves, unless the policy is NONBLOCKABLE; the test is the other way round, and a
   blocking reader can miss the notification of the writers that the comment is about.
2. **SpeechSynthesizerCancel.** `SpeechSynthesizer.cpp:493-505` against `176-212`: a directive that is
   cancelled while its focus is being gained leaves `onFocusChanged()`, and with it the focus manager,
   waiting for five seconds; afterwards the state stays GAINING_FOCUS and the directive stays in
   front of the queue, so that no later Speak is handled.

The next seven have no run. The modules state the property, and TLC finds it violated when it is put
in the cfg of the module.

3. `RejectionCancelsDialog`: `DirectiveProcessor.h:45-48` promises that a directive
   without a handler cancels the queued directives of its dialog. `onDirective()`
   (`DirectiveProcessor.cpp:92-103`) only returns false.
4. `ShutdownReturns` of DirectiveRouter: `addDirectiveHandler()` calls `isShutdown()` with the router's
   mutex held (`DirectiveRouter.cpp:46-48`), and `shutdown()` holds the mutex that
   `isShutdown()` needs while `doShutdown()` waits for the router's: a deadlock.
5. `AcceptedIsWaiting`: `CertifiedSender.h:43-44,85-86` promises to send persisted
   messages "across application runs"; `init()` never loads them.
6. `TimeoutIsDeserved`: a provider removed while it is pending stays in
   `m_pendingOnStateProviders`, and every later request times out
   (`ContextManager.cpp:80-87,165-172,240-247`).
7. `ReconnectsWhenEnabled`: `MessageRouter.h:201` promises that any disconnect while enabled
   triggers a reconnect; `MessageRouter.cpp:135-146` reconnects only from CONNECTED.
8. `FetchIsInProgress`: `PostConnectSynchronizer.h` says of `m_contextFetchInProgress` that it is reset
   "when the send of SynchronizeState event fails"; it is, but `onContextAvailable()` has swapped
   `m_transport` out (`PostConnectSynchronizer.cpp:163`), so that the next context is sent nowhere and the
   flag stays set. `FirstFetchIsInProgress` is what remains true.
9. `FailuresAreReported`: `notifyRequestObserver()` is to "notify the current request observer that the
   transfer is complete" (`HTTP2Stream.h:117-118`). When `addHandle()` fails, `HTTP2Transport.cpp:610-616` calls
   `releaseStream()` first, which resets the stream, and the stream forgets its request
   (`HTTP2StreamPool.cpp:134`, `HTTP2Stream.cpp:158-170`); `notifyRequestObserver()` then dereferences a null
   pointer (`HTTP2Stream.cpp:452-454`), and the message, off the queue already, is never answered. Only if the
   curl handle cannot be reset either does the request stay with the stream, and is answered.

Noted while modelling, without a property of their own:

- `DirectiveHandlerInterface.h:100-112` lets a handler expect no calls after `onDeregistered()`;
  `DirectiveRouter.cpp:130-142` calls it while calls are in progress. The same interface lets it
  expect no calls for a directive after `cancelDirective()`; as `DirectiveProcessor.cpp:91-94`
  lets go of the mutex around `preHandleDirective()`, the processing thread may cancel a
  directive before the handler is asked to pre-handle it.
- `DirectiveSequencerInterface.h:102`: "while disabled" the sequencer "should not be able to
  handle directives"; directives received before are still taken from the receiving queue and
  passed to handlers with HANDLE_IMMEDIATELY policies (`DirectiveSequencer.cpp:127-181`).
- `FocusManagerInterface.h:109-113` describes `stopForegroundActivity()` as stopping the current
  activity; as the interface name is what is compared, a later activity of the same interface on
  the channel is stopped instead (`FocusManager.cpp:102-117,197-214`).
- `clearData()` (`CertifiedSender.cpp:251-258`) empties the deque while the worker waits for the
  answer to its front; `mainloop()` then calls `pop_front()` on an empty deque, or on another
  message (184-202).
- `MessageRouter.h:176` says a transport is held until its `shutdown()` returned; the executor's
  shutdown drops queued releases (`TaskQueue.cpp:45-50`). `TransportsAreHeld` therefore claims
  nothing once the executor ends.
- `releaseAllEventStreams()` (`HTTP2Transport.cpp:844-856`) releases the requests in flight without
  `sendCompleted()`, also one that was given a stream after `perform()` had nothing left to do; they
  are `lost` in `AnsweredOnce`.
- `BufferLayout.h:645-646` loads a cursor twice: it may move in between, and the barrier then passes
  a reader, although the comment above has it that "it will always be older than the readers"
  (`raced`). The barrier never moves back, so that a reader that seeks backwards, or is created on old
  data, behind it may be overwritten by the policies that promise not to (`behind`).
- `Writer.h:255-277` copies the trailing words of an ALL_OR_NOTHING write that is larger than the buffer
  to where its first words would be: to other slots than those they are read from, unless the
  number of words is a multiple of the buffer's.
- `Reader.h:333` checks for an overrun with the cursor that was advanced, not with the one whose words
  were copied. `createReader()` of old data gives up when a write overtakes its seek
  (`SharedDataStream.h:446-454`). A NONBLOCKING reader of a stream that was closed before anything was written
  gets WOULDBLOCK for ever (`Reader.h:276-279`).
- SpeechSynthesizer: `onFocusChanged()` uses `m_currentInfo` after it unlocked `m_mutex`
  (`SpeechSynthesizer.cpp:206-209`), and `startPlaying()` without a test; both may be null by then.
  `doShutdown()` holds `m_mutex` while `stopPlaying()` may call `executePlaybackError()`, which locks it (325,
  649). A task of a source that has finished, late, ends the directive that came next, or sets
  PLAYING without a source. Two `return`s are missing in `executePreHandleAfterValidation()` (406-408,
  426-430), so that a directive that has failed gets into the map, and its result is called twice.
  A malformed directive stops what is being spoken (797-802). Playing may start twice: when the playback
  ends by itself, `onFocusChanged(NONE)` returns as soon as the state is FINISHED, and the `executeStateChange()`
  that it submitted (199) stays in the executor. With the next FOREGROUND it runs as well as the new one, so
  `startPlaying()` is called twice, the second time with an attachment reader that was moved
  away; when the first source is reported finished, the agent forgets the second, and the channel
  can be given away while the player still has a source. `SilentWithoutFocus` excludes that by
  `agent.again`: without this conjunct TLC finds it with `MaxEvents` = 3. A directive cancelled before
  `onFocusChanged()` is spoken anyway.

## 8 What is not modelled

`PROJECT.json` ("components") lists every part with the reason. In short: parsing, formatting,
logging, configuration and wrappers of libraries have no behaviour that a model checker would
reach better than a test; GStreamer, libcurl, SQLite and keyword engines belong to others;
the other capability agents and timers come later in the plan. Inside the modelled
parts: observers' own code, metrics and log lines, JSON, and allocation failure.

Hazards of parts without a module: a new observer of `AbstractConnection` is told the status read
before the lock was released (`AbstractConnection.cpp:42`); `reconnect()` reads `m_isEnabled` and then disables and
enables (`AVSConnectionManager.cpp:114`); `sendMessage()` calls `sendCompleted()` with `m_connectionMutex` held
(`MessageRouter.cpp:94`). The token of ContextManager wraps (`ContextManager.cpp:188`): `NextToken` models
it, and `ContextIsFresh` is false after a full turn, which no run reaches and which `AnswersAreFresh`
excludes by its assumption.

What the properties of section 3 leave open: in MessageRouter no client calls
`enable()` or `setAVSEndpoint()` once `doShutdown()` has begun; those that began before go on. `SeqShutdownReturns` is about the processor and the receiving thread; the shutdown of
the router, which `doShutdown()` calls after both, is item 4 of section 7. `ShutdownLeavesNoHandler` is about
the guard of the addition; that none is half done is `AllOrNothing`. `HandledIsAnswered` promises nothing after a
timeout in `onFocusChanged()`. A failing `setSource()` and a failing `play()` are one case of `StartPlaying`:
both end in `executePlaybackError()`, which forgets the source. A request that joins a round of ContextManager may be answered
with states that were told before it, in that round (`ContextIsFresh`).

Taken for granted: a handler's `getConfiguration()` does not change; a handler reports each
result once; mutexes and condition variables behave as the standard says (spurious wake-ups
change nothing, since every wait has a predicate).

## 9 Plan

Done: DirectiveProcessor, DirectiveLifecycle, DirectiveSequencer, DirectiveRouter, FocusManager,
CertifiedSender, ContextManager, MessageRouter, TransportLife, HTTP2Transport with
PostConnectSynchronizer, SharedDataStream, SpeechSynthesizer, and the proofs of section 6.

Next, in this order:

1. `AudioPlayer`, with the operators for the player and for focus of SpeechSynthesizer moved to a module
   that both use, and `DirectiveLifecycle` as the environment of both.
2. `AbstractConnection` with `AVSConnectionManager`: what a new observer is told while the status
   changes; `reconnect()` against `disable()`.
3. `AlertScheduler` with `Alert`: storage failures, focus, snooze, restart.
4. `Timer` and `Executor` as small modules with their own abstract specifications.

Theorems to prove next: that nobody who waits in `onFocusChanged()` can be forgotten unless something was
cancelled, which is what section 7 leaves true of SpeechSynthesizer; that a thread which waits for
another's end (the joins of MessageRouter and of HTTP2Transport, the destructor of CertifiedSender) waits for one
that has been told to stop.
