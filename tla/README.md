# A TLA+ verification project for clap-rci

clap-rci runs the user interface of a CLAP audio plugin in a process of its
own.  The plugin, a shared library inside the host, embeds a gRPC server; the
GUI is a gRPC client that the plugin starts.  This directory models the parts
of that bridge in which threads, streams and processes meet, checks them with
TLC on small instances and proves the central facts with TLAPS for all
instances.  Paths below are relative to `src/src/` unless they start with
`src/`.

Contents: [the system](#the-system), [the modules](#the-modules),
[the runs](#the-runs), [the proofs](#the-proofs),
[where code and documentation differ](#where-code-and-documentation-differ),
[what is not modelled](#what-is-not-modelled), [the plan](#the-plan),
[running it](#running-it).

## The system

### Components

| component | state it keeps | operations | what makes it correct |
|---|---|---|---|
| `core/blkringqueue.h` | ring of cells, two semaphores, a count, two private cursors | enqueue, dequeue (try, wait, timed), pop, peek, size | it is a bounded FIFO; the two threads never touch one cell; items are constructed and destroyed once; a waiting consumer is woken |
| `core/timestamp.h` | the last accepted client stamp, two atomics | `setIfNewer`, `delta`, `subtractMilliseconds` | only newer stamps pass; the arithmetic borrows right |
| `core/processhandle.*` | pid and status of the GUI process | start, wait, check, terminate, move, destroy | only one's own child is signalled or reported; no child is left behind |
| `server/shareddata.*` | per plugin: connected streams, three queues, the retained message, `pollRunning`, `pollStop`, back-off, the blocking queue, the last stamp | add/remove stream, start/stop polling, poll callback, GUI handshake, parameter input | a connected client is polled for; all clients are told the same, in order |
| `server/cqeventhandler.*` | one completion queue, its pending tags and alarms | `run`, `enqueueFn`, cancel, teardown | every tag is handled or destroyed once; nothing is started on a queue that is shut down |
| `server/tags/*` | one tag per asynchronous call: event stream, event call, parameter call, function tag | `process`, `kill`, connect | some tag always waits for the next client; none is used after `kill()` |
| `server/server.*` | state, completion queues, threads | `start`, `stop`, wait | `stop()` returns and leaves nothing behind |
| `server/serverctrl.*` | the process-wide singleton: the server, the registered plugins | start, stop, add/remove plugin, connect/disconnect client | a living plugin has a server; there is one server; it is not used after it stopped |
| `plugin/coreplugin.*` | parameters, GUI process, processing state | the CLAP callbacks: activate, process, flush, the GUI calls | GUI calls return, with the answer to their own request; parameters, clients and host agree; an event reaches the parameter it names, in the frame it names |
| `plugin/modules/*`, `plugin/parameter/*` | the plugin author's modules and parameters | init, process, add parameter | identifiers are unique |
| `plugin/settings.h` | paths of the GUI executable and its log directory | setters | |

### How they interact

The host constructs a `CorePlugin` per instance.  Its constructor registers with
the singleton `ServerCtrl` (which creates the `SharedData`) and calls `start()`;
its destructor does the reverse.  `guiCreate()` starts the GUI through
`ProcessHandle` with the server's address and the plugin's hash on its command
line.  The GUI opens a `ServerEventStream` with the hash as metadata; connecting
adds the stream to the plugin's `SharedData` and starts the polling loop, an
alarm on completion queue 0 that sets itself again from `pollCallback()`.  Each
poll takes the events the audio thread and the main thread have pushed, writes
one message to every connected stream, or, with nothing to send or nobody to
send it to, doubles the time until the next.  GUI requests go out the same way; the
GUI answers with a unary `ClientEventCall` on completion queue 1, which puts
the answer into a blocking queue of capacity one, where the main thread waits
for it.  `ClientParamCall`s, also on completion queue 1, push parameter
changes into a queue that the audio thread drains at the beginning of every
block.

### Threads

* the host's **main thread**: plugin life cycle and GUI calls;
* the host's **audio thread**: `process()`, which reads client parameters and
  publishes events;
* **CQ thread 0**: drives the server-to-client event streams and the poll
  callback that broadcasts events;
* **CQ thread 1**: drives the unary client calls (GUI events, parameters);
* on shutdown the main thread drains both completion queues as well.

They share `SharedData` (two lock-free queues from the plugin to the clients,
one from the clients to the plugin, the blocking queue, the set of streams),
`ServerCtrl` (two mutexes, but several tests outside of them), and through the
kernel the GUI process, whose number is used again after it was waited for.

### What is hard here

* two threads on one ring of cells with plain cursors, and a count that a pop
  leaves wrong;
* streams that come, break and end between any two polls, while one flag
  decides whether a poll follows;
* completions of a stream's operations in any order, more of them than the
  life cycle expects;
* answers that come after their wait timed out, answers dropped because the slot
  is full, GUIs that die, a new GUI while the old one's stream is still listed;
* several plugin instances around one server, on several threads;
* clients that overtake each other, against the host, through a full queue;
* two threads that take events from one queue while it is shut down, and a
  callback that sets its alarm again whatever was cancelled;
* host events that are not sorted, parameter ids that collide;
* numbers of processes that the kernel gives to somebody else.

`PROJECT.json` lists these hazards at their lines, with the properties that
cover them.

## The modules

| module | models | state and actions |
|---|---|---|
| `BoundedFifo` | nothing of the code: the promise of a blocking queue | a sequence; put, take, drop |
| `BlkRingQueue` | `core/blkringqueue.h` | every access to shared memory is a step: acquire, construct, count, release for the producer; acquire, move, destroy, uncount, release for the consumer, and those of `tryPop` |
| `RingMask` | its constructor's bit trick and the masking of the cursors | no state: a word of `Bytes` bytes is the set of its bits that are set, the mask a recursive function of the shifts |
| `Broadcast` | nothing of the code: the promise of a plugin's `SharedData` | per source and plugin an ordered buffer, per client what it received; publish, send to all, discard, join, leave |
| `SharedData` | the polling loop of `server/shareddata.cpp` and the pushes of `plugin/coreplugin.cpp` | the streams as the loop sees them, both queues, the retained message, flags, alarms and back-off; a poll is a sequence of steps, since the producers run beside it |
| `Handshake` | nothing of the code: what the GUI calls may rely on | the requests so far, the one a call waits for, a wire of those neither read nor lost; request, read, give up, lose |
| `ServerEventStream` | `server/tags/servereventstream.cpp` | per stream its tag, state and outstanding operations; one action per state and completion; what ended the process, if a use of gRPC or an exception did |
| `ServerStop` | `server/server.cpp` `stop()`, `server/cqeventhandler.cpp`, `EventTag`, with the streams and the polling loop on queue 0 and the unary handlers on queue 1 | extends `ServerEventStream` and composes its actions with the two threads that may run them; where `stop()` is, which queues are shut down, the alarm, the thread inside `pollCallback()` and the streams it has still to write to, the unary handler that thread 1 is inside |
| `GuiSync` | the GUI calls of `plugin/coreplugin.cpp`, `blockingVerifyEvent`, `blockingPushClientEvent`, `server/tags/clienteventcall.cpp` | where the main thread is, the GUI process, requests and answers on their way, the slot |
| `ServerCtrl` | `server/serverctrl.cpp`, start and stop of `server/server.cpp`, constructor and destructor of `CorePlugin` | the server and its phase, the mutex, where each instance's thread is, thread 0 inside `tryGetServerStreamCqHandle`, and whether a client or a handler keeps `stop()` waiting |
| `ClientParams` | `server/tags/clientparamcall.cpp`, `pushClientParam`, `setIfNewer`, `processGuiEvents`, the host's parameter events | the calls, thread 1, the last stamp, the queue, where each audio thread is, and what set each value |
| `Stamp` | the comparison and arithmetic of `core/timestamp.h` | no state: functions on pairs of seconds and nanoseconds; `ClientParams` uses `Newer` |
| `CorePlugin` | `addParameter`, the look-ups, `processEvent` and the walk of `process()` in `plugin/coreplugin.cpp`, the ids of `plugin/modules/module.cpp` | no state: functions of the calls, of one event, and of the times of a block's events |
| `PluginParams` | the two together | no state of its own: the tables a queued change is looked up in, the events the host sends in a block, the block that takes them |
| `ProcessHandle` | the POSIX half of `core/processhandle.cpp` | the handles beside the kernel's table of processes |

`MC*` modules give names and small sets for TLC, `*Proofs` hold the theorems,
and `Recursion` the lemmas by which they reason about recursive functions.
Conventions used throughout:

* A queue of `farbot` is a sequence with a capacity; the 64 places of the code are
  one or two in a run.  `BlkRingQueue` refines `BoundedFifo`, and the slot of
  `GuiSync` is such a buffer of capacity one.
* An event, request or change carries an identity the code does not have, so
  that properties can speak of it; no guard reads it.
* History variables are marked `(history)`; no guard reads them but where they
  serve as a bound.  Some record that a condition under which a property holds was left:
  `pops` (`tryPop()` was called), `hurried` (a stream was used before its last
  write was handled), `threads` (calls on the singleton overlapped), `checked`
  (`checkChildStatus()` reaped a child), `dropped` (a move assignment let a
  child go), the place `cut` (the host refused an event and the drain stopped).
  The run explores what happens afterwards too; the property says what
  remains true, and until when.
* Undefined behaviour ends the model's promise, not the model: a null `mServer`
  stops the thread that would use it, what ends the process (`died`, `aborted`)
  ends the behaviour, a number that is not a child's makes
  `waitForChild()` return a status recorded as `madeUp`.
* "Seeded faults" are alternative forms of definitions.  No specification uses
  them; substituting one for the definition it imitates must violate the property
  `PROJECT.json` names, which shows that the property depends on that line of
  code.

### How the models relate

Three modules are shown to implement an abstract one: `BlkRingQueue` the buffer
`BoundedFifo`, `SharedData` the channels `Broadcast` (`IsBroadcast`), and
`GuiSync` the wire of `Handshake` (`IsHandshake`); all are checked and proved.
The second maps the events of a source that wait in
the retained message, followed by those in its queue, to that source's buffer.  It
says in one formula what many small properties would: events are neither
invented nor repeated nor reordered, what is lost is lost to all, and no client
is left out of a message that another gets.  The third maps the answers in the
slot, then the calls on completion queue 1, then the requests that no GUI has
read yet to one wire: whatever dies, times out or is dropped on the way, a call
reads the oldest answer that is left, and no answer is read twice or made up.

`ServerStop` extends `ServerEventStream`: each of its steps that touches a stream
is one of that module's actions, taken by one of two threads.  That it allows the
streams nothing new is a theorem (`StreamsComposed`), so that what was proved of
the streams alone holds while the server stops (`ComposedCorrect`).  It has the
polling loop as one alarm and one callback that writes to stream after stream,
the parts of `SharedData` that completion queue 0 sees.

Elsewhere the modules cut the system where its components call each other, and
each takes the other side at its interface.  `SharedData` sees a stream as
writable, ending or gone, the observable part of `ServerEventStream`'s states
(WRITE, anything else, destroyed).  `ServerEventStream` sees the loop as a caller
of `SendEvents` and `EndStream` at any time.  `GuiSync` sees the loop as a flag
and a channel: requests reach a connected GUI, or are lost to the stream of one
that is gone, or are drained when the loop ends.  `ServerCtrl` sees `stop()` as a
shutdown that waits for clients and a join that waits for handlers.  That a stream
or a queue ends the process is part of `ServerEventStream` and `ServerStop` only.

## The runs

Every property of a passing run has a mutant in `PROJECT.json` that violates it.

| run | module | instance | properties |
|---|---|---|---|
| `ring` | `BlkRingQueue`, `RingMask` | capacity 3 in 4 cells, 3 items, 2 pops; 16-bit words, capacities to 600 | `NoDataRace`, `DestructorExact`, `IsFifo`, `EveryItemTaken`, `RingFits` |
| `poll` | `SharedData` | 1 plugin, 2 streams, 1 place, 2 events per queue | `TypeOK`, `PollFlagTruthful`, `ClientServed`, `DeliveredInOrder`, `IsBroadcast`, `EventsReachClients`, `StopEndsClients` |
| `poll_static` | `SharedData` | 2 plugins, 3 streams | `ClientServed` is violated |
| `stream` | `ServerEventStream` | 3 streams, 2 writes not yet handled | `OneAcceptor`, `StreamsAlive`, `ClientTold`, `NoStrayTag`, `FinishedOnce`, `EndedStreamsGo` |
| `stop` | `ServerStop` | 3 streams, 2 unary handlers, 2 threads on queue 0 | `LeftBehind`, `StopReturns` |
| `stop_graceful` | `ServerStop` | the same | `GracefulExit` is violated |
| `gui` | `GuiSync` | 5 requests, 5 timeouts, deaths | `AnswersInOrder`, `AnswersRecent`, `IsHandshake`, `EveryCallReturns` |
| `gui_timeout` | `GuiSync` | 3 requests, 1 timeout | `PreviousConsumed` is violated |
| `ctrl` | `ServerCtrl` | 3 instances, 3 servers | `NoServerLost`, `HandleValid`, `NoNullDeref`, `CallsReturn` |
| `ctrl_shared` | `ServerCtrl` | 2 instances | `PluginServed` is violated |
| `param` | `ClientParams`, `Stamp`, `CorePlugin`, `PluginParams` | 2 clients, 1 plugin, 1 parameter (1) and 1 unknown id (2), 2 stamps, batches of 2, 1 place; 3 modules of 3 ids, 4 parameters, 5 host events, 3 frames | `NothingLost`, `HostAgrees`, `HostSpeaksLast`, `NoOlderValue`, `CallsAnswered`; `StampsExact`, `TablesExact`, `EventsExact`, `BlocksExact` |
| `proc` | `ProcessHandle` | 2 handles, 2 numbers | `ActsOnOwnChild`, `ChildrenHeld`, `TerminateReturns` |

The type invariant that holds a bound which is not obvious is checked as such (the
back-off stays under twice its limit); the others are theorems only.  `RingFits` and the last four properties of
`param` join a state machine to the functions it rests on: each says of the
reached states what the state machine takes from the functions, and has as a
conjunct the claim about the functions on all small inputs (`MaskFits`,
`StampExact`, `LookupExact`, `EventFindsParameter`, `FramesExact`), which TLC
evaluates once.

### What the runs show

* **ring.**  The semaphores alone keep producer and consumer apart, whatever
  the interleaving of their steps.  `IsFifo` is a refinement: an item enters the
  abstract buffer when it is constructed and leaves it when it is moved out or
  popped.  `SizeDrift` says exactly how wrong `size()` is: by the calls under
  way, and for ever by one per `tryPop()`, since `popImpl()` does not count down.
  `DestructorExact` therefore holds only as long as nothing was popped.
* **poll.**  With one instance `isPolling()` is true exactly while one alarm or
  one callback is alive, and a client that can be written to always has one of
  these.  Loop, queues and retained message implement one ordered channel per
  source, although a message that could not be sent is kept and sent again later.
  Fairness of thread 0 alone brings every queued event to a client that stays,
  and ends the clients of a loop that was told to stop.
* **stream.**  There is always one stream waiting for the next client; the loop
  finds no destroyed one, unless the plugin is removed between
  `connectClient()` and `getSharedData()`: that stream has no pointer by which
  `kill()` could leave (`Stray`).  A stream that was written to
  or ended before its last write was handled (`hurried`) may leave completions
  behind when it is destroyed; all others do not.  gRPC aborts the process at the
  second `Finish()` of a stream.  After a write that fails that is what the code
  comes to, unless the notification is first (`FinishAgain`); nothing else leads
  there (`FinishedOnce`: a client was lost while it was written to), and a stream
  that is ended while its client stays is destroyed (`EndedStreamsGo`, which
  excepts a process that died).
* **stop.**  Once no client is left and the handler that thread 1 is inside, if
  any, comes out, `stop()` returns, however its drain and the threads share the
  events, or the process dies of a stream.  Neither condition is one the code
  provides: see [fairness](#fairness-and-why-the-code-justifies-it).  When it has
  returned, no call is open, no alarm set and no unary handler alive, and the only
  streams left are those of clients that were lost between two writes, to which no
  completion ever comes again.  Those are also why the condition of the spin
  in `run()` matters: were it to wait until *both* maps are empty, as the comment
  there has it, the thread would never leave (the mutant `WaitsForBoth`).
* **gui.**  A call that returns true had an answer to an event of its kind, no
  more requests old than waits timed out; queue, calls and slot are together one
  wire that loses but never alters, reorders or duplicates; each call returns,
  unless the GUI ended.
* **ctrl.**  Two servers never exist, thread 0 never uses a stopped one, and
  calls return although `stop()` joins under the mutex, if clients and handlers
  leave the server alone from time to time: `Shutdown()` waits for every client,
  the join for a handler that may wait in `pushClientParam()`, and a destructor, or
  any other call that needs the mutex, waits with them.  Only while calls on
  different instances do not overlap is `mServer` never used when null.
* **param.**  Accepted changes are applied once and in order, a client's value
  gives way to newer ones of clients only, the host knows every value it did not
  refuse, and the host's events are never undone by a change queued before the
  block.
  The pure properties: stamps compare and subtract as the times they stand for;
  the table finds a parameter by its id unless the id was added twice; an event
  with its cookie changes exactly its parameter; the walk over a block handles
  the events of each frame, in order, up to the first that the host did not sort.
* **proc.**  Until `checkChildStatus()` is used, no handle ever signals a
  stranger or reports a status that is not its child's; no child is
  left without a handle but by a move assignment.

### Bounds, and why they are enough

* *ring*: three places in four cells, so that the cursors wrap elsewhere than the
  capacity, as in `src/tests/auto/core/tst_blkqueue.cpp`; with 3 items the two
  threads can be at any distance.  Production is unbounded: the state space is
  finite by itself.  Two pops show that the drift accumulates.  The cursors are
  taken modulo `Cells`, which is exact because `Cells` divides 2^64 (`MaskFits`,
  and for every capacity and width of word `RingFitsCorrect`).  16-bit words need the three fixed shifts and one round of the loop,
  64-bit words two rounds more; 600 passes nine powers of two.
* *poll*: one place and two events overflow both queues; two streams are the
  least for which clients can diverge, and each stream may be lost.  The limit of
  the back-off is 1, so that the waiting time does not multiply the states; it
  is read by no guard, and `TypeCorrect` bounds it for every limit.
* *stream*: one client that ends, one beside it and the stream that waits.
  `MaxWrites` counts the writes that were not handled yet: gRPC takes the next
  write once the last has completed, though that completion may still be in the
  queue (two of those are the least that can both fail), and aborts when the last has
  not completed (`WriteBeside`).
* *stop*: two clients and the stream that waits, so that one thread can handle a
  stream while the other is about to write to the second; a unary call and its
  successor.  `start()` creates the first stream and the first handler, and
  streams are accepted in the order of their names (`InOrder`): unborn streams are
  alike, so every behaviour has a counterpart that keeps the order.  `MaxWrites`
  is 1: where a poll writes to a stream before its last write was handled, that one
  has not completed and the process dies; that it had completed, and the stream is
  hurried, is in `stream` only.
* *gui*: five requests create, show and destroy a GUI and create and show the next.
  There are as many timeouts as requests, so the timer is never held back by the
  bound.
* *ctrl*: three instances, since a second stopper and a starter may wait for
  the mutex at once; three servers, so that a stopped one is replaced twice.
* *param*: two stamps whose order by seconds contradicts that by nanoseconds; a
  batch of two into a queue of one place makes the thread spin; the unknown id
  is one no parameter has.  Stamps only grow, so `accepted` is bounded by
  them.  Stamps for the arithmetic have seconds of three milliseconds of two
  nanoseconds, so that both borrows and the sum of both happen within ±13; an
  id space of 5 with 2 ids per module makes ids collide and wrap as 2^32 and 1024
  do; five events in three frames hold every pattern of early, late and equal.
* *proc*: two handles and two numbers, so that a number can move between
  handles and to a stranger.  Nothing is bounded.

### Fairness, and why the code justifies it

* `BlkRingQueue`: a thread inside a call runs on; the consumer calls
  `waitDequeue()` again.  Nothing makes the producer produce.
* `SharedData`: an alarm fires and thread 0 runs its callback to the end.  The
  number of events is bounded in the model: a producer never slower than
  `consumeEventToStream()`, which pops until the queue is empty, would keep
  thread 0 inside it.
* `ServerEventStream`: the operations of gRPC complete and thread 0 handles
  them.  No client is assumed to call, to stay or to go.
* `ServerStop`: the three threads go on, and gRPC completes what was started.
  That a handler on queue 1 comes out is not assumed: `pushClientParam()` waits
  for ever when the plugin is not processed any more or was removed
  (`server/shareddata.cpp:94`).  Nor is it assumed that clients go, which
  `Shutdown()` waits for without a deadline.  Both are premises of `StopReturns`.
  Strong fairness for the events of each stream, since a completion queue hands
  out its events in order, whereas a weak one would let the polling alarm, which
  comes back for ever, overtake them for ever.
* `GuiSync`: the main thread runs, its timer too, and a started GUI connects.
  That it answers is not assumed.
* `ServerCtrl`: calls go on and thread 0 leaves its critical section, weakly fair
  both.  That a client goes or a handler comes out is not assumed; `CallsReturn` has
  it as a premise.
* `ClientParams`: thread 1 runs; strong fairness for beginning each call,
  because a completion queue is first in, first out; the host calls `process()`
  until it removes the plugin and lets each block end.
* `ProcessHandle`: a child that got SIGTERM terminates, and `waitpid()` then
  returns.

### Where deadlock is not checked

`gui` and the runs of `SharedData`, `ServerEventStream`, `ServerStop` and
`ServerCtrl` end when their bounds are used up, the server is down or stopped, the process
has died, or (in `ServerCtrl`) a null `mServer` was used.  In `param` the system really can stop: if
a plugin is removed while thread 1 spins on its full queue, nothing ever empties
it, and the calls of all clients to all plugins wait for ever (`CallsAnswered`
therefore speaks of the time in which no plugin is removed).  `ring` and `proc`
check deadlock.

## The proofs

`tlapm` checks every theorem below to its leaves, for every value of the
constants that satisfies the named assumption of the module (`RingAssumption`,
`PollAssumption`, …), all of which TLC evaluates in the runs.

| module | theorems | argument |
|---|---|---|
| `Recursion` | lemmas only | see below |
| `BlkRingQueueProofs` | `TypeCorrect`, `PermitsCorrect`, `OccupancyCorrect`, `SizeDriftCorrect`, `NoDataRaceCorrect`, `PeekCorrect`, `DestructorCorrect`, `ImplementsFifo`; of `RingMask` `MaskCorrect`, and of both `RingFitsCorrect` | `IInv`: the constructed cells are those between the cursors, and each semaphore agrees with their number up to the step its thread is in.  `TypeOK` alone is not inductive: that the semaphores stay within the capacity needs the agreement of both.  The refinement maps the buffer to the cells between the cursors; each step is shown to put, take, drop or stutter.  After the shifts by 1, 2, …, 2^(k-1) the bits of a word are smeared over the 2^k places below each (`MaskBelow`), at last over all: the mask is every bit up to the highest one of `cap - 1` (`MaskIs`), so masking is taking the remainder (`MaskedIs`), also where the counter wraps |
| `SharedDataProofs` | `TypeCorrect`, `AgreeCorrect`, `OrderCorrect`, `ImplementsBroadcast`; `FlagCorrect`, `ServedCorrect` under `OneInstance` | `ServeInv`: flag, alarm and running callback agree, and they are there for every stream in state WRITE.  `OneInstance` says that all plugins are one and the same; without it both are false (`poll_static`).  `AgreeCorrect` holds for any number of plugins, since a stream connects to one only (`Apart`).  `OrderCorrect` rests on `OrderInv`: queues, retained message and what each client was sent are each in order, each before the next, and no event in them is newer than the last one pushed; lemmas say how appending, taking the first and concatenating keep such an order.  `ImplementsBroadcast` shows that a push publishes or stutters, a poll that writes sends to all, a drain discards, and that moving an event from a queue to the message stutters; it rests on how the filter by source goes with appending and concatenating (`FromAppend`, `FromConcat`) and holds for any number of plugins |
| `GuiSyncProofs` | `TypeCorrect`, `LagCorrect`, `ConsumedCorrect`, `RecentCorrect`, `OrderCorrect`, `ImplementsHandshake` | `LagBounded`: what is on the way is counted by the timeouts and the wait under way.  `InStep` adds the order of slot, answers and requests, that each was asked for after everything verified so far, and no more waits ago than timed out.  `ConsumedCorrect` is `LagBounded` without a timeout.  For the refinement each step is shown to request, read, give up, lose one answer (a full slot, `LostOne`), lose a stretch of the wire (a GUI or a loop that ends, `LostRest`) or, where an answer moves on from one queue to the next, to stutter (`HandedOver`) |
| `ServerStopProofs` | of `ServerEventStream` `TypeCorrect`, `AliveCorrect`, `TagCorrect`, `ToldCorrect`, `FinishedCorrect`, `AcceptorCorrect`; of `ServerStop` `StreamsComposed`, `ComposedCorrect`, `StopTypeCorrect`, `LeftBehindCorrect`, `PolledBefore` | `OneAtATime`: a stream that was not hurried has one operation outstanding at most, none once it is destroyed, and in state WRITE only a write; a registered stream is pending because `kill()` removes it first, which takes that the stream knows the `SharedData` that knows it (`Known`).  `LifeInv`: a stream that no client was accepted on has only its request outstanding, and one in state FINISH told its client or lost it; with it the stream that waits is unique.  `OnceInv`: in state DISCONNECT only a stream whose client was lost has called `Finish()`.  Each step of the composition is one of `ServerEventStream` or leaves the streams alone; `StopInv` says which queues are shut down at each step of `stop()`, who may be inside the callback, and that a drained queue stays empty unless that callback makes gRPC abort; `EndInv` that an ended call brings its stream back once more.  `Undisturbed`: until queue 0 is shut down only one thread takes its events, so none is handled while that one is inside the callback |
| `ServerCtrlProofs` | `TypeCorrect`, `ServerCorrect`, `HandleCorrect`, `OneThreadHolds`, `DerefCorrect`, `StartCorrect`; `ServedCorrect` under `OneInstance` | `Shape`: the phase of the server is determined by where the holder of the mutex is, and outside of it the server runs or is null; `OneThread`: while `threads = "one"` all other instances rest.  The calls of a single instance cannot overlap, so nobody stops the server between its constructor and its destructor (`ServedAlone`) |
| `ClientParamsProofs` | `TypeCorrect`, `LossCorrect`, `ValueCorrect`, `HostCorrect`, `NewerCorrect`, `HostLastCorrect`; of `Stamp` `NewerStampCorrect`, `DeltaCorrect`, `SubtractCorrect`, `StampCorrect`; of `CorePlugin` `LiveCorrect`, `LookupCorrect`, `IdsCorrect`, `FindsCorrect`, `FramesCorrect`; of them together `StampsCorrect`, `TablesCorrect`, `EventsCorrect`, `BlocksCorrect` | `IInv`: accepted changes are those taken, queued and pending; stamps grow along them; each value is the newest taken change of its parameter or a later one of the host.  The action property `NoOlderValue` follows from the growing stamps.  Those of `Stamp` hold for every length of a second and a millisecond; those of `CorePlugin` for every sequence of calls of `addParameter()` with ids of any kind, for every block and any number of host events, by induction over the calls and over the frames |
| `ProcessHandleProofs` | `TypeCorrect`, `NamesCorrect`, `OwnChildCorrect`, `HeldCorrect` | `Honest`: until a status is checked, the number a live handle holds is that of a process of its own; the kernel uses a number again only after it was waited for, and the call that waits resets it |

Some facts are theorems without a run of their own, because they are parts of
the inductive invariants: `PermitsAgree`, `PeekIsLive`, `LagBounded`,
`ValueIsNewest`, `Honest`, `OneThread`.

`Recursion` is where induction comes from.  The induction theorems of the
library take an operator, which the provers cannot instantiate, so it proves
induction for a set (`NaturalsReached`) from the least element of a well-founded
order, and that a function with given steps exists (`StepsExist`), which is what
makes `CHOOSE`, and with it a recursive function, mean what it says.  With it the
tables, the walk over a block, the filter by source and the sum of a word's bits
are reasoned about for every length.

Every safety property of the passing runs is a theorem.  Model-checked only are
the liveness properties and the fairness they rest on (`EveryItemTaken`,
`EventsReachClients`, `StopEndsClients`, `EndedStreamsGo`, `StopReturns`,
`EveryCallReturns`, `CallsReturn`, `CallsAnswered`, `TerminateReturns`): they
need to know when an action is enabled, which the provers do not handle.

## Where code and documentation differ

Four disagreements are runs that TLC must find violated, each with its
finding in `PROJECT.json`:

1. `poll_static`: `pollCallback()` (`server/shareddata.cpp:123`) ends its loop
   with a `static` lambda that captured the first instance's `this`.  With two
   instances one plugin's loop ends with the other's flag cleared, and its own next
   client is never polled for.
2. `gui_timeout`: after one timeout (`server/shareddata.cpp:62`) the late answer
   stays in the queue and is taken by the next call, whose own answer is then
   late; the comment says the previous event has to be consumed.
3. `ctrl_shared`: destroying one instance (`plugin/coreplugin.cpp:106`) stops the
   server under all others, although the server "can potentially hold multiple
   plugins".
4. `stop_graceful`: a handler of queue 1 whose client is gone may still be inside
   when that queue is shut down and its requests are taken
   (`server/cqeventhandler.cpp:94`); its `Finish()` then makes gRPC abort.  Likewise
   `cancelAllPendingTags()` (`server/cqeventhandler.cpp:86`)
   cancels the alarm that is set, but a polling callback that runs at that moment sets
   the next one.  If that comes after the queue was shut down and drained, gRPC
   aborts; or the drain on the main thread destroys a stream that the callback
   is about to write to.  The comment in `stop()` (`server/server.cpp:68`) says
   that it drains all the pending events and lets the threads exit gracefully.

For each there is a theorem that says until when, or for whom, the documented
claim does hold: `ServedCorrect` of `SharedDataProofs` with one instance,
`ConsumedCorrect` until a wait times out, `ServedCorrect` of `ServerCtrlProofs`
with one instance, and of `GracefulExit` `PolledBefore`: until queue 0 is shut down
no thread destroys a stream that a callback still writes to.

The models keep, and the modules' comments name, some more behaviour a reader of
the code may not expect:

* `tryPop()` leaves `itemCount` too large: afterwards `peek()` and the destructor
  reach cells without an item;
* nothing resets `pollStop`: once stopped, every later loop ends all streams in
  its first callback;
* the comment "All tags must be destroyed by now!" (`server/cqeventhandler.cpp:116`)
  stands over a condition that is satisfied when one of the two maps is empty,
  and the streams of forgotten clients are still in theirs;
* `Shutdown()` has no deadline (`server/server.cpp:72`): `stop()` waits for the
  clients to go, and then for thread 1, which may spin in `pushClientParam()` for a
  plugin that nobody processes any more;
* one write that fails is enough to end the process: `Finish()` is called for it
  and again for the completion of that `Finish()`
  (`server/tags/servereventstream.cpp:53`, `:61`), unless the notification comes
  between; so is a poll that writes to a stream whose last write has not completed
  (`:91`), and a client whose hash is no number, for which `std::stoull()` throws
  (`:119`, and in the unary handlers);
* `addParameter()` with an id that exists throws after the table was changed,
  which then leads to a parameter that no longer exists
  (`plugin/coreplugin.cpp:382`); the 1024th parameter of a module has the id
  of the next module's first;
* one host event in the past stops the handling of all later ones of the block,
  since the test for it inside the loop is never reached (`plugin/coreplugin.cpp:213`);
* a message that could not be sent waits until an unrelated event follows
  (`server/shareddata.cpp:155`);
* a plugin that is removed while a client connects leaves that client's stream in
  `SharedData::streams` for ever; as long as another stream keeps the
  `SharedData`, the loop walks over the destroyed one
  (`server/tags/servereventstream.cpp:106`, `:128`);
* a client lost between two writes stays connected as far as `SharedData` knows,
  and the loop goes on for it (`server/tags/servereventstream.cpp:16`);
* `guiCreate()` and `pushToMainQueueBlocking()` spin without bound for a GUI that
  has ended; a new GUI may be taken to be polled because the old one's loop
  still runs; a failed `guiCreate()` keeps `guiProc`, so that every later one is
  refused;
* `stop()` and `address()` may find `mServer` null when two threads stop at once;
* a full parameter queue of one plugin blocks the calls of all clients;
* changes with equal stamps are discarded, and one stamp stands for all
  parameters;
* `checkChildStatus()` keeps the number of the child it has reaped.

## What is not modelled

* Memory after its end (the notification tag that captures a destroyed stream, the
  loop that walks over one) and
  data races on `std::set` and `std::map`, among them the walk of
  `cancelAllPendingTags()` over a map that the other thread changes: the models
  read and write these sets atomically.
* What a process does after gRPC or an exception has ended it.  `SharedData`, `GuiSync`,
  `ClientParams` and `ServerCtrl` see only behaviours in which it lives, and clients
  whose hash is a number.
* In `ServerStop`, a call whose client goes after `Shutdown()` began and before a
  thread took it from the queue.
* `endStreams()` and `stopPoll()` while the server stops, which only tests and
  benchmarks call; a second `stop()` while the first is under way is in
  `ServerCtrl`.
* Moving a `BlkRingQueue`, which no code does.
* The Windows half of `ProcessHandle`.
* gRPC, CLAP, farbot, crill and spdlog are external; the actions that stand for
  them are marked so in `PROJECT.json`.
* Messages' contents, logging, settings, the conversions of values to text, and
  the author's signal processing.

## The plan

Done, in this order: the blocking queue with its abstract specification, the
polling loop, the GUI handshake, the streams, the singleton, parameters, the
process handle; for each its runs, mutants and proofs.

Then, in a second round: the shutdown with two threads per queue, composed with the
streams; the abstract broadcast and its refinement; stamps, tables of parameters
and the frame loop as pure functions; proofs of the order of events, of the two
properties of streams that were model-checked only, and of what `stop()` leaves.

In a third: induction for recursive functions, and with it the proofs of the
refinement of `Broadcast`, of the tables, events and frames of `CorePlugin`, and
of the constructor's mask; the abstract handshake and its refinement; the
conditions under which the claims that some runs refute are true.

Next: `SharedData` and `ServerEventStream` composed with plugins that come and go,
with all their writes in place of the one write per poll of `ServerStop`, and with
the `SharedData` that outlives its plugin.

## Running it

    tlc -workers 2 -config poll.cfg MCSharedData
    tlapm SharedDataProofs.tla

The `.cfg` of each run is named in `PROJECT.json` with its module.  Each run
finishes within about three minutes, and all proofs within a few.
