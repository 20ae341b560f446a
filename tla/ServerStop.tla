----------------------------- MODULE ServerStop -----------------------------
(***************************************************************************)
(* Server::stop() (server/server.cpp) on a server whose two completion     *)
(* queues (server/cqeventhandler.cpp) are in use.  Queue 0 has the event   *)
(* streams of module ServerEventStream, whose actions are composed here    *)
(* with the threads that may take them from the queue and with the polling *)
(* loop of SharedData; queue 1 has the unary calls.                        *)
(*                                                                         *)
(* One thread per queue is inside run().  stop(), on the main thread,      *)
(* cancels the alarms, shuts the server down and then drains both queues   *)
(* itself, beside those threads.  An operation that is started on a queue  *)
(* which is shut down and has none outstanding makes gRPC abort.  A thread *)
(* handles an event of a stream in one step, pollCallback() and a unary    *)
(* call in several.                                                        *)
(*                                                                         *)
(* A poll that writes to a stream before its last write was handled finds  *)
(* that one incomplete and the process dies (MaxWrites is 1), so that no   *)
(* stream is hurried; and nobody calls endStreams() or stopPoll(), as only *)
(* tests and benchmarks do.                                                *)
(***************************************************************************)
EXTENDS ServerEventStream

CONSTANT Handlers  \* the unary handlers that may be created

ASSUME StopAssumption == MaxWrites = 1

Threads == {"run", "main"}  \* the threads that handle events of queue 0

VARIABLES main,    \* where stop() is
          closed,  \* the queues that were shut down
          left,    \* the queues whose run() has returned
          alarm,   \* of the polling loop: none, set, cancelled
          poller,  \* the thread that is inside pollCallback(), if any
          todo,    \* the streams it has still to write to
          unary,   \* unary handler -> unborn, request, inside, finish, destroyed
          aborted  \* what else ended the process: no (thing), queue, metadata

loopVars == <<alarm, poller, todo>>
stopVars == <<main, closed, left, loopVars, unary, aborted>>
allVars == <<vars, stopVars>>

\* What is outstanding on queue 0: operations of streams, the notification of
\* every accepted call, and the alarm.
Pending ==
  {o \in Streams \X Ops : ops[o[1]][o[2]] > 0}
    \union {<<s, "done">> : s \in {r \in Streams : call[r] # "none" /\ r \notin notified}}
    \union (IF alarm = "none" THEN {} ELSE {<<"loop", "alarm">>})

\* What is outstanding on queue 1, and the call that its thread is handling.
Calls == {h \in Handlers : unary[h] \in {"request", "finish"}}
Inside == {h \in Handlers : unary[h] = "inside"}

Lives == aborted = "no" /\ died = "no"

\* Who has pendingTags and pendingAlarmTags of queue 0 not empty.
PendingTags == {s \in Streams : tag[s] = "pending"}
HasAlarmTags == alarm # "none" \/ poller # "none"

-----------------------------------------------------------------------------
(* Seeded faults: plausible slips in the definitions below.                *)

OnlyStreams == 0 \in closed /\ \A s \in Streams : Outstanding(s) = 0
WaitsForBoth == PendingTags = {} /\ ~HasAlarmTags

-----------------------------------------------------------------------------
StopInit ==
  /\ Init
  /\ main = "up" /\ closed = {} /\ left = {}
  /\ alarm = "none" /\ poller = "none" /\ todo = {}
  /\ \E first \in Handlers :
       unary = [h \in Handlers |-> IF h = first THEN "request" ELSE "unborn"]
  /\ aborted = "no"

\* The thread t may take the next event from queue 0.
Free(t) ==
  /\ poller # t
  /\ IF t = "run" THEN 0 \notin left ELSE main = "teardown0"

OneIsFree == \E t \in Threads : Free(t)

\* cq->Shutdown() takes effect once every request for a call was taken.
IsShut(queue) ==
  /\ queue \in closed
  /\ IF queue = 0 THEN \A s \in Streams : ops[s]["request"] = 0
                  ELSE \A h \in Handlers : unary[h] # "request"

\* An operation is started on a queue where `others' were not taken yet: if it
\* is shut down gRPC aborts when all of them have completed.
StartsOn(queue, others) ==
  /\ aborted' \in {"no", "queue"}
  /\ aborted' = "queue" => IsShut(queue)
  /\ aborted' = "no" => ~IsShut(queue) \/ others # {}

Starts(handled) == StartsOn(0, Pending \ handled)

-----------------------------------------------------------------------------
(* Events of the streams.                                                  *)

\* tryStartPolling() in the stream's process().
StartsLoop(s) ==
  IF state'[s] = "WRITE" /\ ~HasAlarmTags THEN alarm' = "set" ELSE UNCHANGED alarm

\* Shutdown() waits for a call that is open already.  The plugin is removed on
\* the main thread, too.
Connects(s, t) ==
  /\ closed = {} /\ OneIsFree
  /\ \/ /\ main = "up" \/ UNCHANGED plugin
        /\ Accept(s, t) /\ StartsLoop(s)
     \/ Malformed(s) /\ UNCHANGED alarm
  /\ UNCHANGED <<main, closed, left, poller, todo, unary, aborted>>

Fails(s) ==
  /\ OneIsFree
  /\ \/ WriteFailed(s) /\ Starts({<<s, "write">>})
     \/ \E op \in Ops : \/ Disconnect(s, op) /\ Starts({<<s, op>>})
                        \/ FinishAgain(s, op) /\ UNCHANGED aborted
  /\ UNCHANGED <<main, closed, left, loopVars, unary>>

Ends(s) ==
  /\ OneIsFree
  /\ NoClient(s) \/ WriteDone(s) \/ \E op \in Ops : Finished(s, op)
  /\ UNCHANGED stopVars

Notifies(s) == OneIsFree /\ Notify(s) /\ UNCHANGED stopVars

\* The client, or the host's destructor of the plugin.
Outside ==
  /\ (\E s \in Streams : Lose(s)) \/ (main = "up" /\ RemovePlugin)
  /\ UNCHANGED stopVars

-----------------------------------------------------------------------------
(* EventTag::process() of the alarm: pollCallback(ok), then kill().        *)

PollFires(t) ==
  /\ Free(t) /\ poller = "none" /\ alarm # "none"
  /\ alarm' = "none"
  /\ \/ \* ok, there are streams: nothing to send, or a message for each
        /\ alarm = "set" /\ registered # {}
        /\ poller' = t /\ todo' \in {{}, registered}
     \/ \* cancelled, or nobody to poll for: the loop ends
        /\ alarm = "cancelled" \/ registered = {}
        /\ UNCHANGED <<poller, todo>>
  /\ UNCHANGED <<vars, main, closed, left, unary, aborted>>

PollWrites(s) ==
  /\ s \in todo /\ todo' = todo \ {s}
  /\ \/ SendEvents(s) /\ Starts({})
     \/ WriteBeside(s) /\ UNCHANGED aborted
     \/ state[s] # "WRITE" /\ UNCHANGED <<vars, aborted>>
  /\ UNCHANGED <<main, closed, left, alarm, poller, unary>>

\* enqueueFn() again, and the old tag leaves the map.
PollRearms ==
  /\ poller # "none" /\ todo = {}
  /\ alarm' = "set" /\ poller' = "none"
  /\ Starts({})
  /\ UNCHANGED <<vars, main, closed, left, todo, unary>>

-----------------------------------------------------------------------------
(* Queue 1.                                                                *)

\* A thread may take the next event: its own, which may be inside a handler, or
\* the one inside teardown().
Serves1 == (1 \notin left /\ Inside = {}) \/ main = "teardown1"

\* The handler creates its successor and goes on to the SharedData.
UnaryCall(h, g) ==
  /\ closed = {} /\ Inside = {} /\ unary[h] = "request" /\ unary[g] = "unborn"
  /\ unary' = [unary EXCEPT ![h] = "inside", ![g] = "request"]
  /\ UNCHANGED <<vars, main, closed, left, loopVars, aborted>>

\* handleEvent() returns: at once, after ten seconds if it waited for room for an
\* event, or when the host has made room for a parameter.
UnaryAnswers(h) ==
  /\ h \in Inside
  /\ unary' = [unary EXCEPT ![h] = "finish"]
  /\ StartsOn(1, Calls)
  /\ UNCHANGED <<vars, main, closed, left, loopVars>>

\* std::stoull() throws, as in module ServerEventStream.
UnaryThrows(h) ==
  /\ h \in Inside /\ aborted' = "metadata"
  /\ UNCHANGED <<vars, main, closed, left, loopVars, unary>>

UnaryKill(h) ==
  /\ Serves1
  /\ unary[h] = "finish" \/ (unary[h] = "request" /\ down)
  /\ unary' = [unary EXCEPT ![h] = "destroyed"]
  /\ UNCHANGED <<vars, main, closed, left, loopVars, aborted>>

-----------------------------------------------------------------------------
(* stop(), and the end of run().                                           *)

Goes(place) == main' = place

\* An alarm that has expired already is not cancelled any more.
CancelAllPendingTags ==
  /\ main = "up" /\ Goes("shutdown")
  /\ IF alarm = "set" THEN alarm' \in {"set", "cancelled"} ELSE UNCHANGED alarm
  /\ UNCHANGED <<vars, closed, left, poller, todo, unary, aborted>>

ServerShutdown ==
  /\ main = "shutdown" /\ Shutdown
  /\ UNCHANGED stopVars

\* Shutdown() returns when no call is open (the client of a unary call may be
\* gone while its handler is inside); cq->Shutdown() follows.
ShutdownReturns ==
  /\ main = "shutdown" /\ down
  /\ \A s \in Streams : call[s] # "open"
  /\ Goes("teardown0") /\ closed' = {0}
  /\ UNCHANGED <<vars, left, loopVars, unary, aborted>>

\* Next() returns false: shut down, and nothing is outstanding.
Drained0 == 0 \in closed /\ Pending = {}
Drained1 == 1 \in closed /\ Calls = {}

TeardownNext ==
  /\ main = "teardown0" /\ Free("main") /\ Drained0
  /\ Goes("teardown1") /\ closed' = {0, 1}
  /\ UNCHANGED <<vars, left, loopVars, unary, aborted>>

TeardownEnds ==
  /\ main = "teardown1" /\ Drained1
  /\ Goes("join")
  /\ UNCHANGED <<vars, closed, left, loopVars, unary, aborted>>

\* The spin after the loop of run(): it goes on while both maps have tags.
SpinEnds == PendingTags = {} \/ ~HasAlarmTags

RunEnds ==
  /\ \/ Free("run") /\ Drained0 /\ SpinEnds /\ left' = left \union {0}
     \/ Drained1 /\ Inside = {} /\ left' = left \union {1}
  /\ UNCHANGED <<vars, main, closed, loopVars, unary, aborted>>

StopEnds ==
  /\ main = "join" /\ left = {0, 1}
  /\ Goes("finished")
  /\ UNCHANGED <<vars, closed, left, loopVars, unary, aborted>>

Stop == \/ CancelAllPendingTags \/ ServerShutdown \/ ShutdownReturns
        \/ TeardownNext \/ TeardownEnds \/ StopEnds

-----------------------------------------------------------------------------
Event0(s) == Fails(s) \/ Ends(s)
Poll == (\E t \in Threads : PollFires(t)) \/ PollRearms
          \/ \E s \in Streams : PollWrites(s)
Event1 == \E h \in Handlers : UnaryKill(h)

Unary == \E h \in Handlers :
  UnaryAnswers(h) \/ UnaryThrows(h) \/ \E g \in Handlers : UnaryCall(h, g)

StopNext ==
  /\ Lives
  /\ \/ \E s \in Streams : Event0(s) \/ Notifies(s)
     \/ Poll \/ Event1 \/ Unary \/ Stop \/ RunEnds \/ Outside
     \/ \E s, t \in Streams : Connects(s, t)

StopSpec == StopInit /\ [][StopNext]_allVars

\* Both threads of run() and the main thread go on, and gRPC completes what
\* was started; strongly fair for the events of the streams, since a queue
\* hands out its events in order while the loop keeps coming back.  That a unary
\* call is answered is not assumed: for a plugin that is not processed, or was
\* removed, pushClientParam() waits for ever.
FairStop ==
  /\ StopSpec
  /\ \A s \in Streams :
       SF_allVars(Lives /\ Event0(s)) /\ SF_allVars(Lives /\ Notifies(s))
  /\ WF_allVars(Lives /\ Poll) /\ WF_allVars(Lives /\ Event1)
  /\ WF_allVars(Lives /\ Stop /\ main # "up") /\ WF_allVars(Lives /\ RunEnds)

-----------------------------------------------------------------------------
(* Correctness.                                                            *)

StopTypeOK ==
  /\ main \in {"up", "shutdown", "teardown0", "teardown1", "join", "finished"}
  /\ closed \in {{}, {0}, {0, 1}} /\ left \subseteq closed
  /\ alarm \in {"none", "set", "cancelled"}
  /\ poller \in Threads \union {"none"} /\ todo \subseteq Streams
  /\ unary \in [Handlers -> {"unborn", "request", "inside", "finish", "destroyed"}]
  /\ aborted \in {"no", "queue", "metadata"}

\* A client that was lost between two writes: nothing is outstanding that
\* would ever bring its stream back to the queue.
Forgotten(s) == call[s] = "lost" /\ Outstanding(s) = 0

\* When stop() returns, no call is open, every alarm has been handled, every
\* unary handler destroyed, and the only streams that were not are those of
\* forgotten clients.
LeftBehind ==
  main = "finished" =>
    /\ ~HasAlarmTags
    /\ \A s \in PendingTags : Forgotten(s)
    /\ \A h \in Handlers : unary[h] \in {"unborn", "destroyed"}

\* stop() returns once the clients are gone and the handler on queue 1 comes
\* out, however the two threads share the events and whatever they leave behind,
\* unless the process dies.  The code bounds neither: Shutdown() waits for the
\* clients, and join() for a thread that may wait inside pushClientParam().
StopReturns ==
  <>[](\A s \in Streams : call[s] # "open") /\ []<>(Inside = {})
    => (main = "shutdown" ~> (main = "finished" \/ ~Lives))

\* No thread destroys a stream that the other one writes to next (a stray one is
\* destroyed by whichever thread).
PolledAlive == \A s \in todo : tag[s] = "pending" \/ Stray(s)

\* The comment in stop(): it drains all the pending events and allows the
\* threads to exit gracefully.  No operation is started on a queue that is shut
\* down, and both threads leave each other's streams alone.
GracefulExit == aborted # "queue" /\ PolledAlive
=============================================================================
