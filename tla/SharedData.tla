----------------------------- MODULE SharedData -----------------------------
(***************************************************************************)
(* The polling loop of server/shareddata.cpp: how events that a plugin's   *)
(* audio and main threads enqueue reach the clients connected to it.       *)
(*                                                                         *)
(* There is one SharedData per plugin.  One thread, the one of completion  *)
(* queue 0, runs every pollCallback and every event of the streams; the    *)
(* producers run beside it, so a poll is a sequence of steps.  The streams *)
(* are seen from SharedData only: writable, ending or gone (their own life *)
(* cycle is module ServerEventStream).  Intervals are in units of          *)
(* mPollFreqNs.                                                            *)
(***************************************************************************)
EXTENDS Naturals, Sequences, SequencesExt

CONSTANTS Plugins,      \* the plugin instances of the process
          Streams,      \* the event streams clients may open
          QueueCap,     \* capacity of each plugin-to-clients queue (64)
          BackoffLimit, \* mExpBackoffLimitNs / mPollFreqNs (50)
          MaxEvents     \* bound: events pushed into each queue

ASSUME PollAssumption ==
  /\ QueueCap \in Nat \ {0}
  /\ BackoffLimit \in Nat \ {0}
  /\ MaxEvents \in Nat

Sources == {"process", "main"}

\* An event is told apart by the queue it came through and its number there.
Events == [src : Sources, n : 1 .. MaxEvents]

None == "none"
ASSUME NoneAssumption == None \notin Plugins

VARIABLES streams,      \* plugin -> the streams connected to it
          state,        \* stream -> new, write, ending (not WRITE) or gone
          queue,        \* plugin -> source -> events not yet polled
          pushed,       \* plugin -> source -> number of events pushed
          pending,      \* plugin -> mPluginToClientsData, not yet sent
          pollRunning, pollStop,
          stopping,     \* plugin -> a stopPoll() is between check and store
          backoff,      \* plugin -> mCurrExpBackoff
          alarms,       \* plugin -> alarms set for its pollCallback
          endOwner,     \* the instance the static endCallback captured
          cq,           \* where the completion queue's thread is
          down,         \* the server is being stopped
          delivered     \* stream -> events written to it (history)

pollVars == <<pollRunning, pollStop, stopping, backoff, alarms, endOwner>>
vars == <<streams, state, queue, pushed, pending, pollVars, cq, down, delivered>>

Idle == [at |-> "idle", plugin |-> None, count |-> 0]
At(place, p, n) == [at |-> place, plugin |-> p, count |-> n]

Writable(p) == {s \in streams[p] : state[s] = "write"}

-----------------------------------------------------------------------------
(* Seeded faults: plausible slips in the definitions below.                *)

FlagNotSet(p) == pollRunning' = pollRunning
NeverAgain(p) == FALSE
SendToOne(p) == IF Writable(p) = {} THEN {} ELSE {CHOOSE s \in Writable(p) : TRUE}
UncappedBackoff(p) == 2 * backoff[p]
KeepSent(p) == pending[p]
ForgetAlarm(p) == UNCHANGED alarms
NobodyEnded(p) == state

-----------------------------------------------------------------------------
Init ==
  /\ streams = [p \in Plugins |-> {}]
  /\ state = [s \in Streams |-> "new"]
  /\ queue = [p \in Plugins |-> [src \in Sources |-> <<>>]]
  /\ pushed = [p \in Plugins |-> [src \in Sources |-> 0]]
  /\ pending = [p \in Plugins |-> <<>>]
  /\ pollRunning = [p \in Plugins |-> FALSE]
  /\ pollStop = [p \in Plugins |-> FALSE]
  /\ stopping = [p \in Plugins |-> FALSE]
  /\ backoff = [p \in Plugins |-> 1]
  /\ alarms = [p \in Plugins |-> 0]
  /\ endOwner = None /\ cq = Idle /\ down = FALSE
  /\ delivered = [s \in Streams |-> <<>>]

-----------------------------------------------------------------------------
(* The producers.                                                          *)

\* A full process queue refuses the event, and pushToProcessQueue() ignores
\* that; a full main queue overwrites its oldest event.
Pushed(src, q, e) ==
  IF Len(q) < QueueCap THEN Append(q, e)
  ELSE IF src = "main" THEN Append(Tail(q), e) ELSE q

Push(p, src) ==
  /\ pushed[p][src] < MaxEvents
  /\ LET e == [src |-> src, n |-> pushed[p][src] + 1]
     IN  queue' = [queue EXCEPT ![p][src] = Pushed(src, @, e)]
  /\ pushed' = [pushed EXCEPT ![p][src] = @ + 1]
  /\ UNCHANGED <<streams, state, pending, pollVars, cq, down, delivered>>

-----------------------------------------------------------------------------
(* The streams, on the completion queue's thread.                          *)

\* tryStartPolling() is called after the stream was added, so isValid().
MayStart(p) == ~pollRunning[p]
SetRunning(p) == pollRunning' = [pollRunning EXCEPT ![p] = TRUE]

Connect(s, p) ==
  /\ cq = Idle /\ ~down
  /\ state[s] = "new"
  /\ streams' = [streams EXCEPT ![p] = @ \union {s}]
  /\ state' = [state EXCEPT ![s] = "write"]
  /\ IF MayStart(p)
       THEN SetRunning(p) /\ alarms' = [alarms EXCEPT ![p] = @ + 1]
       ELSE UNCHANGED <<pollRunning, alarms>>
  /\ UNCHANGED <<queue, pushed, pending, pollStop, stopping, backoff, endOwner, cq, down,
                 delivered>>

\* The client is lost or its write fails: the stream leaves state WRITE.
Lose(s) ==
  /\ cq = Idle
  /\ state[s] = "write"
  /\ state' = [state EXCEPT ![s] = "ending"]
  /\ UNCHANGED <<streams, queue, pushed, pending, pollVars, cq, down, delivered>>

\* kill(): the stream removes itself.
Kill(s, p) ==
  /\ cq = Idle
  /\ s \in streams[p] /\ state[s] = "ending"
  /\ streams' = [streams EXCEPT ![p] = @ \ {s}]
  /\ state' = [state EXCEPT ![s] = "gone"]
  /\ UNCHANGED <<queue, pushed, pending, pollVars, cq, down, delivered>>

\* endStream() on every stream of p.
Ended(p) == [s \in Streams |-> IF s \in Writable(p) THEN "ending" ELSE state[s]]

EndStreams(p) ==
  /\ state' = Ended(p)
  /\ UNCHANGED <<streams, queue, pushed, pending, pollVars, cq, down, delivered>>

-----------------------------------------------------------------------------
(* Stopping: stopPoll() reads pollRunning and then stores pollStop; the    *)
(* server's stop() cancels the alarms, so that callbacks see ok = false.   *)

StopPollCheck(p) ==
  /\ pollRunning[p] /\ ~stopping[p]
  /\ stopping' = [stopping EXCEPT ![p] = TRUE]
  /\ UNCHANGED <<streams, state, queue, pushed, pending, pollRunning, pollStop, backoff,
                 alarms, endOwner, cq, down, delivered>>

StopPollStore(p) ==
  /\ stopping[p]
  /\ stopping' = [stopping EXCEPT ![p] = FALSE]
  /\ pollStop' = [pollStop EXCEPT ![p] = TRUE]
  /\ UNCHANGED <<streams, state, queue, pushed, pending, pollRunning, backoff, alarms,
                 endOwner, cq, down, delivered>>

Shutdown ==
  /\ ~down /\ down' = TRUE
  /\ UNCHANGED <<streams, state, queue, pushed, pending, pollVars, cq, delivered>>

-----------------------------------------------------------------------------
(* pollCallback(ok).                                                       *)

\* The lambda endCallback is static: it captures the `this` of whichever
\* instance runs the callback first, for every instance and for ever.
EndOwner(p) == IF endOwner = None THEN p ELSE endOwner

StopFlag(q) == pollRunning' = [pollRunning EXCEPT ![q] = FALSE]

PollFires(p) ==
  /\ cq = Idle /\ alarms[p] > 0
  /\ alarms' = [alarms EXCEPT ![p] = @ - 1]
  /\ endOwner' = EndOwner(p)

\* Cancelled, without streams, or told to stop: the loop ends, then drains.
PollEnds(p) ==
  /\ PollFires(p)
  /\ \/ (down \/ streams[p] = {}) /\ UNCHANGED state
     \/ ~down /\ streams[p] # {} /\ pollStop[p] /\ state' = Ended(p)
  /\ StopFlag(EndOwner(p))
  /\ cq' = At("drain", EndOwner(p), 0)
  /\ UNCHANGED <<streams, queue, pushed, pending, pollStop, stopping, backoff, down, delivered>>

\* drainPollingQueue(), one queue after the other.
DrainProcess ==
  /\ cq.at = "drain"
  /\ queue' = [queue EXCEPT ![cq.plugin]["process"] = <<>>]
  /\ cq' = At("drainMain", cq.plugin, 0)
  /\ UNCHANGED <<streams, state, pushed, pending, pollVars, down, delivered>>

DrainMain ==
  /\ cq.at = "drainMain"
  /\ queue' = [queue EXCEPT ![cq.plugin]["main"] = <<>>]
  /\ cq' = Idle
  /\ UNCHANGED <<streams, state, pushed, pending, pollVars, down, delivered>>

PollBegins(p) ==
  /\ PollFires(p)
  /\ ~down /\ streams[p] # {} /\ ~pollStop[p]
  /\ cq' = At("process", p, 0)
  /\ UNCHANGED <<streams, state, queue, pushed, pending, pollRunning, pollStop, stopping,
                 backoff, down, delivered>>

\* consumeEventToStream(): pop one event after the other.  While cq is not
\* idle, cq.at names the queue being consumed.
PopEvent ==
  /\ cq.at \in Sources
  /\ LET p == cq.plugin
         q == queue[p][cq.at]
     IN  /\ q # <<>>
         /\ pending' = [pending EXCEPT ![p] = Append(@, Head(q))]
         /\ queue' = [queue EXCEPT ![p][cq.at] = Tail(@)]
  /\ cq' = At(cq.at, cq.plugin, cq.count + 1)
  /\ UNCHANGED <<streams, state, pushed, pollVars, down, delivered>>

NextQueue ==
  /\ cq.at = "process" /\ queue[cq.plugin]["process"] = <<>>
  /\ cq' = At("main", cq.plugin, cq.count)
  /\ UNCHANGED <<streams, state, queue, pushed, pending, pollVars, down, delivered>>

NextExpBackoff(p) == IF backoff[p] < BackoffLimit THEN 2 * backoff[p] ELSE BackoffLimit
PollFreq(p) == 1
Receivers(p) == Writable(p)    \* the streams whose sendEvents() succeeds
Retained(p) == <<>>            \* mPluginToClientsData.Clear()

Rearm(p) == alarms' = [alarms EXCEPT ![p] = @ + 1]

\* Nothing to send, or nobody to send it to: wait longer.  What was popped
\* stays in mPluginToClientsData.
PollIdles ==
  LET p == cq.plugin
  IN  /\ cq.at = "main" /\ queue[p]["main"] = <<>>
      /\ cq.count = 0 \/ Receivers(p) = {}
      /\ backoff' = [backoff EXCEPT ![p] = NextExpBackoff(p)]
      /\ Rearm(p)
      /\ cq' = Idle
      /\ UNCHANGED <<streams, state, queue, pushed, pending, pollRunning, pollStop, stopping,
                     endOwner, down, delivered>>

PollSends ==
  LET p == cq.plugin
  IN  /\ cq.at = "main" /\ queue[p]["main"] = <<>>
      /\ cq.count > 0 /\ Receivers(p) # {}
      /\ delivered' = [s \in Streams |-> IF s \in Receivers(p)
                                           THEN delivered[s] \o pending[p]
                                           ELSE delivered[s]]
      /\ pending' = [pending EXCEPT ![p] = Retained(p)]
      /\ backoff' = [backoff EXCEPT ![p] = PollFreq(p)]
      /\ Rearm(p)
      /\ cq' = Idle
      /\ UNCHANGED <<streams, state, queue, pushed, pollRunning, pollStop, stopping, endOwner,
                     down>>

-----------------------------------------------------------------------------
Poll == \/ \E p \in Plugins : PollBegins(p) \/ PollEnds(p)
        \/ DrainProcess \/ DrainMain
        \/ PopEvent \/ NextQueue \/ PollIdles \/ PollSends

Next ==
  \/ Poll
  \/ \E p \in Plugins :
       \/ \E src \in Sources : Push(p, src)
       \/ \E s \in Streams : Connect(s, p) \/ Kill(s, p)
       \/ EndStreams(p) \/ StopPollCheck(p) \/ StopPollStore(p)
  \/ \E s \in Streams : Lose(s)
  \/ Shutdown

Spec == Init /\ [][Next]_vars

\* An alarm fires and the completion queue's thread runs its callback to the
\* end.  Clients, producers and the host promise nothing.
FairSpec == Spec /\ WF_vars(Poll)

-----------------------------------------------------------------------------
(* Correctness.                                                            *)

ClientType ==
  /\ streams \in [Plugins -> SUBSET Streams]
  /\ state \in [Streams -> {"new", "write", "ending", "gone"}]
  /\ delivered \in [Streams -> Seq(Events)]

QueueType ==
  /\ queue \in [Plugins -> [Sources -> Seq(Events)]]
  /\ \A p \in Plugins, src \in Sources : Len(queue[p][src]) <= QueueCap
  /\ pushed \in [Plugins -> [Sources -> 0 .. MaxEvents]]
  /\ pending \in [Plugins -> Seq(Events)]

FlagType ==
  /\ pollRunning \in [Plugins -> BOOLEAN] /\ pollStop \in [Plugins -> BOOLEAN]
  /\ stopping \in [Plugins -> BOOLEAN] /\ down \in BOOLEAN

LoopType ==
  /\ backoff \in [Plugins -> 1 .. 2 * BackoffLimit - 1] /\ alarms \in [Plugins -> Nat]
  /\ endOwner \in Plugins \union {None}
  /\ cq \in [at : {"idle", "drain", "drainMain"} \union Sources,
             plugin : Plugins \union {None}, count : Nat]
  /\ cq.at = "idle" <=> cq.plugin = None

\* The queues never exceed their capacity, and the waiting time between two
\* polls stays under twice the limit; it does pass the limit itself, once,
\* before it settles there.
TypeOK == ClientType /\ QueueType /\ FlagType /\ LoopType

Polling(p) == cq.at \in Sources /\ cq.plugin = p

\* isPolling() tells the truth: the flag is set exactly while there is one
\* alarm for the callback, or the callback is running and will set it again.
PollFlagTruthful ==
  \A p \in Plugins :
    alarms[p] + (IF Polling(p) THEN 1 ELSE 0) = (IF pollRunning[p] THEN 1 ELSE 0)

\* A client that can be written to is being polled for, unless the server
\* goes down: however connects, losses, stops and polls interleave, no client
\* is left connected to a loop that has ended.
ClientServed ==
  \A p \in Plugins :
    (Writable(p) # {} /\ ~down) => (alarms[p] > 0 \/ Polling(p))

\* Clients that are connected at the same time are told the same, in the same
\* message: no step writes to one of them what it does not write to the other.
Written(s) == SubSeq(delivered'[s], Len(delivered[s]) + 1, Len(delivered'[s]))

BroadcastAgrees ==
  [][\A p \in Plugins : \A s, t \in Writable(p) : Written(s) = Written(t)]_vars

\* A client never sees an event twice, nor two events of one producer in the
\* wrong order, although unsent messages are kept and sent again later.
InOrder(q) ==
  \A i, j \in DOMAIN q : (i < j /\ q[i].src = q[j].src) => q[i].n < q[j].n

DeliveredInOrder ==
  \A p \in Plugins : \A s \in streams[p] :
    InOrder(delivered[s] \o pending[p] \o queue[p]["process"] \o queue[p]["main"])

\* The loop, its two queues and the retained message implement one channel per
\* source that says the same to all clients.  What was polled and not sent comes
\* before what is queued.
From(src, q) ==
  LET from[i \in 0 .. Len(q)] ==
        IF i = 0 THEN <<>>
        ELSE IF q[i].src = src THEN Append(from[i - 1], q[i]) ELSE from[i - 1]
  IN  from[Len(q)]

Channel == INSTANCE Broadcast WITH
  published <- pushed,
  buffer <- [p \in Plugins |-> [src \in Sources |-> From(src, pending[p]) \o queue[p][src]]],
  members <- [p \in Plugins |-> Writable(p)],
  received <- [s \in Streams |-> [src \in Sources |-> From(src, delivered[s])]]

IsBroadcast == Channel!BroadcastSpec

Queued(p, e) == \E src \in Sources : e \in ToSet(queue[p][src])
Gone(p, e) == ~Queued(p, e) /\ e \notin ToSet(pending[p])

\* An event in a queue reaches every client that stays connected, unless the
\* full queue overwrites it or polling is stopped.
EventsReachClients ==
  \A p \in Plugins, s \in Streams, e \in Events :
    (Queued(p, e) /\ s \in Writable(p))
      ~> (e \in ToSet(delivered[s]) \/ s \notin Writable(p) \/ pollStop[p] \/ down
            \/ (Gone(p, e) /\ e.src = "main"))

\* stopPoll() ends the streams: a client that is connected when polling is told
\* to stop, or connects later, does not stay.
StopEndsClients ==
  \A p \in Plugins, s \in Streams :
    (pollStop[p] /\ s \in Writable(p)) ~> (s \notin Writable(p) \/ down)
=============================================================================
