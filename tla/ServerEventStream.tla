------------------------- MODULE ServerEventStream -------------------------
(***************************************************************************)
(* The life of the event streams, server/tags/servereventstream.cpp: each  *)
(* is a tag on completion queue 0, created to wait for a client, driven by *)
(* the completions of the operations it started, and destroyed by kill().  *)
(*                                                                         *)
(* The operations of gRPC are external: a request completes when a client  *)
(* calls, a write with ok = FALSE once the call is broken, and the         *)
(* notification of AsyncNotifyWhenDone some time after the call is over.   *)
(* Completions of different operations come in any order.                  *)
(*                                                                         *)
(* The process can die of a stream: gRPC aborts it when Write() is called  *)
(* beside a write that has not completed, or Finish() a second time, and   *)
(* an exception in process() ends the thread of the queue.                 *)
(***************************************************************************)
EXTENDS Naturals, FiniteSets

CONSTANTS Streams,   \* the streams that may be created
          MaxWrites  \* bound: writes of a stream that were not handled yet

ASSUME StreamAssumption == MaxWrites \in Nat \ {0}

Ops == {"request", "write", "alarm", "finish"}

VARIABLES tag,        \* stream -> unborn, pending (in pendingTags), destroyed
          state,      \* stream -> CONNECT, WRITE, DISCONNECT, FINISH
          ops,        \* stream -> operation -> number not yet completed
          call,       \* stream -> none, open, lost (the client), over
          notified,   \* streams whose notification was delivered
          told,       \* streams that called Finish()
          hurried,    \* streams written to or ended before their last write
                      \* was handled (history)
          registered, \* SharedData::streams of the plugin
          shared,     \* streams whose sharedData is not null
          plugin,     \* the plugin is known to ServerCtrl
          down,       \* the server is shutting down
          died        \* what ended the process: no (thing), write, finish, metadata

callVars == <<call, notified, told>>
lifeVars == <<tag, state, ops, callVars, hurried, registered, shared, plugin, down>>
vars == <<lifeVars, died>>

None == [o \in Ops |-> 0]
Only(op) == [None EXCEPT ![op] = 1]
Outstanding(s) == ops[s]["request"] + ops[s]["write"] + ops[s]["alarm"] + ops[s]["finish"]

-----------------------------------------------------------------------------
(* Seeded faults: plausible slips in the definitions below.                *)

NoSuccessor(t) == UNCHANGED tag
LeaveRegistered(s) == registered
KillEarly(s) == state[s] \in {"DISCONNECT", "FINISH"}
NoAlarm(s) == ops
AlarmTwice(s) == [ops EXCEPT ![s]["alarm"] = @ + 2]
StaysDisconnected(s, op, next) ==
  /\ state' = [state EXCEPT ![s] = "DISCONNECT"]
  /\ ops' = [ops EXCEPT ![s] = [@ EXCEPT ![op] = @ - 1, !["finish"] = @ + 1]]
  /\ told' = told \union {s}

-----------------------------------------------------------------------------
\* create<ServerEventStream>() in Server::start().
Init ==
  \E first \in Streams :
    /\ tag = [s \in Streams |-> IF s = first THEN "pending" ELSE "unborn"]
    /\ state = [s \in Streams |-> "CONNECT"]
    /\ ops = [s \in Streams |-> IF s = first THEN Only("request") ELSE None]
    /\ call = [s \in Streams |-> "none"]
    /\ notified = {} /\ told = {} /\ hurried = {}
    /\ registered = {} /\ shared = {}
    /\ plugin = TRUE /\ down = FALSE /\ died = "no"

-----------------------------------------------------------------------------
(* The clients and the host.                                               *)

Lose(s) ==
  /\ call[s] = "open"
  /\ call' = [call EXCEPT ![s] = "lost"]
  /\ UNCHANGED <<tag, state, ops, notified, told, hurried, registered, shared, plugin, down, died>>

RemovePlugin ==
  /\ plugin /\ plugin' = FALSE
  /\ UNCHANGED <<tag, state, ops, callVars, hurried, registered, shared, down, died>>

Shutdown ==
  /\ ~down /\ down' = TRUE
  /\ UNCHANGED <<tag, state, ops, callVars, hurried, registered, shared, plugin, died>>

-----------------------------------------------------------------------------
(* What the process does not survive.                                      *)

Dies(cause) == died' = cause /\ UNCHANGED lifeVars

-----------------------------------------------------------------------------
(* Writing to and ending streams, from SharedData.                         *)

\* Neither sendEvents() nor endStream() waits for the last write to be handled.
Hurried(s) == IF ops[s]["write"] > 0 THEN hurried \union {s} ELSE hurried

\* gRPC takes a write once the last has completed, though its completion may
\* still wait in the queue: that is one more to handle.
SendEvents(s) ==
  /\ s \in registered /\ state[s] = "WRITE"
  /\ ops[s]["write"] < MaxWrites
  /\ ops' = [ops EXCEPT ![s]["write"] = @ + 1]
  /\ hurried' = Hurried(s)
  /\ UNCHANGED <<tag, state, callVars, registered, shared, plugin, down, died>>

\* The last write has not completed: gRPC refuses the next and aborts.
WriteBeside(s) ==
  /\ s \in registered /\ state[s] = "WRITE" /\ ops[s]["write"] > 0
  /\ Dies("write")

\* The alarm brings the stream back to its completion queue.
SetAlarm(s) == [ops EXCEPT ![s]["alarm"] = @ + 1]

EndStream(s) ==
  /\ s \in registered /\ state[s] = "WRITE"
  /\ state' = [state EXCEPT ![s] = "DISCONNECT"]
  /\ ops' = SetAlarm(s)
  /\ hurried' = Hurried(s)
  /\ UNCHANGED <<tag, callVars, registered, shared, plugin, down, died>>

-----------------------------------------------------------------------------
(* process(ok), one completion at a time.                                  *)

Handled(s, op) == [ops[s] EXCEPT ![op] = @ - 1]
Completes(s, op) == tag[s] = "pending" /\ ops[s][op] > 0

\* Without its SharedData a stream cannot leave it.
Unregister(s) == IF s \in shared THEN registered \ {s} ELSE registered
Over(s, op) == IF op = "finish" THEN [call EXCEPT ![s] = "over"] ELSE call

\* kill(): leave SharedData first, then the completion queue's handler.
Kill(s, op) ==
  /\ tag' = [tag EXCEPT ![s] = "destroyed"]
  /\ registered' = Unregister(s)
  /\ ops' = [ops EXCEPT ![s] = Handled(s, op)]
  /\ call' = Over(s, op)
  /\ UNCHANGED <<state, notified, told, hurried, shared, plugin, down, died>>

Finish(s, op, next) ==
  /\ state' = [state EXCEPT ![s] = next]
  /\ ops' = [ops EXCEPT ![s] = [Handled(s, op) EXCEPT !["finish"] = @ + 1]]
  /\ told' = told \union {s}

\* The successor that waits for the next client.
Successor(t) == tag' = [tag EXCEPT ![t] = "pending"]

Accept(s, t) ==
  /\ Completes(s, "request") /\ state[s] = "CONNECT"
  /\ tag[t] = "unborn" /\ t # s
  /\ Successor(t)
  /\ call' = [call EXCEPT ![s] = "open"]
  /\ \/ \* authenticated: registered with the plugin, polled for
        /\ plugin
        /\ registered' = registered \union {s} /\ shared' = shared \union {s}
        /\ state' = [state EXCEPT ![s] = "WRITE"]
        /\ ops' = [ops EXCEPT ![s] = None, ![t] = Only("request")]
        /\ UNCHANGED <<told, plugin>>
     \/ \* rejected; or the plugin is removed between connectClient() and
        \* getSharedData(), and its SharedData keeps the stream
        /\ \/ UNCHANGED <<registered, plugin>>
           \/ plugin /\ plugin' = FALSE /\ registered' = registered \union {s}
        /\ state' = [state EXCEPT ![s] = "FINISH"]
        /\ ops' = [ops EXCEPT ![s] = Only("finish"), ![t] = Only("request")]
        /\ told' = told \union {s}
        /\ UNCHANGED shared
  /\ UNCHANGED <<notified, hurried, down, died>>

\* std::stoull() throws for a hash that is no number, and nothing catches it.
Malformed(s) ==
  /\ Completes(s, "request") /\ state[s] = "CONNECT"
  /\ Dies("metadata")

\* The server shuts down before a client calls.
NoClient(s) ==
  /\ down /\ Completes(s, "request") /\ state[s] = "CONNECT"
  /\ Kill(s, "request")

WriteDone(s) ==
  /\ Completes(s, "write") /\ state[s] = "WRITE"
  /\ call[s] # "over"
  /\ ops' = [ops EXCEPT ![s] = Handled(s, "write")]
  /\ UNCHANGED <<tag, state, callVars, hurried, registered, shared, plugin, down, died>>

WriteFailed(s) ==
  /\ Completes(s, "write") /\ state[s] = "WRITE"
  /\ call[s] # "open"
  /\ Finish(s, "write", "DISCONNECT")
  /\ UNCHANGED <<tag, call, notified, hurried, registered, shared, plugin, down, died>>

\* The first completion after endStream(): of the alarm, or of a write.
Disconnect(s, op) ==
  /\ Completes(s, op) /\ state[s] = "DISCONNECT" /\ s \notin told
  /\ Finish(s, op, "FINISH")
  /\ call' = Over(s, op)
  /\ UNCHANGED <<tag, notified, hurried, registered, shared, plugin, down, died>>

\* Any completion after WriteFailed, that of its Finish() included, unless the
\* notification comes first: gRPC refuses a second Finish() and aborts.
FinishAgain(s, op) ==
  /\ Completes(s, op) /\ state[s] = "DISCONNECT" /\ s \in told
  /\ Dies("finish")

KillsNow(s) == state[s] = "FINISH"

Finished(s, op) ==
  /\ Completes(s, op) /\ KillsNow(s)
  /\ Kill(s, op)

\* The function tag of AsyncNotifyWhenDone.  It captures `this`: on a stream
\* that is destroyed it writes to freed memory, which is not modelled.
Notify(s) ==
  /\ call[s] \in {"lost", "over"} /\ s \notin notified
  /\ notified' = notified \union {s}
  /\ state' = IF tag[s] = "pending" THEN [state EXCEPT ![s] = "FINISH"] ELSE state
  /\ UNCHANGED <<tag, ops, call, told, hurried, registered, shared, plugin, down, died>>

Handles(s) ==
  \/ WriteDone(s) \/ WriteFailed(s)
  \/ \E op \in Ops : Disconnect(s, op) \/ FinishAgain(s, op) \/ Finished(s, op)

Process(s) ==
  \/ \E t \in Streams : Accept(s, t)
  \/ Malformed(s) \/ NoClient(s) \/ Handles(s)

Next ==
  /\ died = "no"
  /\ \/ \E s \in Streams :
          \/ Lose(s) \/ SendEvents(s) \/ WriteBeside(s) \/ EndStream(s)
          \/ Process(s) \/ Notify(s)
     \/ RemovePlugin \/ Shutdown

Spec == Init /\ [][Next]_vars

\* Operations complete and the completion queue's thread handles them.  Whether
\* a client calls, is lost or is written to is not assumed.
FairSpec ==
  /\ Spec
  /\ \A s \in Streams :
       WF_vars(died = "no" /\ Handles(s)) /\ WF_vars(died = "no" /\ Notify(s))

-----------------------------------------------------------------------------
(* Correctness.                                                            *)

\* Types; every operation completes once.
TypeOK ==
  /\ tag \in [Streams -> {"unborn", "pending", "destroyed"}]
  /\ state \in [Streams -> {"CONNECT", "WRITE", "DISCONNECT", "FINISH"}]
  /\ ops \in [Streams -> [Ops -> Nat]]
  /\ call \in [Streams -> {"none", "open", "lost", "over"}]
  /\ notified \subseteq Streams /\ told \subseteq Streams
  /\ hurried \subseteq Streams /\ registered \subseteq Streams /\ shared \subseteq Streams
  /\ plugin \in BOOLEAN /\ down \in BOOLEAN
  /\ died \in {"no", "write", "finish", "metadata"}

Waiting(s) == tag[s] = "pending" /\ state[s] = "CONNECT" /\ ops[s] = Only("request")

\* Until the server shuts down there is always exactly one stream that waits
\* for the next client.
OneAcceptor == ~down => Cardinality({s \in Streams : Waiting(s)}) = 1

\* The poll loop finds no destroyed stream in SharedData::streams, unless the
\* plugin was removed while that stream was connecting.
Stray(s) == ~plugin /\ s \notin shared
StreamsAlive == \A s \in registered : tag[s] = "pending" \/ Stray(s)

\* No completion is delivered to a stream that kill() has destroyed, unless it
\* was written to or ended before its last write was handled.
NoStrayTag ==
  \A s \in Streams \ hurried : tag[s] = "destroyed" => Outstanding(s) = 0

\* A client that stays gets a status before its stream is destroyed.
ClientTold == \A s \in Streams : (tag[s] = "destroyed" /\ call[s] = "open") => s \in told

\* However a stream is ended, Finish() is called twice only on one whose client
\* was lost while it was written to.
FinishedOnce == died = "finish" => \E s \in told : call[s] = "lost"

\* A stream that is being ended is destroyed in the end, unless the process
\* dies before.
EndedStreamsGo ==
  \A s \in Streams : state[s] = "DISCONNECT" ~> (tag[s] = "destroyed" \/ died # "no")
=============================================================================
