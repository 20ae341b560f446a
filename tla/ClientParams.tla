---------------------------- MODULE ClientParams ----------------------------
(***************************************************************************)
(* How parameter changes of the clients reach a plugin's parameters:       *)
(* ClientParamCall (server/tags/clientparamcall.cpp), pushClientParam      *)
(* (server/shareddata.cpp) and processGuiEvents (plugin/coreplugin.cpp).   *)
(*                                                                         *)
(* The thread of completion queue 1 handles the calls of all clients to    *)
(* all plugins, one at a time; the audio thread of each plugin drains its  *)
(* queue at the start of a block and then takes the host's events.  A      *)
(* value is told apart by the change that set it; the clients' stamps are  *)
(* arbitrary pairs of seconds and nanoseconds.                             *)
(***************************************************************************)
EXTENDS Integers, Sequences, SequencesExt, Stamp

CONSTANTS Clients,  \* clients with one call each at a time
          Plugins,
          Params,   \* the ids of a plugin's parameters
          Automated,\* the parameters the host sets as well
          Ids,      \* the ids clients use, those no parameter has included
          Stamps,   \* the stamps clients use, <<seconds, nanos>>
          MaxBatch, \* bound: changes in one call
          QueueCap  \* capacity of mClientsToPluginQueue (64)

ASSUME ParamAssumption ==
  /\ "none" \notin Plugins /\ Automated \subseteq Params
  /\ Stamps \subseteq Int \X Int /\ MaxBatch \in Nat /\ QueueCap \in Nat \ {0}

\* A change of a parameter, and a value the host set when `done` changes had
\* been taken from the queue.
Changes == [by : {"client"}, param : Ids, stamp : Int \X Int]
HostValues == [by : {"host"}, done : Nat]
FromClient(v) == v.by = "client"
Initial == [by |-> "host", done |-> 0]

VARIABLES call,     \* client -> the plugin it calls and the changes left
          known,    \* the plugins ServerCtrl knows
          cq,       \* the thread of completion queue 1
          last,     \* plugin -> mLastClientStamp
          accepted, \* plugin -> the changes with a newer stamp (history)
          queue,    \* plugin -> mClientsToPluginQueue
          taken,    \* plugin -> number of changes popped from it (history)
          audio,    \* plugin -> where its audio thread is in process()
          value,    \* plugin -> parameter -> what set its value
          host,     \* plugin -> parameter -> the value the host knows
          refused   \* plugin -> parameters the host refused to hear of

cqVars == <<call, cq, last, accepted>>
audioVars == <<taken, audio, value, host, refused>>
vars == <<cqVars, known, queue, audioVars>>

In(place, n, ch) == [at |-> place, begun |-> n, ch |-> ch]
NotProcessing == In("idle", 0, Initial)
NoCall == [to |-> "none", left |-> <<>>]
Idle == [at |-> "idle", client |-> "none"]
Waiting(c) == call[c] # NoCall

\* The change that waits for room in the queue of plugin p, if there is one.
Pending(p) ==
  IF cq.at = "push" /\ call[cq.client].to = p THEN <<Head(call[cq.client].left)>>
  ELSE <<>>
Queued(p) == Len(accepted[p]) - Len(Pending(p))

-----------------------------------------------------------------------------
(* Seeded faults: plausible slips in the definitions below.                *)

KeepsOneFree(p) == Len(queue[p]) + 1 < QueueCap
LosePush(p, ch) == queue[p]
StampNotKept(p, ch) == last
TellNothing(p, ch) == host
StopsEarly(p) == TRUE

-----------------------------------------------------------------------------
Init ==
  /\ call = [c \in Clients |-> NoCall] /\ known = Plugins /\ cq = Idle
  /\ last = [p \in Plugins |-> <<0, 0>>]
  /\ accepted = [p \in Plugins |-> <<>>] /\ queue = [p \in Plugins |-> <<>>]
  /\ taken = [p \in Plugins |-> 0]
  /\ audio = [p \in Plugins |-> NotProcessing]
  /\ value = [p \in Plugins |-> [i \in Params |-> Initial]] /\ host = value
  /\ refused = [p \in Plugins |-> {}]

-----------------------------------------------------------------------------
(* The clients and the host's main thread.                                 *)

ClientParamCall(c) ==
  /\ ~Waiting(c)
  /\ \E p \in Plugins, n \in 0 .. MaxBatch :
       \E ids \in [1 .. n -> Ids], ts \in [1 .. n -> Stamps] :
         call' = [call EXCEPT ![c] =
                    [to |-> p, left |-> [i \in 1 .. n |->
                       [by |-> "client", param |-> ids[i], stamp |-> ts[i]]]]]
  /\ UNCHANGED <<cq, last, accepted, known, queue, audioVars>>

RemovePlugin(p) ==
  /\ p \in known /\ audio[p].at = "idle"
  /\ known' = known \ {p}
  /\ UNCHANGED <<cqVars, queue, audioVars>>

-----------------------------------------------------------------------------
(* The thread of completion queue 1.                                       *)

Answer(c) == /\ call' = [call EXCEPT ![c] = NoCall]
             /\ cq' = Idle

\* process(ok) and handleEvent(): a plugin that is gone is NOT_FOUND.
HandleEvent(c) ==
  /\ cq = Idle /\ Waiting(c)
  /\ \/ /\ call[c].to \in known
        /\ cq' = [at |-> "check", client |-> c] /\ call' = call
     \/ call[c].to \notin known /\ Answer(c)
  /\ UNCHANGED <<last, accepted, known, queue, audioVars>>

Checks(c) == cq = [at |-> "check", client |-> c] /\ call[c].left # <<>>
NextParam(c) == [call EXCEPT ![c].left = Tail(@)]

Discard(c) ==
  /\ Checks(c)
  /\ ~Newer(Head(call[c].left).stamp, last[call[c].to])
  /\ call' = NextParam(c)
  /\ UNCHANGED <<cq, last, accepted, known, queue, audioVars>>

SetStamp(p, ch) == [last EXCEPT ![p] = ch.stamp]

Accept(c) ==
  LET p == call[c].to ch == Head(call[c].left) IN
  /\ Checks(c) /\ Newer(ch.stamp, last[p])
  /\ last' = SetStamp(p, ch)
  /\ accepted' = [accepted EXCEPT ![p] = Append(@, ch)]
  /\ cq' = [at |-> "push", client |-> c]
  /\ UNCHANGED <<call, known, queue, audioVars>>

HasRoom(p) == Len(queue[p]) < QueueCap
Enqueue(p, ch) == Append(queue[p], ch)

\* progressive_backoff_wait(): the thread spins until there is room.
Push(c) ==
  LET p == call[c].to ch == Head(call[c].left) IN
  /\ cq = [at |-> "push", client |-> c] /\ HasRoom(p)
  /\ queue' = [queue EXCEPT ![p] = Enqueue(p, ch)]
  /\ call' = NextParam(c)
  /\ cq' = [at |-> "check", client |-> c]
  /\ UNCHANGED <<last, accepted, known, audioVars>>

Finish(c) ==
  /\ cq = [at |-> "check", client |-> c] /\ call[c].left = <<>>
  /\ Answer(c)
  /\ UNCHANGED <<last, accepted, known, queue, audioVars>>

-----------------------------------------------------------------------------
(* The audio thread of plugin p.                                           *)

Goes(p, place) == audio' = [audio EXCEPT ![p] = In(place, @.begun, Initial)]

Process(p) ==
  /\ p \in known /\ audio[p].at = "idle"
  /\ audio' = [audio EXCEPT ![p] = In("drain", Queued(p), Initial)]
  /\ UNCHANGED <<cqVars, known, queue, taken, value, host, refused>>

SetsValue(p, ch) == [value EXCEPT ![p][ch.param] = ch]

\* processGuiEvents(): an id without a parameter is only logged.
Pop(p) ==
  LET ch == Head(queue[p]) IN
  /\ audio[p].at = "drain" /\ queue[p] # <<>>
  /\ queue' = [queue EXCEPT ![p] = Tail(@)]
  /\ taken' = [taken EXCEPT ![p] = @ + 1]
  /\ \/ /\ ch.param \in Params
        /\ value' = SetsValue(p, ch)
        /\ audio' = [audio EXCEPT ![p] = In("tell", @.begun, ch)]
     \/ ch.param \notin Params /\ UNCHANGED <<value, audio>>
  /\ UNCHANGED <<cqVars, known, host, refused>>

Tells(p, ch) == [host EXCEPT ![p][ch.param] = ch]

TryPush(p) ==
  /\ audio[p].at = "tell"
  /\ host' = Tells(p, audio[p].ch)
  /\ refused' = [refused EXCEPT ![p] = @ \ {audio[p].ch.param}]
  /\ Goes(p, "drain")
  /\ UNCHANGED <<cqVars, known, queue, taken, value>>

\* The early return: the block is cut short, the rest of the queue waits for
\* the next one.
Refuse(p) ==
  /\ audio[p].at = "tell"
  /\ refused' = [refused EXCEPT ![p] = @ \union {audio[p].ch.param}]
  /\ Goes(p, "cut")
  /\ UNCHANGED <<cqVars, known, queue, taken, value, host>>

Empty(p) == queue[p] = <<>>

Drained(p) ==
  /\ audio[p].at = "drain" /\ Empty(p)
  /\ Goes(p, "events")
  /\ UNCHANGED <<cqVars, known, queue, taken, value, host, refused>>

HostEvents == {"events", "cut"}

\* processEvent(), CLAP_EVENT_PARAM_VALUE.
HostEvent(p, id) ==
  LET v == [by |-> "host", done |-> taken[p]] IN
  /\ audio[p].at \in HostEvents
  /\ value' = [value EXCEPT ![p][id] = v]
  /\ host' = [host EXCEPT ![p][id] = v]
  /\ refused' = [refused EXCEPT ![p] = @ \ {id}]
  /\ UNCHANGED <<cqVars, known, queue, taken, audio>>

EndBlock(p) ==
  /\ audio[p].at \in HostEvents
  /\ audio' = [audio EXCEPT ![p] = NotProcessing]
  /\ UNCHANGED <<cqVars, known, queue, taken, value, host, refused>>

-----------------------------------------------------------------------------
Cq(c) == HandleEvent(c) \/ Discard(c) \/ Accept(c) \/ Push(c) \/ Finish(c)
Block(p) == \/ Process(p) \/ Pop(p) \/ TryPush(p) \/ Refuse(p)
            \/ Drained(p) \/ EndBlock(p)

Next ==
  \/ \E c \in Clients : ClientParamCall(c) \/ Cq(c)
  \/ \E p \in Plugins : \/ RemovePlugin(p) \/ Block(p)
                        \/ \E id \in Automated : HostEvent(p, id)

Spec == Init /\ [][Next]_vars

\* Completion queue 1 hands out calls in order, so none is passed over for
\* ever, and its thread keeps running.  The host calls process() again and
\* again until it removes the plugin, and a block ends.
Fairness ==
  /\ \A c \in Clients : SF_vars(HandleEvent(c)) /\ WF_vars(Cq(c))
  /\ \A p \in Plugins : WF_vars(Block(p))

LiveSpec == Spec /\ Fairness

-----------------------------------------------------------------------------
(* Properties.                                                             *)

\* The state has its type.
TypeOK ==
  /\ call \in [Clients -> [to : Plugins, left : Seq(Changes)] \union {NoCall}]
  /\ known \subseteq Plugins
  /\ cq \in [at : {"check", "push"}, client : Clients] \union {Idle}
  /\ last \in [Plugins -> Int \X Int]
  /\ accepted \in [Plugins -> Seq(Changes)]
  /\ queue \in [Plugins -> Seq(Changes)]
  /\ \A p \in Plugins : Len(queue[p]) <= QueueCap
  /\ taken \in [Plugins -> Nat]
  /\ audio \in [Plugins -> [at : {"idle", "drain", "tell", "events", "cut"},
                            begun : Int, ch : Changes \union HostValues]]
  /\ \A p \in Plugins : audio[p].at = "tell" =>
       audio[p].ch \in Changes /\ audio[p].ch.param \in Params
  /\ value \in [Plugins -> [Params -> Changes \union HostValues]]
  /\ host \in [Plugins -> [Params -> Changes \union HostValues]]
  /\ refused \in [Plugins -> SUBSET Params]

\* Every accepted change is taken by the audio thread, in the queue or
\* waiting for room in it, in the order it was accepted: none is lost, doubled
\* or overtaken between pushClientParam() and processGuiEvents().
NothingLost ==
  \A p \in Plugins :
    /\ taken[p] + Len(queue[p]) + Len(Pending(p)) = Len(accepted[p])
    /\ \A i \in 1 .. Len(queue[p]) : queue[p][i] = accepted[p][taken[p] + i]
    /\ Pending(p) # <<>> => Pending(p)[1] = accepted[p][Len(accepted[p])]

\* What the audio thread believes the host knows of a parameter is its value,
\* unless the host refused the event or is just being told.
HostAgrees ==
  \A p \in Plugins, id \in Params :
    \/ host[p][id] = value[p][id]
    \/ id \in refused[p]
    \/ audio[p].at = "tell" /\ audio[p].ch.param = id

\* A client's value never gives way to the older value of another client,
\* however their calls overtake each other ("to avoid incorrect behavior if
\* multiple clients are connected").
NoOlderValue ==
  [][\A p \in Plugins, id \in Params :
       LET old == value[p][id] new == value'[p][id] IN
       new # old /\ FromClient(old) /\ FromClient(new) => Newer(new.stamp, old.stamp)]_vars

\* The changes a plugin accepts grow in time, not only field by field: comparing
\* stamps, like measuring and shifting them, agrees with what they mean.
StampsExact ==
  /\ \A p \in Plugins : \A i, j \in DOMAIN accepted[p] :
       LET a == accepted[p][i].stamp b == accepted[p][j].stamp IN
       i < j /\ IsStamp(a) /\ IsStamp(b) => Total(a) < Total(b)
  /\ StampExact

\* Every change that was queued before a block began is taken before the
\* host's events of that block, so that no older change of a client undoes a
\* value the host sets; unless the host refused an event and cut the drain
\* short.
HostSpeaksLast ==
  \A p \in Plugins : audio[p].at = "events" => taken[p] >= audio[p].begun

\* While the host processes every plugin, every call of a client is answered.
CallsAnswered ==
  \A c \in Clients : Waiting(c) ~> ~Waiting(c) \/ known # Plugins
=============================================================================
