-------------------------- MODULE SharedDataProofs --------------------------
(***************************************************************************)
(* The polling loop for any number of streams, events and queue places:    *)
(* types and bounds, the order and the agreement of what clients are sent, *)
(* and the refinement of Broadcast, for any set of plugins; and, for a     *)
(* process with one plugin instance, that the loop's flag is truthful and  *)
(* that no client is ever left connected to a loop that has ended.         *)
(***************************************************************************)
EXTENDS SharedData, TLAPS, SequenceTheorems, Recursion

LEMMA InitType == Init => TypeOK
<1> SUFFICES ASSUME Init PROVE TypeOK
  OBVIOUS
<1> USE PollAssumption, NoneAssumption DEF Init, Sources
<1>1. ClientType
  BY DEF ClientType
<1>2. QueueType
  BY DEF QueueType
<1>3. FlagType
  BY DEF FlagType
<1>4. LoopType
  BY DEF LoopType, Idle
<1> QED
  BY <1>1, <1>2, <1>3, <1>4 DEF TypeOK

LEMMA PushedType ==
  ASSUME NEW src \in Sources, NEW q \in Seq(Events), Len(q) <= QueueCap, NEW e \in Events
  PROVE  Pushed(src, q, e) \in Seq(Events) /\ Len(Pushed(src, q, e)) <= QueueCap
  BY PollAssumption DEF Pushed

LEMMA StepType == TypeOK /\ [Next]_vars => TypeOK'
<1> SUFFICES ASSUME ClientType, QueueType, FlagType, LoopType, [Next]_vars
             PROVE  ClientType' /\ QueueType' /\ FlagType' /\ LoopType'
  BY DEF TypeOK
<1> USE PollAssumption, NoneAssumption DEF pollVars
<1>1. CASE UNCHANGED vars
  BY <1>1 DEF vars, ClientType, QueueType, FlagType, LoopType
<1>2. ASSUME NEW p \in Plugins, NEW src \in Sources, Push(p, src)
      PROVE  ClientType' /\ QueueType' /\ FlagType' /\ LoopType'
  <2> DEFINE e == [src |-> src, n |-> pushed[p][src] + 1]
  <2>1. e \in Events /\ pushed[p][src] + 1 \in 0 .. MaxEvents
    BY <1>2 DEF Push, Events, QueueType
  <2>2. queue[p][src] \in Seq(Events) /\ Len(queue[p][src]) <= QueueCap
    BY DEF QueueType
  <2>3. Pushed(src, queue[p][src], e) \in Seq(Events)
        /\ Len(Pushed(src, queue[p][src], e)) <= QueueCap
    BY <2>1, <2>2, PushedType
  <2>4. QueueType'
    BY <1>2, <2>1, <2>3 DEF Push, QueueType
  <2> QED
    BY <1>2, <2>4 DEF Push, ClientType, FlagType, LoopType
<1>3. ASSUME NEW p \in Plugins, NEW s \in Streams, Connect(s, p)
      PROVE  ClientType' /\ QueueType' /\ FlagType' /\ LoopType'
  <2>1. ClientType'
    BY <1>3 DEF Connect, SetRunning, ClientType, LoopType
  <2>2. FlagType'
    BY <1>3 DEF Connect, SetRunning, FlagType, LoopType
  <2>3. LoopType'
    BY <1>3 DEF Connect, SetRunning, LoopType, Sources
  <2> QED
    BY <1>3, <2>1, <2>2, <2>3 DEF Connect, SetRunning, QueueType
<1>4. ASSUME NEW p \in Plugins, NEW s \in Streams, Kill(s, p)
      PROVE  ClientType' /\ QueueType' /\ FlagType' /\ LoopType'
  <2>1. ClientType'
    BY <1>4 DEF Kill, ClientType, LoopType
  <2> QED
    BY <1>4, <2>1 DEF Kill, QueueType, FlagType, LoopType
<1>5. ASSUME NEW p \in Plugins, EndStreams(p)
      PROVE  ClientType' /\ QueueType' /\ FlagType' /\ LoopType'
  <2>1. ClientType'
    BY <1>5 DEF EndStreams, Ended, Writable, ClientType, LoopType
  <2> QED
    BY <1>5, <2>1 DEF EndStreams, Ended, Writable, QueueType, FlagType, LoopType
<1>6. ASSUME NEW p \in Plugins, StopPollCheck(p) \/ StopPollStore(p)
      PROVE  ClientType' /\ QueueType' /\ FlagType' /\ LoopType'
  <2>1. FlagType'
    BY <1>6 DEF StopPollCheck, StopPollStore, FlagType, LoopType
  <2> QED
    BY <1>6, <2>1 DEF StopPollCheck, StopPollStore, ClientType, QueueType, LoopType
<1>7. ASSUME NEW s \in Streams, Lose(s)
      PROVE  ClientType' /\ QueueType' /\ FlagType' /\ LoopType'
  <2>1. ClientType'
    BY <1>7 DEF Lose, ClientType, LoopType
  <2> QED
    BY <1>7, <2>1 DEF Lose, QueueType, FlagType, LoopType
<1>8. CASE Shutdown
  <2>1. FlagType'
    BY <1>8 DEF Shutdown, FlagType, LoopType
  <2> QED
    BY <1>8, <2>1 DEF Shutdown, ClientType, QueueType, LoopType
<1>9. ASSUME NEW p \in Plugins, PollBegins(p)
      PROVE  ClientType' /\ QueueType' /\ FlagType' /\ LoopType'
  <2>1. LoopType'
    BY <1>9 DEF PollBegins, PollFires, EndOwner, At, LoopType, Sources
  <2> QED
    BY <1>9, <2>1 DEF PollBegins, PollFires, EndOwner, At, ClientType, QueueType, FlagType
<1>10. ASSUME NEW p \in Plugins, PollEnds(p)
      PROVE  ClientType' /\ QueueType' /\ FlagType' /\ LoopType'
  <2>1. ClientType'
    BY <1>10 DEF PollEnds, PollFires, EndOwner, StopFlag, Ended, Writable, At, ClientType, LoopType
  <2>2. FlagType'
    BY <1>10 DEF PollEnds, PollFires, EndOwner, StopFlag, Ended, Writable, At, FlagType, LoopType
  <2>3. LoopType'
    BY <1>10 DEF PollEnds, PollFires, EndOwner, StopFlag, Ended, Writable, At, LoopType, Sources
  <2> QED
    BY <1>10, <2>1, <2>2, <2>3 DEF PollEnds, PollFires, EndOwner, StopFlag, Ended, Writable, At, QueueType
<1>11. CASE DrainProcess \/ DrainMain
  <2> DEFINE p == cq.plugin
             src == IF cq.at = "drain" THEN "process" ELSE "main"
  <2>1. p \in Plugins /\ src \in Sources
    BY <1>11 DEF DrainProcess, DrainMain, LoopType, Sources
  <2>2. queue' = [queue EXCEPT ![p][src] = <<>>] /\ UNCHANGED <<pushed, pending>>
    BY <1>11 DEF DrainProcess, DrainMain
  <2> HIDE DEF p, src
  <2>3. QueueType'
    BY <2>1, <2>2 DEF QueueType
  <2>4. LoopType'
    BY <1>11 DEF DrainProcess, DrainMain, At, Idle, LoopType, Sources
  <2> QED
    BY <1>11, <2>3, <2>4 DEF DrainProcess, DrainMain, ClientType, FlagType
<1>12. CASE PopEvent
  <2> DEFINE p == cq.plugin
             q == queue[p][cq.at]
  <2>1. p \in Plugins /\ cq.at \in Sources /\ q # <<>>
    BY <1>12 DEF PopEvent, LoopType, Sources
  <2>2. q \in Seq(Events) /\ Len(q) <= QueueCap /\ pending[p] \in Seq(Events)
    BY <2>1 DEF QueueType
  <2>3. /\ Tail(q) \in Seq(Events) /\ Len(Tail(q)) <= QueueCap
        /\ Append(pending[p], Head(q)) \in Seq(Events)
    BY <2>1, <2>2
  <2>4. /\ queue' = [queue EXCEPT ![p][cq.at] = Tail(q)]
        /\ pending' = [pending EXCEPT ![p] = Append(pending[p], Head(q))]
        /\ cq' = At(cq.at, cq.plugin, cq.count + 1)
        /\ UNCHANGED <<pushed, backoff, alarms, endOwner>>
    BY <1>12 DEF PopEvent
  <2> HIDE DEF p, q
  <2>5. QueueType'
    BY <2>1, <2>3, <2>4 DEF QueueType
  <2>6. LoopType'
    <3>1. /\ cq' \in [at : {"idle", "drain", "drainMain"} \union Sources,
                     plugin : Plugins \union {None}, count : Nat]
          /\ cq'.at = cq.at /\ cq'.plugin = cq.plugin
      BY <2>4 DEF LoopType, At
    <3> QED
      BY <2>4, <3>1 DEF LoopType
  <2> QED
    BY <1>12, <2>5, <2>6 DEF PopEvent, ClientType, FlagType
<1>13. CASE NextQueue
  <2>1. LoopType'
    BY <1>13 DEF NextQueue, At, LoopType, Sources
  <2> QED
    BY <1>13, <2>1 DEF NextQueue, ClientType, QueueType, FlagType
<1>14. CASE PollIdles
  <2>1. LoopType'
    BY <1>14 DEF PollIdles, NextExpBackoff, Rearm, Idle, LoopType, Sources
  <2> QED
    BY <1>14, <2>1 DEF PollIdles, NextExpBackoff, Rearm, Idle, ClientType, QueueType, FlagType
<1>15. CASE PollSends
  <2>1. ClientType'
    BY <1>15 DEF PollSends, Retained, PollFreq, Rearm, Idle, ClientType, QueueType, LoopType
  <2>2. QueueType'
    BY <1>15, SMTT(30) DEF PollSends, Retained, PollFreq, Rearm, Idle, QueueType, Sources, LoopType
  <2>3. LoopType'
    BY <1>15 DEF PollSends, Retained, PollFreq, Rearm, Idle, LoopType, Sources
  <2> QED
    BY <1>15, <2>1, <2>2, <2>3 DEF PollSends, Retained, PollFreq, Rearm, Idle, FlagType
<1> QED
  BY <1>1, <1>2, <1>3, <1>4, <1>5, <1>6, <1>7, <1>8, <1>9, <1>10, <1>11, <1>12, <1>13,
     <1>14, <1>15 DEF Next, Poll

\* Types and bounds, for any number of plugins: queues never exceed their
\* capacity and the back-off stays under twice its limit.
THEOREM TypeCorrect == Spec => []TypeOK
  BY InitType, StepType, PTL DEF Spec

-----------------------------------------------------------------------------
(* One plugin instance in the process.  The static lambda endCallback then *)
(* ends the loop it was called from, and the flag can be relied on.        *)

OneInstance == \A p, q \in Plugins : p = q

Served(p) ==
  /\ alarms[p] + (IF Polling(p) THEN 1 ELSE 0) = (IF pollRunning[p] THEN 1 ELSE 0)
  /\ (Writable(p) # {} /\ ~down) => (alarms[p] > 0 \/ Polling(p))

ServeInv == \A p \in Plugins : Served(p)

LEMMA ServeInvSplit == ServeInv <=> PollFlagTruthful /\ ClientServed
  BY DEF ServeInv, Served, PollFlagTruthful, ClientServed

LEMMA InitServe == Init => ServeInv
<1> SUFFICES ASSUME Init PROVE ServeInv
  OBVIOUS
<1>1. PollFlagTruthful
  BY DEF Init, PollFlagTruthful, Polling, Idle, Sources
<1>2. ClientServed
  BY DEF Init, ClientServed, Writable
<1> QED
  BY <1>1, <1>2, ServeInvSplit

LEMMA StepServe ==
  ASSUME OneInstance, TypeOK, ServeInv, [Next]_vars
  PROVE  ServeInv'
<1> SUFFICES ASSUME NEW p \in Plugins PROVE Served(p)'
  BY DEF ServeInv
<1>a. \A q \in Plugins : q = p
  BY DEF OneInstance
<1>b. /\ alarms[p] \in Nat /\ pollRunning[p] \in BOOLEAN
      /\ alarms \in [Plugins -> Nat] /\ pollRunning \in [Plugins -> BOOLEAN]
      /\ streams \in [Plugins -> SUBSET Streams] /\ DOMAIN state = Streams
      /\ cq.at # "idle" => cq.plugin = p
      /\ endOwner = None \/ endOwner = p
  BY <1>a DEF TypeOK, ClientType, FlagType, LoopType
<1>c. Served(p)
  BY DEF ServeInv
<1> USE DEF Served, pollVars, Polling, Writable, Sources
<1>1. CASE UNCHANGED vars
  BY <1>1, <1>c DEF vars
<1>2. CASE \E src \in Sources : Push(p, src)
  BY <1>2, <1>c DEF Push
<1>3. CASE \E s \in Streams : Connect(s, p)
  <2>1. pollRunning'[p] /\ alarms'[p] = 1 /\ cq'.at = "idle"
    BY <1>3, <1>b, <1>c DEF Connect, MayStart, SetRunning, Idle
  <2> QED
    BY <2>1
<1>4. CASE \E s \in Streams : Kill(s, p) \/ Lose(s)
  <2>1. UNCHANGED <<pollVars, cq, down>> /\ Writable(p)' \subseteq Writable(p)
    BY <1>4, <1>b DEF Kill, Lose
  <2> QED
    BY <2>1, <1>c
<1>5. CASE EndStreams(p)
  <2>1. UNCHANGED <<pollVars, cq, down>> /\ Writable(p)' \subseteq Writable(p)
    BY <1>5, <1>b DEF EndStreams, Ended
  <2> QED
    BY <2>1, <1>c
<1>6. CASE StopPollCheck(p) \/ StopPollStore(p)
  BY <1>6, <1>c DEF StopPollCheck, StopPollStore
<1>7. CASE Shutdown
  BY <1>7, <1>c DEF Shutdown
<1>8. CASE PollBegins(p)
  BY <1>8, <1>b, <1>c DEF PollBegins, PollFires, At, Idle
<1>9. CASE PollEnds(p)
  <2>1. EndOwner(p) = p
    BY <1>b DEF EndOwner
  <2>2. Writable(p)' = {} \/ down'
    BY <1>9, <1>b DEF PollEnds, Ended
  <2> QED
    BY <1>9, <1>b, <1>c, <2>1, <2>2 DEF PollEnds, PollFires, StopFlag, At, Idle
<1>10. CASE DrainProcess \/ DrainMain
  BY <1>10, <1>c DEF DrainProcess, DrainMain, At, Idle
<1>11. CASE PopEvent \/ NextQueue
  BY <1>11, <1>b, <1>c DEF PopEvent, NextQueue, At
<1>12. CASE PollIdles \/ PollSends
  <2>1. cq.at = "main" /\ cq.plugin = p
    BY <1>12, <1>b DEF PollIdles, PollSends
  <2>2. pollRunning[p] /\ alarms[p] = 0
    BY <2>1, <1>b, <1>c
  <2>3. /\ alarms' = [alarms EXCEPT ![p] = @ + 1] /\ cq'.at = "idle"
        /\ UNCHANGED pollRunning
    <3>1. CASE PollIdles
      BY <3>1, <2>1, Zenon DEF PollIdles, Rearm, Idle
    <3>2. CASE PollSends
      BY <3>2, <2>1, Zenon DEF PollSends, Rearm, Idle
    <3> QED
      BY <1>12, <3>1, <3>2
  <2> QED
    BY <2>2, <2>3, <1>b
<1> HIDE DEF Served, pollVars, Polling, Writable, Sources
<1>13. \/ UNCHANGED vars \/ Shutdown
       \/ \E src \in Sources : Push(p, src)
       \/ \E s \in Streams : Connect(s, p)
       \/ \E s \in Streams : Kill(s, p) \/ Lose(s)
       \/ EndStreams(p) \/ (StopPollCheck(p) \/ StopPollStore(p))
       \/ PollBegins(p) \/ PollEnds(p)
       \/ (DrainProcess \/ DrainMain) \/ (PopEvent \/ NextQueue)
       \/ (PollIdles \/ PollSends)
  BY <1>a, Zenon DEF Next, Poll
<1> QED
  BY Zenon, <1>1, <1>2, <1>3, <1>4, <1>5, <1>6, <1>7, <1>8, <1>9, <1>10, <1>11, <1>12, <1>13

\* isPolling() tells the truth in a process with one plugin instance.
THEOREM FlagCorrect == ASSUME OneInstance PROVE Spec => []PollFlagTruthful
<1>1. Init => ServeInv
  BY InitServe
<1>2. TypeOK /\ ServeInv /\ [Next]_vars => ServeInv'
  BY StepServe
<1>3. ServeInv => PollFlagTruthful
  BY ServeInvSplit
<1> QED
  BY <1>1, <1>2, <1>3, TypeCorrect, PTL DEF Spec

\* No client stays connected to a loop that has ended, in a process with one
\* plugin instance.
THEOREM ServedCorrect == ASSUME OneInstance PROVE Spec => []ClientServed
<1>1. Init => ServeInv
  BY InitServe
<1>2. TypeOK /\ ServeInv /\ [Next]_vars => ServeInv'
  BY StepServe
<1>3. ServeInv => ClientServed
  BY ServeInvSplit
<1> QED
  BY <1>1, <1>2, <1>3, TypeCorrect, PTL DEF Spec
-----------------------------------------------------------------------------
(* Clients that are connected together.                                    *)

\* A stream connects to one plugin and once.
Apart ==
  /\ \A p \in Plugins : \A s \in streams[p] : state[s] # "new"
  /\ \A p, q \in Plugins : p = q \/ streams[p] \intersect streams[q] = {}

LEMMA StepApart == TypeOK /\ Apart /\ [Next]_vars => Apart'
<1> SUFFICES ASSUME TypeOK, Apart, [Next]_vars PROVE Apart'
  OBVIOUS
<1>1. /\ streams \in [Plugins -> SUBSET Streams]
      /\ state \in [Streams -> {"new", "write", "ending", "gone"}]
  BY DEF TypeOK, ClientType
<1>2. ASSUME UNCHANGED streams, \A s \in Streams : state[s] # "new" => state'[s] # "new"
      PROVE  Apart'
  BY <1>1, <1>2 DEF Apart
<1>3. ASSUME NEW p \in Plugins, NEW s \in Streams, Connect(s, p) PROVE Apart'
  <2>1. /\ state[s] = "new" /\ streams' = [streams EXCEPT ![p] = streams[p] \union {s}]
        /\ state' = [state EXCEPT ![s] = "write"]
    BY <1>3 DEF Connect
  <2>2. \A q \in Plugins : s \notin streams[q]
    BY <2>1 DEF Apart
  <2> QED
    BY <1>1, <2>1, <2>2 DEF Apart
<1>4. ASSUME NEW p \in Plugins, NEW s \in Streams, Kill(s, p) PROVE Apart'
  <2>1. /\ streams' = [streams EXCEPT ![p] = streams[p] \ {s}]
        /\ state' = [state EXCEPT ![s] = "gone"]
    BY <1>4 DEF Kill
  <2> QED
    BY <1>1, <2>1 DEF Apart
<1>5. ASSUME NEW s \in Streams, Lose(s) PROVE Apart'
  BY <1>1, <1>2, <1>5 DEF Lose
<1>6. ASSUME NEW p \in Plugins, state' = Ended(p), UNCHANGED streams PROVE Apart'
  BY <1>1, <1>2, <1>6 DEF Ended
<1>7. ASSUME NEW p \in Plugins, PollEnds(p) PROVE Apart'
  <2>1. UNCHANGED streams /\ (UNCHANGED state \/ state' = Ended(p))
    BY <1>7 DEF PollEnds
  <2> QED
    BY <1>2, <1>6, <2>1
<1>8. ASSUME NEW p \in Plugins, NEW src \in Sources,
             \/ Push(p, src) \/ StopPollCheck(p) \/ StopPollStore(p) \/ PollBegins(p)
             \/ DrainProcess \/ DrainMain \/ PopEvent \/ NextQueue \/ PollIdles \/ PollSends
             \/ Shutdown \/ UNCHANGED vars
      PROVE  Apart'
  <2>1. UNCHANGED <<streams, state>>
    BY <1>8 DEF Push, StopPollCheck, StopPollStore, PollBegins, DrainProcess, DrainMain,
      PopEvent, NextQueue, PollIdles, PollSends, Shutdown, vars
  <2> QED
    BY <2>1 DEF Apart
<1>9. ASSUME NEW p \in Plugins, EndStreams(p) PROVE Apart'
  BY <1>6, <1>9 DEF EndStreams
<1>10. CASE Plugins = {}
  BY <1>10 DEF Apart
<1> QED
  BY <1>3, <1>4, <1>5, <1>7, <1>8, <1>9, <1>10 DEF Next, Poll, Sources

LEMMA EmptySlice ==
  ASSUME NEW q \in Seq(Events)
  PROVE  SubSeq(q, Len(q) + 1, Len(q)) = <<>>
  OBVIOUS

LEMMA AddedSlice ==
  ASSUME NEW q \in Seq(Events), NEW r \in Seq(Events)
  PROVE  SubSeq(q \o r, Len(q) + 1, Len(q \o r)) = r
<1>1. q \o r \in Seq(Events) /\ Len(q \o r) = Len(q) + Len(r)
  OBVIOUS
<1> DEFINE w == SubSeq(q \o r, Len(q) + 1, Len(q \o r))
<1>2. w \in Seq(Events) /\ Len(w) = Len(r)
  BY <1>1
<1>3. \A i \in 1 .. Len(r) : w[i] = r[i]
  BY <1>1
<1> HIDE DEF w
<1>4. w = r
  BY <1>2, <1>3
<1> QED
  BY <1>4 DEF w

\* Only PollSends writes: the same to all of one plugin's clients that can be
\* written to, and nothing to another's.
LEMMA StepAgrees ==
  ASSUME TypeOK, Apart, [Next]_vars,
         NEW p \in Plugins, NEW s \in Writable(p), NEW t \in Writable(p)
  PROVE  Written(s) = Written(t)
<1>1. s \in Streams /\ t \in Streams /\ delivered \in [Streams -> Seq(Events)]
  BY DEF TypeOK, ClientType, Writable
<1>2. CASE UNCHANGED delivered
  <2>1. ASSUME NEW r \in Streams PROVE Written(r) = <<>>
    BY <1>1, <1>2, EmptySlice DEF Written
  <2> QED
    BY <1>1, <2>1
<1>3. CASE PollSends
  <2> DEFINE q == cq.plugin
  <2>1. cq.at = "main" /\ q \in Plugins
    BY <1>3 DEF PollSends, TypeOK, LoopType, Sources, None
  <2>2. pending[q] \in Seq(Events)
    BY <2>1 DEF TypeOK, QueueType
  <2>3. \A r \in Streams :
          delivered'[r] = IF r \in Writable(q) THEN delivered[r] \o pending[q] ELSE delivered[r]
    BY <1>3 DEF PollSends, Receivers
  <2>4. ASSUME NEW r \in Streams, r \in Writable(q) PROVE Written(r) = pending[q]
    <3>1. delivered[r] \in Seq(Events) /\ delivered'[r] = delivered[r] \o pending[q]
      BY <1>1, <2>3, <2>4
    <3> HIDE DEF q
    <3> QED
      BY <2>2, <3>1, AddedSlice DEF Written
  <2>5. ASSUME NEW r \in Streams, r \notin Writable(q) PROVE Written(r) = <<>>
    BY <1>1, <2>3, <2>5, EmptySlice DEF Written
  <2>6. s \in Writable(q) <=> t \in Writable(q)
    BY <2>1 DEF Apart, Writable
  <2> QED
    BY <1>1, <2>4, <2>5, <2>6
<1>4. UNCHANGED delivered \/ PollSends
  BY DEF Next, Poll, Push, Connect, Lose, Kill, EndStreams, StopPollCheck, StopPollStore,
    Shutdown, PollBegins, PollEnds, DrainProcess, DrainMain, PopEvent, NextQueue, PollIdles, vars
<1> QED
  BY <1>2, <1>3, <1>4

\* Any number of clients of any number of plugins are told the same while they
\* are connected together.
THEOREM AgreeCorrect == Spec => BroadcastAgrees
<1>1. Init => TypeOK
  BY InitType
<1>2. Init => Apart
  BY DEF Init, Apart
<1>3. TypeOK /\ [Next]_vars => TypeOK'
  BY StepType
<1>4. TypeOK /\ Apart /\ [Next]_vars => Apart'
  BY StepApart
<1>5. TypeOK /\ Apart /\ [Next]_vars
        => [\A p \in Plugins : \A s, t \in Writable(p) : Written(s) = Written(t)]_vars
  BY StepAgrees
<1> QED
  BY <1>1, <1>2, <1>3, <1>4, <1>5, PTL DEF Spec, BroadcastAgrees
-----------------------------------------------------------------------------
(* The order of events.                                                    *)

Before(a, b) ==
  \A i \in DOMAIN a, j \in DOMAIN b : a[i].src = b[j].src => a[i].n < b[j].n
Lower(q, e) == \A i \in DOMAIN q : q[i].src = e.src => q[i].n < e.n
Higher(q, e) == \A i \in DOMAIN q : q[i].src = e.src => e.n < q[i].n

LEMMA EventType == ASSUME NEW e \in Events PROVE e.src \in Sources /\ e.n \in Nat
  BY DEF Events

LEMMA AppendOrder ==
  ASSUME NEW q \in Seq(Events), NEW e \in Events, InOrder(q), Lower(q, e)
  PROVE  InOrder(Append(q, e))
<1>1. /\ DOMAIN Append(q, e) = 1 .. Len(q) + 1 /\ DOMAIN q = 1 .. Len(q) /\ Len(q) \in Nat
      /\ Append(q, e)[Len(q) + 1] = e
      /\ \A i \in 1 .. Len(q) : Append(q, e)[i] = q[i]
  OBVIOUS
<1> SUFFICES ASSUME NEW i \in 1 .. Len(q) + 1, NEW j \in 1 .. Len(q) + 1, i < j,
                    Append(q, e)[i].src = Append(q, e)[j].src
             PROVE  Append(q, e)[i].n < Append(q, e)[j].n
  BY <1>1 DEF InOrder
<1>2. i \in 1 .. Len(q)
  BY <1>1
<1>3. CASE j = Len(q) + 1
  BY <1>1, <1>2, <1>3 DEF Lower
<1>4. CASE j \in 1 .. Len(q)
  BY <1>1, <1>2, <1>4 DEF InOrder
<1> QED
  BY <1>1, <1>3, <1>4

LEMMA TailOrder ==
  ASSUME NEW q \in Seq(Events), q # <<>>, InOrder(q)
  PROVE  InOrder(Tail(q)) /\ Higher(Tail(q), Head(q))
<1>1. /\ DOMAIN Tail(q) = 1 .. Len(q) - 1 /\ DOMAIN q = 1 .. Len(q) /\ Len(q) \in Nat \ {0}
      /\ Head(q) = q[1]
      /\ \A i \in 1 .. Len(q) - 1 : Tail(q)[i] = q[i + 1]
  OBVIOUS
<1>2. InOrder(Tail(q))
  <2> SUFFICES ASSUME NEW i \in 1 .. Len(q) - 1, NEW j \in 1 .. Len(q) - 1, i < j,
                      Tail(q)[i].src = Tail(q)[j].src
               PROVE  Tail(q)[i].n < Tail(q)[j].n
    BY <1>1 DEF InOrder
  <2> QED
    BY <1>1 DEF InOrder
<1>3. Higher(Tail(q), Head(q))
  <2> SUFFICES ASSUME NEW i \in 1 .. Len(q) - 1, Tail(q)[i].src = q[1].src
               PROVE  q[1].n < Tail(q)[i].n
    BY <1>1 DEF Higher
  <2> QED
    BY <1>1 DEF InOrder
<1> QED
  BY <1>2, <1>3

LEMMA ConcatOrder ==
  ASSUME NEW a \in Seq(Events), NEW b \in Seq(Events), InOrder(a), InOrder(b), Before(a, b)
  PROVE  a \o b \in Seq(Events) /\ InOrder(a \o b)
<1>1. /\ DOMAIN (a \o b) = 1 .. Len(a) + Len(b) /\ Len(a) \in Nat /\ Len(b) \in Nat
      /\ DOMAIN a = 1 .. Len(a) /\ DOMAIN b = 1 .. Len(b) /\ a \o b \in Seq(Events)
      /\ \A i \in 1 .. Len(a) : (a \o b)[i] = a[i]
      /\ \A i \in Len(a) + 1 .. Len(a) + Len(b) :
            (a \o b)[i] = b[i - Len(a)] /\ i - Len(a) \in 1 .. Len(b)
  OBVIOUS
<1> SUFFICES ASSUME NEW i \in 1 .. Len(a) + Len(b), NEW j \in 1 .. Len(a) + Len(b), i < j,
                    (a \o b)[i].src = (a \o b)[j].src
             PROVE  (a \o b)[i].n < (a \o b)[j].n
  BY <1>1 DEF InOrder
<1>2. CASE j \in 1 .. Len(a)
  BY <1>1, <1>2 DEF InOrder
<1>3. CASE i \in 1 .. Len(a) /\ j \in Len(a) + 1 .. Len(a) + Len(b)
  BY <1>1, <1>3 DEF Before
<1>4. CASE i \in Len(a) + 1 .. Len(a) + Len(b)
  <2>1. /\ j \in Len(a) + 1 .. Len(a) + Len(b)
        /\ i - Len(a) < j - Len(a)
    BY <1>1, <1>4
  <2> QED
    BY <1>1, <1>4, <2>1 DEF InOrder
<1> QED
  BY <1>1, <1>2, <1>3, <1>4

LEMMA ConcatBefore ==
  ASSUME NEW a \in Seq(Events), NEW b \in Seq(Events), NEW c \in Seq(Events),
         Before(a, c), Before(b, c)
  PROVE  Before(a \o b, c)
<1>1. /\ DOMAIN (a \o b) = 1 .. Len(a) + Len(b) /\ Len(a) \in Nat /\ Len(b) \in Nat
      /\ DOMAIN a = 1 .. Len(a) /\ DOMAIN b = 1 .. Len(b)
      /\ \A i \in 1 .. Len(a) : (a \o b)[i] = a[i]
      /\ \A i \in Len(a) + 1 .. Len(a) + Len(b) :
            (a \o b)[i] = b[i - Len(a)] /\ i - Len(a) \in 1 .. Len(b)
  OBVIOUS
<1> SUFFICES ASSUME NEW i \in 1 .. Len(a) + Len(b), NEW j \in DOMAIN c,
                    (a \o b)[i].src = c[j].src
             PROVE  (a \o b)[i].n < c[j].n
  BY <1>1 DEF Before
<1>2. CASE i \in 1 .. Len(a)
  BY <1>1, <1>2 DEF Before
<1>3. CASE i \in Len(a) + 1 .. Len(a) + Len(b)
  BY <1>1, <1>3 DEF Before
<1> QED
  BY <1>1, <1>2, <1>3

LEMMA AppendBefore ==
  ASSUME NEW a \in Seq(Events), NEW b \in Seq(Events), NEW e \in Events, Before(a, b)
  PROVE  /\ Lower(a, e) => Before(a, Append(b, e))
         /\ Higher(b, e) => Before(Append(a, e), b)
<1>1. ASSUME NEW q \in Seq(Events)
      PROVE  /\ DOMAIN Append(q, e) = 1 .. Len(q) + 1 /\ DOMAIN q = 1 .. Len(q)
             /\ Len(q) \in Nat /\ Append(q, e)[Len(q) + 1] = e
             /\ \A i \in 1 .. Len(q) : Append(q, e)[i] = q[i]
  OBVIOUS
<1>2. ASSUME Lower(a, e) PROVE Before(a, Append(b, e))
  <2> SUFFICES ASSUME NEW i \in DOMAIN a, NEW j \in 1 .. Len(b) + 1,
                      a[i].src = Append(b, e)[j].src
               PROVE  a[i].n < Append(b, e)[j].n
    BY <1>1 DEF Before
  <2>1. CASE j = Len(b) + 1
    BY <1>1, <1>2, <2>1 DEF Lower
  <2>2. CASE j \in 1 .. Len(b)
    BY <1>1, <2>2 DEF Before
  <2> QED
    BY <1>1, <2>1, <2>2
<1>3. ASSUME Higher(b, e) PROVE Before(Append(a, e), b)
  <2> SUFFICES ASSUME NEW i \in 1 .. Len(a) + 1, NEW j \in DOMAIN b,
                      Append(a, e)[i].src = b[j].src
               PROVE  Append(a, e)[i].n < b[j].n
    BY <1>1 DEF Before
  <2>1. CASE i = Len(a) + 1
    BY <1>1, <1>3, <2>1 DEF Higher
  <2>2. CASE i \in 1 .. Len(a)
    BY <1>1, <2>2 DEF Before
  <2> QED
    BY <1>1, <2>1, <2>2
<1> QED
  BY <1>2, <1>3

LEMMA TailBefore ==
  ASSUME NEW a \in Seq(Events), NEW q \in Seq(Events), q # <<>>, Before(a, q)
  PROVE  Before(a, Tail(q)) /\ Lower(a, Head(q))
<1>1. /\ DOMAIN Tail(q) = 1 .. Len(q) - 1 /\ DOMAIN q = 1 .. Len(q) /\ Len(q) \in Nat \ {0}
      /\ Head(q) = q[1]
      /\ \A i \in 1 .. Len(q) - 1 : Tail(q)[i] = q[i + 1] /\ i + 1 \in 1 .. Len(q)
  OBVIOUS
<1>2. Before(a, Tail(q))
  BY <1>1 DEF Before
<1>3. Lower(a, Head(q))
  BY <1>1 DEF Before, Lower
<1> QED
  BY <1>2, <1>3

\* Events of one source that were pushed no later than the n-th.
FromTo(q, src, n) == \A i \in DOMAIN q : q[i].src = src /\ q[i].n <= n

LEMMA PushedOrder ==
  ASSUME NEW src \in Sources, NEW q \in Seq(Events), NEW e \in Events, e.src = src,
         InOrder(q), FromTo(q, src, e.n - 1)
  PROVE  /\ InOrder(Pushed(src, q, e)) /\ FromTo(Pushed(src, q, e), src, e.n)
         /\ \A a \in Seq(Events) :
              Before(a, q) /\ Lower(a, e) => Before(a, Pushed(src, q, e))
<1>1. e.n \in Nat /\ \A i \in DOMAIN q : q[i].n \in Nat
  BY EventType
<1>2. ASSUME NEW t \in Seq(Events), InOrder(t), FromTo(t, src, e.n - 1)
      PROVE  /\ InOrder(Append(t, e)) /\ FromTo(Append(t, e), src, e.n)
             /\ \A a \in Seq(Events) : Before(a, t) /\ Lower(a, e) => Before(a, Append(t, e))
  <2>1. \A i \in DOMAIN t : t[i].n \in Nat
    BY EventType
  <2>2. Lower(t, e)
    BY <1>1, <1>2, <2>1 DEF Lower, FromTo
  <2>3. FromTo(Append(t, e), src, e.n)
    <3> SUFFICES ASSUME NEW i \in 1 .. Len(t) + 1
                 PROVE  Append(t, e)[i].src = src /\ Append(t, e)[i].n <= e.n
      BY DEF FromTo
    <3>1. CASE i = Len(t) + 1
      BY <1>1, <3>1
    <3>2. CASE i \in 1 .. Len(t)
      BY <1>1, <1>2, <2>1, <3>2 DEF FromTo
    <3> QED
      BY <3>1, <3>2
  <2> QED
    BY <1>2, <2>2, <2>3, AppendOrder, AppendBefore
<1>3. CASE Pushed(src, q, e) = Append(q, e)
  BY <1>2, <1>3
<1>4. CASE Pushed(src, q, e) = q
  BY <1>1, <1>4 DEF FromTo
<1>5. CASE q # <<>> /\ Pushed(src, q, e) = Append(Tail(q), e)
  <2>1. Tail(q) \in Seq(Events) /\ FromTo(Tail(q), src, e.n - 1)
    BY <1>5 DEF FromTo
  <2>2. InOrder(Tail(q)) /\ \A a \in Seq(Events) : Before(a, q) => Before(a, Tail(q))
    BY <1>5, TailOrder, TailBefore
  <2> QED
    BY <1>2, <1>5, <2>1, <2>2
<1> QED
  BY <1>3, <1>4, <1>5, PollAssumption DEF Pushed

\* What waits in the queues and in the retained message of p, and what one of
\* its clients was sent.
UpTo(q, p) == \A i \in DOMAIN q : q[i].n <= pushed[p][q[i].src]

QueueOrder(p) ==
  /\ \A src \in Sources :
       /\ InOrder(queue[p][src]) /\ FromTo(queue[p][src], src, pushed[p][src])
       /\ Before(pending[p], queue[p][src])
  /\ InOrder(pending[p]) /\ UpTo(pending[p], p)

ClientOrder(p, s) ==
  /\ InOrder(delivered[s]) /\ UpTo(delivered[s], p)
  /\ Before(delivered[s], pending[p])
  /\ \A src \in Sources : Before(delivered[s], queue[p][src])

OrderInv ==
  /\ \A p \in Plugins : QueueOrder(p) /\ \A s \in streams[p] : ClientOrder(p, s)
  /\ \A s \in Streams : state[s] = "new" => delivered[s] = <<>>

LEMMA AppendUpTo ==
  ASSUME NEW p \in Plugins, NEW q \in Seq(Events), NEW e \in Events, UpTo(q, p),
         e.n <= pushed[p][e.src]
  PROVE  UpTo(Append(q, e), p)
<1>1. /\ DOMAIN Append(q, e) = 1 .. Len(q) + 1 /\ DOMAIN q = 1 .. Len(q) /\ Len(q) \in Nat
      /\ Append(q, e)[Len(q) + 1] = e
      /\ \A i \in 1 .. Len(q) : Append(q, e)[i] = q[i]
  OBVIOUS
<1> SUFFICES ASSUME NEW i \in 1 .. Len(q) + 1
             PROVE  Append(q, e)[i].n <= pushed[p][Append(q, e)[i].src]
  BY <1>1 DEF UpTo
<1>2. CASE i = Len(q) + 1
  BY <1>1, <1>2
<1>3. CASE i \in 1 .. Len(q)
  BY <1>1, <1>3 DEF UpTo
<1> QED
  BY <1>1, <1>2, <1>3

LEMMA ConcatUpTo ==
  ASSUME NEW p \in Plugins, NEW a \in Seq(Events), NEW b \in Seq(Events), UpTo(a, p), UpTo(b, p)
  PROVE  UpTo(a \o b, p)
<1>1. /\ DOMAIN (a \o b) = 1 .. Len(a) + Len(b) /\ Len(a) \in Nat /\ Len(b) \in Nat
      /\ DOMAIN a = 1 .. Len(a) /\ DOMAIN b = 1 .. Len(b)
      /\ \A i \in 1 .. Len(a) : (a \o b)[i] = a[i]
      /\ \A i \in Len(a) + 1 .. Len(a) + Len(b) :
            (a \o b)[i] = b[i - Len(a)] /\ i - Len(a) \in 1 .. Len(b)
  OBVIOUS
<1> SUFFICES ASSUME NEW i \in 1 .. Len(a) + Len(b)
             PROVE  (a \o b)[i].n <= pushed[p][(a \o b)[i].src]
  BY <1>1 DEF UpTo
<1>2. CASE i \in 1 .. Len(a)
  BY <1>1, <1>2 DEF UpTo
<1>3. CASE i \in Len(a) + 1 .. Len(a) + Len(b)
  BY <1>1, <1>3 DEF UpTo
<1> QED
  BY <1>1, <1>2, <1>3

LEMMA InitOrder == Init => OrderInv
  BY DEF Init, OrderInv, QueueOrder, UpTo, InOrder, FromTo, Before

LEMMA PushOrder ==
  ASSUME TypeOK, OrderInv, NEW p \in Plugins, NEW src \in Sources, Push(p, src)
  PROVE  OrderInv'
<1> DEFINE e == [src |-> src, n |-> pushed[p][src] + 1]
           q == queue[p][src]
<1>0. /\ queue \in [Plugins -> [Sources -> Seq(Events)]]
      /\ pushed \in [Plugins -> [Sources -> 0 .. MaxEvents]]
      /\ pending \in [Plugins -> Seq(Events)] /\ delivered \in [Streams -> Seq(Events)]
      /\ streams \in [Plugins -> SUBSET Streams]
  BY DEF TypeOK, QueueType, ClientType
<1>a. pushed[p][src] \in 0 .. MaxEvents /\ pushed[p][src] < MaxEvents
  BY <1>0 DEF Push
<1>b. pushed[p][src] + 1 \in 1 .. MaxEvents /\ pushed[p][src] \in Nat
  BY <1>a, PollAssumption
<1>c. e \in Events /\ e.src = src /\ e.n = pushed[p][src] + 1
  BY <1>b DEF Events
<1>d. ASSUME NEW o \in Plugins, NEW r \in Sources PROVE pushed[o][r] \in Nat
  <2>1. pushed[o][r] \in 0 .. MaxEvents
    BY <1>0
  <2> QED
    BY <2>1, PollAssumption
<1>e. pushed \in [Plugins -> [Sources -> Nat]]
  BY <1>0, <1>d
<1>1. /\ e \in Events /\ e.src = src /\ e.n = pushed[p][src] + 1 /\ pushed[p][src] \in Nat
      /\ q \in Seq(Events) /\ pending[p] \in Seq(Events)
      /\ pushed \in [Plugins -> [Sources -> Nat]] /\ delivered \in [Streams -> Seq(Events)]
      /\ streams[p] \subseteq Streams
  BY <1>0, <1>b, <1>c, <1>e
<1>2. /\ queue' = [queue EXCEPT ![p][src] = Pushed(src, q, e)]
      /\ pushed' = [pushed EXCEPT ![p][src] = e.n]
      /\ UNCHANGED <<streams, state, pending, delivered>>
  BY <1>1 DEF Push
<1>3. queue \in [Plugins -> [Sources -> Seq(Events)]]
  BY DEF TypeOK, QueueType
<1> HIDE DEF e, q
<1>4. \A a \in Seq(Events) : UpTo(a, p) => Lower(a, e) /\ UpTo(a, p)'
  <2> SUFFICES ASSUME NEW a \in Seq(Events), UpTo(a, p), NEW i \in DOMAIN a
               PROVE  /\ a[i].src = e.src => a[i].n < e.n
                      /\ a[i].n <= pushed'[p][a[i].src]
    BY DEF Lower, UpTo
  <2>1. a[i].src \in Sources /\ a[i].n \in Nat /\ a[i].n <= pushed[p][a[i].src]
    BY EventType DEF UpTo
  <2> QED
    BY <1>1, <1>2, <2>1
<1>5. q = queue[p][src] /\ InOrder(q) /\ FromTo(q, src, e.n - 1)
  BY <1>1 DEF OrderInv, QueueOrder, q
<1>6. /\ InOrder(Pushed(src, q, e)) /\ FromTo(Pushed(src, q, e), src, e.n)
      /\ \A a \in Seq(Events) : Before(a, q) /\ Lower(a, e) => Before(a, Pushed(src, q, e))
  BY <1>1, <1>5, PushedOrder
<1>7. /\ queue'[p][src] = Pushed(src, q, e) /\ pushed'[p][src] = e.n
      /\ \A r \in Sources : r # src => queue'[p][r] = queue[p][r] /\ pushed'[p][r] = pushed[p][r]
      /\ \A o \in Plugins : o # p => queue'[o] = queue[o] /\ pushed'[o] = pushed[o]
  BY <1>1, <1>2, <1>3
<1>8. QueueOrder(p)'
  <2>1. QueueOrder(p)
    BY DEF OrderInv
  <2>2. InOrder(pending[p])' /\ UpTo(pending[p], p)'
    BY <1>1, <1>2, <1>4, <2>1 DEF QueueOrder, UpTo
  <2>3. Before(pending[p], queue'[p][src])
    BY <1>1, <1>4, <1>5, <1>6, <1>7, <2>1 DEF QueueOrder
  <2> QED
    BY <1>2, <1>6, <1>7, <2>1, <2>2, <2>3 DEF QueueOrder
<1>9. ASSUME NEW s \in streams[p] PROVE ClientOrder(p, s)'
  <2>1. ClientOrder(p, s) /\ delivered[s] \in Seq(Events)
    BY <1>1 DEF OrderInv
  <2>2. UpTo(delivered[s], p)'
    BY <1>2, <1>4, <2>1 DEF ClientOrder, UpTo
  <2>3. Before(delivered[s], queue'[p][src])
    BY <1>4, <1>5, <1>6, <1>7, <2>1 DEF ClientOrder
  <2> QED
    BY <1>2, <1>7, <2>1, <2>2, <2>3 DEF ClientOrder
<1>10. ASSUME NEW o \in Plugins, o # p
       PROVE  QueueOrder(o)' /\ \A s \in streams[o] : ClientOrder(o, s)'
  BY <1>2, <1>7, <1>10 DEF OrderInv, QueueOrder, ClientOrder, UpTo
<1> QED
  BY <1>2, <1>8, <1>9, <1>10 DEF OrderInv

LEMMA PopOrder ==
  ASSUME TypeOK, OrderInv, PopEvent, NEW p, NEW src, p = cq.plugin, src = cq.at
  PROVE  OrderInv'
<1> DEFINE q == queue[p][src]
           h == Head(q)
<1>1. /\ queue \in [Plugins -> [Sources -> Seq(Events)]]
      /\ pending \in [Plugins -> Seq(Events)] /\ delivered \in [Streams -> Seq(Events)]
      /\ streams \in [Plugins -> SUBSET Streams]
  BY DEF TypeOK, QueueType, ClientType
<1>2. p \in Plugins /\ src \in Sources
  BY DEF PopEvent, TypeOK, LoopType, Sources
<1>3. /\ q # <<>>
      /\ pending' = [pending EXCEPT ![p] = Append(pending[p], h)]
      /\ queue' = [queue EXCEPT ![p][src] = Tail(q)]
      /\ UNCHANGED <<streams, state, pushed, delivered>>
  BY DEF PopEvent
<1>4. q \in Seq(Events) /\ Tail(q) \in Seq(Events) /\ pending[p] \in Seq(Events)
  BY <1>1, <1>2, <1>3
<1>5. h \in Events /\ h = q[1] /\ 1 \in DOMAIN q
  BY <1>3, <1>4
<1>6. q = queue[p][src]
  OBVIOUS
<1>7. /\ queue'[p][src] = Tail(q) /\ pending'[p] = Append(pending[p], h)
      /\ \A r \in Sources : r # src => queue'[p][r] = queue[p][r]
      /\ \A o \in Plugins : o # p => queue'[o] = queue[o] /\ pending'[o] = pending[o]
  BY <1>1, <1>2, <1>3
<1> HIDE DEF q, h
<1>8. QueueOrder(p) /\ InOrder(q) /\ FromTo(q, src, pushed[p][src]) /\ Before(pending[p], q)
  BY <1>2, <1>6 DEF OrderInv, QueueOrder
<1>9. h.src = src /\ h.n <= pushed[p][src]
  BY <1>5, <1>8 DEF FromTo
<1>10. InOrder(Tail(q)) /\ Higher(Tail(q), h) /\ FromTo(Tail(q), src, pushed[p][src])
  <2>1. InOrder(Tail(q)) /\ Higher(Tail(q), h)
    BY <1>3, <1>4, <1>8, TailOrder DEF h
  <2>2. FromTo(Tail(q), src, pushed[p][src])
    BY <1>3, <1>4, <1>8 DEF FromTo
  <2> QED
    BY <2>1, <2>2
<1>11. ASSUME NEW a \in Seq(Events), Before(a, q)
       PROVE  Before(a, Tail(q)) /\ Lower(a, h)
  BY <1>3, <1>4, <1>11, TailBefore DEF h
<1>12. QueueOrder(p)'
  <2>1. Before(pending[p], Tail(q)) /\ Lower(pending[p], h)
    BY <1>4, <1>8, <1>11
  <2>2. InOrder(Append(pending[p], h))
    BY <1>4, <1>5, <1>8, <2>1, AppendOrder DEF QueueOrder
  <2>3. Before(Append(pending[p], h), Tail(q))
    BY <1>4, <1>5, <1>10, <2>1, AppendBefore
  <2>4. ASSUME NEW r \in Sources, r # src PROVE Before(Append(pending[p], h), queue[p][r])
    <3>1. Before(pending[p], queue[p][r]) /\ FromTo(queue[p][r], r, pushed[p][r])
      BY <1>8 DEF QueueOrder
    <3>2. queue[p][r] \in Seq(Events) /\ Higher(queue[p][r], h)
      BY <1>1, <1>2, <1>9, <2>4, <3>1 DEF Higher, FromTo
    <3> QED
      BY <1>4, <1>5, <3>1, <3>2, AppendBefore
  <2>5. UpTo(Append(pending[p], h), p)
    BY <1>2, <1>4, <1>5, <1>8, <1>9, AppendUpTo DEF QueueOrder
  <2>6. \A r \in Sources : /\ InOrder(queue'[p][r]) /\ FromTo(queue'[p][r], r, pushed[p][r])
                           /\ Before(pending'[p], queue'[p][r])
    BY <1>7, <1>8, <1>10, <2>3, <2>4 DEF QueueOrder
  <2> QED
    BY <1>3, <1>7, <2>2, <2>5, <2>6 DEF QueueOrder, UpTo
<1>13. ASSUME NEW s \in streams[p] PROVE ClientOrder(p, s)'
  <2>1. ClientOrder(p, s) /\ delivered[s] \in Seq(Events)
    BY <1>1, <1>2 DEF OrderInv
  <2>2. Before(delivered[s], Tail(q)) /\ Lower(delivered[s], h)
    BY <1>2, <1>6, <1>11, <2>1 DEF ClientOrder
  <2>3. Before(delivered[s], Append(pending[p], h))
    BY <1>4, <1>5, <2>1, <2>2, AppendBefore DEF ClientOrder
  <2> QED
    BY <1>3, <1>7, <2>1, <2>2, <2>3 DEF ClientOrder, UpTo
<1>14. ASSUME NEW o \in Plugins, o # p
       PROVE  QueueOrder(o)' /\ \A s \in streams[o] : ClientOrder(o, s)'
  BY <1>3, <1>7, <1>14 DEF OrderInv, QueueOrder, ClientOrder, UpTo
<1> QED
  BY <1>3, <1>12, <1>13, <1>14 DEF OrderInv

LEMMA SendOrder ==
  ASSUME TypeOK, Apart, OrderInv, PollSends, NEW p, p = cq.plugin
  PROVE  OrderInv'
<1>1. /\ queue \in [Plugins -> [Sources -> Seq(Events)]]
      /\ pending \in [Plugins -> Seq(Events)] /\ delivered \in [Streams -> Seq(Events)]
      /\ streams \in [Plugins -> SUBSET Streams]
  BY DEF TypeOK, QueueType, ClientType
<1>2. p \in Plugins
  BY DEF PollSends, TypeOK, LoopType, Sources
<1>3. /\ delivered' = [s \in Streams |-> IF s \in Receivers(p) THEN delivered[s] \o pending[p]
                                                               ELSE delivered[s]]
      /\ pending' = [pending EXCEPT ![p] = <<>>]
      /\ UNCHANGED <<streams, state, queue, pushed>>
  BY DEF PollSends, Retained
<1>4. Receivers(p) \subseteq streams[p] /\ \A s \in Receivers(p) : state[s] # "new"
  BY <1>2 DEF Receivers, Writable, Apart
<1>5. QueueOrder(p) /\ pending[p] \in Seq(Events)
  BY <1>1, <1>2 DEF OrderInv
<1>6. pending'[p] = <<>> /\ \A o \in Plugins : o # p => pending'[o] = pending[o]
  BY <1>1, <1>2, <1>3
<1>7. QueueOrder(p)'
  BY <1>3, <1>5, <1>6 DEF QueueOrder, InOrder, UpTo, Before
<1>8. ASSUME NEW s \in streams[p] PROVE ClientOrder(p, s)'
  <2>1. ClientOrder(p, s) /\ s \in Streams /\ delivered[s] \in Seq(Events)
    BY <1>1, <1>2 DEF OrderInv
  <2>2. InOrder(delivered[s] \o pending[p])
    BY <1>5, <2>1, ConcatOrder DEF ClientOrder, QueueOrder
  <2>3. \A r \in Sources : Before(delivered[s] \o pending[p], queue[p][r])
    <3> SUFFICES ASSUME NEW r \in Sources
                 PROVE  Before(delivered[s] \o pending[p], queue[p][r])
      OBVIOUS
    <3>1. queue[p][r] \in Seq(Events)
      BY <1>1, <1>2
    <3> QED
      BY <1>5, <2>1, <3>1, ConcatBefore DEF ClientOrder, QueueOrder
  <2>4. UpTo(delivered[s] \o pending[p], p)
    BY <1>2, <1>5, <2>1, ConcatUpTo DEF ClientOrder, QueueOrder
  <2>5. \A a \in Seq(Events) : UpTo(a, p) => UpTo(a, p)' /\ Before(a, pending'[p])
    BY <1>3, <1>6 DEF UpTo, Before
  <2>6. delivered[s] \o pending[p] \in Seq(Events)
    BY <1>5, <2>1
  <2>7. delivered'[s] \in {delivered[s], delivered[s] \o pending[p]}
    BY <1>3, <2>1
  <2>8. /\ InOrder(delivered'[s]) /\ UpTo(delivered'[s], p) /\ delivered'[s] \in Seq(Events)
        /\ \A r \in Sources : Before(delivered'[s], queue[p][r])
    BY <2>1, <2>2, <2>3, <2>4, <2>6, <2>7 DEF ClientOrder
  <2>9. UpTo(delivered[s], p)' /\ Before(delivered'[s], pending'[p])
    BY <1>3, <2>5, <2>8 DEF UpTo
  <2> QED
    BY <1>3, <2>8, <2>9 DEF ClientOrder
<1>9. ASSUME NEW o \in Plugins, o # p
      PROVE  QueueOrder(o)' /\ \A s \in streams[o] : ClientOrder(o, s)'
  <2>1. QueueOrder(o)'
    BY <1>3, <1>6, <1>9 DEF OrderInv, QueueOrder, UpTo
  <2>2. ASSUME NEW s \in streams[o] PROVE ClientOrder(o, s)'
    <3>1. s \in Streams /\ s \notin streams[p]
      BY <1>1, <1>2, <1>9 DEF Apart
    <3>2. delivered'[s] = delivered[s]
      BY <1>3, <1>4, <3>1
    <3> QED
      BY <1>3, <1>6, <1>9, <3>2 DEF OrderInv, ClientOrder, UpTo
  <2> QED
    BY <2>1, <2>2
<1>10. \A s \in Streams : state'[s] = "new" => delivered'[s] = <<>>
  BY <1>3, <1>4 DEF OrderInv
<1> QED
  BY <1>3, <1>7, <1>8, <1>9, <1>10 DEF OrderInv

LEMMA OthersOrder ==
  TypeOK /\ OrderInv /\ [Next]_vars
    => \/ OrderInv' \/ PopEvent \/ PollSends \/ \E p \in Plugins, src \in Sources : Push(p, src)
<1> SUFFICES ASSUME TypeOK, OrderInv, [Next]_vars
             PROVE  \/ OrderInv' \/ PopEvent \/ PollSends
                    \/ \E p \in Plugins, src \in Sources : Push(p, src)
  OBVIOUS
<1>1. /\ queue \in [Plugins -> [Sources -> Seq(Events)]]
      /\ pending \in [Plugins -> Seq(Events)] /\ delivered \in [Streams -> Seq(Events)]
      /\ streams \in [Plugins -> SUBSET Streams]
      /\ state \in [Streams -> {"new", "write", "ending", "gone"}]
  BY DEF TypeOK, QueueType, ClientType
<1>2. ASSUME UNCHANGED <<queue, pushed, pending, delivered>>,
             \A p \in Plugins : streams'[p] \subseteq streams[p],
             \A s \in Streams : state'[s] = "new" => state[s] = "new"
      PROVE  OrderInv'
  BY <1>2 DEF OrderInv, QueueOrder, ClientOrder, UpTo
<1>3. ASSUME NEW p \in Plugins, NEW s \in Streams, Connect(s, p) PROVE OrderInv'
  <2>1. /\ state[s] = "new" /\ UNCHANGED <<queue, pushed, pending, delivered>>
        /\ streams' = [streams EXCEPT ![p] = streams[p] \union {s}]
        /\ state' = [state EXCEPT ![s] = "write"]
    BY <1>3 DEF Connect
  <2>2. delivered[s] = <<>>
    BY <2>1 DEF OrderInv
  <2>3. ClientOrder(p, s)'
    BY <2>1, <2>2 DEF ClientOrder, InOrder, UpTo, Before
  <2>4. ASSUME NEW o \in Plugins, NEW t \in streams'[o] PROVE ClientOrder(o, t)'
    <3>1. t \in streams[o] \/ (o = p /\ t = s)
      BY <1>1, <2>1, <2>4
    <3>2. CASE t \in streams[o]
      BY <2>1, <3>2 DEF OrderInv, ClientOrder, UpTo
    <3> QED
      BY <2>3, <3>1, <3>2
  <2>5. \A o \in Plugins : QueueOrder(o)'
    BY <2>1 DEF OrderInv, QueueOrder, UpTo
  <2>6. \A t \in Streams : state'[t] = "new" => delivered'[t] = <<>>
    BY <1>1, <2>1 DEF OrderInv
  <2> QED
    BY <2>4, <2>5, <2>6 DEF OrderInv
<1>4. ASSUME NEW p \in Plugins, NEW s \in Streams, Kill(s, p) PROVE OrderInv'
  BY <1>1, <1>2, <1>4 DEF Kill
<1>5. ASSUME NEW s \in Streams, Lose(s) PROVE OrderInv'
  BY <1>1, <1>2, <1>5 DEF Lose
<1>6. ASSUME NEW p \in Plugins, state' = Ended(p),
             UNCHANGED <<queue, pushed, pending, delivered, streams>>
      PROVE  OrderInv'
  BY <1>1, <1>2, <1>6 DEF Ended
<1>7. ASSUME NEW p \in Plugins, PollEnds(p) PROVE OrderInv'
  <2>1. /\ UNCHANGED <<queue, pushed, pending, delivered, streams>>
        /\ UNCHANGED state \/ state' = Ended(p)
    BY <1>7 DEF PollEnds
  <2> QED
    BY <1>2, <1>6, <2>1
<1>8. ASSUME NEW p \in Plugins, EndStreams(p) PROVE OrderInv'
  BY <1>6, <1>8 DEF EndStreams
<1>9. ASSUME NEW p, NEW src \in Sources, p = cq.plugin, cq.at # "idle",
             queue' = [queue EXCEPT ![p][src] = <<>>],
             UNCHANGED <<streams, state, pushed, pending, delivered>>
      PROVE  OrderInv'
  <2>1. p \in Plugins
    BY <1>9 DEF TypeOK, LoopType
  <2>2. /\ queue'[p][src] = <<>>
        /\ \A r \in Sources : r # src => queue'[p][r] = queue[p][r]
        /\ \A o \in Plugins : o # p => queue'[o] = queue[o]
    BY <1>1, <1>9, <2>1
  <2>3. \A a \in Seq(Events) : Before(a, <<>>) /\ InOrder(<<>>)
    BY DEF Before, InOrder
  <2>4. \A n : FromTo(<<>>, src, n)
    BY DEF FromTo
  <2>5. ASSUME NEW o \in Plugins, NEW r \in Sources
        PROVE  /\ InOrder(queue'[o][r]) /\ FromTo(queue'[o][r], r, pushed[o][r])
               /\ Before(pending[o], queue'[o][r])
               /\ \A s \in streams[o] : Before(delivered[s], queue'[o][r])
    <3>1. /\ InOrder(queue[o][r]) /\ FromTo(queue[o][r], r, pushed[o][r])
          /\ Before(pending[o], queue[o][r]) /\ pending[o] \in Seq(Events)
          /\ \A s \in streams[o] : Before(delivered[s], queue[o][r])
                                   /\ delivered[s] \in Seq(Events)
      BY <1>1 DEF OrderInv, QueueOrder, ClientOrder
    <3>2. CASE o = p /\ r = src
      BY <2>2, <2>3, <2>4, <3>1, <3>2
    <3>3. CASE ~(o = p /\ r = src)
      BY <2>2, <3>1, <3>3
    <3> QED
      BY <3>2, <3>3
  <2>6. \A o \in Plugins : QueueOrder(o)'
    BY <1>9, <2>5 DEF OrderInv, QueueOrder, UpTo
  <2>7. \A o \in Plugins : \A s \in streams[o] : ClientOrder(o, s)'
    BY <1>9, <2>5 DEF OrderInv, ClientOrder, UpTo
  <2> QED
    BY <1>9, <2>6, <2>7 DEF OrderInv
<1>10. CASE DrainProcess \/ DrainMain
  BY <1>9, <1>10 DEF DrainProcess, DrainMain, Sources
<1>11. ASSUME NEW p \in Plugins,
              \/ StopPollCheck(p) \/ StopPollStore(p) \/ PollBegins(p)
              \/ NextQueue \/ PollIdles \/ Shutdown \/ UNCHANGED vars
       PROVE  OrderInv'
  <2>1. UNCHANGED <<streams, state, queue, pushed, pending, delivered>>
    BY <1>11 DEF StopPollCheck, StopPollStore, PollBegins, NextQueue, PollIdles, Shutdown, vars
  <2> QED
    BY <1>2, <2>1
<1>12. CASE NextQueue \/ PollIdles \/ Shutdown \/ UNCHANGED vars
  <2>1. UNCHANGED <<streams, state, queue, pushed, pending, delivered>>
    BY <1>12 DEF NextQueue, PollIdles, Shutdown, vars
  <2> QED
    BY <1>2, <2>1
<1> QED
  BY <1>3, <1>4, <1>5, <1>7, <1>8, <1>10, <1>11, <1>12 DEF Next, Poll

LEMMA OrderDelivered == TypeOK /\ OrderInv => DeliveredInOrder
<1> SUFFICES ASSUME TypeOK, OrderInv, NEW p \in Plugins, NEW s \in streams[p]
             PROVE  InOrder(delivered[s] \o pending[p] \o queue[p]["process"] \o queue[p]["main"])
  BY DEF DeliveredInOrder
<1> DEFINE d == delivered[s]
           w == pending[p]
           a == queue[p]["process"]
           b == queue[p]["main"]
<1>1. /\ queue[p] \in [Sources -> Seq(Events)] /\ w \in Seq(Events) /\ d \in Seq(Events)
  BY DEF TypeOK, QueueType, ClientType
<1>2. a \in Seq(Events) /\ b \in Seq(Events)
  BY <1>1 DEF Sources
<1>3. /\ InOrder(d) /\ InOrder(w) /\ InOrder(a) /\ InOrder(b)
      /\ Before(d, w) /\ Before(d, a) /\ Before(d, b) /\ Before(w, a) /\ Before(w, b)
      /\ FromTo(a, "process", pushed[p]["process"]) /\ FromTo(b, "main", pushed[p]["main"])
  BY DEF OrderInv, QueueOrder, ClientOrder, Sources
<1> HIDE DEF d, w, a, b
<1>4. Before(a, b)
  BY <1>3 DEF Before, FromTo
<1>5. d \o w \in Seq(Events) /\ InOrder(d \o w)
  BY <1>1, <1>3, ConcatOrder
<1>6. Before(d \o w, a) /\ Before(d \o w, b)
  BY <1>1, <1>2, <1>3, ConcatBefore
<1>7. d \o w \o a \in Seq(Events) /\ InOrder(d \o w \o a)
  BY <1>2, <1>3, <1>5, <1>6, ConcatOrder
<1>8. Before(d \o w \o a, b)
  BY <1>2, <1>4, <1>5, <1>6, ConcatBefore
<1>9. InOrder(d \o w \o a \o b)
  BY <1>2, <1>3, <1>7, <1>8, ConcatOrder
<1> QED
  BY <1>9 DEF d, w, a, b

LEMMA StepOrder == TypeOK /\ Apart /\ OrderInv /\ [Next]_vars => OrderInv'
<1> SUFFICES ASSUME TypeOK, Apart, OrderInv, [Next]_vars PROVE OrderInv'
  OBVIOUS
<1>1. CASE PopEvent
  BY <1>1, PopOrder
<1>2. CASE PollSends
  BY <1>2, SendOrder
<1>3. ASSUME NEW p \in Plugins, NEW src \in Sources, Push(p, src) PROVE OrderInv'
  BY <1>3, PushOrder
<1> QED
  BY <1>1, <1>2, <1>3, OthersOrder

\* What a client was sent, what is kept to be sent to it and what is queued is
\* in order, without repetition: for every number of plugins and clients, every
\* capacity of the queues and every interleaving of producers, losses and stops.
THEOREM OrderCorrect == Spec => []DeliveredInOrder
<1>1. Init => Apart /\ OrderInv
  BY InitOrder DEF Init, Apart
<1>2. TypeOK /\ Apart /\ OrderInv /\ [Next]_vars => OrderInv'
  BY StepOrder
<1>3. TypeOK /\ Apart /\ [Next]_vars => Apart'
  BY StepApart
<1>4. TypeOK /\ OrderInv => DeliveredInOrder
  BY OrderDelivered
<1> QED
  BY <1>1, <1>2, <1>3, <1>4, TypeCorrect, PTL DEF Spec
-----------------------------------------------------------------------------
(* The loop implements the broadcast channel.                              *)

LEMMA AppendOfConcat ==
  ASSUME NEW a \in Seq(Events), NEW b \in Seq(Events), NEW e \in Events
  PROVE  a \o b \in Seq(Events) /\ a \o Append(b, e) = Append(a \o b, e)
<1>1. /\ Append(a \o b, e) = (a \o b) \o <<e>> /\ Append(b, e) = b \o <<e>>
      /\ a \o b \in Seq(Events)
  BY AppendIsConcat, ConcatProperties
<1>2. <<e>> \in Seq(Events)
  OBVIOUS
<1>3. \A w \in Seq(Events) : (a \o b) \o w = a \o (b \o w)
  BY ConcatAssociative
<1> QED
  BY <1>1, <1>2, <1>3

LEMMA RemoveFirstOf ==
  ASSUME NEW a \in Seq(Events), NEW b \in Seq(Events), b # <<>>
  PROVE  RemoveAt(a \o b, Len(a) + 1) = a \o Tail(b)
<1> DEFINE c == a \o b
<1>1. c \in Seq(Events) /\ Len(c) = Len(a) + Len(b) /\ Len(a) \in Nat /\ Len(b) \in Nat \ {0}
  OBVIOUS
<1>2. SubSeq(c, 1, Len(a)) = a
  OBVIOUS
<1>3. SubSeq(c, Len(a) + 2, Len(c)) = Tail(b)
  OBVIOUS
<1> HIDE DEF c
<1>4. (Len(a) + 1) - 1 = Len(a) /\ (Len(a) + 1) + 1 = Len(a) + 2
  BY <1>1
<1>5. RemoveAt(c, Len(a) + 1) = a \o Tail(b)
  BY <1>2, <1>3, <1>4 DEF RemoveAt
<1> QED
  BY <1>5 DEF c

LEMMA AppendThenConcat ==
  ASSUME NEW a \in Seq(Events), NEW b \in Seq(Events), NEW e \in Events
  PROVE  Append(a, e) \o b = a \o (<<e>> \o b)
<1>1. Append(a, e) = a \o <<e>>
  BY AppendIsConcat
<1>2. <<e>> \in Seq(Events)
  OBVIOUS
<1>3. \A w \in Seq(Events) : (a \o w) \o b = a \o (w \o b)
  BY ConcatAssociative
<1> QED
  BY <1>1, <1>2, <1>3

\* The events of one source are found from the front: the function that From
\* is defined by exists.
FromStep(src, q, f, i) ==
  IF i = 0 THEN <<>>
  ELSE IF q[i].src = src THEN Append(f[i - 1], q[i]) ELSE f[i - 1]

LEMMA FromExists ==
  ASSUME NEW src, NEW q
  PROVE  \A n \in Nat : \E f : f = [i \in 0 .. n |-> FromStep(src, q, f, i)]
<1> DEFINE S == {n \in Nat : \E f : f = [i \in 0 .. n |-> FromStep(src, q, f, i)]}
<1>1. 0 \in S
  <2> DEFINE g == [i \in 0 .. 0 |-> <<>>]
  <2>1. g = [i \in 0 .. 0 |-> FromStep(src, q, g, i)]
    BY DEF FromStep
  <2> QED
    BY <2>1
<1>2. ASSUME NEW n \in Nat, n \in S PROVE n + 1 \in S
  <2>1. PICK f : f = [i \in 0 .. n |-> FromStep(src, q, f, i)]
    BY <1>2
  <2> DEFINE g == [i \in 0 .. n + 1 |->
                     IF i = n + 1 THEN FromStep(src, q, f, n + 1) ELSE f[i]]
  <2>2. ASSUME NEW i \in 0 .. n + 1 PROVE g[i] = FromStep(src, q, g, i)
    <3>1. i # 0 => g[i - 1] = f[i - 1]
      OBVIOUS
    <3>2. CASE i = n + 1
      BY <3>1, <3>2 DEF FromStep
    <3>3. CASE i # n + 1
      <4>1. i \in 0 .. n /\ f[i] = FromStep(src, q, f, i)
        BY <2>1, <3>3
      <4> QED
        BY <3>1, <3>3, <4>1 DEF FromStep
    <3> QED
      BY <3>2, <3>3
  <2>3. g = [i \in 0 .. n + 1 |-> g[i]]
    OBVIOUS
  <2> HIDE DEF g
  <2>4. g = [i \in 0 .. n + 1 |-> FromStep(src, q, g, i)]
    BY <2>2, <2>3
  <2> QED
    BY <2>4
<1>3. \A n \in Nat : n \in S
  BY <1>1, <1>2, NaturalsReached
<1> QED
  BY <1>3

LEMMA FromSteps ==
  ASSUME NEW src, NEW q, Len(q) \in Nat
  PROVE  \E f : /\ f[0] = <<>> /\ From(src, q) = f[Len(q)]
                /\ \A i \in 1 .. Len(q) :
                     f[i] = IF q[i].src = src THEN Append(f[i - 1], q[i]) ELSE f[i - 1]
<1> DEFINE IsIt(g) == g = [i \in 0 .. Len(q) |-> FromStep(src, q, g, i)]
           f == CHOOSE g : IsIt(g)
<1>1. \E g : IsIt(g)
  BY FromExists
<1>2. From(src, q) = f[Len(q)]
  BY DEF From, FromStep
<1> HIDE DEF IsIt
<1>3. IsIt(f)
  BY <1>1
<1> HIDE DEF f
<1>4. f = [i \in 0 .. Len(q) |-> FromStep(src, q, f, i)]
  BY <1>3 DEF IsIt
<1>5. ASSUME NEW i \in 0 .. Len(q) PROVE f[i] = FromStep(src, q, f, i)
  BY <1>4
<1>6. f[0] = <<>>
  BY <1>5 DEF FromStep
<1>7. ASSUME NEW i \in 1 .. Len(q)
      PROVE  f[i] = IF q[i].src = src THEN Append(f[i - 1], q[i]) ELSE f[i - 1]
  BY <1>5 DEF FromStep
<1> QED
  BY <1>2, <1>6, <1>7

LEMMA FromEmpty == ASSUME NEW src PROVE From(src, <<>>) = <<>>
  BY FromSteps

LEMMA FromAppend ==
  ASSUME NEW src, NEW q \in Seq(Events), NEW e \in Events
  PROVE  From(src, Append(q, e))
           = IF e.src = src THEN Append(From(src, q), e) ELSE From(src, q)
<1> DEFINE r == Append(q, e)
           n == Len(q)
<1>1. n \in Nat /\ Len(r) = n + 1 /\ r[n + 1] = e /\ \A i \in 1 .. n : r[i] = q[i]
  OBVIOUS
<1> HIDE DEF r, n
<1>2. PICK f : /\ f[0] = <<>> /\ From(src, q) = f[n]
               /\ \A i \in 1 .. n :
                    f[i] = IF q[i].src = src THEN Append(f[i - 1], q[i]) ELSE f[i - 1]
  BY <1>1, FromSteps DEF n
<1>3. PICK g : /\ g[0] = <<>> /\ From(src, r) = g[n + 1]
               /\ \A i \in 1 .. n + 1 :
                    g[i] = IF r[i].src = src THEN Append(g[i - 1], r[i]) ELSE g[i - 1]
  BY <1>1, FromSteps
<1> DEFINE S == {i \in Nat : i <= n => g[i] = f[i]}
<1>4. 0 \in S
  BY <1>2, <1>3
<1>5. ASSUME NEW i \in Nat, i \in S PROVE i + 1 \in S
  <2> SUFFICES ASSUME i + 1 <= n PROVE g[i + 1] = f[i + 1]
    OBVIOUS
  <2>1. i + 1 \in 1 .. n /\ i + 1 \in 1 .. n + 1 /\ i <= n /\ (i + 1) - 1 = i
    BY <1>1
  <2>2. g[i] = f[i] /\ r[i + 1] = q[i + 1]
    BY <1>1, <1>5, <2>1
  <2> QED
    BY <1>2, <1>3, <2>1, <2>2
<1>6. \A i \in Nat : i \in S
  BY <1>4, <1>5, NaturalsReached
<1>7. g[n] = f[n]
  BY <1>1, <1>6
<1>8. n + 1 \in 1 .. n + 1 /\ (n + 1) - 1 = n
  BY <1>1
<1>9. From(src, r) = IF e.src = src THEN Append(From(src, q), e) ELSE From(src, q)
  BY <1>1, <1>2, <1>3, <1>7, <1>8
<1> QED
  BY <1>9 DEF r

LEMMA FromConcat ==
  ASSUME NEW src, NEW a \in Seq(Events), NEW b \in Seq(Events)
  PROVE  /\ From(src, a) \in Seq(Events)
         /\ From(src, a \o b) = From(src, a) \o From(src, b)
<1> DEFINE Types == {n \in Nat : \A q \in Seq(Events) : Len(q) = n => From(src, q) \in Seq(Events)}
           Joins == {n \in Nat : \A q \in Seq(Events) :
                       Len(q) = n => From(src, a \o q) = From(src, a) \o From(src, q)}
<1>1. ASSUME NEW n \in Nat, NEW q \in Seq(Events), Len(q) = n + 1
      PROVE  \E t \in Seq(Events), e \in Events : q = Append(t, e) /\ Len(t) = n
  <2>1. PICK t \in Seq(Events), e \in Events : q = Append(t, e)
    BY <1>1, SequenceEmptyOrAppend
  <2>2. Len(t) = n
    BY <1>1, <2>1
  <2> QED
    BY <2>1, <2>2
<1>2. \A q \in Seq(Events) : Len(q) = 0 => q = <<>>
  OBVIOUS
<1>3. 0 \in Types
  BY <1>2, FromEmpty
<1>4. ASSUME NEW n \in Nat, n \in Types PROVE n + 1 \in Types
  <2> SUFFICES ASSUME NEW q \in Seq(Events), Len(q) = n + 1 PROVE From(src, q) \in Seq(Events)
    OBVIOUS
  <2>1. PICK t \in Seq(Events), e \in Events : q = Append(t, e) /\ Len(t) = n
    BY <1>1
  <2>2. From(src, t) \in Seq(Events)
    BY <1>4, <2>1
  <2>3. From(src, Append(t, e))
          = IF e.src = src THEN Append(From(src, t), e) ELSE From(src, t)
    BY FromAppend
  <2> HIDE DEF Types
  <2> QED
    BY <2>1, <2>2, <2>3
<1>5. \A n \in Nat : n \in Types
  BY <1>3, <1>4, NaturalsReached
<1>6. ASSUME NEW q \in Seq(Events) PROVE From(src, q) \in Seq(Events)
  BY <1>5
<1> HIDE DEF Types
<1>7. 0 \in Joins
  <2>1. From(src, a) \o <<>> = From(src, a) /\ a \o <<>> = a
    BY <1>6
  <2> QED
    BY <1>2, <2>1, FromEmpty
<1>8. ASSUME NEW n \in Nat, n \in Joins PROVE n + 1 \in Joins
  <2> SUFFICES ASSUME NEW q \in Seq(Events), Len(q) = n + 1
               PROVE  From(src, a \o q) = From(src, a) \o From(src, q)
    OBVIOUS
  <2>1. PICK t \in Seq(Events), e \in Events : q = Append(t, e) /\ Len(t) = n
    BY <1>1
  <2>2. a \o t \in Seq(Events) /\ a \o q = Append(a \o t, e)
    BY <2>1
  <2>3. From(src, a \o t) = From(src, a) \o From(src, t)
    BY <1>8, <2>1
  <2>4. /\ From(src, Append(a \o t, e))
             = IF e.src = src THEN Append(From(src, a \o t), e) ELSE From(src, a \o t)
        /\ From(src, Append(t, e))
             = IF e.src = src THEN Append(From(src, t), e) ELSE From(src, t)
    BY <2>2, FromAppend
  <2>5. /\ From(src, a) \in Seq(Events) /\ From(src, t) \in Seq(Events)
    BY <1>6
  <2>6. Append(From(src, a) \o From(src, t), e) = From(src, a) \o Append(From(src, t), e)
    BY <2>1, <2>5, AppendOfConcat, ZenonT(60)
  <2> HIDE DEF Joins
  <2> QED
    BY <2>1, <2>2, <2>3, <2>4, <2>6
<1>9. \A n \in Nat : n \in Joins
  BY <1>7, <1>8, NaturalsReached
<1> QED
  BY <1>6, <1>9

\* The abstract state that the mapping of Channel gives.
Buf == [p \in Plugins |-> [src \in Sources |-> From(src, pending[p]) \o queue[p][src]]]
Mem == [p \in Plugins |-> Writable(p)]
Rec == [s \in Streams |-> [src \in Sources |-> From(src, delivered[s])]]

LEMMA ChannelStutters ==
  ASSUME pushed' = pushed, Buf' = Buf, Mem' = Mem, Rec' = Rec
  PROVE  UNCHANGED Channel!broadcastVars
  BY DEF Channel!broadcastVars, Buf, Mem, Rec

\* A function of two arguments that was changed in one place.
LEMMA OneEntry ==
  ASSUME NEW P, NEW I, NEW f, NEW p \in P, NEW i \in I, NEW v,
         f = [q \in P |-> [j \in I |-> f[q][j]]]
  PROVE  [q \in P |-> [j \in I |-> IF q = p /\ j = i THEN v ELSE f[q][j]]]
           = [f EXCEPT ![p][i] = v]
<1> DEFINE g == [q \in P |-> [j \in I |-> IF q = p /\ j = i THEN v ELSE f[q][j]]]
           h == [f EXCEPT ![p][i] = v]
<1>1. ASSUME NEW q \in P PROVE h[q] = g[q]
  <2>1. CASE q = p
    <3>1. h[q] = [f[p] EXCEPT ![i] = v] /\ f[p] = [j \in I |-> f[p][j]]
      BY <2>1
    <3> QED
      BY <2>1, <3>1
  <2>2. CASE q # p
    <3>1. h[q] = f[q] /\ f[q] = [j \in I |-> f[q][j]]
      BY <2>2
    <3> QED
      BY <2>2, <3>1
  <2> QED
    BY <2>1, <2>2
<1>2. h = [q \in P |-> h[q]] /\ g = [q \in P |-> g[q]]
  OBVIOUS
<1> HIDE DEF g, h
<1>3. g = h
  BY <1>1, <1>2
<1> QED
  BY <1>3 DEF g, h

\* What is in a channel: first what was polled and not sent, then what waits.
LEMMA BufType ==
  ASSUME TypeOK, NEW p \in Plugins, NEW src \in Sources
  PROVE  /\ pending[p] \in Seq(Events) /\ queue[p][src] \in Seq(Events)
         /\ From(src, pending[p]) \in Seq(Events)
         /\ Buf[p][src] = From(src, pending[p]) \o queue[p][src]
         /\ Buf[p][src] \in Seq(Events)
<1>1. pending[p] \in Seq(Events) /\ queue[p][src] \in Seq(Events)
  BY DEF TypeOK, QueueType
<1>2. From(src, pending[p]) \in Seq(Events)
  BY <1>1, FromConcat
<1>3. Buf[p][src] = From(src, pending[p]) \o queue[p][src]
  BY DEF Buf
<1> QED
  BY <1>1, <1>2, <1>3

LEMMA PushPublishes ==
  ASSUME TypeOK, NEW p \in Plugins, NEW src \in Sources, Push(p, src)
  PROVE  Channel!Publish(p, src)
<1> DEFINE n == pushed[p][src] + 1
           e == [src |-> src, n |-> n]
           q == queue[p][src]
           a == From(src, pending[p])
<1>1. /\ queue \in [Plugins -> [Sources -> Seq(Events)]]
      /\ pushed \in [Plugins -> [Sources -> 0 .. MaxEvents]]
      /\ n \in 1 .. MaxEvents
  BY PollAssumption DEF TypeOK, QueueType, Push
<1>2. e \in Events
  BY <1>1 DEF Events
<1>3. /\ queue' = [queue EXCEPT ![p][src] = Pushed(src, q, e)]
      /\ pushed' = [pushed EXCEPT ![p][src] = n]
      /\ UNCHANGED <<streams, state, pending, delivered>>
  BY <1>1 DEF Push, pollVars
<1>4. a \in Seq(Events) /\ q \in Seq(Events) /\ Buf[p][src] = a \o q
  BY BufType
<1>5. queue' = [r \in Plugins |-> [t \in Sources |->
                  IF r = p /\ t = src THEN Pushed(src, q, e) ELSE queue[r][t]]]
  BY <1>1, <1>3
<1>6. /\ Buf = [r \in Plugins |-> [t \in Sources |-> Buf[r][t]]]
      /\ Buf' = [r \in Plugins |-> [t \in Sources |->
                  IF r = p /\ t = src THEN a \o Pushed(src, q, e) ELSE Buf[r][t]]]
  <2>1. Buf' = [r \in Plugins |-> [t \in Sources |-> From(t, pending[r]) \o queue'[r][t]]]
    BY <1>3 DEF Buf
  <2>2. Buf = [r \in Plugins |-> [t \in Sources |-> From(t, pending[r]) \o queue[r][t]]]
    BY DEF Buf
  <2>3. ASSUME NEW r \in Plugins, NEW t \in Sources
        PROVE  From(t, pending[r]) \o queue'[r][t]
                 = IF r = p /\ t = src THEN a \o Pushed(src, q, e) ELSE Buf[r][t]
    BY <1>5, <2>2
  <2> HIDE DEF a, q, e
  <2>4. Buf = [r \in Plugins |-> [t \in Sources |-> Buf[r][t]]]
    BY <2>2
  <2> QED
    BY <2>1, <2>3, <2>4
<1>7. Mem' = Mem /\ Rec' = Rec
  BY <1>3 DEF Mem, Rec, Writable
<1>8. \E kept \in {Buf[p][src]} \union {RemoveAt(Buf[p][src], i) : i \in DOMAIN Buf[p][src]} :
         a \o Pushed(src, q, e) \in {Buf[p][src], Append(kept, e)}
  <2>1. CASE Pushed(src, q, e) = q
    BY <1>4, <2>1
  <2>2. CASE Pushed(src, q, e) = Append(q, e)
    <3>1. a \o Append(q, e) = Append(a \o q, e)
      BY <1>2, <1>4, AppendOfConcat
    <3> QED
      BY <1>4, <2>2, <3>1
  <2>3. CASE q # <<>> /\ Pushed(src, q, e) = Append(Tail(q), e)
    <3>1. Tail(q) \in Seq(Events) /\ Len(q) >= 1 /\ Len(a) \in Nat /\ Len(q) \in Nat
      BY <1>4, <2>3
    <3>2. a \o Append(Tail(q), e) = Append(a \o Tail(q), e)
      BY <1>2, <1>4, <3>1, AppendOfConcat
    <3>3. Len(a) + 1 \in DOMAIN (a \o q)
      BY <1>4, <3>1
    <3>4. RemoveAt(a \o q, Len(a) + 1) = a \o Tail(q)
      BY <1>4, <2>3, RemoveFirstOf
    <3> QED
      BY <1>4, <2>3, <3>2, <3>3, <3>4
  <2>4. \/ Pushed(src, q, e) = q \/ Pushed(src, q, e) = Append(q, e)
        \/ q # <<>> /\ Pushed(src, q, e) = Append(Tail(q), e)
    BY <1>4, PollAssumption DEF Pushed
  <2> HIDE DEF a, q, e
  <2> QED
    BY <2>1, <2>2, <2>3, <2>4
<1>9. PICK kept \in {Buf[p][src]} \union {RemoveAt(Buf[p][src], i) : i \in DOMAIN Buf[p][src]} :
         a \o Pushed(src, q, e) \in {Buf[p][src], Append(kept, e)}
  BY <1>8
<1>10. Buf' \in {Buf, [Buf EXCEPT ![p][src] = Append(kept, e)]}
  <2> DEFINE w == a \o Pushed(src, q, e)
  <2> HIDE DEF a, q, e, w
  <2>1. /\ Buf' = [r \in Plugins |-> [t \in Sources |->
                     IF r = p /\ t = src THEN w ELSE Buf[r][t]]]
        /\ w \in {Buf[p][src], Append(kept, e)}
    BY <1>6, <1>9 DEF w
  <2>2. CASE w = Buf[p][src]
    <3>1. \A r \in Plugins, t \in Sources :
            (IF r = p /\ t = src THEN w ELSE Buf[r][t]) = Buf[r][t]
      BY <2>2
    <3>2. Buf' = [r \in Plugins |-> [t \in Sources |-> Buf[r][t]]]
      BY <2>1, <3>1
    <3> QED
      BY <1>6, <3>2, Zenon
  <2>3. CASE w = Append(kept, e)
    <3> Buf = [r \in Plugins |-> [t \in Sources |-> Buf[r][t]]]
      BY <1>6
    <3>0. [r \in Plugins |-> [t \in Sources |-> IF r = p /\ t = src THEN w ELSE Buf[r][t]]]
            = [Buf EXCEPT ![p][src] = w]
      BY OneEntry, ZenonT(60)
    <3>1. Buf' = [Buf EXCEPT ![p][src] = w]
      BY <2>1, <3>0, Zenon
    <3> QED
      BY <2>3, <3>1
  <2> QED
    BY <2>1, <2>2, <2>3
<1>11. /\ kept \in {Buf[p][src]}
                 \union {Channel!RemoveAt(Buf[p][src], i) : i \in DOMAIN Buf[p][src]}
       /\ e = Channel!Event(src, n)
  BY DEF RemoveAt, Channel!RemoveAt, Channel!Event
<1> HIDE DEF a, q, e
<1> QED
  BY <1>3, <1>7, <1>10, <1>11 DEF Channel!Publish, Buf, Mem, Rec

LEMMA ConnectJoins ==
  ASSUME TypeOK, Apart, OrderInv, NEW p \in Plugins, NEW s \in Streams, Connect(s, p)
  PROVE  Channel!Join(s, p)
<1>1. /\ streams \in [Plugins -> SUBSET Streams]
      /\ state \in [Streams -> {"new", "write", "ending", "gone"}]
      /\ state[s] = "new" /\ delivered[s] = <<>>
      /\ \A q \in Plugins : s \notin streams[q]
  BY DEF TypeOK, ClientType, Connect, Apart, OrderInv
<1>2. /\ streams' = [streams EXCEPT ![p] = @ \union {s}]
      /\ state' = [state EXCEPT ![s] = "write"]
      /\ UNCHANGED <<queue, pushed, pending, delivered>>
  BY DEF Connect
<1>3. \A q \in Plugins : s \notin Mem[q]
  BY <1>1 DEF Mem, Writable
<1>4. \A src \in Sources : Rec[s][src] = <<>>
  BY <1>1, FromEmpty DEF Rec
<1>5. Mem' = [Mem EXCEPT ![p] = @ \union {s}]
  <2>1. \A q \in Plugins : Mem'[q] = IF q = p THEN Mem[p] \union {s} ELSE Mem[q]
    BY <1>1, <1>2 DEF Mem, Writable
  <2>2. Mem = [q \in Plugins |-> Mem[q]]
    BY DEF Mem
  <2>3. Mem' = [q \in Plugins |-> Mem'[q]]
    BY DEF Mem
  <2> QED
    BY <2>1, <2>2, <2>3
<1>6. Buf' = Buf /\ Rec' = Rec
  BY <1>2 DEF Buf, Rec
<1> QED
  BY <1>2, <1>3, <1>4, <1>5, <1>6 DEF Channel!Join, Buf, Mem, Rec

LEMMA LosersLeave ==
  ASSUME TypeOK, NEW p \in Plugins, UNCHANGED <<queue, pushed, pending, delivered>>,
         \A q \in Plugins : q # p => Writable(q)' = Writable(q),
         Writable(p)' \subseteq Writable(p)
  PROVE  Channel!Leave(p)
<1>1. Buf' = Buf /\ Rec' = Rec
  BY DEF Buf, Rec
<1>2. Mem' = [Mem EXCEPT ![p] = Writable(p)']
  <2>1. Mem = [q \in Plugins |-> Mem[q]] /\ \A q \in Plugins : Mem[q] = Writable(q)
    BY DEF Mem
  <2>2. Mem' = [q \in Plugins |-> Writable(q)']
    BY DEF Mem
  <2>3. \A q \in Plugins : Writable(q)' = IF q = p THEN Writable(p)' ELSE Mem[q]
    BY <2>1
  <2> QED
    BY <2>1, <2>2, <2>3
<1>3. Writable(p)' \in SUBSET Mem[p]
  BY DEF Mem
<1> QED
  BY <1>1, <1>2, <1>3 DEF Channel!Leave, Buf, Mem, Rec

LEMMA LoseLeaves ==
  ASSUME TypeOK, Apart, NEW s \in Streams, Lose(s)
  PROVE  (\E p \in Plugins : Channel!Leave(p)) \/ UNCHANGED Channel!broadcastVars
<1>1. /\ streams \in [Plugins -> SUBSET Streams]
      /\ state \in [Streams -> {"new", "write", "ending", "gone"}]
      /\ state' = [state EXCEPT ![s] = "ending"]
      /\ UNCHANGED <<streams, queue, pushed, pending, delivered>>
  BY DEF TypeOK, ClientType, Lose
<1>2. \A q \in Plugins : Writable(q)' = Writable(q) \ {s}
  BY <1>1 DEF Writable
<1>3. CASE \E p \in Plugins : s \in streams[p]
  <2>1. PICK p \in Plugins : s \in streams[p]
    BY <1>3
  <2>2. \A q \in Plugins : q # p => s \notin Writable(q)
    BY <2>1 DEF Apart, Writable
  <2>3. /\ \A q \in Plugins : q # p => Writable(q)' = Writable(q)
        /\ Writable(p)' \subseteq Writable(p)
    BY <1>2, <2>2
  <2>4. Channel!Leave(p)
    BY <1>1, <2>3, LosersLeave
  <2> QED
    BY <2>4
<1>4. CASE ~\E p \in Plugins : s \in streams[p]
  <2>1. \A q \in Plugins : s \notin Writable(q)
    BY <1>4 DEF Writable
  <2>2. Mem' = Mem
    BY <1>2, <2>1 DEF Mem
  <2>3. Buf' = Buf /\ Rec' = Rec
    BY <1>1 DEF Buf, Rec
  <2> QED
    BY <1>1, <2>2, <2>3, ChannelStutters
<1> QED
  BY <1>3, <1>4

LEMMA EndedLeave ==
  ASSUME TypeOK, Apart, NEW p \in Plugins, state' = Ended(p),
         UNCHANGED <<streams, queue, pushed, pending, delivered>>
  PROVE  Channel!Leave(p)
<1>1. /\ streams \in [Plugins -> SUBSET Streams]
      /\ state' = [t \in Streams |-> IF t \in Writable(p) THEN "ending" ELSE state[t]]
  BY DEF TypeOK, ClientType, Ended
<1>2. ASSUME NEW q \in Plugins PROVE Writable(q)' = Writable(q) \ Writable(p)
  BY <1>1 DEF Writable
<1>3. \A q \in Plugins : q # p => Writable(q) \intersect Writable(p) = {}
  BY DEF Apart, Writable
<1> QED
  BY <1>2, <1>3, LosersLeave

LEMMA KillStutters ==
  ASSUME TypeOK, Apart, NEW p \in Plugins, NEW s \in Streams, Kill(s, p)
  PROVE  UNCHANGED Channel!broadcastVars
<1>1. /\ streams \in [Plugins -> SUBSET Streams]
      /\ state \in [Streams -> {"new", "write", "ending", "gone"}]
      /\ state[s] = "ending" /\ state' = [state EXCEPT ![s] = "gone"]
      /\ streams' = [streams EXCEPT ![p] = @ \ {s}]
      /\ UNCHANGED <<queue, pushed, pending, delivered>>
  BY DEF TypeOK, ClientType, Kill
<1>2. \A q \in Plugins : Writable(q)' = Writable(q)
  BY <1>1 DEF Writable
<1>3. Mem' = Mem
  BY <1>2 DEF Mem
<1>4. Buf' = Buf /\ Rec' = Rec
  BY <1>1 DEF Buf, Rec
<1> QED
  BY <1>1, <1>3, <1>4, ChannelStutters

\* What has not been polled is discarded; what was polled and not sent stays.
LEMMA DrainDiscards ==
  ASSUME TypeOK, NEW p \in Plugins, NEW src \in Sources,
         queue' = [queue EXCEPT ![p][src] = <<>>],
         UNCHANGED <<streams, state, pushed, pending, delivered>>
  PROVE  Channel!Discard(p, src)
<1> DEFINE a == From(src, pending[p])
<1>1. /\ queue \in [Plugins -> [Sources -> Seq(Events)]]
  BY DEF TypeOK, QueueType
<1>2. a \in Seq(Events) /\ queue[p][src] \in Seq(Events) /\ Buf[p][src] = a \o queue[p][src]
  BY BufType
<1>3. queue' = [r \in Plugins |-> [t \in Sources |->
                  IF r = p /\ t = src THEN <<>> ELSE queue[r][t]]]
  BY <1>1
<1>4. Buf = [r \in Plugins |-> [t \in Sources |-> Buf[r][t]]]
  BY DEF Buf
<1>5. Buf' = [r \in Plugins |-> [t \in Sources |-> IF r = p /\ t = src THEN a ELSE Buf[r][t]]]
  <2>1. Buf' = [r \in Plugins |-> [t \in Sources |-> From(t, pending[r]) \o queue'[r][t]]]
    BY DEF Buf
  <2>2. ASSUME NEW r \in Plugins, NEW t \in Sources
        PROVE  From(t, pending[r]) \o queue'[r][t] = IF r = p /\ t = src THEN a ELSE Buf[r][t]
    <3>1. CASE r = p /\ t = src
      <4>1. queue'[r][t] = <<>> /\ From(t, pending[r]) = a
        BY <1>3, <3>1
      <4> HIDE DEF a
      <4> QED
        BY <1>2, <3>1, <4>1
    <3>2. CASE ~(r = p /\ t = src)
      <4>1. queue'[r][t] = queue[r][t]
        BY <1>3, <3>2
      <4>2. Buf[r][t] = From(t, pending[r]) \o queue[r][t]
        BY BufType
      <4> HIDE DEF a
      <4> QED
        BY <3>2, <4>1, <4>2
    <3> QED
      BY <3>1, <3>2
  <2> HIDE DEF a
  <2> QED
    BY <2>1, <2>2
<1>6. Buf' = [Buf EXCEPT ![p][src] = a]
  <2> HIDE DEF a
  <2>1. [r \in Plugins |-> [t \in Sources |-> IF r = p /\ t = src THEN a ELSE Buf[r][t]]]
          = [Buf EXCEPT ![p][src] = a]
    BY <1>4, OneEntry, ZenonT(60)
  <2> QED
    BY <1>5, <2>1, Zenon
<1>7. Len(a) \in 0 .. Len(Buf[p][src]) /\ a = SubSeq(Buf[p][src], 1, Len(a))
  <2> HIDE DEF a
  <2> QED
    BY <1>2
<1>8. Mem' = Mem /\ Rec' = Rec
  BY DEF Mem, Rec, Writable
<1> HIDE DEF a
<1>9. Buf' = [Buf EXCEPT ![p][src] = SubSeq(@, 1, Len(a))]
  BY <1>4, <1>6, <1>7
<1> QED
  BY <1>7, <1>8, <1>9 DEF Channel!Discard, Buf, Mem, Rec

\* Taking an event from a queue only moves it to the retained message, where it
\* comes behind what was retained of its source.
LEMMA PopStutters ==
  ASSUME TypeOK, OrderInv, NEW p \in Plugins, NEW src \in Sources, queue[p][src] # <<>>,
         pending' = [pending EXCEPT ![p] = Append(@, Head(queue[p][src]))],
         queue' = [queue EXCEPT ![p][src] = Tail(@)],
         UNCHANGED <<streams, state, pushed, delivered>>
  PROVE  UNCHANGED Channel!broadcastVars
<1> DEFINE q == queue[p][src]
           e == Head(queue[p][src])
<1>1. /\ queue \in [Plugins -> [Sources -> Seq(Events)]]
      /\ pending \in [Plugins -> Seq(Events)] /\ q \in Seq(Events) /\ pending[p] \in Seq(Events)
  BY DEF TypeOK, QueueType
<1>2. e \in Events /\ Tail(q) \in Seq(Events) /\ q = <<e>> \o Tail(q)
  BY <1>1
<1>3. e.src = src
  <2>1. FromTo(q, src, pushed[p][src])
    BY DEF OrderInv, QueueOrder
  <2> QED
    BY <1>1, <2>1 DEF FromTo
<1>4. ASSUME NEW r \in Plugins, NEW t \in Sources
      PROVE  From(t, pending'[r]) \o queue'[r][t] = Buf[r][t]
  <2>1. Buf[r][t] = From(t, pending[r]) \o queue[r][t]
    BY BufType
  <2>2. CASE r # p
    <3>1. pending'[r] = pending[r] /\ queue'[r][t] = queue[r][t]
      BY <1>1, <2>2
    <3> QED
      BY <2>1, <3>1
  <2>3. CASE r = p
    <3>1. From(t, pending'[p]) = IF t = src THEN Append(From(t, pending[p]), e)
                                 ELSE From(t, pending[p])
      <4>1. pending'[p] = Append(pending[p], e)
        BY <1>1
      <4> HIDE DEF e
      <4>2. \A x \in Events :
              From(t, Append(pending[p], x)) = IF x.src = t THEN Append(From(t, pending[p]), x)
                                               ELSE From(t, pending[p])
        BY <1>1, FromAppend
      <4>3. From(t, Append(pending[p], e)) = IF e.src = t THEN Append(From(t, pending[p]), e)
                                             ELSE From(t, pending[p])
        BY <1>2, <4>2
      <4>4. (e.src = t) <=> (t = src)
        BY <1>3
      <4> QED
        BY <4>1, <4>3, <4>4
    <3>2. CASE t = src
      <4>1. queue'[p][t] = Tail(q)
        BY <1>1, <3>2
      <4>2. From(t, pending[p]) \in Seq(Events)
        BY BufType
      <4> HIDE DEF q, e
      <4>3. Append(From(t, pending[p]), e) \o Tail(q) = From(t, pending[p]) \o (<<e>> \o Tail(q))
        BY <1>2, <4>2, AppendThenConcat
      <4> QED
        BY <1>2, <2>1, <2>3, <3>1, <3>2, <4>1, <4>3 DEF q
    <3>3. CASE t # src
      <4>1. queue'[p][t] = queue[p][t]
        BY <1>1, <3>3
      <4> QED
        BY <2>1, <2>3, <3>1, <3>3, <4>1
    <3> QED
      BY <3>2, <3>3
  <2> QED
    BY <2>2, <2>3
<1>5. Buf' = [r \in Plugins |-> [t \in Sources |-> From(t, pending'[r]) \o queue'[r][t]]]
  BY DEF Buf
<1>6. Buf = [r \in Plugins |-> [t \in Sources |-> Buf[r][t]]]
  BY DEF Buf
<1>7. Buf' = Buf
  BY <1>4, <1>5, <1>6
<1>8. Mem' = Mem /\ Rec' = Rec
  BY DEF Mem, Rec, Writable
<1> QED
  BY <1>7, <1>8, ChannelStutters

\* Every client that is connected is sent what was retained of both sources.
LEMMA PollSendsSends ==
  ASSUME TypeOK, NEW p \in Plugins,
         delivered' = [s \in Streams |-> IF s \in Writable(p) THEN delivered[s] \o pending[p]
                                         ELSE delivered[s]],
         pending' = [pending EXCEPT ![p] = <<>>],
         UNCHANGED <<streams, state, queue, pushed>>
  PROVE  Channel!Send(p)
<1> DEFINE upto == [src \in Sources |-> Len(From(src, pending[p]))]
<1>1. /\ pending \in [Plugins -> Seq(Events)] /\ delivered \in [Streams -> Seq(Events)]
      /\ pending[p] \in Seq(Events)
  BY DEF TypeOK, QueueType, ClientType
<1>2. ASSUME NEW src \in Sources
      PROVE  /\ upto[src] \in 0 .. Len(Buf[p][src])
             /\ SubSeq(Buf[p][src], 1, upto[src]) = From(src, pending[p])
             /\ SubSeq(Buf[p][src], upto[src] + 1, Len(Buf[p][src])) = queue[p][src]
  <2> DEFINE a == From(src, pending[p])
             q == queue[p][src]
  <2>1. a \in Seq(Events) /\ q \in Seq(Events) /\ Buf[p][src] = a \o q /\ upto[src] = Len(a)
    BY BufType
  <2> HIDE DEF a, q, upto
  <2>2. /\ Len(a) \in 0 .. Len(a \o q) /\ SubSeq(a \o q, 1, Len(a)) = a
        /\ SubSeq(a \o q, Len(a) + 1, Len(a \o q)) = q
    BY <2>1
  <2>3. /\ upto[src] \in 0 .. Len(Buf[p][src])
        /\ SubSeq(Buf[p][src], 1, upto[src]) = a
        /\ SubSeq(Buf[p][src], upto[src] + 1, Len(Buf[p][src])) = q
    BY <2>1, <2>2
  <2> QED
    BY <2>3 DEF a, q
<1>3. upto \in [Sources -> UNION {0 .. Len(Buf[p][src]) : src \in Sources}]
  <2>2. \A src \in Sources : upto[src] \in UNION {0 .. Len(Buf[p][t]) : t \in Sources}
    BY <1>2
  <2>3. upto = [src \in Sources |-> upto[src]]
    OBVIOUS
  <2> HIDE DEF upto
  <2> QED
    BY <2>2, <2>3
<1> HIDE DEF upto
<1>4. Buf' = [Buf EXCEPT ![p] =
                [src \in Sources |-> SubSeq(@[src], upto[src] + 1, Len(@[src]))]]
  <2>1. Buf' = [r \in Plugins |-> [t \in Sources |-> From(t, pending'[r]) \o queue[r][t]]]
    BY DEF Buf
  <2>2. ASSUME NEW t \in Sources
        PROVE  /\ From(t, pending'[p]) \o queue[p][t]
                    = SubSeq(Buf[p][t], upto[t] + 1, Len(Buf[p][t]))
               /\ \A r \in Plugins : r # p =>
                    From(t, pending'[r]) \o queue[r][t] = Buf[r][t]
    <3>1. pending'[p] = <<>> /\ \A r \in Plugins : r # p => pending'[r] = pending[r]
      BY <1>1
    <3>2. From(t, <<>>) = <<>> /\ queue[p][t] \in Seq(Events)
      BY FromEmpty, BufType
    <3>3. From(t, pending'[p]) \o queue[p][t] = queue[p][t]
      <4> DEFINE q == queue[p][t]
      <4>1. q \in Seq(Events)
        BY <3>2
      <4>2. From(t, pending'[p]) = <<>>
        BY <3>1, <3>2
      <4> HIDE DEF q
      <4>3. <<>> \o q = q
        BY <4>1
      <4> QED
        BY <4>2, <4>3 DEF q
    <3> QED
      BY <1>2, <3>1, <3>3, BufType
  <2> DEFINE row == [t \in Sources |-> SubSeq(Buf[p][t], upto[t] + 1, Len(Buf[p][t]))]
             moved == [r \in Plugins |-> [t \in Sources |-> From(t, pending'[r]) \o queue[r][t]]]
  <2>3. Buf = [r \in Plugins |-> [t \in Sources |-> Buf[r][t]]]
    BY DEF Buf
  <2>4. moved[p] = row
    BY <2>2
  <2>5. ASSUME NEW r \in Plugins, r # p PROVE moved[r] = Buf[r]
    <3>1. moved[r] = [t \in Sources |-> From(t, pending'[r]) \o queue[r][t]]
      OBVIOUS
    <3>2. Buf[r] = [t \in Sources |-> Buf[r][t]]
      BY <2>3
    <3> QED
      BY <2>2, <2>5, <3>1, <3>2, ZenonT(60)
  <2>6. moved = [r \in Plugins |-> moved[r]]
    OBVIOUS
  <2> HIDE DEF row, moved
  <2>7. moved = [r \in Plugins |-> IF r = p THEN row ELSE Buf[r]]
    BY <2>4, <2>5, <2>6
  <2>8. [Buf EXCEPT ![p] = row] = [r \in Plugins |-> IF r = p THEN row ELSE Buf[r]]
    BY <2>3
  <2>9. Buf' = moved
    BY <2>1 DEF moved
  <2>10. Buf' = [Buf EXCEPT ![p] = row]
    BY <2>7, <2>8, <2>9
  <2> QED
    BY <2>10 DEF row
<1>5. Rec' = [s \in Streams |->
                IF s \in Mem[p]
                  THEN [src \in Sources |-> Rec[s][src] \o SubSeq(Buf[p][src], 1, upto[src])]
                  ELSE Rec[s]]
  <2>1. Rec' = [s \in Streams |-> [src \in Sources |-> From(src, delivered'[s])]]
    BY DEF Rec
  <2>2. ASSUME NEW s \in Streams, NEW src \in Sources
        PROVE  From(src, delivered'[s])
                 = IF s \in Mem[p] THEN Rec[s][src] \o SubSeq(Buf[p][src], 1, upto[src])
                   ELSE Rec[s][src]
    <3>1. Mem[p] = Writable(p) /\ Rec[s][src] = From(src, delivered[s])
      BY DEF Mem, Rec
    <3>2. delivered[s] \in Seq(Events)
      BY <1>1
    <3>3. From(src, delivered[s] \o pending[p])
            = From(src, delivered[s]) \o From(src, pending[p])
      BY <1>1, <3>2, FromConcat
    <3> QED
      BY <1>2, <3>1, <3>3
  <2>3. Rec = [s \in Streams |-> [src \in Sources |-> Rec[s][src]]]
    BY DEF Rec
  <2>4. ASSUME NEW s \in Streams
        PROVE  [src \in Sources |-> From(src, delivered'[s])]
                 = IF s \in Mem[p]
                     THEN [src \in Sources |-> Rec[s][src] \o SubSeq(Buf[p][src], 1, upto[src])]
                     ELSE Rec[s]
    BY <2>2, <2>3
  <2> QED
    BY <2>1, <2>4
<1>6. Mem' = Mem
  BY DEF Mem, Writable
<1>7. \A src \in Sources : upto[src] <= Len(Buf[p][src])
  BY <1>2
<1> QED
  BY <1>3, <1>4, <1>5, <1>6, <1>7 DEF Channel!Send, Buf, Mem, Rec

LEMMA InitBroadcasts == Init => Channel!BroadcastInit
<1> SUFFICES ASSUME Init PROVE Channel!BroadcastInit
  OBVIOUS
<1>1. pushed = [p \in Plugins |-> [src \in Sources |-> 0]]
  BY DEF Init
<1>2. Buf = [p \in Plugins |-> [src \in Sources |-> <<>>]]
  <2>1. \A p \in Plugins, src \in Sources : From(src, pending[p]) \o queue[p][src] = <<>>
    BY FromEmpty DEF Init
  <2> QED
    BY <2>1 DEF Buf
<1>3. Mem = [p \in Plugins |-> {}]
  <2>1. \A p \in Plugins : Writable(p) = {}
    BY DEF Init, Writable
  <2> QED
    BY <2>1 DEF Mem
<1>4. Rec = [s \in Streams |-> [src \in Sources |-> <<>>]]
  <2>1. \A s \in Streams, src \in Sources : From(src, delivered[s]) = <<>>
    BY FromEmpty DEF Init
  <2> QED
    BY <2>1 DEF Rec
<1> QED
  BY <1>1, <1>2, <1>3, <1>4 DEF Channel!BroadcastInit, Buf, Mem, Rec

\* Every step of the loop, of its producers and of its clients is a step of the
\* channels, or leaves them alone.
LEMMA StepBroadcasts ==
  TypeOK /\ Apart /\ OrderInv /\ [Next]_vars => [Channel!BroadcastNext]_(Channel!broadcastVars)
<1> SUFFICES ASSUME TypeOK, Apart, OrderInv, [Next]_vars
             PROVE  Channel!BroadcastNext \/ UNCHANGED Channel!broadcastVars
  OBVIOUS
<1>1. ASSUME NEW p \in Plugins, NEW src \in Sources, Push(p, src) PROVE Channel!BroadcastNext
  BY <1>1, PushPublishes DEF Channel!BroadcastNext
<1>2. ASSUME NEW p \in Plugins, NEW s \in Streams, Connect(s, p) PROVE Channel!BroadcastNext
  BY <1>2, ConnectJoins DEF Channel!BroadcastNext
<1>3. ASSUME NEW p \in Plugins, NEW s \in Streams, Kill(s, p)
      PROVE  UNCHANGED Channel!broadcastVars
  BY <1>3, KillStutters
<1>4. ASSUME NEW s \in Streams, Lose(s)
      PROVE  Channel!BroadcastNext \/ UNCHANGED Channel!broadcastVars
  BY <1>4, LoseLeaves DEF Channel!BroadcastNext
<1>5. ASSUME NEW p \in Plugins, state' = Ended(p),
             UNCHANGED <<streams, queue, pushed, pending, delivered>>
      PROVE  Channel!BroadcastNext
  BY <1>5, EndedLeave DEF Channel!BroadcastNext
<1>6. ASSUME UNCHANGED <<streams, state, queue, pushed, pending, delivered>>
      PROVE  UNCHANGED Channel!broadcastVars
  <2>1. pushed' = pushed /\ Buf' = Buf /\ Mem' = Mem /\ Rec' = Rec
    BY <1>6 DEF Buf, Mem, Rec, Writable
  <2> QED
    BY <2>1, ChannelStutters
<1>7. ASSUME NEW p \in Plugins, EndStreams(p) PROVE Channel!BroadcastNext
  BY <1>5, <1>7 DEF EndStreams
<1>8. ASSUME NEW p \in Plugins, PollEnds(p)
      PROVE  Channel!BroadcastNext \/ UNCHANGED Channel!broadcastVars
  BY <1>5, <1>6, <1>8 DEF PollEnds
<1>9. ASSUME NEW p, p = cq.plugin, cq.at # "idle" PROVE p \in Plugins
  BY <1>9 DEF TypeOK, LoopType
<1>10. ASSUME DrainProcess \/ DrainMain PROVE Channel!BroadcastNext
  <2> DEFINE p == cq.plugin
  <2>1. /\ p \in Plugins /\ UNCHANGED <<streams, state, pushed, pending, delivered>>
        /\ \E src \in Sources : queue' = [queue EXCEPT ![p][src] = <<>>]
    BY <1>9, <1>10 DEF DrainProcess, DrainMain, Sources
  <2> HIDE DEF p
  <2> QED
    BY <2>1, DrainDiscards DEF Channel!BroadcastNext
<1>11. ASSUME PopEvent PROVE UNCHANGED Channel!broadcastVars
  <2> DEFINE p == cq.plugin
             src == cq.at
  <2>1. p \in Plugins /\ src \in Sources
    BY <1>9, <1>11 DEF PopEvent, Sources
  <2>2. /\ queue[p][src] # <<>>
        /\ pending' = [pending EXCEPT ![p] = Append(@, Head(queue[p][src]))]
        /\ queue' = [queue EXCEPT ![p][src] = Tail(@)]
        /\ UNCHANGED <<streams, state, pushed, delivered>>
    BY <1>11 DEF PopEvent
  <2> HIDE DEF p, src
  <2> QED
    BY <2>1, <2>2, PopStutters
<1>12. ASSUME PollSends PROVE Channel!BroadcastNext
  <2> DEFINE p == cq.plugin
  <2>1. p \in Plugins
    BY <1>9, <1>12 DEF PollSends
  <2>2. /\ delivered' = [s \in Streams |-> IF s \in Writable(p) THEN delivered[s] \o pending[p]
                                           ELSE delivered[s]]
        /\ pending' = [pending EXCEPT ![p] = <<>>]
        /\ UNCHANGED <<streams, state, queue, pushed>>
    BY <1>12 DEF PollSends, Receivers, Retained
  <2> HIDE DEF p
  <2> QED
    BY <2>1, <2>2, PollSendsSends DEF Channel!BroadcastNext
<1>13. ASSUME NEW p \in Plugins,
              \/ StopPollCheck(p) \/ StopPollStore(p) \/ PollBegins(p)
              \/ NextQueue \/ PollIdles \/ Shutdown \/ UNCHANGED vars
       PROVE  UNCHANGED Channel!broadcastVars
  BY <1>6, <1>13 DEF StopPollCheck, StopPollStore, PollBegins, NextQueue, PollIdles, Shutdown, vars
<1>14. ASSUME NextQueue \/ PollIdles \/ Shutdown \/ UNCHANGED vars
       PROVE  UNCHANGED Channel!broadcastVars
  BY <1>6, <1>14 DEF NextQueue, PollIdles, Shutdown, vars
<1> QED
  BY <1>1, <1>2, <1>3, <1>4, <1>7, <1>8, <1>10, <1>11, <1>12, <1>13, <1>14 DEF Next, Poll

\* The poll loop implements the abstract channels: whatever producers, clients,
\* stops and retries of unsent events do, each source's events reach all the
\* clients connected at a time alike, in order, none invented or sent again, and
\* a new client starts with nothing.
THEOREM ImplementsBroadcast == Spec => IsBroadcast
<1>1. Init => Apart /\ OrderInv
  BY InitOrder DEF Init, Apart
<1>2. TypeOK /\ Apart /\ OrderInv /\ [Next]_vars => Apart' /\ OrderInv'
  BY StepOrder, StepApart
<1> QED
  BY <1>1, <1>2, InitBroadcasts, StepBroadcasts, TypeCorrect, PTL
     DEF Spec, IsBroadcast, Channel!BroadcastSpec
=============================================================================
