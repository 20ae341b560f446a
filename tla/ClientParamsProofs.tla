------------------------- MODULE ClientParamsProofs -------------------------
(***************************************************************************)
(* Parameter changes for any number of clients, plugins and parameters,    *)
(* any batches and any capacity of the queue: accepted changes are applied *)
(* once and in order, and the newest one stands.  Then, for all inputs,    *)
(* what they rest on: the arithmetic of stamps, the tables of parameters,  *)
(* the handling of a host event and the walk over the frames of a block.   *)
(***************************************************************************)
EXTENDS PluginParams, TLAPS, Recursion

CallRecords == [to : Plugins, left : Seq(Changes)]

\* The call that the thread handles exists; a change that waits is its next.
Serves ==
  cq.at # "idle" =>
    /\ cq.client \in Clients /\ call[cq.client] \in CallRecords
    /\ cq.at = "push" => call[cq.client].left # <<>>

\* Stamps grow along the accepted changes, and the newest one is kept.
StampsGrow ==
  \A p \in Plugins :
    /\ \A i \in 1 .. Len(accepted[p]) :
         /\ ~Newer(accepted[p][i].stamp, last[p])
         /\ \A j \in i + 1 .. Len(accepted[p]) :
              Newer(accepted[p][j].stamp, accepted[p][i].stamp)

\* What the host is about to be told is the value of the parameter.
Telling ==
  \A p \in Plugins :
    audio[p].at = "tell" => value[p][audio[p].ch.param] = audio[p].ch

\* A parameter has the value of the newest change to it that was taken, or
\* the one the host set after that: SharedData, its queue and the plugin's
\* parameters agree on who spoke last.
TakenAfter(p, id, n) == \E i \in n + 1 .. taken[p] : accepted[p][i].param = id

ValueIsNewest ==
  \A p \in Plugins, id \in Params :
    \/ /\ FromClient(value[p][id])
       /\ \E i \in 1 .. taken[p] :
            accepted[p][i] = value[p][id] /\ ~TakenAfter(p, id, i)
    \/ /\ ~FromClient(value[p][id])
       /\ ~TakenAfter(p, id, value[p][id].done)

IInv == TypeOK /\ Serves /\ NothingLost /\ StampsGrow /\ ValueIsNewest
        /\ HostAgrees /\ Telling

LEMMA TailType ==
  ASSUME NEW S, NEW q \in Seq(S), q # <<>>
  PROVE  Head(q) \in S /\ Tail(q) \in Seq(S) /\ Len(Tail(q)) = Len(q) - 1
  OBVIOUS

\* Two-level functions such as value and host, changed in one place.
LEMMA SetEntry ==
  ASSUME NEW P, NEW I, NEW V, NEW f \in [P -> [I -> V]], NEW p \in P, NEW i \in I, NEW v \in V
  PROVE  LET g == [f EXCEPT ![p][i] = v] IN
         /\ g \in [P -> [I -> V]] /\ g[p][i] = v
         /\ \A q \in P, j \in I : q # p \/ j # i => g[q][j] = f[q][j]
  OBVIOUS

LEMMA InitIInv == Init => IInv
<1> SUFFICES ASSUME Init PROVE IInv
  OBVIOUS
<1> USE ParamAssumption DEF Init
<1>1. Initial \in HostValues /\ ~FromClient(Initial) /\ Initial.done = 0
  BY DEF Initial, HostValues, FromClient
<1>2. TypeOK
  BY <1>1 DEF TypeOK, NoCall, Idle, NotProcessing, In
<1>3. Serves
  BY DEF Serves, Idle
<1>4. NothingLost
  BY DEF NothingLost, Pending, Idle
<1>5. StampsGrow
  BY DEF StampsGrow
<1>6. ValueIsNewest
  BY <1>1 DEF ValueIsNewest, TakenAfter
<1>7. HostAgrees
  BY DEF HostAgrees
<1>8. Telling
  BY DEF Telling, NotProcessing, In
<1> QED
  BY <1>2, <1>3, <1>4, <1>5, <1>6, <1>7, <1>8 DEF IInv

-----------------------------------------------------------------------------
(* The thread of completion queue 1.                                       *)

LEMMA NewCallType ==
  ASSUME NEW c \in Clients, ClientParamCall(c)
  PROVE  \E new \in CallRecords : call' = [call EXCEPT ![c] = new]
<1>1. PICK p \in Plugins, n \in 0 .. MaxBatch :
        \E ids \in [1 .. n -> Ids], ts \in [1 .. n -> Stamps] :
          call' = [call EXCEPT ![c] =
                     [to |-> p, left |-> [i \in 1 .. n |->
                        [by |-> "client", param |-> ids[i], stamp |-> ts[i]]]]]
  BY DEF ClientParamCall
<1>2. PICK ids \in [1 .. n -> Ids], ts \in [1 .. n -> Stamps] :
        call' = [call EXCEPT ![c] =
                   [to |-> p, left |-> [i \in 1 .. n |->
                      [by |-> "client", param |-> ids[i], stamp |-> ts[i]]]]]
  BY <1>1
<1> DEFINE left == [i \in 1 .. n |->
                      [by |-> "client", param |-> ids[i], stamp |-> ts[i]]]
<1>3. \A i \in 1 .. n :
        [by |-> "client", param |-> ids[i], stamp |-> ts[i]] \in Changes
  <2> TAKE i \in 1 .. n
  <2>1. ids[i] \in Ids /\ ts[i] \in Int \X Int
    BY ParamAssumption
  <2> QED
    BY <2>1 DEF Changes
<1>4. left \in Seq(Changes)
  <2>1. left \in [1 .. n -> Changes]
    BY <1>3
  <2>2. n \in Nat
    BY ParamAssumption
  <2> QED
    BY <2>1, <2>2
<1>5. [to |-> p, left |-> left] \in CallRecords
  BY <1>4 DEF CallRecords
<1> QED
  BY <1>2, <1>5

\* The changes of a call that is being checked or pushed.
LEMMA NextChange ==
  ASSUME IInv, NEW c \in Clients, call[c] \in CallRecords, call[c].left # <<>>
  PROVE  /\ Head(call[c].left) \in Changes
         /\ NextParam(c) \in [Clients -> CallRecords \union {NoCall}]
         /\ NextParam(c)[c] \in CallRecords
         /\ \A d \in Clients \ {c} : NextParam(c)[d] = call[d]
<1>1. call \in [Clients -> CallRecords \union {NoCall}]
  BY DEF IInv, TypeOK, CallRecords
<1>2. call[c].left \in Seq(Changes) /\ call[c].to \in Plugins
  BY DEF CallRecords
<1>3. Head(call[c].left) \in Changes /\ Tail(call[c].left) \in Seq(Changes)
  BY <1>2, TailType
<1>4. NextParam(c)[c] = [to |-> call[c].to, left |-> Tail(call[c].left)]
  BY <1>1 DEF NextParam, CallRecords
<1>5. NextParam(c)[c] \in CallRecords
  BY <1>2, <1>3, <1>4 DEF CallRecords
<1>6. NextParam(c) = [call EXCEPT ![c] = NextParam(c)[c]]
  BY <1>1, <1>4 DEF NextParam
<1> HIDE DEF NextParam
<1> QED
  BY <1>1, <1>3, <1>5, <1>6

\* A step of the thread, by what it does to the variables it may change.
LEMMA CqType ==
  ASSUME IInv, NEW c \in Clients, ClientParamCall(c) \/ Cq(c)
  PROVE  TypeOK' /\ Serves'
<1> USE DEF IInv
<1>1. /\ call \in [Clients -> CallRecords \union {NoCall}]
      /\ cq \in [at : {"check", "push"}, client : Clients] \union {Idle}
      /\ last \in [Plugins -> Int \X Int]
      /\ accepted \in [Plugins -> Seq(Changes)] /\ queue \in [Plugins -> Seq(Changes)]
      /\ \A p \in Plugins : Len(queue[p]) <= QueueCap
  BY DEF TypeOK, CallRecords
<1>2. SUFFICES
        /\ call' \in [Clients -> CallRecords \union {NoCall}]
        /\ cq' \in [at : {"check", "push"}, client : Clients] \union {Idle}
        /\ last' \in [Plugins -> Int \X Int]
        /\ accepted' \in [Plugins -> Seq(Changes)] /\ queue' \in [Plugins -> Seq(Changes)]
        /\ \A p \in Plugins : Len(queue'[p]) <= QueueCap
        /\ Serves'
        /\ UNCHANGED <<taken, audio, value, host, refused>> /\ known' = known
  <2> SUFFICES TypeOK'
    BY <1>2
  <2> QED
    BY <1>2 DEF TypeOK, CallRecords
<1>3. CASE ClientParamCall(c)
  <2>1. PICK new \in CallRecords : call' = [call EXCEPT ![c] = new]
    BY <1>3, NewCallType
  <2>2. cq.at # "idle" => cq.client # c
    <3>1. call[c] = NoCall
      BY <1>3 DEF ClientParamCall, Waiting
    <3>2. NoCall \notin CallRecords
      BY ParamAssumption DEF NoCall, CallRecords
    <3> QED
      BY <3>1, <3>2 DEF Serves
  <2>3. Serves'
    BY <1>1, <1>3, <2>1, <2>2 DEF ClientParamCall, Serves
  <2> QED
    BY <1>1, <1>3, <2>1, <2>3 DEF ClientParamCall, audioVars
<1>4. CASE HandleEvent(c)
  <2>1. CASE cq' = [at |-> "check", client |-> c] /\ call' = call /\ call[c].to \in known
    <3>1. call[c] \in CallRecords
      BY <1>1, <1>4, <2>1 DEF HandleEvent, Waiting
    <3> QED
      BY <1>1, <1>4, <2>1, <3>1 DEF HandleEvent, Serves, audioVars
  <2>2. CASE Answer(c)
    BY <1>1, <1>4, <2>2 DEF HandleEvent, Answer, Serves, Idle, audioVars
  <2> QED
    BY <1>4, <2>1, <2>2 DEF HandleEvent
<1>5. ASSUME cq.at # "idle", cq.client = c PROVE call[c] \in CallRecords
  BY <1>5 DEF Serves
<1>6. CASE Discard(c)
  <2>1. call[c] \in CallRecords /\ call[c].left # <<>>
    BY <1>5, <1>6 DEF Discard, Checks
  <2>2. call' = NextParam(c) /\ cq' = cq /\ cq = [at |-> "check", client |-> c]
    BY <1>6 DEF Discard, Checks
  <2>3. Serves'
    BY <2>1, <2>2, NextChange DEF Serves
  <2> QED
    BY <1>1, <1>6, <2>1, <2>2, <2>3, NextChange DEF Discard, audioVars
<1>7. CASE Accept(c)
  <2> DEFINE p == call[c].to ch == Head(call[c].left)
  <2>1. call[c] \in CallRecords /\ call[c].left # <<>>
    BY <1>5, <1>7 DEF Accept, Checks
  <2>2. p \in Plugins /\ ch \in Changes /\ ch.stamp \in Int \X Int
    BY <2>1, NextChange DEF CallRecords, Changes
  <2>3. Append(accepted[p], ch) \in Seq(Changes)
    BY <1>1, <2>2
  <2>4. last' \in [Plugins -> Int \X Int] /\ accepted' \in [Plugins -> Seq(Changes)]
    BY <1>1, <1>7, <2>2, <2>3 DEF Accept, SetStamp
  <2>5. Serves'
    BY <1>7, <2>1 DEF Accept, Serves
  <2> QED
    BY <1>1, <1>7, <2>4, <2>5 DEF Accept, audioVars
<1>8. CASE Push(c)
  <2> DEFINE p == call[c].to ch == Head(call[c].left)
  <2>1. call[c] \in CallRecords /\ call[c].left # <<>>
    BY <1>5, <1>8 DEF Push, Serves
  <2>2. p \in Plugins /\ ch \in Changes
    BY <2>1, NextChange DEF CallRecords
  <2>3. queue' = [queue EXCEPT ![p] = Append(queue[p], ch)] /\ Len(queue[p]) < QueueCap
    BY <1>8 DEF Push, Enqueue, HasRoom
  <2>4. Append(queue[p], ch) \in Seq(Changes) /\ Len(Append(queue[p], ch)) <= QueueCap
    BY <1>1, <2>2, <2>3, ParamAssumption
  <2> HIDE DEF p, ch
  <2>5. queue' \in [Plugins -> Seq(Changes)] /\ \A q \in Plugins : Len(queue'[q]) <= QueueCap
    BY <1>1, <2>2, <2>3, <2>4
  <2>6. Serves'
    BY <1>8, <2>1, NextChange DEF Push, Serves
  <2> QED
    BY <1>1, <1>8, <2>1, <2>5, <2>6, NextChange DEF Push, audioVars
<1>9. CASE Finish(c)
  BY <1>1, <1>9 DEF Finish, Answer, Serves, Idle, audioVars
<1> QED
  BY <1>3, <1>4, <1>6, <1>7, <1>8, <1>9 DEF Cq

-----------------------------------------------------------------------------
(* The host and the audio threads.                                         *)

LEMMA AudioType ==
  ASSUME IInv, NEW p \in Plugins,
         RemovePlugin(p) \/ Block(p) \/ \E id \in Automated : HostEvent(p, id)
  PROVE  TypeOK' /\ Serves'
<1> DEFINE Values == Changes \union HostValues
           Places == {"idle", "drain", "tell", "events", "cut"}
           Told(ch) == ch \in Changes /\ ch.param \in Params
<1> USE DEF IInv
<1>1. /\ queue \in [Plugins -> Seq(Changes)]
      /\ \A q \in Plugins : Len(queue[q]) <= QueueCap
      /\ taken \in [Plugins -> Nat] /\ known \subseteq Plugins
      /\ audio \in [Plugins -> [at : Places, begun : Int, ch : Values]]
      /\ \A q \in Plugins : audio[q].at = "tell" => Told(audio[q].ch)
      /\ value \in [Plugins -> [Params -> Values]]
      /\ host \in [Plugins -> [Params -> Values]]
      /\ refused \in [Plugins -> SUBSET Params]
  BY DEF TypeOK
<1>2. UNCHANGED <<call, cq, last, accepted>>
  BY DEF Block, RemovePlugin, Process, Pop, TryPush, Refuse, Drained, EndBlock,
         HostEvent, cqVars
<1>3. Serves'
  BY <1>2 DEF Serves
<1>4. SUFFICES
        /\ queue' \in [Plugins -> Seq(Changes)]
        /\ \A q \in Plugins : Len(queue'[q]) <= QueueCap
        /\ taken' \in [Plugins -> Nat] /\ known' \subseteq Plugins
        /\ audio' \in [Plugins -> [at : Places, begun : Int, ch : Values]]
        /\ \A q \in Plugins : audio'[q].at = "tell" => Told(audio'[q].ch)
        /\ value' \in [Plugins -> [Params -> Values]]
        /\ host' \in [Plugins -> [Params -> Values]]
        /\ refused' \in [Plugins -> SUBSET Params]
  BY <1>2, <1>3 DEF TypeOK
<1>5. Initial \in Values /\ Queued(p) \in Int
  <2>1. Len(accepted[p]) \in Nat /\ Len(Pending(p)) \in Nat
    BY DEF TypeOK, Pending
  <2> QED
    BY <2>1 DEF Initial, HostValues, Queued
<1>6. \A place \in Places \ {"tell"} : Goes(p, place) =>
        /\ audio' \in [Plugins -> [at : Places, begun : Int, ch : Values]]
        /\ \A q \in Plugins : audio'[q].at = "tell" => Told(audio'[q].ch)
  <2> SUFFICES ASSUME NEW place \in Places \ {"tell"}, Goes(p, place)
               PROVE  /\ audio' \in [Plugins -> [at : Places, begun : Int, ch : Values]]
                      /\ \A q \in Plugins : audio'[q].at = "tell" => Told(audio'[q].ch)
    OBVIOUS
  <2> HIDE DEF Values
  <2> QED
    BY <1>1, <1>5 DEF Goes, In
<1> HIDE DEF Values
<1>7. CASE RemovePlugin(p)
  BY <1>1, <1>7 DEF RemovePlugin, audioVars
<1>8. CASE Process(p)
  BY <1>1, <1>5, <1>8 DEF Process, In
<1>9. CASE Pop(p)
  <2> DEFINE ch == Head(queue[p])
  <2>1. ch \in Changes /\ Tail(queue[p]) \in Seq(Changes) /\ Len(Tail(queue[p])) <= QueueCap
    BY <1>1, <1>9, TailType, ParamAssumption DEF Pop
  <2>2. ch \in Values
    BY <2>1 DEF Values
  <2> HIDE DEF ch
  <2>3. /\ queue' = [queue EXCEPT ![p] = Tail(queue[p])]
        /\ taken' = [taken EXCEPT ![p] = taken[p] + 1]
    BY <1>9 DEF Pop
  <2>4. /\ queue' \in [Plugins -> Seq(Changes)] /\ taken' \in [Plugins -> Nat]
        /\ \A q \in Plugins : Len(queue'[q]) <= QueueCap
    BY <1>1, <2>1, <2>3
  <2>5. \/ /\ ch.param \in Params /\ value' = [value EXCEPT ![p][ch.param] = ch]
           /\ audio' = [audio EXCEPT ![p] = In("tell", audio[p].begun, ch)]
        \/ UNCHANGED <<value, audio>>
    BY <1>9 DEF Pop, SetsValue, ch
  <2>6. /\ audio' \in [Plugins -> [at : Places, begun : Int, ch : Values]]
        /\ \A q \in Plugins : audio'[q].at = "tell" => Told(audio'[q].ch)
        /\ value' \in [Plugins -> [Params -> Values]]
    <3>1. CASE UNCHANGED <<value, audio>>
      BY <1>1, <3>1
    <3>2. CASE /\ ch.param \in Params /\ value' = [value EXCEPT ![p][ch.param] = ch]
               /\ audio' = [audio EXCEPT ![p] = In("tell", audio[p].begun, ch)]
      <4>1. value' \in [Plugins -> [Params -> Values]]
        BY <1>1, <2>2, <3>2, SetEntry
      <4> DEFINE new == In("tell", audio[p].begun, ch)
      <4>2. new \in [at : Places, begun : Int, ch : Values] /\ Told(new.ch)
        BY <1>1, <2>1, <2>2, <3>2 DEF In
      <4> HIDE DEF new, Told
      <4>3. audio' = [audio EXCEPT ![p] = new]
        BY <3>2 DEF new
      <4> QED
        BY <1>1, <4>1, <4>2, <4>3
    <3> QED
      BY <2>5, <3>1, <3>2
  <2> QED
    BY <1>1, <1>9, <2>4, <2>6 DEF Pop, cqVars
<1>10. CASE TryPush(p)
  <2> DEFINE ch == audio[p].ch
  <2>1. ch \in Values
    BY <1>1
  <2> HIDE DEF ch
  <2>2. host' = [host EXCEPT ![p][ch.param] = ch]
    BY <1>10 DEF TryPush, Tells, ch
  <2>3. host' \in [Plugins -> [Params -> Values]]
    BY <1>1, <2>1, <2>2
  <2>4. refused' \in [Plugins -> SUBSET Params]
    BY <1>1, <1>10 DEF TryPush
  <2> QED
    BY <1>1, <1>6, <1>10, <2>3, <2>4 DEF TryPush
<1>11. CASE Refuse(p)
  <2> DEFINE ch == audio[p].ch
  <2>1. refused' = [refused EXCEPT ![p] = refused[p] \union {ch.param}]
    BY <1>11 DEF Refuse
  <2>2. ch.param \in Params
    BY <1>1, <1>11 DEF Refuse
  <2>3. refused' \in [Plugins -> SUBSET Params]
    BY <1>1, <2>1, <2>2
  <2> QED
    BY <1>1, <1>6, <1>11, <2>3 DEF Refuse
<1>12. CASE Drained(p)
  BY <1>1, <1>6, <1>12 DEF Drained
<1>13. CASE EndBlock(p)
  BY <1>1, <1>5, <1>13 DEF EndBlock, NotProcessing, In
<1>14. ASSUME NEW id \in Automated, HostEvent(p, id)
       PROVE  /\ value' \in [Plugins -> [Params -> Values]]
              /\ host' \in [Plugins -> [Params -> Values]]
              /\ refused' \in [Plugins -> SUBSET Params]
              /\ UNCHANGED <<queue, taken, known, audio>>
  <2> DEFINE v == [by |-> "host", done |-> taken[p]]
  <2>1. v \in Values
    BY <1>1 DEF Values, HostValues
  <2> HIDE DEF v
  <2>2. /\ value' = [value EXCEPT ![p][id] = v] /\ host' = [host EXCEPT ![p][id] = v]
        /\ refused' = [refused EXCEPT ![p] = @ \ {id}]
    BY <1>14 DEF HostEvent, v
  <2>3. id \in Params
    BY ParamAssumption
  <2>4. value' \in [Plugins -> [Params -> Values]]
    BY <1>1, <2>1, <2>2, <2>3, SetEntry
  <2>5. host' \in [Plugins -> [Params -> Values]]
    BY <1>1, <2>1, <2>2, <2>3, SetEntry
  <2>6. refused' \in [Plugins -> SUBSET Params]
    BY <1>1, <2>2
  <2> QED
    BY <1>14, <2>4, <2>5, <2>6 DEF HostEvent, cqVars
<1> QED
  BY <1>1, <1>7, <1>8, <1>9, <1>10, <1>11, <1>12, <1>13, <1>14 DEF Block

-----------------------------------------------------------------------------
(* What the steps do to the way of a change: accepted, waiting, queued,    *)
(* taken.                                                                  *)

Way == <<accepted, last, queue, taken>>

\* The thread of completion queue 1 accepts a change or queues the one that
\* waits; every other step of it leaves the way of the changes alone.
LEMMA CqEffect ==
  ASSUME IInv, NEW c \in Clients, ClientParamCall(c) \/ Cq(c)
  PROVE
  \/ UNCHANGED Way /\ \A q \in Plugins : Pending(q)' = Pending(q)
  \/ \E p \in Plugins, ch \in Changes :
       /\ Newer(ch.stamp, last[p]) /\ last' = [last EXCEPT ![p] = ch.stamp]
       /\ accepted' = [accepted EXCEPT ![p] = Append(accepted[p], ch)]
       /\ UNCHANGED <<queue, taken>>
       /\ \A q \in Plugins : /\ Pending(q) = <<>>
                             /\ Pending(q)' = IF q = p THEN <<ch>> ELSE <<>>
  \/ \E p \in Plugins, ch \in Changes :
       /\ queue' = [queue EXCEPT ![p] = Append(queue[p], ch)]
       /\ UNCHANGED <<accepted, last, taken>>
       /\ \A q \in Plugins : /\ Pending(q)' = <<>>
                             /\ Pending(q) = IF q = p THEN <<ch>> ELSE <<>>
<1> USE DEF IInv, Way
<1>1. CASE ClientParamCall(c)
  <2>1. PICK new \in CallRecords : call' = [call EXCEPT ![c] = new]
    BY <1>1, NewCallType
  <2>2. cq.at # "idle" => cq.client # c
    <3>1. call[c] = NoCall
      BY <1>1 DEF ClientParamCall, Waiting
    <3>2. NoCall \notin CallRecords
      BY ParamAssumption DEF NoCall, CallRecords
    <3> QED
      BY <3>1, <3>2 DEF Serves
  <2>3. cq' = cq /\ (cq.at # "idle" => call'[cq.client] = call[cq.client])
    BY <1>1, <2>1, <2>2 DEF ClientParamCall, TypeOK, Serves
  <2>4. \A q \in Plugins : Pending(q)' = Pending(q)
    BY <2>3 DEF Pending
  <2> QED
    BY <1>1, <2>4 DEF ClientParamCall, audioVars
<1>2. CASE HandleEvent(c) \/ Discard(c) \/ Finish(c)
  <2>1. cq.at # "push" /\ cq'.at # "push"
    BY <1>2 DEF HandleEvent, Discard, Finish, Checks, Answer, Idle
  <2>2. \A q \in Plugins : Pending(q)' = Pending(q)
    BY <2>1 DEF Pending
  <2> QED
    BY <1>2, <2>2 DEF HandleEvent, Discard, Finish, audioVars
<1>3. ASSUME cq.at # "idle", cq.client = c PROVE call[c] \in CallRecords
  BY <1>3 DEF Serves
<1>4. CASE Accept(c)
  <2> DEFINE p == call[c].to ch == Head(call[c].left)
  <2>1. call[c] \in CallRecords /\ call[c].left # <<>>
    BY <1>3, <1>4 DEF Accept, Checks
  <2>2. p \in Plugins /\ ch \in Changes
    BY <2>1, NextChange DEF CallRecords
  <2>3. \A q \in Plugins : Pending(q) = <<>>
    BY <1>4 DEF Pending, Accept, Checks
  <2>4. \A q \in Plugins : Pending(q)' = IF q = p THEN <<ch>> ELSE <<>>
    BY <1>4 DEF Pending, Accept
  <2>5. /\ Newer(ch.stamp, last[p]) /\ last' = [last EXCEPT ![p] = ch.stamp]
        /\ accepted' = [accepted EXCEPT ![p] = Append(accepted[p], ch)]
        /\ UNCHANGED <<queue, taken>>
    BY <1>4 DEF Accept, SetStamp, audioVars
  <2> HIDE DEF p, ch
  <2> QED
    BY <2>2, <2>3, <2>4, <2>5
<1>5. CASE Push(c)
  <2> DEFINE p == call[c].to ch == Head(call[c].left)
  <2>1. call[c] \in CallRecords /\ call[c].left # <<>>
    BY <1>3, <1>5 DEF Push, Serves
  <2>2. p \in Plugins /\ ch \in Changes
    BY <2>1, NextChange DEF CallRecords
  <2>3. \A q \in Plugins : Pending(q)' = <<>>
    BY <1>5 DEF Pending, Push
  <2>4. \A q \in Plugins : Pending(q) = IF q = p THEN <<ch>> ELSE <<>>
    BY <1>5 DEF Pending, Push
  <2>5. /\ queue' = [queue EXCEPT ![p] = Append(queue[p], ch)]
        /\ UNCHANGED <<accepted, last, taken>>
    BY <1>5 DEF Push, Enqueue, audioVars
  <2> HIDE DEF p, ch
  <2> QED
    BY <2>2, <2>3, <2>4, <2>5
<1> QED
  BY <1>1, <1>2, <1>4, <1>5 DEF Cq

\* The audio thread only takes changes from its queue.
LEMMA AudioEffect ==
  ASSUME NEW p \in Plugins,
         RemovePlugin(p) \/ Block(p) \/ \E id \in Automated : HostEvent(p, id)
  PROVE
  /\ UNCHANGED <<accepted, last>> /\ \A q \in Plugins : Pending(q)' = Pending(q)
  /\ \/ UNCHANGED <<queue, taken>>
     \/ /\ Pop(p) /\ queue[p] # <<>> /\ queue' = [queue EXCEPT ![p] = Tail(@)]
        /\ taken' = [taken EXCEPT ![p] = @ + 1]
<1>1. UNCHANGED <<call, cq, last, accepted>>
  BY DEF Block, RemovePlugin, Process, Pop, TryPush, Refuse, Drained, EndBlock,
         HostEvent, cqVars
<1>2. \A q \in Plugins : Pending(q)' = Pending(q)
  BY <1>1 DEF Pending
<1>3. \/ UNCHANGED <<queue, taken>>
      \/ /\ Pop(p) /\ queue[p] # <<>> /\ queue' = [queue EXCEPT ![p] = Tail(@)]
         /\ taken' = [taken EXCEPT ![p] = @ + 1]
  BY DEF Block, RemovePlugin, Process, Pop, TryPush, Refuse, Drained, EndBlock,
         HostEvent, audioVars
<1> QED
  BY <1>1, <1>2, <1>3

\* One plugin's part of NothingLost, for any values of what it speaks of.
Conserves(acc, q, n, pend) ==
  /\ n + Len(q) + Len(pend) = Len(acc)
  /\ \A i \in 1 .. Len(q) : q[i] = acc[n + i]
  /\ pend # <<>> => pend[1] = acc[Len(acc)]

LEMMA Conserved ==
  NothingLost <=>
    \A p \in Plugins : Conserves(accepted[p], queue[p], taken[p], Pending(p))
  BY DEF NothingLost, Conserves

LEMMA AcceptConserves ==
  ASSUME NEW acc \in Seq(Changes), NEW q \in Seq(Changes), NEW n \in Nat,
         NEW ch \in Changes, Conserves(acc, q, n, <<>>)
  PROVE  Conserves(Append(acc, ch), q, n, <<ch>>)
  BY DEF Conserves

LEMMA PushConserves ==
  ASSUME NEW acc \in Seq(Changes), NEW q \in Seq(Changes), NEW n \in Nat,
         NEW ch \in Changes, Conserves(acc, q, n, <<ch>>)
  PROVE  Conserves(acc, Append(q, ch), n, <<>>)
<1> DEFINE new == Append(q, ch)
<1>1. /\ Len(<<ch>>) = 1 /\ <<ch>>[1] = ch /\ <<ch>> # <<>> /\ Len(q) \in Nat
      /\ Len(new) = Len(q) + 1 /\ new[Len(new)] = ch
      /\ \A i \in 1 .. Len(q) : new[i] = q[i]
  OBVIOUS
<1>2. n + Len(q) + 1 = Len(acc) /\ ch = acc[Len(acc)]
  BY <1>1 DEF Conserves
<1>3. \A i \in 1 .. Len(new) : new[i] = acc[n + i]
  <2> TAKE i \in 1 .. Len(new)
  <2>1. CASE i = Len(new)
    BY <1>1, <1>2, <2>1
  <2>2. CASE i \in 1 .. Len(q)
    BY <1>1, <2>2 DEF Conserves
  <2> QED
    BY <1>1, <2>1, <2>2
<1> QED
  BY <1>1, <1>2, <1>3 DEF Conserves

LEMMA PopConserves ==
  ASSUME NEW acc \in Seq(Changes), NEW q \in Seq(Changes), NEW n \in Nat,
         NEW pend, Len(pend) \in Nat, q # <<>>, Conserves(acc, q, n, pend)
  PROVE  Conserves(acc, Tail(q), n + 1, pend)
<1>1. Len(Tail(q)) = Len(q) - 1 /\ \A i \in 1 .. Len(Tail(q)) : Tail(q)[i] = q[i + 1]
  OBVIOUS
<1>2. \A i \in 1 .. Len(Tail(q)) : Tail(q)[i] = acc[n + 1 + i]
  BY <1>1 DEF Conserves
<1> QED
  BY <1>1, <1>2 DEF Conserves

LEMMA LostStep == ASSUME IInv, [Next]_vars PROVE NothingLost'
<1> USE DEF IInv
<1>1. /\ accepted \in [Plugins -> Seq(Changes)] /\ queue \in [Plugins -> Seq(Changes)]
      /\ taken \in [Plugins -> Nat]
  BY DEF TypeOK
<1>2. \A p \in Plugins : Conserves(accepted[p], queue[p], taken[p], Pending(p))
  BY Conserved
<1>3. SUFFICES \A q \in Plugins :
                 Conserves(accepted'[q], queue'[q], taken'[q], Pending(q)')
  BY DEF NothingLost, Conserves
<1>4. ASSUME UNCHANGED Way, \A q \in Plugins : Pending(q)' = Pending(q)
      PROVE  \A q \in Plugins : Conserves(accepted'[q], queue'[q], taken'[q], Pending(q)')
  BY <1>2, <1>4 DEF Way
<1>5. ASSUME NEW c \in Clients, ClientParamCall(c) \/ Cq(c)
      PROVE  \A q \in Plugins : Conserves(accepted'[q], queue'[q], taken'[q], Pending(q)')
  <2>1. ASSUME NEW p \in Plugins, NEW ch \in Changes,
               accepted' = [accepted EXCEPT ![p] = Append(accepted[p], ch)],
               UNCHANGED <<queue, taken>>,
               \A q \in Plugins : /\ Pending(q) = <<>>
                                 /\ Pending(q)' = IF q = p THEN <<ch>> ELSE <<>>
        PROVE  \A q \in Plugins : Conserves(accepted'[q], queue'[q], taken'[q], Pending(q)')
    BY <1>1, <1>2, <2>1, AcceptConserves
  <2>2. ASSUME NEW p \in Plugins, NEW ch \in Changes,
               queue' = [queue EXCEPT ![p] = Append(queue[p], ch)],
               UNCHANGED <<accepted, taken>>,
               \A q \in Plugins : /\ Pending(q)' = <<>>
                                 /\ Pending(q) = IF q = p THEN <<ch>> ELSE <<>>
        PROVE  \A q \in Plugins : Conserves(accepted'[q], queue'[q], taken'[q], Pending(q)')
    BY <1>1, <1>2, <2>2, PushConserves
  <2> QED
    BY <1>4, <1>5, <2>1, <2>2, CqEffect
<1>6. ASSUME NEW p \in Plugins,
             RemovePlugin(p) \/ Block(p) \/ \E id \in Automated : HostEvent(p, id)
      PROVE  \A q \in Plugins : Conserves(accepted'[q], queue'[q], taken'[q], Pending(q)')
  <2>1. UNCHANGED <<accepted, last>> /\ \A q \in Plugins : Pending(q)' = Pending(q)
    BY <1>6, AudioEffect
  <2>2. CASE UNCHANGED <<queue, taken>>
    BY <1>4, <2>1, <2>2 DEF Way
  <2>3. CASE /\ queue[p] # <<>> /\ queue' = [queue EXCEPT ![p] = Tail(@)]
             /\ taken' = [taken EXCEPT ![p] = @ + 1]
    <3>1. Len(Pending(p)) \in Nat
      BY DEF Pending
    <3>2. Conserves(accepted[p], Tail(queue[p]), taken[p] + 1, Pending(p))
      BY <1>1, <1>2, <2>3, <3>1, PopConserves
    <3> QED
      BY <1>1, <1>2, <2>1, <2>3, <3>2
  <2> QED
    BY <1>6, <2>2, <2>3, AudioEffect
<1>7. CASE UNCHANGED vars
  <2>1. UNCHANGED Way /\ UNCHANGED <<cq, call>>
    BY <1>7 DEF vars, cqVars, audioVars, Way
  <2>2. \A q \in Plugins : Pending(q)' = Pending(q)
    BY <2>1 DEF Pending
  <2> QED
    BY <1>4, <2>1, <2>2
<1> QED
  BY <1>5, <1>6, <1>7 DEF Next

\* Newer() is a strict order on stamps.
LEMMA NewerOrder ==
  ASSUME NEW a \in Int \X Int, NEW b \in Int \X Int, NEW c \in Int \X Int
  PROVE  /\ ~Newer(a, a) /\ (Newer(a, b) => ~Newer(b, a))
         /\ Newer(a, b) /\ ~Newer(c, b) => Newer(a, c)
  BY DEF Newer

LEMMA SortedStep == ASSUME IInv, [Next]_vars PROVE StampsGrow'
<1> USE DEF IInv
<1>1. accepted \in [Plugins -> Seq(Changes)] /\ last \in [Plugins -> Int \X Int]
  BY DEF TypeOK
<1>2. CASE UNCHANGED <<accepted, last>>
  BY <1>2 DEF StampsGrow
<1>3. ASSUME NEW p \in Plugins, NEW ch \in Changes, Newer(ch.stamp, last[p]),
             last' = [last EXCEPT ![p] = ch.stamp],
             accepted' = [accepted EXCEPT ![p] = Append(accepted[p], ch)]
      PROVE  StampsGrow'
  <2> DEFINE acc == accepted[p] new == Append(acc, ch)
  <2>1. acc \in Seq(Changes) /\ new \in Seq(Changes) /\ Len(new) = Len(acc) + 1
    BY <1>1
  <2>2. new[Len(new)] = ch /\ \A i \in 1 .. Len(acc) : new[i] = acc[i]
    BY <2>1
  <2>3. \A i \in 1 .. Len(acc) :
          /\ acc[i].stamp \in Int \X Int /\ ~Newer(acc[i].stamp, last[p])
          /\ \A j \in i + 1 .. Len(acc) : Newer(acc[j].stamp, acc[i].stamp)
    <3>1. \A i \in 1 .. Len(acc) : acc[i] \in Changes
      BY <2>1
    <3>2. \A i \in 1 .. Len(acc) : acc[i].stamp \in Int \X Int
      BY <3>1 DEF Changes
    <3> QED
      BY <3>2 DEF StampsGrow
  <2>4. ch.stamp \in Int \X Int /\ last[p] \in Int \X Int
    BY <1>1 DEF Changes
  <2>5. \A i \in 1 .. Len(acc) : Newer(ch.stamp, acc[i].stamp)
    <3> TAKE i \in 1 .. Len(acc)
    <3>1. acc[i].stamp \in Int \X Int /\ ~Newer(acc[i].stamp, last[p])
      BY <2>3
    <3> QED
      BY <1>3, <2>4, <3>1, NewerOrder
  <2>6. \A i \in 1 .. Len(acc) : ~Newer(acc[i].stamp, ch.stamp)
    BY <2>3, <2>4, <2>5, NewerOrder
  <2>7. \A i \in 1 .. Len(new) :
          /\ ~Newer(new[i].stamp, ch.stamp)
          /\ \A j \in i + 1 .. Len(new) : Newer(new[j].stamp, new[i].stamp)
    BY <2>1, <2>2, <2>3, <2>4, <2>5, <2>6, NewerOrder
  <2>8. accepted'[p] = new /\ last'[p] = ch.stamp
        /\ \A q \in Plugins \ {p} : accepted'[q] = accepted[q] /\ last'[q] = last[q]
    BY <1>1, <1>3
  <2> HIDE DEF new, acc
  <2> QED
    BY <2>7, <2>8 DEF StampsGrow
<1> QED
  <2>1. ASSUME NEW c \in Clients, ClientParamCall(c) \/ Cq(c) PROVE StampsGrow'
    BY <1>2, <1>3, <2>1, CqEffect DEF Way
  <2>2. ASSUME NEW p \in Plugins,
               RemovePlugin(p) \/ Block(p) \/ \E id \in Automated : HostEvent(p, id)
        PROVE  StampsGrow'
    BY <1>2, <2>2, AudioEffect
  <2>3. CASE UNCHANGED vars
    BY <1>2, <2>3 DEF vars, cqVars
  <2> QED
    BY <2>1, <2>2, <2>3 DEF Next

-----------------------------------------------------------------------------
(* The values of the parameters.                                           *)

\* One value's part of ValueIsNewest: v is the newest of parameter id after
\* the first n changes of acc.
NewestOf(acc, n, v, id) ==
  \/ /\ FromClient(v)
     /\ \E i \in 1 .. n : acc[i] = v /\ \A j \in i + 1 .. n : acc[j].param # id
  \/ ~FromClient(v) /\ \A j \in v.done + 1 .. n : acc[j].param # id

LEMMA Newest ==
  ValueIsNewest <=>
    \A p \in Plugins, id \in Params : NewestOf(accepted[p], taken[p], value[p][id], id)
  BY DEF ValueIsNewest, NewestOf, TakenAfter

\* What is accepted later does not matter to what was taken before.
LEMMA AppendNewest ==
  ASSUME NEW acc \in Seq(Changes), NEW ch \in Changes, NEW n \in Nat, n <= Len(acc),
         NEW v \in Changes \union HostValues, NEW id, NewestOf(acc, n, v, id)
  PROVE  NewestOf(Append(acc, ch), n, v, id)
<1> DEFINE new == Append(acc, ch)
<1>1. \A i \in 1 .. n : new[i] = acc[i]
  OBVIOUS
<1>2. ~FromClient(v) => v.done \in Nat
  BY DEF FromClient, Changes, HostValues
<1> HIDE DEF new
<1> QED
  BY <1>1, <1>2 DEF NewestOf

LEMMA TakeNewest ==
  ASSUME NEW acc, NEW n \in Nat, NEW v \in Changes \union HostValues, NEW id,
         acc[n + 1].param # id, NewestOf(acc, n, v, id)
  PROVE  NewestOf(acc, n + 1, v, id)
<1>1. ~FromClient(v) => v.done \in Nat
  BY DEF FromClient, Changes, HostValues
<1> QED
  BY <1>1 DEF NewestOf

LEMMA NewestStep == ASSUME IInv, [Next]_vars PROVE ValueIsNewest'
<1> DEFINE Values == Changes \union HostValues
<1> USE DEF IInv
<1>1. /\ accepted \in [Plugins -> Seq(Changes)] /\ queue \in [Plugins -> Seq(Changes)]
      /\ taken \in [Plugins -> Nat] /\ value \in [Plugins -> [Params -> Values]]
  BY DEF TypeOK
<1>2. \A p \in Plugins, id \in Params : NewestOf(accepted[p], taken[p], value[p][id], id)
  BY Newest
<1>3. SUFFICES \A q \in Plugins, id \in Params :
                 NewestOf(accepted'[q], taken'[q], value'[q][id], id)
  BY DEF ValueIsNewest, NewestOf, TakenAfter
<1>4. \A p \in Plugins : taken[p] <= Len(accepted[p])
  <2> TAKE p \in Plugins
  <2>1. Len(Pending(p)) \in Nat /\ Len(queue[p]) \in Nat /\ Len(accepted[p]) \in Nat
    BY <1>1 DEF Pending
  <2>2. taken[p] + Len(queue[p]) + Len(Pending(p)) = Len(accepted[p])
    BY DEF NothingLost
  <2> QED
    BY <1>1, <2>1, <2>2
<1> HIDE DEF Values
<1>5. CASE UNCHANGED <<accepted, taken, value>>
  BY <1>2, <1>5
<1>6. ASSUME NEW c \in Clients, ClientParamCall(c) \/ Cq(c)
      PROVE  \A q \in Plugins, id \in Params :
               NewestOf(accepted'[q], taken'[q], value'[q][id], id)
  <2>1. UNCHANGED <<taken, value>>
    BY <1>6 DEF Cq, ClientParamCall, HandleEvent, Discard, Accept, Push, Finish, audioVars
  <2>2. CASE accepted' = accepted
    BY <1>5, <2>1, <2>2
  <2>3. ASSUME NEW p \in Plugins, NEW ch \in Changes,
               accepted' = [accepted EXCEPT ![p] = Append(accepted[p], ch)]
        PROVE  \A q \in Plugins, id \in Params :
                 NewestOf(accepted'[q], taken'[q], value'[q][id], id)
    <3> TAKE q \in Plugins, id \in Params
    <3>1. value[q][id] \in Values
      BY <1>1
    <3>2. NewestOf(Append(accepted[q], ch), taken[q], value[q][id], id)
      BY <1>1, <1>2, <1>4, <3>1, AppendNewest DEF Values
    <3>3. accepted'[q] = accepted[q] \/ accepted'[q] = Append(accepted[q], ch)
      BY <1>1, <2>3
    <3> QED
      BY <1>2, <2>1, <3>2, <3>3
  <2> QED
    BY <1>6, <2>2, <2>3, CqEffect DEF Way
<1>7. ASSUME NEW p \in Plugins, Pop(p)
      PROVE  \A q \in Plugins, id \in Params :
               NewestOf(accepted'[q], taken'[q], value'[q][id], id)
  <2> DEFINE ch == Head(queue[p]) n == taken[p]
  <2>1. /\ accepted' = accepted /\ taken' = [taken EXCEPT ![p] = n + 1]
        /\ queue[p] # <<>>
        /\ \/ ch.param \in Params /\ value' = [value EXCEPT ![p][ch.param] = ch]
           \/ ch.param \notin Params /\ value' = value
    BY <1>7 DEF Pop, SetsValue, cqVars
  <2>2. ch = accepted[p][n + 1]
    <3>1. 1 \in 1 .. Len(queue[p]) /\ ch = queue[p][1]
      BY <1>1, <2>1
    <3> QED
      BY <3>1 DEF NothingLost
  <2>3. n \in Nat /\ ch \in Changes /\ FromClient(ch)
    <3>1. ch \in Changes
      BY <1>1, <2>1, TailType
    <3> QED
      BY <1>1, <3>1 DEF FromClient, Changes
  <2>4. NewestOf(accepted[p], n + 1, ch, ch.param)
    BY <2>2, <2>3 DEF NewestOf
  <2>5. \A id \in Params \ {ch.param} :
          NewestOf(accepted[p], n + 1, value[p][id], id)
    <3> TAKE id \in Params \ {ch.param}
    <3>1. value[p][id] \in Values /\ accepted[p][n + 1].param # id
      BY <1>1, <2>2
    <3> QED
      BY <1>2, <2>3, <3>1, TakeNewest DEF Values
  <2>6. ch \in Values
    BY <2>3 DEF Values
  <2> HIDE DEF ch
  <2>7. \A q \in Plugins, id \in Params :
          value'[q][id] = IF q = p /\ id = ch.param THEN ch ELSE value[q][id]
    BY <1>1, <2>1, <2>6, SetEntry
  <2>8. \A q \in Plugins : taken'[q] = IF q = p THEN n + 1 ELSE taken[q]
    BY <1>1, <2>1
  <2> QED
    BY <1>2, <2>1, <2>4, <2>5, <2>7, <2>8
<1>8. ASSUME NEW p \in Plugins, NEW k \in Automated, HostEvent(p, k)
      PROVE  \A q \in Plugins, id \in Params :
               NewestOf(accepted'[q], taken'[q], value'[q][id], id)
  <2> DEFINE v == [by |-> "host", done |-> taken[p]]
  <2>1. UNCHANGED <<accepted, taken>> /\ value' = [value EXCEPT ![p][k] = v]
    BY <1>8 DEF HostEvent, cqVars
  <2>2. ~FromClient(v) /\ v.done = taken[p] /\ v \in HostValues
    BY <1>1 DEF FromClient, HostValues
  <2> HIDE DEF v
  <2>3. v \in Values
    BY <2>2 DEF Values
  <2>4. NewestOf(accepted[p], taken[p], v, k)
    BY <1>1, <2>2 DEF NewestOf
  <2>5. \A q \in Plugins, id \in Params :
          value'[q][id] = IF q = p /\ id = k THEN v ELSE value[q][id]
    BY <1>1, <2>1, <2>3, SetEntry, ParamAssumption
  <2> QED
    BY <1>2, <2>1, <2>4, <2>5
<1>9. ASSUME NEW p \in Plugins,
             \/ RemovePlugin(p) \/ Process(p) \/ TryPush(p) \/ Refuse(p)
             \/ Drained(p) \/ EndBlock(p)
      PROVE  UNCHANGED <<accepted, taken, value>>
  BY <1>9 DEF RemovePlugin, Process, TryPush, Refuse, Drained, EndBlock, cqVars, audioVars
<1>10. CASE UNCHANGED vars
  BY <1>5, <1>10 DEF vars, cqVars, audioVars
<1> QED
  BY <1>5, <1>6, <1>7, <1>8, <1>9, <1>10 DEF Next, Block

-----------------------------------------------------------------------------
(* What the host knows.                                                    *)

\* One plugin's part of HostAgrees and Telling.
Agrees(a, v, h, r) ==
  /\ \A id \in Params : h[id] = v[id] \/ id \in r \/ (a.at = "tell" /\ a.ch.param = id)
  /\ a.at = "tell" => v[a.ch.param] = a.ch

LEMMA Agreement ==
  HostAgrees /\ Telling <=>
    \A p \in Plugins : Agrees(audio[p], value[p], host[p], refused[p])
  BY DEF HostAgrees, Telling, Agrees

LEMMA HostStep == ASSUME IInv, [Next]_vars PROVE HostAgrees' /\ Telling'
<1> DEFINE Values == Changes \union HostValues
           Places == {"idle", "drain", "tell", "events", "cut"}
<1> USE DEF IInv
<1>1. /\ queue \in [Plugins -> Seq(Changes)]
      /\ audio \in [Plugins -> [at : Places, begun : Int, ch : Values]]
      /\ \A q \in Plugins : audio[q].at = "tell" => audio[q].ch.param \in Params
      /\ value \in [Plugins -> [Params -> Values]]
      /\ host \in [Plugins -> [Params -> Values]]
      /\ refused \in [Plugins -> SUBSET Params]
  BY DEF TypeOK
<1>2. \A p \in Plugins : Agrees(audio[p], value[p], host[p], refused[p])
  BY Agreement
<1>3. SUFFICES \A q \in Plugins : Agrees(audio'[q], value'[q], host'[q], refused'[q])
  BY DEF HostAgrees, Telling, Agrees
<1> HIDE DEF Values, Places
<1>4. CASE UNCHANGED <<audio, value, host, refused>>
  BY <1>2, <1>4
<1>5. ASSUME NEW p \in Plugins, NEW q \in Plugins \ {p},
             Block(p) \/ \E id \in Automated : HostEvent(p, id)
      PROVE  /\ audio'[q] = audio[q] /\ value'[q] = value[q]
             /\ host'[q] = host[q] /\ refused'[q] = refused[q]
  BY <1>1, <1>5 DEF Block, Process, Pop, TryPush, Refuse, Drained, EndBlock, HostEvent,
     Goes, SetsValue, Tells, audioVars
<1>6. ASSUME NEW p \in Plugins, Process(p) \/ Drained(p) \/ EndBlock(p)
      PROVE  Agrees(audio'[p], value'[p], host'[p], refused'[p])
  <2>1. /\ audio[p].at # "tell" /\ audio'[p].at # "tell"
        /\ UNCHANGED <<value, host, refused>>
    BY <1>1, <1>6 DEF Process, Drained, EndBlock, HostEvents, Goes, In, NotProcessing
  <2> QED
    BY <1>2, <2>1 DEF Agrees
<1>7. ASSUME NEW p \in Plugins, Pop(p)
      PROVE  Agrees(audio'[p], value'[p], host'[p], refused'[p])
  <2> DEFINE ch == Head(queue[p])
  <2>1. /\ audio[p].at = "drain" /\ UNCHANGED <<host, refused>>
        /\ \/ /\ ch.param \in Params /\ value' = [value EXCEPT ![p][ch.param] = ch]
              /\ audio' = [audio EXCEPT ![p] = In("tell", audio[p].begun, ch)]
           \/ UNCHANGED <<value, audio>>
    BY <1>7 DEF Pop, SetsValue
  <2>2. ch \in Values
    BY <1>1, <1>7, TailType DEF Pop, Values
  <2> HIDE DEF ch
  <2>3. CASE UNCHANGED <<value, audio>>
    BY <1>2, <2>1, <2>3
  <2>4. CASE /\ ch.param \in Params /\ value' = [value EXCEPT ![p][ch.param] = ch]
             /\ audio' = [audio EXCEPT ![p] = In("tell", audio[p].begun, ch)]
    <3>1. \A id \in Params : value'[p][id] = IF id = ch.param THEN ch ELSE value[p][id]
      BY <1>1, <2>2, <2>4, SetEntry
    <3>2. audio'[p].at = "tell" /\ audio'[p].ch = ch
      BY <1>1, <2>4 DEF In
    <3> QED
      BY <1>2, <2>1, <2>4, <3>1, <3>2 DEF Agrees
  <2> QED
    BY <2>1, <2>3, <2>4
<1>8. ASSUME NEW p \in Plugins, TryPush(p)
      PROVE  Agrees(audio'[p], value'[p], host'[p], refused'[p])
  <2> DEFINE ch == audio[p].ch
  <2>1. /\ audio[p].at = "tell" /\ value' = value
        /\ host' = [host EXCEPT ![p][ch.param] = ch]
        /\ refused'[p] = refused[p] \ {ch.param} /\ audio'[p].at = "drain"
    BY <1>1, <1>8 DEF TryPush, Tells, Goes, In
  <2>2. ch.param \in Params /\ ch \in Values /\ value[p][ch.param] = ch
    BY <1>1, <1>2, <2>1 DEF Agrees
  <2>3. \A id \in Params : id # ch.param => host[p][id] = value[p][id] \/ id \in refused[p]
    BY <1>2, <2>1 DEF Agrees
  <2> HIDE DEF ch
  <2>4. \A id \in Params : host'[p][id] = IF id = ch.param THEN ch ELSE host[p][id]
    BY <1>1, <2>1, <2>2, SetEntry
  <2> QED
    BY <2>1, <2>2, <2>3, <2>4 DEF Agrees
<1>9. ASSUME NEW p \in Plugins, Refuse(p)
      PROVE  Agrees(audio'[p], value'[p], host'[p], refused'[p])
  <2>1. /\ audio[p].at = "tell" /\ UNCHANGED <<value, host>>
        /\ refused'[p] = refused[p] \union {audio[p].ch.param} /\ audio'[p].at = "cut"
    BY <1>1, <1>9 DEF Refuse, Goes, In
  <2> QED
    BY <1>2, <2>1 DEF Agrees
<1>10. ASSUME NEW p \in Plugins, NEW k \in Automated, HostEvent(p, k)
       PROVE  Agrees(audio'[p], value'[p], host'[p], refused'[p])
  <2> DEFINE v == [by |-> "host", done |-> taken[p]]
  <2>1. /\ value' = [value EXCEPT ![p][k] = v] /\ host' = [host EXCEPT ![p][k] = v]
        /\ refused' = [refused EXCEPT ![p] = @ \ {k}]
        /\ audio' = audio /\ audio[p].at \in {"events", "cut"}
    BY <1>10 DEF HostEvent, HostEvents
  <2>2. v \in Values /\ k \in Params
    BY ParamAssumption DEF Values, HostValues, TypeOK
  <2> HIDE DEF v
  <2>3. \A id \in Params : /\ value'[p][id] = IF id = k THEN v ELSE value[p][id]
                          /\ host'[p][id] = IF id = k THEN v ELSE host[p][id]
    BY <1>1, <2>1, <2>2, SetEntry
  <2>4. refused'[p] = refused[p] \ {k}
    BY <1>1, <2>1
  <2> QED
    BY <1>2, <2>1, <2>3, <2>4 DEF Agrees
<1>11. ASSUME \/ UNCHANGED vars
              \/ \E c \in Clients : ClientParamCall(c) \/ Cq(c)
              \/ \E p \in Plugins : RemovePlugin(p)
       PROVE  UNCHANGED <<audio, value, host, refused>>
  BY <1>11 DEF vars, audioVars, Cq, ClientParamCall, HandleEvent, Discard, Accept, Push,
     Finish, RemovePlugin
<1>12. ASSUME NEW p \in Plugins, Block(p) \/ \E id \in Automated : HostEvent(p, id)
       PROVE  \A q \in Plugins : Agrees(audio'[q], value'[q], host'[q], refused'[q])
  <2>1. Agrees(audio'[p], value'[p], host'[p], refused'[p])
    BY <1>6, <1>7, <1>8, <1>9, <1>10, <1>12 DEF Block
  <2> QED
    BY <1>2, <1>5, <1>12, <2>1
<1> QED
  BY <1>4, <1>11, <1>12 DEF Next

-----------------------------------------------------------------------------
(* The theorems.                                                           *)

LEMMA IInvStep == ASSUME IInv, [Next]_vars PROVE IInv'
<1>1. TypeOK' /\ Serves'
  <2>1. CASE UNCHANGED vars
    BY <2>1 DEF IInv, TypeOK, Serves, vars, cqVars, audioVars
  <2> QED
    BY <2>1, CqType, AudioType DEF Next
<1> QED
  BY <1>1, LostStep, SortedStep, NewestStep, HostStep DEF IInv

THEOREM Inductive == Spec => []IInv
<1>1. Init => IInv
  BY InitIInv
<1>2. IInv /\ [Next]_vars => IInv'
  BY IInvStep
<1> QED
  BY <1>1, <1>2, PTL DEF Spec

\* The state of ClientParamCall, the queue and process() has its type.
THEOREM TypeCorrect == Spec => []TypeOK
<1>1. IInv => TypeOK
  BY DEF IInv
<1> QED
  BY <1>1, Inductive, PTL

\* Between pushClientParam() and processGuiEvents() no change is lost, doubled
\* or overtaken.
THEOREM LossCorrect == Spec => []NothingLost
<1>1. IInv => NothingLost
  BY DEF IInv
<1> QED
  BY <1>1, Inductive, PTL

\* A parameter has the value of whoever spoke last, client or host.
THEOREM ValueCorrect == Spec => []ValueIsNewest
<1>1. IInv => ValueIsNewest
  BY DEF IInv
<1> QED
  BY <1>1, Inductive, PTL

\* The host knows the value of every parameter, except where it refused to.
THEOREM HostCorrect == Spec => []HostAgrees
<1>1. IInv => HostAgrees
  BY DEF IInv
<1> QED
  BY <1>1, Inductive, PTL

\* A value of a client gives way to newer values of clients only: the change
\* taken from the queue comes later in `accepted`, along which stamps grow.
LEMMA NewerStep ==
  ASSUME IInv, [Next]_vars, NEW p \in Plugins, NEW id \in Params,
         value'[p][id] # value[p][id], FromClient(value[p][id]), FromClient(value'[p][id])
  PROVE  Newer(value'[p][id].stamp, value[p][id].stamp)
<1> USE DEF IInv
<1>1. /\ accepted \in [Plugins -> Seq(Changes)] /\ queue \in [Plugins -> Seq(Changes)]
      /\ taken \in [Plugins -> Nat]
      /\ value \in [Plugins -> [Params -> Changes \union HostValues]]
  BY DEF TypeOK
<1>2. \A q \in Plugins, k \in Automated :
        HostEvent(q, k) => q # p \/ k # id
  <2> SUFFICES ASSUME HostEvent(p, id) PROVE FALSE
    BY ParamAssumption
  <2>1. value' = [value EXCEPT ![p][id] = [by |-> "host", done |-> taken[p]]]
    BY DEF HostEvent
  <2>2. [by |-> "host", done |-> taken[p]] \in Changes \union HostValues
    BY <1>1 DEF HostValues
  <2>3. value'[p][id] = [by |-> "host", done |-> taken[p]]
    BY <1>1, <2>1, <2>2, SetEntry
  <2> QED
    BY <2>3 DEF FromClient
<1>3. Pop(p)
  <2>1. ASSUME NEW q \in Plugins, NEW k \in Automated, HostEvent(q, k) PROVE FALSE
    BY <1>1, <1>2, <2>1 DEF HostEvent
  <2>2. ASSUME NEW q \in Plugins, Pop(q), q # p PROVE FALSE
    BY <1>1, <2>2 DEF Pop, SetsValue
  <2>3. ASSUME value' = value PROVE FALSE
    BY <2>3
  <2> QED
    BY <2>1, <2>2, <2>3 DEF Next, Cq, Block, vars, audioVars, ClientParamCall, HandleEvent,
       Discard, Accept, Push, Finish, RemovePlugin, Process, TryPush, Refuse, Drained, EndBlock
<1> DEFINE ch == Head(queue[p]) n == taken[p]
<1>4. queue[p] # <<>> /\ ch \in Changes
  BY <1>1, <1>3, TailType DEF Pop
<1>5. value'[p][id] = ch
  <2>1. value' = [value EXCEPT ![p][ch.param] = ch] /\ ch.param \in Params
    BY <1>3 DEF Pop, SetsValue
  <2> HIDE DEF ch
  <2> QED
    BY <1>1, <1>4, <2>1, SetEntry
<1>6. ch = accepted[p][n + 1] /\ n + 1 \in 1 .. Len(accepted[p])
  <2>1. 1 \in 1 .. Len(queue[p]) /\ ch = queue[p][1]
    BY <1>1, <1>4
  <2>2. Len(Pending(p)) \in Nat
    BY DEF Pending
  <2>3. n + Len(queue[p]) + Len(Pending(p)) = Len(accepted[p])
    BY DEF NothingLost
  <2>4. Len(accepted[p]) \in Nat /\ Len(queue[p]) \in Nat /\ n \in Nat
    BY <1>1
  <2>5. ch = accepted[p][n + 1]
    BY <2>1 DEF NothingLost
  <2> HIDE DEF ch, n
  <2> QED
    BY <2>1, <2>2, <2>3, <2>4, <2>5
<1>7. PICK i \in 1 .. n : accepted[p][i] = value[p][id]
  BY DEF ValueIsNewest
<1>8. i \in 1 .. Len(accepted[p]) /\ n + 1 \in i + 1 .. Len(accepted[p])
  BY <1>1, <1>6, <1>7
<1>9. Newer(accepted[p][n + 1].stamp, accepted[p][i].stamp)
  BY <1>8 DEF StampsGrow
<1> QED
  BY <1>5, <1>6, <1>7, <1>9

\* However the calls of clients overtake each other, no older value of a
\* client replaces a newer one.
THEOREM NewerCorrect == Spec => NoOlderValue
<1>1. ASSUME IInv, [Next]_vars
      PROVE  [\A p \in Plugins, id \in Params :
                LET old == value[p][id] new == value'[p][id] IN
                new # old /\ FromClient(old) /\ FromClient(new)
                  => Newer(new.stamp, old.stamp)]_vars
  BY <1>1, NewerStep
<1> QED
  BY <1>1, Inductive, PTL DEF Spec, NoOlderValue

-----------------------------------------------------------------------------
(* The host speaks last, where it refuses nothing in the block.            *)

\* What was queued when the block began is taken or still in the queue, which
\* grows at its other end; when the events come the queue has been empty.
Covered ==
  \A p \in Plugins :
    /\ audio[p].at \in {"drain", "tell"} => audio[p].begun <= taken[p] + Len(queue[p])
    /\ audio[p].at = "events" => audio[p].begun <= taken[p]

LEMMA CoveredStep ==
  ASSUME IInv, Covered, [Next]_vars PROVE Covered'
<1> USE DEF IInv
<1>1. /\ queue \in [Plugins -> Seq(Changes)] /\ taken \in [Plugins -> Nat]
      /\ accepted \in [Plugins -> Seq(Changes)]
      /\ \A p \in Plugins : audio[p].begun \in Int
      /\ \E S : audio \in [Plugins -> S]
  BY DEF TypeOK
<1>2. \A p \in Plugins : Queued(p) = taken[p] + Len(queue[p])
  <2> TAKE p \in Plugins
  <2>1. Len(Pending(p)) \in Nat
    BY DEF Pending
  <2>2. /\ Len(accepted[p]) \in Nat /\ Len(queue[p]) \in Nat /\ taken[p] \in Nat
        /\ taken[p] + Len(queue[p]) + Len(Pending(p)) = Len(accepted[p])
    BY <1>1 DEF NothingLost
  <2> QED
    BY <2>1, <2>2 DEF Queued
<1>3. CASE UNCHANGED <<audio, queue, taken>>
  BY <1>3 DEF Covered
<1>4. ASSUME NEW c \in Clients, ClientParamCall(c) \/ Cq(c) PROVE Covered'
  <2>1. UNCHANGED <<audio, taken>>
    BY <1>4 DEF Cq, ClientParamCall, HandleEvent, Discard, Accept, Push, Finish, audioVars
  <2>2. \A q \in Plugins : Len(queue'[q]) >= Len(queue[q]) /\ Len(queue'[q]) \in Nat
    <3>1. ASSUME NEW p \in Plugins, NEW ch \in Changes,
                 queue' = [queue EXCEPT ![p] = Append(queue[p], ch)]
          PROVE  \A q \in Plugins : Len(queue'[q]) >= Len(queue[q]) /\ Len(queue'[q]) \in Nat
      <4>1. Len(Append(queue[p], ch)) = Len(queue[p]) + 1 /\ Len(queue[p]) \in Nat
        BY <1>1
      <4>2. \A q \in Plugins :
              queue'[q] = IF q = p THEN Append(queue[p], ch) ELSE queue[q]
        BY <1>1, <3>1
      <4>3. \A q \in Plugins : Len(queue[q]) \in Nat
        BY <1>1
      <4> DEFINE new == Append(queue[p], ch)
      <4> HIDE DEF new
      <4>4. \A q \in Plugins : queue'[q] = new \/ queue'[q] = queue[q]
        BY <4>2 DEF new
      <4>5. \A q \in Plugins : queue'[q] # queue[q] => q = p /\ queue'[q] = new
        BY <4>2 DEF new
      <4>6. Len(new) = Len(queue[p]) + 1 /\ Len(queue[p]) \in Nat
        BY <4>1 DEF new
      <4> QED
        BY <4>3, <4>4, <4>5, <4>6
    <3>2. CASE queue' = queue
      BY <1>1, <3>2
    <3> QED
      BY <1>4, <3>1, <3>2, CqEffect DEF Way
  <2> QED
    BY <1>1, <2>1, <2>2 DEF Covered
<1>5. ASSUME NEW p \in Plugins, Pop(p) PROVE Covered'
  <2>1. /\ queue[p] # <<>> /\ queue' = [queue EXCEPT ![p] = Tail(queue[p])]
        /\ taken' = [taken EXCEPT ![p] = taken[p] + 1] /\ audio[p].at = "drain"
    BY <1>5 DEF Pop
  <2>2. Len(Tail(queue[p])) = Len(queue[p]) - 1 /\ Len(queue[p]) \in Nat
    BY <1>1, <2>1, TailType
  <2>3. taken'[p] + Len(queue'[p]) = taken[p] + Len(queue[p])
    BY <1>1, <2>1, <2>2
  <2>4. audio'[p].begun = audio[p].begun /\ audio'[p].at \in {"drain", "tell"}
    BY <1>1, <1>5, <2>1 DEF Pop, In
  <2>5. \A q \in Plugins \ {p} :
          queue'[q] = queue[q] /\ taken'[q] = taken[q] /\ audio'[q] = audio[q]
    BY <1>1, <1>5, <2>1 DEF Pop
  <2> QED
    BY <2>1, <2>3, <2>4, <2>5 DEF Covered
<1>6. ASSUME NEW p \in Plugins,
             Process(p) \/ TryPush(p) \/ Drained(p) \/ EndBlock(p)
      PROVE  Covered'
  <2>1. UNCHANGED <<queue, taken>> /\ \A q \in Plugins \ {p} : audio'[q] = audio[q]
    BY <1>1, <1>6 DEF Process, TryPush, Drained, EndBlock, Goes
  <2>2. CASE Process(p)
    <3>1. audio'[p].at = "drain" /\ audio'[p].begun = Queued(p)
      BY <1>1, <2>2 DEF Process, In
    <3>2. Queued(p) \in Int /\ Queued(p) <= taken[p] + Len(queue[p])
      BY <1>1, <1>2
    <3> QED
      BY <2>1, <3>1, <3>2 DEF Covered
  <2>3. CASE TryPush(p)
    <3>1. audio[p].at = "tell" /\ audio'[p].begun = audio[p].begun /\ audio'[p].at = "drain"
      BY <1>1, <2>3 DEF TryPush, Goes, In
    <3> QED
      BY <1>1, <2>1, <3>1 DEF Covered
  <2>4. CASE Drained(p)
    <3>1. audio[p].begun <= taken[p] + Len(queue[p]) /\ Len(queue[p]) = 0
      BY <2>4 DEF Drained, Empty, Covered
    <3>2. audio'[p].begun = audio[p].begun /\ audio'[p].at = "events"
      BY <1>1, <2>4 DEF Drained, Goes, In
    <3>3. taken[p] \in Nat /\ audio[p].begun \in Int
      BY <1>1
    <3>4. audio'[p].begun <= taken'[p]
      BY <2>1, <3>1, <3>2, <3>3
    <3> QED
      BY <2>1, <3>2, <3>4 DEF Covered
  <2>5. CASE EndBlock(p)
    BY <1>1, <2>1, <2>5 DEF EndBlock, NotProcessing, In, Covered
  <2> QED
    BY <1>6, <2>2, <2>3, <2>4, <2>5
<1>7. ASSUME \/ UNCHANGED vars \/ \E p \in Plugins : RemovePlugin(p)
             \/ \E p \in Plugins, id \in Automated : HostEvent(p, id)
      PROVE  UNCHANGED <<audio, queue, taken>>
  BY <1>7 DEF vars, audioVars, RemovePlugin, HostEvent
<1>8. ASSUME NEW p \in Plugins, Refuse(p) PROVE Covered'
  <2>1. UNCHANGED <<queue, taken>> /\ \A q \in Plugins \ {p} : audio'[q] = audio[q]
    BY <1>1, <1>8 DEF Refuse, Goes
  <2>2. audio'[p].at = "cut"
    BY <1>1, <1>8 DEF Refuse, Goes, In
  <2> QED
    BY <2>1, <2>2 DEF Covered
<1> QED
  BY <1>3, <1>4, <1>5, <1>6, <1>7, <1>8 DEF Next, Block

\* In a block in which the host refuses no event, what was queued before it
\* began is taken before the host's events.
THEOREM HostLastCorrect == Spec => []HostSpeaksLast
<1>1. Init => Covered
  BY DEF Init, Covered, NotProcessing, In
<1>2. IInv /\ IInv' /\ Covered /\ [Next]_vars => Covered'
  BY CoveredStep
<1>3. IInv /\ Covered => HostSpeaksLast
  BY DEF IInv, TypeOK, Covered, HostSpeaksLast
<1> QED
  BY <1>1, <1>2, <1>3, Inductive, PTL DEF Spec
-----------------------------------------------------------------------------
(* The arithmetic of time stamps is exact for all of them, whatever a      *)
(* second is divided into.                                                 *)

LEMMA SecondsPositive == NanosPerSecond \in Nat \ {0}
BY StampAssumption DEF NanosPerSecond

\* A borrow changes the parts of a stamp and not what it means.
LEMMA BorrowExact ==
  ASSUME NEW s \in Int, NEW n \in (-NanosPerSecond) .. (NanosPerSecond - 1)
  PROVE  /\ IsStamp(Borrow(s, n))
         /\ Total(Borrow(s, n)) = s * NanosPerSecond + n
<1> DEFINE N == NanosPerSecond
<1>1. N \in Nat \ {0} BY SecondsPositive
<1>2. (s - 1) * N = s * N - N BY <1>1
<1> HIDE DEF N
<1>3. N = NanosPerSecond BY DEF N
<1>4. CASE n < 0
  <2>1. Borrow(s, n) = <<s - 1, n + N>> BY <1>3, <1>4 DEF Borrow
  <2>2. n + N \in 0 .. N - 1 BY <1>1, <1>3, <1>4
  <2> QED BY <1>1, <1>2, <1>3, <2>1, <2>2 DEF IsStamp, Total
<1>5. CASE ~(n < 0)
  <2>1. Borrow(s, n) = <<s, n>> BY <1>5 DEF Borrow
  <2> QED BY <1>1, <1>3, <1>5, <2>1 DEF IsStamp, Total
<1> QED BY <1>4, <1>5

\* setIfNewer(): comparing field by field is comparing what stamps mean.
THEOREM NewerStampCorrect ==
  \A a, b \in Int \X (0 .. NanosPerSecond - 1) : NewerExact(a, b)
<1> SUFFICES ASSUME NEW a \in Int \X (0 .. NanosPerSecond - 1),
                    NEW b \in Int \X (0 .. NanosPerSecond - 1)
             PROVE  NewerExact(a, b)
    OBVIOUS
<1> DEFINE N == NanosPerSecond
           d == a[1] - b[1]
<1>1. N \in Nat \ {0} BY SecondsPositive
<1>2. a[1] \in Int /\ b[1] \in Int /\ a[2] \in 0 .. N - 1 /\ b[2] \in 0 .. N - 1 OBVIOUS
<1> HIDE DEF N
<1>3. a[1] * N - b[1] * N = d * N BY <1>1, <1>2
<1>4. CASE d > 0
  <2>1. d * N >= N BY <1>1, <1>2, <1>4
  <2> QED BY <1>1, <1>2, <1>3, <1>4, <2>1 DEF NewerExact, Newer, Total, N
<1>5. CASE d = 0 BY <1>1, <1>2, <1>5 DEF NewerExact, Newer, Total, N
<1>6. CASE d < 0
  <2>1. d * N <= -N BY <1>1, <1>2, <1>6
  <2> QED BY <1>1, <1>2, <1>3, <1>6, <2>1 DEF NewerExact, Newer, Total, N
<1> QED BY <1>2, <1>4, <1>5, <1>6

\* delta(): the difference of two stamps, normalised, also when the older
\* one is the newer.
THEOREM DeltaCorrect ==
  \A a, b \in Int \X (0 .. NanosPerSecond - 1) : DeltaExact(a, b)
<1> SUFFICES ASSUME NEW a \in Int \X (0 .. NanosPerSecond - 1),
                    NEW b \in Int \X (0 .. NanosPerSecond - 1)
             PROVE  DeltaExact(a, b)
    OBVIOUS
<1> DEFINE N == NanosPerSecond
<1>1. N \in Nat \ {0} BY SecondsPositive
<1>2. /\ a[1] - b[1] \in Int /\ a[2] - b[2] \in (-N) .. (N - 1)
      /\ a[1] \in Int /\ b[1] \in Int /\ a[2] \in Int /\ b[2] \in Int
    BY <1>1
<1>3. (a[1] - b[1]) * N = a[1] * N - b[1] * N BY <1>1, <1>2
<1>4. /\ IsStamp(Delta(a, b))
      /\ Total(Delta(a, b)) = (a[1] - b[1]) * N + (a[2] - b[2])
    BY <1>2, BorrowExact DEF Delta
<1> HIDE DEF N
<1> QED BY <1>1, <1>2, <1>3, <1>4 DEF DeltaExact, Total, N

\* subtractMilliseconds(): any number of milliseconds that is not negative.
THEOREM SubtractCorrect ==
  \A a \in Int \X (0 .. NanosPerSecond - 1), millis \in Nat : SubtractExact(a, millis)
<1> SUFFICES ASSUME NEW a \in Int \X (0 .. NanosPerSecond - 1), NEW millis \in Nat
             PROVE  SubtractExact(a, millis)
    OBVIOUS
<1> DEFINE M == MillisPerSecond
           K == NanosPerMilli
           q == millis \div M
           r == millis % M
<1>1. M \in Nat \ {0} /\ K \in Nat \ {0} BY StampAssumption
<1>2. q \in Nat /\ r \in 0 .. M - 1 /\ millis = q * M + r BY <1>1
<1>3. a[1] \in Int /\ a[2] \in 0 .. M * K - 1 BY DEF NanosPerSecond
<1> HIDE DEF q, r
<1>4. r * K \in 0 .. M * K - 1
  <2>1. (M - 1 - r) * K >= 0 BY <1>1, <1>2
  <2>2. (M - 1 - r) * K = M * K - K - r * K BY <1>1, <1>2
  <2> QED BY <1>1, <1>2, <2>1, <2>2
<1>5. millis * K = q * (M * K) + r * K BY <1>1, <1>2
<1>6. (a[1] - q) * (M * K) = a[1] * (M * K) - q * (M * K) BY <1>1, <1>2, <1>3
<1>7. /\ IsStamp(SubtractMilliseconds(a, millis))
      /\ Total(SubtractMilliseconds(a, millis)) = (a[1] - q) * (M * K) + (a[2] - r * K)
  <2>1. a[1] - q \in Int /\ a[2] - r * K \in (-NanosPerSecond) .. (NanosPerSecond - 1)
      BY <1>1, <1>2, <1>3, <1>4 DEF NanosPerSecond
  <2>2. SubtractMilliseconds(a, millis) = Borrow(a[1] - q, a[2] - r * K)
      BY DEF SubtractMilliseconds, q, r
  <2> QED BY <2>1, <2>2, BorrowExact DEF NanosPerSecond
<1>8. Total(a) = a[1] * (M * K) + a[2] BY DEF Total, NanosPerSecond
<1> QED
  <2> DEFINE A == a[1] * (M * K)
             Q == q * (M * K)
             R == r * K
  <2>1. A \in Int /\ Q \in Int /\ R \in Int /\ a[2] \in Int BY <1>1, <1>2, <1>3
  <2>2. Total(SubtractMilliseconds(a, millis)) = A - Q + (a[2] - R) BY <1>6, <1>7
  <2>2a. Total(a) = A + a[2] /\ millis * K = Q + R BY <1>5, <1>8
  <2> HIDE DEF A, Q, R
  <2>3. Total(a) - millis * K = A + a[2] - (Q + R) BY <2>1, <2>2a
  <2>4. Total(SubtractMilliseconds(a, millis)) = Total(a) - millis * K BY <2>1, <2>2, <2>3
  <2> QED BY <1>7, <2>4 DEF SubtractExact

\* All three, for the stamps of any range: what the run checks of a small one.
THEOREM StampCorrect == StampExact
<1>1. \A st \in SmallStamps : st \in Int \X (0 .. NanosPerSecond - 1)
  <2> SUFFICES ASSUME NEW n \in -MaxStamp .. MaxStamp
               PROVE  <<n \div NanosPerSecond, n % NanosPerSecond>>
                        \in Int \X (0 .. NanosPerSecond - 1)
      BY DEF SmallStamps
  <2> QED BY SecondsPositive, StampAssumption
<1>2. 0 .. MaxStamp \subseteq Nat BY StampAssumption
<1> QED BY <1>1, <1>2, NewerStampCorrect, DeltaCorrect, SubtractCorrect DEF StampExact

\* pushClientParam() accepts changes that grow in time, whatever the clients'
\* stamps are.
THEOREM StampsCorrect == Spec => []StampsExact
<1>1. IInv => StampsExact
  <2> SUFFICES ASSUME IInv, NEW p \in Plugins, NEW i \in DOMAIN accepted[p],
                      NEW j \in DOMAIN accepted[p], i < j,
                      IsStamp(accepted[p][i].stamp), IsStamp(accepted[p][j].stamp)
               PROVE  Total(accepted[p][i].stamp) < Total(accepted[p][j].stamp)
      BY StampCorrect DEF StampsExact
  <2> DEFINE a == accepted[p][i].stamp
             b == accepted[p][j].stamp
  <2>1. DOMAIN accepted[p] = 1 .. Len(accepted[p]) BY DEF IInv, TypeOK
  <2>2. Newer(b, a) BY <2>1 DEF IInv, StampsGrow
  <2>3. NewerExact(b, a) BY NewerStampCorrect DEF IsStamp
  <2>4. Total(a) \in Int /\ Total(b) \in Int
    BY SecondsPositive DEF IsStamp, Total
  <2> HIDE DEF a, b
  <2> QED BY <2>2, <2>3, <2>4 DEF NewerExact, a, b
<1> QED
  BY <1>1, Inductive, PTL
-----------------------------------------------------------------------------
(* The tables of a plugin's parameters.                                    *)

\* The values a registry of the ids S has.
Registries(S) ==
  [ids : Seq(S), index : Seq(Nat), params : Seq(Nat),
   hashed : UNION {[D -> Nat] : D \in SUBSET S}]

LEMMA AddedType ==
  ASSUME NEW S, NEW reg \in Registries(S), NEW id \in S
  PROVE  AddParameter(reg, id) \in Registries(S)
<1> DEFINE ptr == Len(reg.ids) + 1
           h == [k \in DOMAIN reg.hashed \union {id} |-> IF k = id THEN ptr ELSE reg.hashed[k]]
<1>1. /\ reg.ids \in Seq(S) /\ reg.index \in Seq(Nat) /\ reg.params \in Seq(Nat)
      /\ ptr \in Nat /\ Len(reg.params) \in Nat
  BY DEF Registries
<1>2. PICK D \in SUBSET S : reg.hashed \in [D -> Nat]
  BY DEF Registries
<1>3. h \in [D \union {id} -> Nat] /\ D \union {id} \in SUBSET S
  BY <1>1, <1>2
<1>4. Stored(reg, id, ptr) \in Seq(Nat)
  BY <1>1 DEF Stored
<1>5. AddParameter(reg, id) = [ids |-> Append(reg.ids, id),
                               index |-> Append(reg.index, Len(reg.params)),
                               hashed |-> h, params |-> Stored(reg, id, ptr)]
  BY DEF AddParameter
<1> HIDE DEF h, ptr
<1>6. h \in UNION {[E -> Nat] : E \in SUBSET S}
  BY <1>3
<1> QED
  BY <1>1, <1>4, <1>5, <1>6 DEF Registries

\* Adding(ids) is the function its definition describes.
LEMMA AddingSteps ==
  ASSUME NEW S, NEW ids \in Seq(S)
  PROVE  /\ Adding(ids) \in [0 .. Len(ids) -> Registries(S)]
         /\ Adding(ids)[0] = NoParameters
         /\ \A n \in 1 .. Len(ids) : Adding(ids)[n] = AddParameter(Adding(ids)[n - 1], ids[n])
<1> DEFINE L == Len(ids)
           T == [n \in 1 .. L |-> [reg \in Registries(S) |-> AddParameter(reg, ids[n])]]
           IsIt(f) == f = [n \in 0 .. L |-> IF n = 0 THEN NoParameters
                                            ELSE AddParameter(f[n - 1], ids[n])]
<1>1. L \in Nat /\ \A n \in 1 .. L : ids[n] \in S
  OBVIOUS
<1>2. NoParameters \in Registries(S)
  <2>1. <<>> \in [{} -> Nat] /\ {} \in SUBSET S
    OBVIOUS
  <2>2. <<>> \in UNION {[D -> Nat] : D \in SUBSET S}
    BY <2>1
  <2> QED
    BY <2>2 DEF NoParameters, Registries
<1>3. T \in [1 .. L -> [Registries(S) -> Registries(S)]]
  <2>1. \A n \in 1 .. L, reg \in Registries(S) : AddParameter(reg, ids[n]) \in Registries(S)
    BY <1>1, AddedType
  <2> QED
    BY <2>1
<1>4. PICK f \in [0 .. L -> Registries(S)] :
        f[0] = NoParameters /\ \A n \in 1 .. L : f[n] = T[n][f[n - 1]]
  <2> HIDE DEF L, T
  <2>1. Steps(Registries(S), NoParameters, L, T) # {}
    BY <1>1, <1>2, <1>3, StepsExist
  <2> QED
    BY <2>1 DEF Steps
<1>5. IsIt(f)
  <2>1. ASSUME NEW n \in 0 .. L
        PROVE  f[n] = IF n = 0 THEN NoParameters ELSE AddParameter(f[n - 1], ids[n])
    <3>1. CASE n = 0
      BY <1>4, <3>1
    <3>2. CASE n # 0
      <4>1. n \in 1 .. L /\ n - 1 \in 0 .. L
        BY <1>1, <3>2
      <4>2. f[n - 1] \in Registries(S)
        BY <1>4, <4>1
      <4>3. T[n][f[n - 1]] = AddParameter(f[n - 1], ids[n])
        BY <4>1, <4>2
      <4> QED
        BY <1>4, <3>2, <4>1, <4>3
    <3> QED
      BY <3>1, <3>2
  <2>2. f = [n \in 0 .. L |-> f[n]]
    BY <1>4
  <2> QED
    BY <2>1, <2>2
<1>6. Adding(ids) = CHOOSE g : IsIt(g)
  BY DEF Adding
<1>7. IsIt(Adding(ids))
  BY <1>5, <1>6
<1> DEFINE g == Adding(ids)
<1> HIDE DEF g, T
<1>8. g = [n \in 0 .. L |-> IF n = 0 THEN NoParameters ELSE AddParameter(g[n - 1], ids[n])]
  BY <1>7 DEF g
<1>9. g[0] = NoParameters /\ \A n \in 1 .. L : g[n] = AddParameter(g[n - 1], ids[n])
  BY <1>1, <1>8
<1> DEFINE M == {n \in Nat : n <= L => g[n] \in Registries(S)}
<1>10. 0 \in M
  BY <1>2, <1>9
<1>11. ASSUME NEW n \in Nat, n \in M PROVE n + 1 \in M
  <2> SUFFICES ASSUME n + 1 <= L PROVE g[n + 1] \in Registries(S)
    OBVIOUS
  <2>1. n + 1 \in 1 .. L /\ (n + 1) - 1 = n /\ g[n] \in Registries(S)
    BY <1>1, <1>11
  <2> QED
    BY <1>1, <1>9, <2>1, AddedType
<1>12. \A n \in Nat : n \in M
  BY <1>10, <1>11, NaturalsReached
<1>13. \A n \in 0 .. L : g[n] \in Registries(S)
  BY <1>1, <1>12
<1>14. g \in [0 .. L -> Registries(S)]
  BY <1>8, <1>13
<1> QED
  BY <1>9, <1>14 DEF g

\* After n calls: the list numbers them, a parameter lives at its index if it
\* was the first with its id, and the table leads to the last.
First(ids, k) == \A j \in 1 .. k - 1 : ids[j] # ids[k]

Filled(ids, n, reg) ==
  /\ Len(reg.ids) = n /\ \A k \in 1 .. n : reg.ids[k] = ids[k]
  /\ Len(reg.index) = n
  /\ DOMAIN reg.hashed = {ids[k] : k \in 1 .. n}
  /\ \A id \in DOMAIN reg.hashed :
       LET p == reg.hashed[id]
       IN  p \in 1 .. n /\ ids[p] = id /\ \A k \in p + 1 .. n : ids[k] # id
  /\ \A i \in DOMAIN reg.params :
       LET p == reg.params[i]
       IN  p \in 1 .. n /\ First(ids, p) /\ reg.index[p] = i - 1
  /\ \A k \in 1 .. n : First(ids, k) => \E i \in DOMAIN reg.params : reg.params[i] = k

LEMMA AddedFills ==
  ASSUME NEW S, NEW ids \in Seq(S), NEW n \in Nat, n + 1 <= Len(ids),
         NEW reg \in Registries(S), Filled(ids, n, reg)
  PROVE  Filled(ids, n + 1, AddParameter(reg, ids[n + 1]))
<1> DEFINE id == ids[n + 1]
           new == AddParameter(reg, id)
           live == reg.params
<1>1. /\ reg.ids \in Seq(S) /\ reg.index \in Seq(Nat) /\ live \in Seq(Nat) /\ id \in S
      /\ Len(reg.ids) = n /\ Len(reg.index) = n /\ Len(live) \in Nat
  BY DEF Registries, Filled
<1>2. /\ new.ids = Append(reg.ids, id) /\ new.index = Append(reg.index, Len(live))
      /\ new.hashed = [k \in DOMAIN reg.hashed \union {id} |->
                         IF k = id THEN n + 1 ELSE reg.hashed[k]]
      /\ new.params = IF id \in DOMAIN reg.hashed THEN live ELSE Append(live, n + 1)
  BY <1>1 DEF AddParameter, Stored
<1>3. DOMAIN reg.hashed = {ids[k] : k \in 1 .. n}
  BY DEF Filled
<1>4. First(ids, n + 1) <=> id \notin DOMAIN reg.hashed
  BY <1>3 DEF First
<1>5. \A k \in 1 .. n + 1 : k \in 1 .. n \/ k = n + 1
  OBVIOUS
<1> HIDE DEF new
<1>6. /\ Len(new.ids) = n + 1 /\ \A k \in 1 .. n + 1 : new.ids[k] = ids[k]
      /\ Len(new.index) = n + 1 /\ new.index[n + 1] = Len(live)
      /\ \A k \in 1 .. n : new.index[k] = reg.index[k]
  <2>1. \A k \in 1 .. n : reg.ids[k] = ids[k]
    BY DEF Filled
  <2>2. /\ Len(new.ids) = n + 1 /\ new.ids[n + 1] = ids[n + 1]
        /\ \A k \in 1 .. n : new.ids[k] = reg.ids[k]
    BY <1>1, <1>2
  <2>3. /\ Len(new.index) = n + 1 /\ new.index[n + 1] = Len(live)
        /\ \A k \in 1 .. n : new.index[k] = reg.index[k]
    BY <1>1, <1>2
  <2> QED
    BY <1>5, <2>1, <2>2, <2>3
<1>7. DOMAIN new.hashed = {ids[k] : k \in 1 .. n + 1}
  BY <1>2, <1>3, <1>5
<1>8. ASSUME NEW x \in DOMAIN new.hashed
      PROVE  /\ new.hashed[x] \in 1 .. n + 1 /\ ids[new.hashed[x]] = x
             /\ \A k \in new.hashed[x] + 1 .. n + 1 : ids[k] # x
  <2>1. CASE x = id
    BY <1>2, <2>1
  <2>2. CASE x # id
    <3>1. x \in DOMAIN reg.hashed /\ new.hashed[x] = reg.hashed[x]
      BY <1>2, <2>2
    <3>2. /\ reg.hashed[x] \in 1 .. n /\ ids[reg.hashed[x]] = x
          /\ \A k \in reg.hashed[x] + 1 .. n : ids[k] # x
      BY <3>1 DEF Filled
    <3> QED
      BY <2>2, <3>1, <3>2
  <2> QED
    BY <2>1, <2>2
<1>9. ASSUME NEW i \in DOMAIN new.params
      PROVE  /\ new.params[i] \in 1 .. n + 1 /\ First(ids, new.params[i])
             /\ new.index[new.params[i]] = i - 1
  <2>1. CASE i \in DOMAIN live
    <3>1. new.params[i] = live[i]
      BY <1>1, <1>2, <2>1
    <3>2. live[i] \in 1 .. n /\ First(ids, live[i]) /\ reg.index[live[i]] = i - 1
      BY <2>1 DEF Filled
    <3> QED
      BY <1>6, <3>1, <3>2
  <2>2. CASE i \notin DOMAIN live
    <3>1. i = Len(live) + 1 /\ id \notin DOMAIN reg.hashed /\ new.params[i] = n + 1
      BY <1>1, <1>2, <2>2
    <3> QED
      BY <1>1, <1>4, <1>6, <3>1
  <2> QED
    BY <2>1, <2>2
<1>10. ASSUME NEW k \in 1 .. n + 1, First(ids, k)
       PROVE  \E i \in DOMAIN new.params : new.params[i] = k
  <2>1. CASE k \in 1 .. n
    <3>1. PICK i \in DOMAIN live : live[i] = k
      BY <1>10, <2>1 DEF Filled
    <3>2. i \in DOMAIN new.params /\ new.params[i] = live[i]
      BY <1>1, <1>2
    <3> QED
      BY <3>1, <3>2
  <2>2. CASE k = n + 1
    <3>1. new.params = Append(live, n + 1)
      BY <1>2, <1>4, <1>10, <2>2
    <3>2. Len(live) + 1 \in DOMAIN new.params /\ new.params[Len(live) + 1] = n + 1
      BY <1>1, <3>1
    <3> QED
      BY <2>2, <3>2
  <2> QED
    BY <1>5, <2>1, <2>2
<1>11. Filled(ids, n + 1, new)
  BY <1>6, <1>7, <1>8, <1>9, <1>10 DEF Filled
<1> QED
  BY <1>11 DEF new

LEMMA RegistryFilled ==
  ASSUME NEW S, NEW ids \in Seq(S)
  PROVE  Registry(ids) \in Registries(S) /\ Filled(ids, Len(ids), Registry(ids))
<1> DEFINE g == Adding(ids)
           M == {n \in Nat : n <= Len(ids) => Filled(ids, n, g[n])}
<1>1. /\ g \in [0 .. Len(ids) -> Registries(S)] /\ g[0] = NoParameters /\ Len(ids) \in Nat
      /\ \A n \in 1 .. Len(ids) : g[n] = AddParameter(g[n - 1], ids[n])
  BY AddingSteps
<1> HIDE DEF g
<1>2. 0 \in M
  <2>1. DOMAIN NoParameters.hashed = {} /\ {ids[k] : k \in 1 .. 0} = {}
    BY DEF NoParameters
  <2>2. /\ Len(NoParameters.ids) = 0 /\ Len(NoParameters.index) = 0
        /\ DOMAIN NoParameters.params = {}
    BY DEF NoParameters
  <2>3. Filled(ids, 0, NoParameters)
    BY <2>1, <2>2 DEF Filled
  <2> QED
    BY <1>1, <2>3
<1>3. ASSUME NEW n \in Nat, n \in M PROVE n + 1 \in M
  <2> SUFFICES ASSUME n + 1 <= Len(ids) PROVE Filled(ids, n + 1, g[n + 1])
    OBVIOUS
  <2>1. n + 1 \in 1 .. Len(ids) /\ n \in 0 .. Len(ids) /\ (n + 1) - 1 = n /\ Filled(ids, n, g[n])
    BY <1>1, <1>3
  <2>2. g[n] \in Registries(S) /\ g[n + 1] = AddParameter(g[n], ids[n + 1])
    BY <1>1, <2>1
  <2> QED
    BY <2>1, <2>2, AddedFills
<1>4. \A n \in Nat : n \in M
  BY <1>2, <1>3, NaturalsReached
<1>5. Filled(ids, Len(ids), g[Len(ids)]) /\ g[Len(ids)] \in Registries(S)
  BY <1>1, <1>4
<1> QED
  BY <1>5 DEF Registry, g

\* The tables are right for every sequence of calls: parameters that live have
\* distinct ids and sit at their index.
THEOREM LiveCorrect == \A S : \A ids \in Seq(S) : LivePlaced(ids)
<1> SUFFICES ASSUME NEW S, NEW ids \in Seq(S) PROVE LivePlaced(ids)
  OBVIOUS
<1> DEFINE reg == Registry(ids)
           live == reg.params
<1>1. reg \in Registries(S) /\ Filled(ids, Len(ids), reg)
  BY RegistryFilled
<1> HIDE DEF reg
<1>2. live \in Seq(Nat) /\ DOMAIN live = 1 .. Len(live) /\ Len(live) \in Nat
  BY <1>1 DEF Registries
<1>3. \A i \in DOMAIN live : /\ live[i] \in 1 .. Len(ids) /\ First(ids, live[i])
                             /\ reg.index[live[i]] = i - 1
  BY <1>1 DEF Filled
<1>4. ASSUME NEW i \in DOMAIN live, NEW j \in DOMAIN live, ids[live[i]] = ids[live[j]]
      PROVE  i = j
  <2>1. live[i] = live[j]
    BY <1>3, <1>4 DEF First
  <2>2. reg.index[live[i]] = i - 1 /\ reg.index[live[j]] = j - 1
    BY <1>3
  <2>3. i \in Nat /\ j \in Nat
    BY <1>2
  <2> QED
    BY <2>1, <2>2, <2>3
<1>5. ASSUME NEW i \in DOMAIN live PROVE GetParameterByIndex(reg, i - 1) = live[i]
  BY <1>2 DEF GetParameterByIndex
<1> QED
  BY <1>3, <1>4, <1>5 DEF LivePlaced, reg

\* The table has every id that was added and no other, and leads to a living
\* parameter exactly if the id was added once.
THEOREM LookupCorrect == \A S : \A ids \in Seq(S) : \A id : IdLeads(ids, id)
<1> SUFFICES ASSUME NEW S, NEW ids \in Seq(S), NEW id PROVE IdLeads(ids, id)
  OBVIOUS
<1> DEFINE reg == Registry(ids)
           live == reg.params
           p == GetParameterById(reg, id)
<1>1. reg \in Registries(S) /\ Filled(ids, Len(ids), reg) /\ DOMAIN ids = 1 .. Len(ids)
  BY RegistryFilled
<1> HIDE DEF reg
<1>2. /\ DOMAIN reg.hashed = {ids[k] : k \in 1 .. Len(ids)} /\ Len(ids) \in Nat
  BY <1>1 DEF Filled
<1>3. CASE id \notin DOMAIN reg.hashed
  <2>1. p = Null /\ Calls(ids, id) = {}
    BY <1>1, <1>2, <1>3 DEF GetParameterById, Calls
  <2> QED
    BY <2>1 DEF IdLeads, reg
<1>4. CASE id \in DOMAIN reg.hashed
  <2>1. p \in 1 .. Len(ids) /\ ids[p] = id /\ \A k \in p + 1 .. Len(ids) : ids[k] # id
    BY <1>1, <1>4 DEF Filled, GetParameterById
  <2> HIDE DEF p
  <2>2. p # Null /\ p \in Calls(ids, id)
    BY <1>1, <2>1 DEF Null, Calls
  <2>3. p \in ToSet(live) <=> First(ids, p)
    <3>1. \A i \in DOMAIN live : First(ids, live[i])
      BY <1>1 DEF Filled
    <3>2. First(ids, p) => \E i \in DOMAIN live : live[i] = p
      BY <1>1, <2>1 DEF Filled
    <3> QED
      BY <3>1, <3>2 DEF ToSet
  <2>4. First(ids, p) <=> Calls(ids, id) = {p}
    <3>1. \A k \in 1 .. Len(ids) : k \in 1 .. p - 1 \/ k = p \/ k \in p + 1 .. Len(ids)
      BY <1>2, <2>1
    <3>2. 1 .. p - 1 \subseteq 1 .. Len(ids) /\ p \notin 1 .. p - 1
      BY <1>2, <2>1
    <3>3. ASSUME First(ids, p) PROVE Calls(ids, id) = {p}
      BY <1>1, <2>1, <2>2, <3>1, <3>3 DEF First, Calls
    <3>4. ASSUME Calls(ids, id) = {p} PROVE First(ids, p)
      BY <1>1, <2>1, <3>2, <3>4 DEF First, Calls
    <3> QED
      BY <3>3, <3>4
  <2>5. Once(ids, id) <=> Calls(ids, id) = {p}
    BY <2>2, <1>1 DEF Once, Calls
  <2>6. /\ p = Null <=> Calls(ids, id) = {}
        /\ p # Null => ids[p] = id /\ (p \in ToSet(live) <=> Once(ids, id))
    BY <2>1, <2>2, <2>3, <2>4, <2>5
  <2> QED
    BY <2>6 DEF IdLeads, reg, p
<1> QED
  BY <1>3, <1>4

\* A bounded sequence is a sequence.
LEMMA BoundedIsSeq ==
  ASSUME NEW S, NEW n, NEW s \in BoundedSeq(S, n), n \in Int
  PROVE  s \in Seq(S)
<1>1. PICK m \in 0 .. n : s \in [1 .. m -> S]
  BY DEF BoundedSeq, SeqOf
<1> QED
  BY <1>1

LEMMA LookupTables == LookupExact
<1>1. \A ids \in BoundedSeq(SmallIds, MaxAdded) : ids \in Seq(SmallIds)
  BY PluginAssumption, BoundedIsSeq
<1> QED
  BY <1>1, LiveCorrect, LookupCorrect DEF LookupExact

-----------------------------------------------------------------------------
(* The events of the host.                                                 *)

\* Module::addParameter(): ids do not meet while modules keep to their range.
THEOREM IdsCorrect == \A m, k, n, l \in Nat : IdsApart(m, k, n, l)
<1> SUFFICES ASSUME NEW m \in Nat, NEW k \in Nat, NEW n \in Nat, NEW l \in Nat,
                    Separate(m, k), Separate(n, l), ParamId(m, k) = ParamId(n, l)
             PROVE  m = n /\ k = l
  BY DEF IdsApart
<1> DEFINE O == ParamOffset
           d == m - n
<1>1. O \in Nat \ {0} /\ IdCount \in Nat \ {0}
  BY PluginAssumption
<1>2. m * O \in Nat /\ n * O \in Nat
  BY <1>1
<1>3. m * O + k = n * O + l
  <2> DEFINE a == m * O + k
             b == n * O + l
  <2>1. a \in Nat /\ b \in Nat /\ a < IdCount /\ b < IdCount
    BY <1>2 DEF Separate
  <2>2. a % IdCount = b % IdCount
    BY DEF ParamId
  <2> HIDE DEF a, b
  <2>3. a = b
    BY <1>1, <2>1, <2>2
  <2> QED
    BY <2>3 DEF a, b
<1>4. k < O /\ l < O
  BY DEF Separate
<1>5. d \in Int /\ m * O - n * O = d * O
  BY <1>1
<1> HIDE DEF O
<1>6. CASE d > 0
  <2>1. d * O >= O
    BY <1>1, <1>5, <1>6
  <2> QED
    BY <1>1, <1>2, <1>3, <1>4, <1>5, <2>1
<1>7. CASE d < 0
  <2>1. d * O <= -O
    BY <1>1, <1>5, <1>7
  <2> QED
    BY <1>1, <1>2, <1>3, <1>4, <1>5, <2>1
<1>8. CASE d = 0
  BY <1>1, <1>2, <1>3, <1>8
<1> QED
  BY <1>5, <1>6, <1>7, <1>8

\* processEvent(): an event finds its parameter, and only a cookie that is not
\* its own terminates the plugin, after every sequence of calls.
THEOREM FindsCorrect == \A S : \A ids \in Seq(S) : EventFinds(ids)
<1> SUFFICES ASSUME NEW S, NEW ids \in Seq(S) PROVE EventFinds(ids)
  OBVIOUS
<1> DEFINE reg == Registry(ids)
           live == ToSet(reg.params)
<1>1. reg \in Registries(S) /\ Filled(ids, Len(ids), reg)
  BY RegistryFilled
<1>2. \A i, j \in DOMAIN reg.params : ids[reg.params[i]] = ids[reg.params[j]] => i = j
  BY LiveCorrect DEF LivePlaced
<1>3. ASSUME NEW id PROVE LET q == GetParameterById(reg, id) IN
        /\ q = Null <=> Calls(ids, id) = {}
        /\ q # Null => ids[q] = id /\ (q \in live <=> Once(ids, id))
  BY LookupCorrect DEF IdLeads
<1> HIDE DEF reg
<1>4. \A p \in live : p \in 1 .. Len(ids) /\ p # Null
  BY <1>1 DEF Filled, ToSet, Null
<1>5. \A p \in 1 .. Len(ids) : reg.ids[p] = ids[p]
  BY <1>1 DEF Filled
<1>6. \A p, q \in live : ids[p] = ids[q] => p = q
  BY <1>2 DEF ToSet
<1>7. ASSUME NEW p \in live, NEW c \in live \union {Null}, NEW type \in ParamEvents
      PROVE  LET ev == [core |-> TRUE, type |-> type, cookie |-> c, id |-> ids[p]]
                 out == ProcessEvent(reg, ev)
             IN  /\ c = p \/ (c = Null /\ Once(ids, ids[p])) =>
                      out = [does |-> type, param |-> p]
                 /\ out.does = "terminate" <=> c \notin {p, Null}
  <2> DEFINE ev == [core |-> TRUE, type |-> type, cookie |-> c, id |-> ids[p]]
             out == ProcessEvent(reg, ev)
             t == Target(reg, ev)
             q == GetParameterById(reg, ids[p])
  <2>1. p \in 1 .. Len(ids) /\ p # Null /\ p \in Calls(ids, ids[p])
    BY <1>4 DEF Calls
  <2>2. q # Null /\ ids[q] = ids[p] /\ (q \in live <=> Once(ids, ids[p]))
    BY <1>3, <2>1
  <2>3. q \in 1 .. Len(ids)
    <3>1. ids[p] \in DOMAIN reg.hashed /\ q = reg.hashed[ids[p]]
      BY <2>2 DEF GetParameterById
    <3> QED
      BY <1>1, <3>1 DEF Filled
  <2>4. t = IF c # Null THEN c ELSE q
    BY DEF Target
  <2>5. t # Null /\ t \in 1 .. Len(ids)
    BY <1>4, <2>2, <2>3, <2>4
  <2>6. Mismatched(reg, ev) <=> ids[t] # ids[p]
    BY <1>5, <2>5 DEF Mismatched
  <2>7. out = IF Mismatched(reg, ev) THEN [does |-> "terminate", param |-> Null]
              ELSE [does |-> type, param |-> t]
    BY <2>5 DEF ProcessEvent
  <2>8. ids[t] # ids[p] <=> c \notin {p, Null}
    BY <1>6, <2>2, <2>4
  <2>9. type # "terminate"
    BY DEF ParamEvents
  <2>10. out.does = "terminate" <=> c \notin {p, Null}
    BY <2>6, <2>7, <2>8, <2>9
  <2>11. ASSUME c = p \/ (c = Null /\ Once(ids, ids[p])) PROVE t = p
    BY <1>6, <2>1, <2>2, <2>4, <2>11
  <2>12. c = p \/ (c = Null /\ Once(ids, ids[p])) => out = [does |-> type, param |-> p]
    BY <2>6, <2>7, <2>8, <2>11
  <2> QED
    BY <2>10, <2>12
<1> QED
  BY <1>7 DEF EventFinds, reg

LEMMA HostEventsCorrect == EventFindsParameter
<1>1. \A ids \in BoundedSeq(SmallIds, MaxAdded - 1) : ids \in Seq(SmallIds)
  BY PluginAssumption, BoundedIsSeq
<1>2. \A m \in Modules : m \in Nat
  BY PluginAssumption
<1>3. \A l \in Locals : l \in Nat
  BY PluginAssumption
<1> QED
  BY <1>1, <1>2, <1>3, IdsCorrect, FindsCorrect DEF EventFindsParameter

-----------------------------------------------------------------------------
(* The walk of process() over the frames of a block.                       *)

\* The run of events at one frame has an end.
LEMMA RunExists ==
  ASSUME NEW S, NEW evs \in Seq(S), NEW i \in 0 .. Len(evs), NEW frame
  PROVE  LET n == RunLength(evs, i, frame) IN
         /\ n \in 0 .. Len(evs) - i
         /\ \A k \in 1 .. n : evs[i + k] = frame
         /\ i + n < Len(evs) => evs[i + n + 1] # frame
<1> DEFINE L == Len(evs)
           Ends == {n \in 0 .. L - i : i + n < L => evs[i + n + 1] # frame}
<1>1. L \in Nat /\ i \in Nat /\ i <= L
  OBVIOUS
<1> HIDE DEF L
<1>2. L - i \in Ends /\ Ends \in SUBSET Nat
  BY <1>1
<1>3. PICK m \in Ends : \A n \in Ends : m <= n
  BY <1>2, LeastExists
<1>4. ASSUME NEW k \in 1 .. m PROVE evs[i + k] = frame
  <2>1. k - 1 \notin Ends /\ k - 1 \in 0 .. L - i /\ m \in 0 .. L - i
    BY <1>1, <1>3, <1>4
  <2>2. i + (k - 1) < L /\ evs[i + (k - 1) + 1] = frame
    BY <1>1, <2>1
  <2>3. i + (k - 1) + 1 = i + k
    BY <1>1, <2>1
  <2> QED
    BY <2>2, <2>3
<1>5. \E n \in 0 .. L - i : /\ \A k \in 1 .. n : evs[i + k] = frame
                            /\ i + n < L => evs[i + n + 1] # frame
  BY <1>3, <1>4
<1> QED
  BY <1>5 DEF RunLength, L

\* HandledBefore(evs, frames) is the function its definition describes.
LEMMA HandledSteps ==
  ASSUME NEW S, NEW evs \in Seq(S), NEW frames \in Nat
  PROVE  LET h == HandledBefore(evs, frames) IN
         /\ h \in [0 .. frames -> 0 .. Len(evs)] /\ h[0] = 0
         /\ \A f \in 1 .. frames : h[f] = h[f - 1] + RunLength(evs, h[f - 1], f - 1)
<1> DEFINE N == 0 .. Len(evs)
           T == [f \in 1 .. frames |-> [i \in N |-> i + RunLength(evs, i, f - 1)]]
           IsIt(h) == h = [f \in 0 .. frames |->
                             IF f = 0 THEN 0
                             ELSE h[f - 1] + RunLength(evs, h[f - 1], f - 1)]
<1>1. 0 \in N /\ Len(evs) \in Nat
  OBVIOUS
<1>2. ASSUME NEW f, NEW i \in N PROVE i + RunLength(evs, i, f) \in N
  <2>1. RunLength(evs, i, f) \in 0 .. Len(evs) - i
    BY RunExists
  <2> QED
    BY <1>1, <2>1
<1>3. T \in [1 .. frames -> [N -> N]]
  BY <1>2
<1>4. PICK h \in [0 .. frames -> N] : h[0] = 0 /\ \A f \in 1 .. frames : h[f] = T[f][h[f - 1]]
  <2> HIDE DEF N, T
  <2>1. Steps(N, 0, frames, T) # {}
    BY <1>1, <1>3, StepsExist
  <2> QED
    BY <2>1 DEF Steps
<1>5. IsIt(h)
  <2>1. ASSUME NEW f \in 0 .. frames
        PROVE  h[f] = IF f = 0 THEN 0 ELSE h[f - 1] + RunLength(evs, h[f - 1], f - 1)
    <3>1. CASE f = 0
      BY <1>4, <3>1
    <3>2. CASE f # 0
      <4>1. f \in 1 .. frames /\ f - 1 \in 0 .. frames
        BY <3>2
      <4>2. h[f - 1] \in N
        BY <1>4, <4>1
      <4> HIDE DEF N
      <4>3. T[f][h[f - 1]] = h[f - 1] + RunLength(evs, h[f - 1], f - 1)
        BY <4>1, <4>2
      <4> QED
        BY <1>4, <3>2, <4>1, <4>3
    <3> QED
      BY <3>1, <3>2
  <2>2. h = [f \in 0 .. frames |-> h[f]]
    BY <1>4
  <2> QED
    BY <2>1, <2>2
<1>6. HandledBefore(evs, frames) = CHOOSE g : IsIt(g)
  BY DEF HandledBefore
<1>7. IsIt(HandledBefore(evs, frames))
  BY <1>5, <1>6
<1> DEFINE g == HandledBefore(evs, frames)
<1> HIDE DEF g, T
<1>8. g = [f \in 0 .. frames |-> IF f = 0 THEN 0 ELSE g[f - 1] + RunLength(evs, g[f - 1], f - 1)]
  BY <1>7 DEF g
<1>9. g[0] = 0 /\ \A f \in 1 .. frames : g[f] = g[f - 1] + RunLength(evs, g[f - 1], f - 1)
  BY <1>8
<1> DEFINE M == {f \in Nat : f <= frames => g[f] \in N}
<1>10. 0 \in M
  BY <1>1, <1>9
<1>11. ASSUME NEW f \in Nat, f \in M PROVE f + 1 \in M
  <2> SUFFICES ASSUME f + 1 <= frames PROVE g[f + 1] \in N
    OBVIOUS
  <2>1. f + 1 \in 1 .. frames /\ (f + 1) - 1 = f /\ g[f] \in N
    BY <1>11
  <2>2. g[f + 1] = g[f] + RunLength(evs, g[f], f)
    BY <1>9, <2>1
  <2> HIDE DEF N
  <2> QED
    BY <1>2, <2>1, <2>2
<1>12. \A f \in Nat : f \in M
  BY <1>10, <1>11, NaturalsReached
<1>13. \A f \in 0 .. frames : g[f] \in N
  BY <1>12
<1>14. g \in [0 .. frames -> N]
  BY <1>8, <1>13
<1> QED
  BY <1>9, <1>14 DEF g

\* One frame more.
LEMMA FrameHandled ==
  ASSUME NEW evs \in Seq(Nat), NEW f \in Nat, NEW i \in 0 .. Len(evs), HandledAt(evs, f, i)
  PROVE  HandledAt(evs, f + 1, i + RunLength(evs, i, f))
<1> DEFINE r == RunLength(evs, i, f)
           n == i + r
           L == Len(evs)
<1>1. /\ r \in 0 .. L - i /\ \A k \in 1 .. r : evs[i + k] = f
      /\ i + r < L => evs[i + r + 1] # f
  BY RunExists
<1> HIDE DEF r
<1>2. L \in Nat /\ i \in Nat /\ r \in Nat /\ n \in 0 .. L /\ \A k \in 1 .. L : evs[k] \in Nat
  BY <1>1
<1>3. \A k \in i + 1 .. n : evs[k] = f
  <2> SUFFICES ASSUME NEW k \in i + 1 .. n PROVE evs[k] = f
    OBVIOUS
  <2>1. k - i \in 1 .. r /\ i + (k - i) = k
    BY <1>2
  <2> QED
    BY <1>1, <2>1
<1> HIDE DEF n, L
<1>4. \A k \in 1 .. n : k \in 1 .. i \/ k \in i + 1 .. n
  BY <1>2
<1>5. \A k \in 1 .. i : evs[k] < f
  BY DEF HandledAt
<1>6. Sorted(evs, n)
  <2> SUFFICES ASSUME NEW k \in 2 .. n PROVE evs[k - 1] <= evs[k]
    BY DEF Sorted
  <2>1. k \in 1 .. n /\ k - 1 \in 1 .. n /\ k \in Nat
    BY <1>2
  <2>2. CASE k \in 1 .. i
    BY <1>2, <2>2 DEF HandledAt, Sorted
  <2>3. CASE k \in i + 1 .. n
    <3>1. evs[k] = f /\ evs[k - 1] <= f
      <4>1. evs[k - 1] < f \/ evs[k - 1] = f
        BY <1>3, <1>4, <1>5, <2>1
      <4>2. evs[k - 1] \in Nat
        BY <1>2, <2>1
      <4>3. evs[k] = f
        BY <1>3, <2>3
      <4> QED
        BY <4>1, <4>2, <4>3
    <3> QED
      BY <3>1
  <2> QED
    BY <1>4, <2>1, <2>2, <2>3
<1>7. \A k \in 1 .. n : evs[k] < f + 1
  <2> SUFFICES ASSUME NEW k \in 1 .. n PROVE evs[k] < f + 1
    OBVIOUS
  <2>1. evs[k] < f \/ evs[k] = f
    BY <1>3, <1>4, <1>5
  <2>2. evs[k] \in Nat
    BY <1>2
  <2> QED
    BY <2>1, <2>2
<1>8. ASSUME n < L, ~(evs[n + 1] >= f + 1) PROVE ~Sorted(evs, n + 1)
  <2>1. evs[n + 1] \in Nat /\ evs[n + 1] # f /\ n + 1 \in 1 .. L
    BY <1>1, <1>2, <1>8 DEF n, L
  <2>2. evs[n + 1] < f
    BY <1>8, <2>1
  <2>3. CASE r = 0
    <3>1. n = i
      BY <1>2, <2>3 DEF n
    <3>2. evs[i + 1] >= f \/ ~Sorted(evs, i + 1)
      BY <1>8, <3>1 DEF HandledAt, L
    <3> QED
      BY <2>1, <2>2, <3>1, <3>2
  <2>4. CASE r # 0
    <3>1. n \in i + 1 .. n /\ n + 1 \in 2 .. n + 1 /\ (n + 1) - 1 = n
      BY <1>2, <2>4 DEF n
    <3>2. evs[n] = f
      BY <1>3, <3>1
    <3>3. Sorted(evs, n + 1) => evs[(n + 1) - 1] <= evs[n + 1]
      BY <3>1 DEF Sorted
    <3> QED
      BY <2>1, <2>2, <3>1, <3>2, <3>3
  <2> QED
    BY <2>3, <2>4
<1>9. HandledAt(evs, f + 1, n)
  BY <1>6, <1>7, <1>8 DEF HandledAt, L
<1> QED
  BY <1>9 DEF n, r

\* process(): whatever the times of a block's events and however long it is,
\* the events handled in its first frames are those at these frames, as far as
\* the host sorted them.
THEOREM FramesCorrect ==
  \A evs \in Seq(Nat), frames \in Nat : \A f \in 0 .. frames :
    HandledAt(evs, f, HandledBefore(evs, frames)[f])
<1> SUFFICES ASSUME NEW evs \in Seq(Nat), NEW frames \in Nat
             PROVE  \A f \in 0 .. frames : HandledAt(evs, f, HandledBefore(evs, frames)[f])
  OBVIOUS
<1> DEFINE h == HandledBefore(evs, frames)
           M == {f \in Nat : f <= frames => HandledAt(evs, f, h[f])}
<1>1. /\ h \in [0 .. frames -> 0 .. Len(evs)] /\ h[0] = 0
      /\ \A f \in 1 .. frames : h[f] = h[f - 1] + RunLength(evs, h[f - 1], f - 1)
  BY HandledSteps
<1> HIDE DEF h
<1>2. 0 \in M
  <2>1. 0 < Len(evs) => evs[1] \in Nat
    OBVIOUS
  <2>2. HandledAt(evs, 0, 0)
    BY <2>1 DEF HandledAt, Sorted
  <2> QED
    BY <1>1, <2>2
<1>3. ASSUME NEW f \in Nat, f \in M PROVE f + 1 \in M
  <2> SUFFICES ASSUME f + 1 <= frames PROVE HandledAt(evs, f + 1, h[f + 1])
    OBVIOUS
  <2>1. f + 1 \in 1 .. frames /\ (f + 1) - 1 = f /\ HandledAt(evs, f, h[f])
    BY <1>3
  <2>2. h[f + 1] = h[f] + RunLength(evs, h[f], f) /\ h[f] \in 0 .. Len(evs)
    BY <1>1, <2>1
  <2> QED
    BY <2>1, <2>2, FrameHandled
<1>4. \A f \in Nat : f \in M
  BY <1>2, <1>3, NaturalsReached
<1> QED
  BY <1>4 DEF h

LEMMA WalkCorrect == FramesExact
<1>1. \A evs \in BoundedSeq(0 .. MaxFrames, MaxHostEvents) : evs \in Seq(Nat)
  <2>1. \A evs \in BoundedSeq(0 .. MaxFrames, MaxHostEvents) : evs \in Seq(0 .. MaxFrames)
    BY PluginAssumption, BoundedIsSeq
  <2>2. \A evs \in Seq(0 .. MaxFrames) : evs \in Seq(Nat)
    BY PluginAssumption
  <2> QED
    BY <2>1, <2>2
<1>2. 0 .. MaxFrames \subseteq Nat
  BY PluginAssumption
<1> QED
  BY <1>1, <1>2, FramesCorrect DEF FramesExact

-----------------------------------------------------------------------------
(* What the audio thread finds in a running plugin.                        *)

\* A plugin that added its parameters once each finds all of them alive.
LEMMA OwnTable ==
  ASSUME NEW table \in Tables, NEW id
  PROVE  LET p == GetParameterById(table, id) IN
         IF id \in Params THEN p # Null /\ Lives(table, p, id) ELSE p = Null
<1>1. PICK ids \in Orders : table = Registry(ids)
  BY DEF Tables
<1>2. ids \in Seq(Params) /\ \A k \in Params : Once(ids, k)
  BY <1>1, PluginAssumption, BoundedIsSeq DEF Orders
<1>3. table \in Registries(Params) /\ Filled(ids, Len(ids), table)
  BY <1>1, <1>2, RegistryFilled
<1> DEFINE p == GetParameterById(table, id)
<1>4. /\ p = Null <=> Calls(ids, id) = {}
      /\ p # Null => ids[p] = id /\ (p \in ToSet(table.params) <=> Once(ids, id))
  BY <1>1, <1>2, LookupCorrect DEF IdLeads
<1> HIDE DEF p
<1>5. CASE id \in Params
  <2>1. Once(ids, id) /\ Calls(ids, id) # {}
    BY <1>2, <1>5 DEF Once
  <2>2. p # Null /\ p \in ToSet(table.params) /\ ids[p] = id
    BY <1>4, <2>1
  <2>3. p \in 1 .. Len(ids)
    BY <1>3, <2>2 DEF Filled, ToSet
  <2>4. table.ids[p] = id
    BY <1>3, <2>2, <2>3 DEF Filled
  <2> QED
    BY <1>5, <2>2, <2>4 DEF Lives, p
<1>6. CASE id \notin Params
  <2>1. Calls(ids, id) = {}
    BY <1>2, <1>6 DEF Calls
  <2> QED
    BY <1>4, <1>6, <2>1 DEF p
<1> QED
  BY <1>5, <1>6

\* processGuiEvents(): in every state, whatever clients call, a queued change
\* finds the living parameter it names, or none if there is none.
THEOREM TablesCorrect == Spec => []TablesExact
<1>1. TablesExact
  <2>1. ASSUME NEW id, NEW table \in Tables
        PROVE  LET found == GetParameterById(table, id) IN
               IF id \in Params THEN Lives(table, found, id) ELSE found = Null
    BY OwnTable
  <2> QED
    BY <2>1, LookupTables DEF TablesExact
<1> QED
  BY <1>1, PTL

\* processEvent(): a host's event for an automated parameter sets the living
\* one of that id, for all of a plugin's tables.
THEOREM EventsCorrect == Spec => []EventsExact
<1>1. EventsExact
  <2>1. ASSUME NEW id \in Automated, NEW table \in Tables
        PROVE  LET ev == [core |-> TRUE, type |-> "value", cookie |-> Null, id |-> id]
                   out == ProcessEvent(table, ev)
               IN  out.does = "value" /\ Lives(table, out.param, id)
    <3> DEFINE ev == [core |-> TRUE, type |-> "value", cookie |-> Null, id |-> id]
               p == GetParameterById(table, id)
    <3>1. p # Null /\ Lives(table, p, id)
      BY ParamAssumption, OwnTable
    <3>2. Target(table, ev) = p
      BY DEF Target
    <3>3. ~Mismatched(table, ev)
      BY <3>1, <3>2 DEF Mismatched, Lives
    <3>4. ProcessEvent(table, ev) = [does |-> "value", param |-> p]
      BY <3>1, <3>2, <3>3 DEF ProcessEvent, ParamEvents
    <3> QED
      BY <3>1, <3>4
  <2> QED
    BY <2>1, HostEventsCorrect DEF EventsExact
<1> QED
  BY <1>1, PTL

\* process(): every block handles its events at their frames.
THEOREM BlocksCorrect == Spec => []BlocksExact
<1>1. BlocksExact
  BY WalkCorrect DEF BlocksExact
<1> QED
  BY <1>1, PTL
=============================================================================
