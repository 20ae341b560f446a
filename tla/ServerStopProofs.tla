--------------------------- MODULE ServerStopProofs ---------------------------
(***************************************************************************)
(* The life of the event streams for any number of streams and writes: the *)
(* poll loop finds no destroyed stream that its plugin knew; no completion *)
(* finds a destroyed one, if that was written to and ended only after its  *)
(* last write was handled; every client that stays is told; Finish() is    *)
(* called twice only on a stream whose client was lost; and one stream     *)
(* always waits for the next.                                              *)
(* Then Server::stop(), for any number of clients and unary handlers: what *)
(* it does to the streams is what module ServerEventStream allows, so that *)
(* what is proved of them holds there too; until it shuts queue 0 down no  *)
(* thread disturbs another; and when it returns nothing is left but the    *)
(* streams of forgotten clients.                                           *)
(***************************************************************************)
EXTENDS ServerStop, FiniteSetTheorems, TLAPS

LEMMA OpsType ==
  ASSUME TypeOK, NEW s \in Streams
  PROVE  /\ DOMAIN ops = Streams
         /\ ops[s] \in [Ops -> Nat]
         /\ ops[s]["request"] \in Nat /\ ops[s]["write"] \in Nat
         /\ ops[s]["alarm"] \in Nat /\ ops[s]["finish"] \in Nat
         /\ Outstanding(s) \in Nat
  BY DEF TypeOK, Ops, Outstanding

LEMMA NoneType == None \in [Ops -> Nat] /\ \A op \in Ops : Only(op) \in [Ops -> Nat]
  BY DEF None, Only

\* The operations after one of them was handled, and after Finish().
LEMMA HandledType ==
  ASSUME TypeOK, NEW s \in Streams, NEW op \in Ops, Completes(s, op)
  PROVE  /\ Handled(s, op) \in [Ops -> Nat]
         /\ [Handled(s, op) EXCEPT !["finish"] = @ + 1] \in [Ops -> Nat]
<1>1. ops[s] \in [Ops -> Nat] /\ ops[s][op] \in Nat /\ ops[s][op] > 0
  BY OpsType DEF Completes
<1>2. Handled(s, op) \in [Ops -> Nat]
  BY <1>1 DEF Handled
<1>3. ASSUME NEW f \in [Ops -> Nat]
      PROVE  [f EXCEPT !["finish"] = @ + 1] \in [Ops -> Nat]
  <2>1. f["finish"] + 1 \in Nat
    BY DEF Ops
  <2> QED
    BY <2>1
<1> QED
  BY <1>2, <1>3

LEMMA InitType == Init => TypeOK
<1> SUFFICES ASSUME NEW first \in Streams,
                    tag = [s \in Streams |-> IF s = first THEN "pending" ELSE "unborn"],
                    state = [s \in Streams |-> "CONNECT"],
                    ops = [s \in Streams |-> IF s = first THEN Only("request") ELSE None],
                    call = [s \in Streams |-> "none"],
                    notified = {}, told = {}, hurried = {}, registered = {}, shared = {},
                    plugin = TRUE, down = FALSE, died = "no"
             PROVE  TypeOK
  BY DEF Init
<1>1. ops \in [Streams -> [Ops -> Nat]]
  <2>1. Only("request") \in [Ops -> Nat] /\ None \in [Ops -> Nat]
    BY NoneType DEF Ops
  <2> QED
    BY <2>1
<1>2. plugin \in BOOLEAN /\ down \in BOOLEAN
  BY Zenon
<1>3. /\ tag \in [Streams -> {"unborn", "pending", "destroyed"}]
      /\ state \in [Streams -> {"CONNECT", "WRITE", "DISCONNECT", "FINISH"}]
      /\ call \in [Streams -> {"none", "open", "lost", "over"}]
      /\ notified \subseteq Streams /\ told \subseteq Streams /\ hurried \subseteq Streams
      /\ registered \subseteq Streams /\ shared \subseteq Streams
      /\ died \in {"no", "write", "finish", "metadata"}
  OBVIOUS
<1> QED
  BY <1>1, <1>2, <1>3 DEF TypeOK

\* A step that the process does not survive changes nothing else, and every other
\* is one of these.
Living ==
  \/ RemovePlugin \/ Shutdown
  \/ \E s \in Streams :
       \/ Lose(s) \/ SendEvents(s) \/ EndStream(s) \/ Notify(s)
       \/ NoClient(s) \/ WriteDone(s) \/ WriteFailed(s)
       \/ \E t \in Streams : Accept(s, t)
       \/ \E op \in Ops : Disconnect(s, op) \/ Finished(s, op)

LEMMA StepKinds == [Next]_vars => Living \/ UNCHANGED lifeVars
<1>1. \A s \in Streams : WriteBeside(s) \/ Malformed(s) => UNCHANGED lifeVars
  BY DEF WriteBeside, Malformed, Dies
<1>2. \A s \in Streams, op \in Ops : FinishAgain(s, op) => UNCHANGED lifeVars
  BY DEF FinishAgain, Dies
<1>3. UNCHANGED vars => UNCHANGED lifeVars
  BY DEF vars
<1> HIDE DEF lifeVars
<1> QED
  BY <1>1, <1>2, <1>3 DEF Living, Next, Process, Handles

LEMMA DiedType == TypeOK /\ [Next]_vars => died' \in {"no", "write", "finish", "metadata"}
<1> SUFFICES ASSUME TypeOK, [Next]_vars PROVE died' \in {"no", "write", "finish", "metadata"}
  OBVIOUS
<1>1. ASSUME UNCHANGED died PROVE died' \in {"no", "write", "finish", "metadata"}
  BY <1>1 DEF TypeOK
<1>2. ASSUME NEW s \in Streams, WriteBeside(s) \/ Malformed(s) \/ \E op \in Ops : FinishAgain(s, op)
      PROVE  died' \in {"no", "write", "finish", "metadata"}
  BY <1>2 DEF WriteBeside, Malformed, FinishAgain, Dies
<1>3. CASE Living
  BY <1>1, <1>3 DEF Living, Lose, SendEvents, EndStream, Notify, NoClient, WriteDone, WriteFailed,
    Accept, Disconnect, Finished, Kill, RemovePlugin, Shutdown
<1> QED
  BY <1>1, <1>2, <1>3 DEF Living, Next, Process, Handles, vars

LEMMA StepType == TypeOK /\ [Next]_vars => TypeOK'
<1> SUFFICES ASSUME TypeOK, [Next]_vars PROVE TypeOK'
  OBVIOUS
<1> USE DEF callVars
<1>1. CASE UNCHANGED lifeVars
  BY <1>1, DiedType DEF lifeVars, TypeOK
<1>2. ASSUME NEW s \in Streams, Lose(s)
      PROVE  TypeOK'
  BY <1>2 DEF Lose, TypeOK
<1>3. ASSUME NEW s \in Streams, SendEvents(s)
      PROVE  TypeOK'
  <2>1. ops' \in [Streams -> [Ops -> Nat]]
    BY <1>3, OpsType DEF SendEvents, TypeOK, Ops
  <2> QED
    BY <1>3, <2>1 DEF SendEvents, Hurried, TypeOK
<1>4. ASSUME NEW s \in Streams, EndStream(s)
      PROVE  TypeOK'
  <2>1. ops' \in [Streams -> [Ops -> Nat]]
    BY <1>4, OpsType DEF EndStream, SetAlarm, TypeOK, Ops
  <2> QED
    BY <1>4, <2>1 DEF EndStream, Hurried, TypeOK
<1>5. ASSUME NEW s \in Streams, NEW t \in Streams, Accept(s, t)
      PROVE  TypeOK'
  <2>1. /\ Only("request") \in [Ops -> Nat] /\ Only("finish") \in [Ops -> Nat]
        /\ None \in [Ops -> Nat]
    BY NoneType DEF Ops
  <2>2. ops' \in [Streams -> [Ops -> Nat]]
    BY <1>5, <2>1, ZenonT(60) DEF Accept, TypeOK
  <2>3. /\ tag' \in [Streams -> {"unborn", "pending", "destroyed"}]
        /\ call' \in [Streams -> {"none", "open", "lost", "over"}]
        /\ state' \in [Streams -> {"CONNECT", "WRITE", "DISCONNECT", "FINISH"}]
        /\ notified' \subseteq Streams /\ told' \subseteq Streams /\ hurried' \subseteq Streams
        /\ registered' \subseteq Streams /\ shared' \subseteq Streams
    BY <1>5 DEF Accept, Successor, TypeOK
  <2>4. plugin' \in BOOLEAN /\ down' \in BOOLEAN
    BY <1>5, Zenon DEF Accept, TypeOK
  <2> QED
    BY <2>2, <2>3, <2>4, DiedType DEF TypeOK
<1>6. ASSUME NEW s \in Streams, NEW op \in Ops, Completes(s, op), Kill(s, op)
      PROVE  TypeOK'
  <2>1. ops' \in [Streams -> [Ops -> Nat]]
    BY <1>6, HandledType DEF Kill, TypeOK
  <2> QED
    BY <1>6, <2>1 DEF Kill, Unregister, Over, TypeOK
<1>7. ASSUME NEW s \in Streams, NEW op \in Ops, NEW next \in {"DISCONNECT", "FINISH"},
             Completes(s, op), Finish(s, op, next)
      PROVE  /\ state' \in [Streams -> {"CONNECT", "WRITE", "DISCONNECT", "FINISH"}]
             /\ ops' \in [Streams -> [Ops -> Nat]] /\ told' \subseteq Streams
  BY <1>7, HandledType DEF Finish, TypeOK
<1>8. ASSUME NEW s \in Streams, WriteDone(s)
      PROVE  TypeOK'
  <2>1. ops' \in [Streams -> [Ops -> Nat]]
    BY <1>8, HandledType DEF WriteDone, TypeOK, Ops
  <2> QED
    BY <1>8, <2>1 DEF WriteDone, TypeOK
<1>9. ASSUME NEW s \in Streams, WriteFailed(s)
      PROVE  TypeOK'
  <2>1. "write" \in Ops /\ Completes(s, "write") /\ Finish(s, "write", "DISCONNECT")
    BY <1>9 DEF WriteFailed, Ops
  <2> QED
    BY <1>9, <1>7, <2>1 DEF WriteFailed, TypeOK
<1>10. ASSUME NEW s \in Streams, NEW op \in Ops, Disconnect(s, op)
       PROVE  TypeOK'
  <2>1. Completes(s, op) /\ Finish(s, op, "FINISH") /\ call' = Over(s, op)
        /\ UNCHANGED <<tag, notified, hurried, registered, shared, plugin, down>>
    BY <1>10 DEF Disconnect
  <2>2. call' \in [Streams -> {"none", "open", "lost", "over"}]
    BY <2>1 DEF Over, TypeOK
  <2> QED
    BY <1>7, <2>1, <2>2, DiedType DEF TypeOK
<1>11. ASSUME NEW s \in Streams, Notify(s)
       PROVE  TypeOK'
  BY <1>11 DEF Notify, TypeOK
<1>12. CASE RemovePlugin
  <2>1. plugin' \in BOOLEAN
    BY <1>12, Zenon DEF RemovePlugin
  <2> QED
    BY <1>12, <2>1 DEF RemovePlugin, TypeOK
<1>13. CASE Shutdown
  <2>1. down' \in BOOLEAN
    BY <1>13, Zenon DEF Shutdown
  <2> QED
    BY <1>13, <2>1 DEF Shutdown, TypeOK
<1>14. ASSUME NEW s \in Streams, NoClient(s)
       PROVE  TypeOK'
  BY <1>14, <1>6 DEF NoClient, Ops
<1>15. ASSUME NEW s \in Streams, NEW op \in Ops, Finished(s, op)
       PROVE  TypeOK'
  BY <1>15, <1>6 DEF Finished
<1> QED
  BY <1>1, <1>2, <1>3, <1>4, <1>5, <1>8, <1>9, <1>10, <1>11, <1>12, <1>13, <1>14, <1>15,
    StepKinds DEF Living

\* Every operation of every stream completes once, for any number of streams
\* and of writes outstanding.
THEOREM TypeCorrect == Spec => []TypeOK
  BY InitType, StepType, PTL DEF Spec

-----------------------------------------------------------------------------
(* The set of streams that the poll loop walks.                            *)

\* While the plugin is there, its SharedData and its streams know each other.
Known == plugin => registered \subseteq shared

LEMMA StepAlive == TypeOK /\ Known /\ StreamsAlive /\ [Next]_vars => Known' /\ StreamsAlive'
<1> SUFFICES ASSUME TypeOK, Known, StreamsAlive, [Next]_vars
             PROVE  /\ Known'
                    /\ \A r \in registered' :
                         tag'[r] = "pending" \/ (~plugin' /\ r \notin shared')
  BY DEF StreamsAlive, Stray
<1> DEFINE Holds == Known' /\ \A r \in registered' :
                      tag'[r] = "pending" \/ (~plugin' /\ r \notin shared')
<1>1. ASSUME UNCHANGED <<tag, registered, shared>>, plugin' => plugin PROVE Holds
  BY <1>1 DEF Known, StreamsAlive, Stray
<1>2. CASE UNCHANGED lifeVars \/ RemovePlugin \/ Shutdown
  BY <1>1, <1>2 DEF lifeVars, RemovePlugin, Shutdown
<1>3. ASSUME NEW s \in Streams,
             Lose(s) \/ SendEvents(s) \/ EndStream(s) \/ WriteDone(s) \/ WriteFailed(s) \/ Notify(s)
      PROVE  Holds
  BY <1>1, <1>3 DEF Lose, SendEvents, EndStream, WriteDone, WriteFailed, Notify
<1>4. ASSUME NEW s \in Streams, NEW op \in Ops, Disconnect(s, op)
      PROVE  Holds
  BY <1>1, <1>4 DEF Disconnect
<1>5. ASSUME NEW s \in Streams, NEW t \in Streams, Accept(s, t)
      PROVE  Holds
  <2>1. tag' = [tag EXCEPT ![t] = "pending"] /\ tag[s] = "pending"
    BY <1>5 DEF Accept, Successor, Completes
  <2>2. \A r \in Streams : tag[r] = "pending" => tag'[r] = "pending"
    BY <2>1 DEF TypeOK
  <2>3. CASE plugin /\ UNCHANGED plugin /\ registered' = registered \union {s}
               /\ shared' = shared \union {s}
    BY <2>1, <2>2, <2>3 DEF Known, StreamsAlive, Stray, TypeOK
  <2>4. CASE UNCHANGED <<registered, plugin, shared>>
    BY <2>2, <2>4 DEF Known, StreamsAlive, Stray, TypeOK
  <2>5. CASE plugin /\ ~plugin' /\ registered' = registered \union {s} /\ UNCHANGED shared
    BY <2>1, <2>2, <2>5 DEF Known, StreamsAlive, Stray, TypeOK
  <2> QED
    BY <1>5, <2>3, <2>4, <2>5, Zenon DEF Accept
<1>6. ASSUME NEW s \in Streams, NEW op \in Ops, Kill(s, op)
      PROVE  Holds
  <2>1. /\ tag' = [tag EXCEPT ![s] = "destroyed"] /\ UNCHANGED <<shared, plugin>>
        /\ registered' = IF s \in shared THEN registered \ {s} ELSE registered
    BY <1>6 DEF Kill, Unregister
  <2> QED
    BY <2>1 DEF Known, StreamsAlive, Stray, TypeOK
<1>7. ASSUME NEW s \in Streams, NoClient(s)
      PROVE  Holds
  BY <1>6, <1>7 DEF NoClient, Ops
<1>8. ASSUME NEW s \in Streams, NEW op \in Ops, Finished(s, op)
      PROVE  Holds
  BY <1>6, <1>8 DEF Finished
<1> QED
  BY <1>2, <1>3, <1>4, <1>5, <1>7, <1>8, StepKinds DEF Living

\* Whatever the order of completions, losses and removals, the set that the
\* poll loop walks holds no stream that was destroyed, but one that the plugin
\* was removed under.
THEOREM AliveCorrect == Spec => []StreamsAlive
<1>1. Init => Known /\ StreamsAlive
  BY DEF Init, Known, StreamsAlive
<1> QED
  BY <1>1, StepAlive, TypeCorrect, PTL DEF Spec

-----------------------------------------------------------------------------
(* Streams whose writes are handled before they are used again.            *)

\* One operation at a time; in state WRITE it is a write.
OneOperation(s) ==
  /\ Outstanding(s) <= 1
  /\ tag[s] # "pending" => Outstanding(s) = 0 /\ state[s] # "WRITE"
  /\ state[s] = "WRITE" => Outstanding(s) = ops[s]["write"]

OneAtATime == \A s \in Streams \ hurried : OneOperation(s)

\* What the completion of an operation leaves, with and without Finish().
LEMMA HandledCount ==
  ASSUME TypeOK, NEW s \in Streams, NEW op \in Ops, Completes(s, op)
  PROVE  /\ ops' = [ops EXCEPT ![s] = Handled(s, op)]
            => Outstanding(s)' = Outstanding(s) - 1
         /\ ops' = [ops EXCEPT ![s] = [Handled(s, op) EXCEPT !["finish"] = @ + 1]]
            => Outstanding(s)' = Outstanding(s)
  BY OpsType DEF Outstanding, Handled, Completes, Ops

LEMMA StepOneAtATime == TypeOK /\ OneAtATime /\ [Next]_vars => OneAtATime'
<1> SUFFICES ASSUME TypeOK, OneAtATime, [Next]_vars, NEW r \in Streams, r \notin hurried'
             PROVE  OneOperation(r)'
  BY DEF OneAtATime
<1> USE DEF callVars
<1>0. OneOperation(r)
  <2>1. hurried \subseteq hurried'
    BY StepKinds DEF Living, lifeVars, Lose, SendEvents, EndStream, Hurried, Notify,
      RemovePlugin, Shutdown,
           Accept, NoClient, WriteDone, WriteFailed, Disconnect, Finished, Kill
  <2> QED
    BY <2>1 DEF OneAtATime
<1>1. CASE UNCHANGED lifeVars
  BY <1>0, <1>1 DEF lifeVars, OneOperation, Outstanding
<1>2. ASSUME UNCHANGED <<tag, state, ops>>
      PROVE  OneOperation(r)'
  BY <1>0, <1>2 DEF OneOperation, Outstanding
<1>3. ASSUME NEW s \in Streams, s # r, tag'[r] = tag[r], state'[r] = state[r], ops'[r] = ops[r]
      PROVE  OneOperation(r)'
  BY <1>0, <1>3 DEF OneOperation, Outstanding
<1>4. ASSUME NEW s \in Streams, SendEvents(s)
      PROVE  OneOperation(r)'
  <2>1. CASE s = r
    BY <1>0, <1>4, <2>1, OpsType DEF SendEvents, Hurried, OneOperation, Outstanding, TypeOK, Ops
  <2>2. CASE s # r
    BY <1>3, <1>4, <2>2 DEF SendEvents, TypeOK
  <2> QED
    BY <2>1, <2>2
<1>5. ASSUME NEW s \in Streams, EndStream(s)
      PROVE  OneOperation(r)'
  <2>1. CASE s = r
    BY <1>0, <1>5, <2>1, OpsType DEF EndStream, SetAlarm, Hurried, OneOperation, Outstanding,
      TypeOK, Ops
  <2>2. CASE s # r
    BY <1>3, <1>5, <2>2 DEF EndStream, SetAlarm, TypeOK
  <2> QED
    BY <2>1, <2>2
<1>6. ASSUME NEW s \in Streams, NEW t \in Streams, Accept(s, t)
      PROVE  OneOperation(r)'
  <2>1. /\ t # s /\ tag[t] = "unborn" /\ tag[s] = "pending"
        /\ tag' = [tag EXCEPT ![t] = "pending"]
        /\ \/ /\ state' = [state EXCEPT ![s] = "WRITE"]
              /\ ops' = [ops EXCEPT ![s] = None, ![t] = Only("request")]
           \/ /\ state' = [state EXCEPT ![s] = "FINISH"]
              /\ ops' = [ops EXCEPT ![s] = Only("finish"), ![t] = Only("request")]
    BY <1>6 DEF Accept, Successor, Completes
  <2>2. CASE r = s
    BY SMTT(30), <2>1, <2>2 DEF OneOperation, Outstanding, None, Only, Ops, TypeOK
  <2>3. CASE r = t
    <3>1. state'[r] = state[r] /\ state[r] # "WRITE"
      BY <1>0, <2>1, <2>3 DEF OneOperation, TypeOK
    <3>2. ops'[r] = Only("request") /\ tag'[r] = "pending"
      BY <2>1, <2>3 DEF TypeOK
    <3>3. Outstanding(r)' = 1
      BY <3>2 DEF Outstanding, None, Only, Ops
    <3> QED
      BY <3>1, <3>2, <3>3 DEF OneOperation
  <2>4. CASE r # s /\ r # t
    BY <1>3, <2>1, <2>4 DEF TypeOK
  <2> QED
    BY <2>2, <2>3, <2>4
<1>7. ASSUME NEW s \in Streams, NEW op \in Ops, Completes(s, op), Kill(s, op), state[s] # "WRITE"
      PROVE  OneOperation(r)'
  <2>1. CASE s = r
    <3>1. Outstanding(r)' = Outstanding(r) - 1
      BY <1>7, <2>1, HandledCount DEF Kill
    <3>2. tag'[r] = "destroyed" /\ state'[r] # "WRITE"
      BY <1>7, <2>1 DEF Kill, TypeOK
    <3>3. Outstanding(r) = 1
      BY <1>0, <1>7, <2>1, OpsType DEF OneOperation, Outstanding, Completes, Ops
    <3> QED
      BY <3>1, <3>2, <3>3 DEF OneOperation
  <2>2. CASE s # r
    BY <1>3, <1>7, <2>2 DEF Kill, TypeOK
  <2> QED
    BY <2>1, <2>2
<1>8. ASSUME NEW s \in Streams, WriteDone(s)
      PROVE  OneOperation(r)'
  <2>1. CASE s = r
    BY <1>0, <1>8, <2>1, OpsType DEF WriteDone, Handled, Completes, OneOperation, Outstanding,
      TypeOK, Ops
  <2>2. CASE s # r
    BY <1>3, <1>8, <2>2 DEF WriteDone, TypeOK
  <2> QED
    BY <2>1, <2>2
<1>9. ASSUME NEW s \in Streams, NEW op \in Ops, NEW next \in {"DISCONNECT", "FINISH"},
             Completes(s, op), Finish(s, op, next), UNCHANGED tag
      PROVE  OneOperation(r)'
  <2>1. CASE s = r
    <3>1. Outstanding(r)' = Outstanding(r)
      BY <1>9, <2>1, HandledCount DEF Finish
    <3>2. tag'[r] = "pending" /\ state'[r] = next
      BY <1>9, <2>1 DEF Finish, Completes, TypeOK
    <3> QED
      BY <1>0, <3>1, <3>2 DEF OneOperation
  <2>2. CASE s # r
    BY <1>3, <1>9, <2>2 DEF Finish, TypeOK
  <2> QED
    BY <2>1, <2>2
<1>10. ASSUME NEW s \in Streams, Notify(s)
       PROVE  OneOperation(r)'
  <2>1. /\ UNCHANGED <<tag, ops>>
        /\ state'[r] = state[r] \/ (s = r /\ tag[r] = "pending" /\ state'[r] = "FINISH")
    BY <1>10 DEF Notify, TypeOK
  <2> QED
    BY <1>0, <2>1 DEF OneOperation, Outstanding
<1>11. ASSUME NEW s \in Streams, WriteFailed(s)
       PROVE  OneOperation(r)'
  BY <1>9, <1>11 DEF WriteFailed, Ops
<1>12. ASSUME NEW s \in Streams, NEW op \in Ops, Disconnect(s, op)
       PROVE  OneOperation(r)'
  BY <1>9, <1>12 DEF Disconnect
<1>13. ASSUME NEW s \in Streams, NoClient(s)
       PROVE  OneOperation(r)'
  BY <1>7, <1>13 DEF NoClient, Ops
<1>14. ASSUME NEW s \in Streams, NEW op \in Ops, Finished(s, op)
       PROVE  OneOperation(r)'
  BY <1>7, <1>14 DEF Finished, KillsNow
<1>15. CASE RemovePlugin \/ Shutdown
  BY <1>2, <1>15 DEF RemovePlugin, Shutdown
<1>16. ASSUME NEW s \in Streams, Lose(s)
       PROVE  OneOperation(r)'
  BY <1>2, <1>16 DEF Lose
<1> QED
  BY <1>1, <1>4, <1>5, <1>6, <1>8, <1>10, <1>11, <1>12, <1>13, <1>14, <1>15, <1>16,
    StepKinds DEF Living

\* No completion is ever delivered to a destroyed stream whose every write was
\* handled before it was written to again or ended.
THEOREM TagCorrect == Spec => []NoStrayTag
<1>1. Init => OneAtATime
  <2> SUFFICES ASSUME Init, NEW s \in Streams PROVE OneOperation(s)
    BY DEF OneAtATime
  <2>1. /\ state[s] = "CONNECT" /\ tag[s] \in {"pending", "unborn"}
        /\ ops[s] = IF tag[s] = "pending" THEN Only("request") ELSE None
    BY DEF Init
  <2> QED
    BY <2>1 DEF OneOperation, Outstanding, None, Only, Ops
<1>2. TypeOK /\ OneAtATime /\ [Next]_vars => OneAtATime'
  BY StepOneAtATime
<1>3. OneAtATime => NoStrayTag
  BY DEF OneAtATime, OneOperation, NoStrayTag
<1> QED
  BY <1>1, <1>2, <1>3, TypeCorrect, PTL DEF Spec
-----------------------------------------------------------------------------
(* What a client is told, and who waits for the next one.                  *)

\* A stream has a call once a client was accepted, and one that Finish() or a
\* notification has brought to its end has told its client, or lost it.
Tells(s) ==
  /\ state[s] = "CONNECT" => call[s] = "none"
  /\ (state[s] = "FINISH" \/ tag[s] = "destroyed") /\ call[s] = "open" => s \in told

\* A stream that no client was accepted on has only its request outstanding.
Fresh(s) ==
  /\ tag[s] = "unborn" => state[s] = "CONNECT"
  /\ tag[s] = "pending" /\ state[s] = "CONNECT" => ops[s] = Only("request")

LifeInv == \A s \in Streams : Tells(s) /\ Fresh(s)

LEMMA InitLife == Init => LifeInv
  BY DEF Init, LifeInv, Tells, Fresh

LEMMA StepLife == TypeOK /\ LifeInv /\ [Next]_vars => LifeInv'
<1> SUFFICES ASSUME TypeOK, LifeInv, [Next]_vars, NEW r \in Streams
             PROVE  (Tells(r) /\ Fresh(r))'
  BY DEF LifeInv
<1> USE DEF callVars
<1>0. Tells(r) /\ Fresh(r)
  BY DEF LifeInv
<1>1. CASE UNCHANGED lifeVars
  BY <1>0, <1>1 DEF lifeVars, Tells, Fresh
<1>2. ASSUME NEW s \in Streams, Lose(s) \/ SendEvents(s) \/ WriteDone(s)
      PROVE  (Tells(r) /\ Fresh(r))'
  BY <1>0, <1>2 DEF Lose, SendEvents, WriteDone, Tells, Fresh, TypeOK
<1>3. ASSUME NEW s \in Streams, EndStream(s)
      PROVE  (Tells(r) /\ Fresh(r))'
  BY <1>0, <1>3 DEF EndStream, SetAlarm, Tells, Fresh, TypeOK
<1>4. ASSUME NEW s \in Streams, NEW t \in Streams, Accept(s, t)
      PROVE  (Tells(r) /\ Fresh(r))'
  <2>1. /\ t # s /\ tag[t] = "unborn" /\ tag[s] = "pending"
        /\ tag' = [tag EXCEPT ![t] = "pending"]
        /\ call' = [call EXCEPT ![s] = "open"]
        /\ \/ /\ state' = [state EXCEPT ![s] = "WRITE"] /\ told' = told
              /\ ops' = [ops EXCEPT ![s] = None, ![t] = Only("request")]
           \/ /\ state' = [state EXCEPT ![s] = "FINISH"] /\ told' = told \union {s}
              /\ ops' = [ops EXCEPT ![s] = Only("finish"), ![t] = Only("request")]
    BY <1>4 DEF Accept, Successor, Completes
  <2>2. CASE r = s
    BY <2>1, <2>2 DEF Tells, Fresh, TypeOK
  <2>3. CASE r = t
    <3>1. ops'[r] = Only("request")
      BY <2>1, <2>3 DEF TypeOK
    <3>2. call'[r] = call[r] /\ state'[r] = state[r] /\ state[r] = "CONNECT"
      BY <1>0, <2>1, <2>3 DEF Fresh, TypeOK
    <3> QED
      BY <1>0, <2>1, <2>3, <3>1, <3>2 DEF Tells, Fresh, TypeOK
  <2>4. CASE r # s /\ r # t
    BY <1>0, <2>1, <2>4 DEF Tells, Fresh, TypeOK
  <2> QED
    BY <2>2, <2>3, <2>4
<1>5. ASSUME NEW s \in Streams, NEW op \in Ops, Kill(s, op), Completes(s, op),
             state[s] \in {"CONNECT", "FINISH"}
      PROVE  (Tells(r) /\ Fresh(r))'
  <2>1. CASE r = s
    <3>1. tag'[r] = "destroyed" /\ state'[r] = state[r] /\ told' = told
      BY <1>5, <2>1 DEF Kill, TypeOK
    <3>2. call'[r] = IF op = "finish" THEN "over" ELSE call[r]
      BY <1>5, <2>1 DEF Kill, Over, TypeOK
    <3>3. state[r] = "CONNECT" => op # "finish"
      BY <1>0, <1>5, <2>1 DEF Fresh, Completes, Only, None, Ops
    <3> QED
      BY <1>0, <1>5, <2>1, <3>1, <3>2, <3>3 DEF Tells, Fresh
  <2>2. CASE r # s
    BY <1>0, <1>5, <2>2 DEF Kill, Over, Tells, Fresh, TypeOK
  <2> QED
    BY <2>1, <2>2
<1>6. ASSUME NEW s \in Streams, NEW op \in Ops, NEW next \in {"DISCONNECT", "FINISH"},
             Completes(s, op), state[s] # "CONNECT", Finish(s, op, next),
             call'[s] = call[s] \/ call'[s] = "over",
             \A q \in Streams : q # s => call'[q] = call[q], UNCHANGED tag
      PROVE  (Tells(r) /\ Fresh(r))'
  BY <1>0, <1>6 DEF Finish, Completes, Tells, Fresh, TypeOK
<1>7. ASSUME NEW s \in Streams, WriteFailed(s)
      PROVE  (Tells(r) /\ Fresh(r))'
  BY <1>6, <1>7 DEF WriteFailed, Ops
<1>8. ASSUME NEW s \in Streams, NEW op \in Ops, Disconnect(s, op)
      PROVE  (Tells(r) /\ Fresh(r))'
  <2>1. /\ call'[s] = call[s] \/ call'[s] = "over"
        /\ \A q \in Streams : q # s => call'[q] = call[q]
    BY <1>8 DEF Disconnect, Over, TypeOK
  <2> QED
    BY <1>6, <1>8, <2>1 DEF Disconnect
<1>9. ASSUME NEW s \in Streams, Notify(s)
      PROVE  (Tells(r) /\ Fresh(r))'
  <2>1. state[s] # "CONNECT"
    BY <1>9 DEF Notify, LifeInv, Tells
  <2> QED
    BY <1>0, <1>9, <2>1 DEF Notify, Tells, Fresh, TypeOK
<1>10. ASSUME NEW s \in Streams, NoClient(s)
       PROVE  (Tells(r) /\ Fresh(r))'
  BY <1>5, <1>10 DEF NoClient, Ops
<1>11. ASSUME NEW s \in Streams, NEW op \in Ops, Finished(s, op)
       PROVE  (Tells(r) /\ Fresh(r))'
  BY <1>5, <1>11 DEF Finished, KillsNow
<1>12. CASE RemovePlugin \/ Shutdown
  BY <1>0, <1>12 DEF RemovePlugin, Shutdown, Tells, Fresh
<1> QED
  BY <1>1, <1>2, <1>3, <1>4, <1>7, <1>8, <1>9, <1>10, <1>11, <1>12, StepKinds DEF Living

\* Whatever the order of completions, a client that did not go away itself gets
\* a status before its stream is destroyed.
THEOREM ToldCorrect == Spec => []ClientTold
<1>1. LifeInv => ClientTold
  BY DEF LifeInv, Tells, ClientTold
<1> QED
  BY <1>1, InitLife, StepLife, TypeCorrect, PTL DEF Spec

\* The stream that waits for the next client.
Acceptor == ~down => \E w \in Streams : \A s \in Streams : Waiting(s) <=> s = w

LEMMA InitAcceptor == Init => Acceptor
<1> SUFFICES ASSUME NEW w \in Streams,
                    tag = [s \in Streams |-> IF s = w THEN "pending" ELSE "unborn"],
                    state = [s \in Streams |-> "CONNECT"],
                    ops = [s \in Streams |-> IF s = w THEN Only("request") ELSE None]
             PROVE  \A s \in Streams : Waiting(s) <=> s = w
  BY DEF Init, Acceptor
<1> QED
  BY DEF Waiting

LEMMA StepAcceptor == TypeOK /\ LifeInv /\ Acceptor /\ [Next]_vars => Acceptor'
<1> SUFFICES ASSUME TypeOK, LifeInv, [Next]_vars, ~down', Acceptor
             PROVE  \E w \in Streams : \A r \in Streams : Waiting(r)' <=> r = w
  BY DEF Acceptor
<1> USE DEF callVars
<1>1. ~down
  BY StepKinds, Zenon DEF Living, lifeVars, Lose, SendEvents, EndStream, Notify, RemovePlugin,
    Shutdown,
     Accept, NoClient, WriteDone, WriteFailed, Disconnect, Finished, Kill
<1>2. PICK w \in Streams : \A r \in Streams : Waiting(r) <=> r = w
  BY <1>1 DEF Acceptor
<1>3. ASSUME \A r \in Streams : Waiting(r)' <=> Waiting(r)
      PROVE  \E v \in Streams : \A r \in Streams : Waiting(r)' <=> r = v
  BY <1>2, <1>3
<1>4. ASSUME NEW s \in Streams, ~Waiting(s), ~Waiting(s)',
             \A r \in Streams :
               r # s => tag'[r] = tag[r] /\ state'[r] = state[r] /\ ops'[r] = ops[r]
      PROVE  \E v \in Streams : \A r \in Streams : Waiting(r)' <=> r = v
  BY <1>3, <1>4 DEF Waiting
<1>5. CASE UNCHANGED <<tag, state, ops>>
  BY <1>3, <1>5 DEF Waiting
<1>6. ASSUME NEW s \in Streams, SendEvents(s) \/ EndStream(s) \/ WriteDone(s) \/ WriteFailed(s)
                \/ \E op \in Ops : Disconnect(s, op)
      PROVE  \E v \in Streams : \A r \in Streams : Waiting(r)' <=> r = v
  <2>1. state[s] # "CONNECT" /\ state'[s] # "CONNECT"
    BY <1>6 DEF SendEvents, EndStream, WriteDone, WriteFailed, Disconnect, Finish, TypeOK
  <2>2. \A r \in Streams : r # s => tag'[r] = tag[r] /\ state'[r] = state[r] /\ ops'[r] = ops[r]
    BY <1>6 DEF SendEvents, EndStream, SetAlarm, WriteDone, WriteFailed, Disconnect, Finish, TypeOK
  <2> QED
    BY <1>4, <2>1, <2>2 DEF Waiting
<1>7. ASSUME NEW s \in Streams, NEW t \in Streams, Accept(s, t)
      PROVE  \E v \in Streams : \A r \in Streams : Waiting(r)' <=> r = v
  <2>1. /\ t # s /\ tag[t] = "unborn" /\ tag[s] = "pending" /\ state[s] = "CONNECT"
        /\ tag' = [tag EXCEPT ![t] = "pending"]
        /\ \/ /\ state' = [state EXCEPT ![s] = "WRITE"]
              /\ ops' = [ops EXCEPT ![s] = None, ![t] = Only("request")]
           \/ /\ state' = [state EXCEPT ![s] = "FINISH"]
              /\ ops' = [ops EXCEPT ![s] = Only("finish"), ![t] = Only("request")]
    BY <1>7 DEF Accept, Successor, Completes
  <2>2. w = s
    BY <1>2, <2>1 DEF LifeInv, Fresh, Waiting
  <2>3. Waiting(t)'
    BY <2>1 DEF LifeInv, Fresh, Waiting, TypeOK
  <2>4. \A r \in Streams : r # t => ~Waiting(r)'
    <3> SUFFICES ASSUME NEW r \in Streams, r # t PROVE ~Waiting(r)'
      OBVIOUS
    <3>1. CASE r = s
      BY <2>1, <3>1 DEF Waiting, TypeOK
    <3>2. CASE r # s
      BY <1>2, <2>1, <2>2, <3>2 DEF Waiting, TypeOK
    <3> QED
      BY <3>1, <3>2
  <2> QED
    BY <2>3, <2>4
<1>8. ASSUME NEW s \in Streams, Notify(s)
      PROVE  \E v \in Streams : \A r \in Streams : Waiting(r)' <=> r = v
  <2>1. state[s] # "CONNECT"
    BY <1>8 DEF Notify, LifeInv, Tells
  <2> QED
    BY <1>4, <1>8, <2>1 DEF Notify, Waiting, TypeOK
<1>9. ASSUME NEW s \in Streams, NEW op \in Ops, Finished(s, op)
      PROVE  \E v \in Streams : \A r \in Streams : Waiting(r)' <=> r = v
  <2>1. state[s] = "FINISH" /\ UNCHANGED state
        /\ \A r \in Streams : r # s => tag'[r] = tag[r] /\ ops'[r] = ops[r]
    BY <1>9 DEF Finished, KillsNow, Kill, TypeOK
  <2> QED
    BY <1>4, <2>1 DEF Waiting
<1>10. ASSUME NEW s \in Streams, Lose(s)
       PROVE  \E v \in Streams : \A r \in Streams : Waiting(r)' <=> r = v
  BY <1>5, <1>10 DEF Lose
<1>11. CASE RemovePlugin
  BY <1>5, <1>11 DEF RemovePlugin
<1>12. CASE UNCHANGED lifeVars
  BY <1>5, <1>12 DEF lifeVars
<1>13. ~Shutdown /\ \A s \in Streams : ~NoClient(s)
  BY <1>1 DEF Shutdown, NoClient
<1> QED
  BY <1>6, <1>7, <1>8, <1>9, <1>10, <1>11, <1>12, <1>13, StepKinds DEF Living

\* However clients come and go, until the server shuts down exactly one stream
\* waits for the next client, with its request outstanding.
THEOREM AcceptorCorrect == Spec => []OneAcceptor
<1>1. Acceptor => OneAcceptor
  <2> SUFFICES ASSUME ~down, Acceptor PROVE Cardinality({s \in Streams : Waiting(s)}) = 1
    BY DEF OneAcceptor
  <2>1. PICK w \in Streams : \A s \in Streams : Waiting(s) <=> s = w
    BY DEF Acceptor
  <2>2. {s \in Streams : Waiting(s)} = {w}
    BY <2>1
  <2> QED
    BY <2>2, FS_Singleton
<1> QED
  BY <1>1, InitAcceptor, StepAcceptor, InitLife, StepLife, TypeCorrect, PTL DEF Spec

-----------------------------------------------------------------------------
(* The composition implements the streams.                                 *)

LEMMA StopImplies == [StopNext]_allVars => [Next]_vars
<1> SUFFICES ASSUME StopNext \/ UNCHANGED allVars PROVE Next \/ UNCHANGED vars
  OBVIOUS
<1>0. StopNext => died = "no"
  BY DEF StopNext, Lives
<1>1. CASE UNCHANGED allVars
  BY <1>1 DEF allVars
<1>2. ASSUME NEW s \in Streams, died = "no", Event0(s) \/ Notifies(s)
      PROVE  Next \/ UNCHANGED vars
  BY <1>2 DEF Event0, Fails, Ends, Notifies, Next, Process, Handles
<1>3. ASSUME NEW s \in Streams, NEW t \in Streams, died = "no", Connects(s, t)
      PROVE  Next \/ UNCHANGED vars
  BY <1>3 DEF Connects, Next, Process
<1>4. ASSUME NEW s \in Streams, died = "no", PollWrites(s) PROVE Next \/ UNCHANGED vars
  BY <1>4 DEF PollWrites, Next
<1>5. CASE (\E t \in Threads : PollFires(t)) \/ PollRearms
  BY <1>5 DEF PollFires, PollRearms
<1>6. CASE died = "no" /\ Outside
  BY <1>6 DEF Outside, Next
<1>7. CASE died = "no" /\ Stop
  BY <1>7 DEF Stop, CancelAllPendingTags, ServerShutdown, ShutdownReturns, TeardownNext,
    TeardownEnds, StopEnds, Next
<1>8. CASE RunEnds \/ Event1 \/ Unary
  BY <1>8 DEF RunEnds, Event1, UnaryKill, Unary, UnaryCall, UnaryAnswers, UnaryThrows
<1> QED
  BY <1>0, <1>1, <1>2, <1>3, <1>4, <1>5, <1>6, <1>7, <1>8 DEF StopNext, Poll

\* With two threads that share its events, the polling loop and stop() at work,
\* every stream behaves as module ServerEventStream says.
THEOREM StreamsComposed == StopSpec => Spec
<1>1. StopInit => Init
  BY DEF StopInit
<1> QED
  BY <1>1, StopImplies, PTL DEF StopSpec, Spec

\* The poll loop finds no destroyed stream that its plugin knew, and a client
\* that stays is told, during stop() as well.
THEOREM ComposedCorrect == StopSpec => [](StreamsAlive /\ NoStrayTag /\ ClientTold)
  BY StreamsComposed, AliveCorrect, TagCorrect, ToldCorrect, PTL

-----------------------------------------------------------------------------
(* A call that is over.                                                    *)

\* A stream without a call was not accepted; when its call is over its last
\* operation, Finish(), brings it back to the queue once more.
Ending(s) ==
  /\ state[s] # "CONNECT" => call[s] # "none"
  /\ tag[s] = "pending" /\ call[s] = "over" => state[s] = "FINISH" /\ ops[s]["finish"] > 0

EndInv == \A s \in Streams : Ending(s)

LEMMA StepEnding == TypeOK /\ LifeInv /\ EndInv /\ [Next]_vars => EndInv'
<1> SUFFICES ASSUME TypeOK, LifeInv, EndInv, [Next]_vars, NEW r \in Streams
             PROVE  Ending(r)'
  BY DEF EndInv
<1> USE DEF callVars
<1>0. Ending(r) /\ Tells(r) /\ Fresh(r)
  BY DEF EndInv, LifeInv
<1>1. CASE UNCHANGED lifeVars \/ RemovePlugin \/ Shutdown
  BY <1>0, <1>1 DEF lifeVars, RemovePlugin, Shutdown, Ending
<1>2. ASSUME NEW s \in Streams, Lose(s)
      PROVE  Ending(r)'
  BY <1>0, <1>2 DEF Lose, Ending, TypeOK
<1>3. ASSUME NEW s \in Streams, SendEvents(s) \/ EndStream(s) \/ WriteDone(s)
      PROVE  Ending(r)'
  <2>1. state[s] = "WRITE" /\ UNCHANGED <<tag, call>>
        /\ \A q \in Streams : q # s => ops'[q] = ops[q] /\ state'[q] = state[q]
    BY <1>3 DEF SendEvents, EndStream, SetAlarm, WriteDone, TypeOK
  <2> QED
    BY <1>0, <2>1 DEF EndInv, Ending
<1>4. ASSUME NEW s \in Streams, NEW t \in Streams, Accept(s, t)
      PROVE  Ending(r)'
  <2>1. /\ t # s /\ tag[t] = "unborn" /\ call' = [call EXCEPT ![s] = "open"]
        /\ \A q \in Streams : q # s => state'[q] = state[q] /\ call'[q] = call[q]
        /\ \A q \in Streams \ {s, t} : ops'[q] = ops[q] /\ tag'[q] = tag[q]
    BY <1>4 DEF Accept, Successor, TypeOK
  <2>2. CASE r = s
    BY <2>1, <2>2 DEF Ending, TypeOK
  <2>3. CASE r = t
    BY <1>0, <2>1, <2>3 DEF Ending, Tells, Fresh
  <2>4. CASE r \notin {s, t}
    BY <1>0, <2>1, <2>4 DEF Ending
  <2> QED
    BY <2>2, <2>3, <2>4
<1>5. ASSUME NEW s \in Streams, NEW op \in Ops, Kill(s, op), state[s] = "CONNECT" => op = "request"
      PROVE  Ending(r)'
  <2>1. /\ tag'[s] = "destroyed" /\ UNCHANGED state
        /\ call'[s] \in {call[s], "over"}
        /\ \A q \in Streams : q # s => ops'[q] = ops[q] /\ tag'[q] = tag[q] /\ call'[q] = call[q]
    BY <1>5 DEF Kill, Over, TypeOK
  <2> QED
    BY <1>0, <2>1 DEF Ending
<1>6. ASSUME NEW s \in Streams, NEW op \in Ops, Completes(s, op),
             (WriteFailed(s) /\ op = "write") \/ Disconnect(s, op)
      PROVE  Ending(r)'
  <2>1. /\ ops' = [ops EXCEPT ![s] = [[ops[s] EXCEPT ![op] = @ - 1] EXCEPT !["finish"] = @ + 1]]
        /\ UNCHANGED tag
        /\ \A q \in Streams : q # s => call'[q] = call[q] /\ state'[q] = state[q]
        /\ state[s] \in {"WRITE", "DISCONNECT"}
        /\ \/ call'[s] = call[s]
           \/ call'[s] = "over" /\ op = "finish" /\ state'[s] = "FINISH"
    BY <1>6 DEF WriteFailed, Disconnect, Finish, Handled, Over, Completes, TypeOK
  <2>2. \A q \in Streams : q # s => ops'[q] = ops[q]
    BY <2>1 DEF TypeOK
  <2>3. CASE r = s
    <3>1. op = "finish" => ops'[s]["finish"] = ops[s]["finish"] /\ ops[s]["finish"] > 0
      BY <1>6, <2>1, OpsType DEF Completes, Ops
    <3> QED
      BY <1>0, <2>1, <2>3, <3>1 DEF Ending
  <2> QED
    BY <1>0, <2>1, <2>2, <2>3 DEF Ending
<1>7. ASSUME NEW s \in Streams, Notify(s)
      PROVE  Ending(r)'
  <2>1. /\ call[s] # "none" /\ UNCHANGED <<tag, ops, call>>
        /\ state' \in {[state EXCEPT ![s] = "FINISH"], state}
    BY <1>7 DEF Notify
  <2> QED
    BY <1>0, <2>1 DEF Ending, TypeOK
<1>8. ASSUME NEW s \in Streams, NoClient(s) PROVE Ending(r)'
  BY <1>5, <1>8 DEF NoClient, Ops
<1>9. ASSUME NEW s \in Streams, NEW op \in Ops, Finished(s, op) PROVE Ending(r)'
  BY <1>5, <1>9 DEF Finished, KillsNow
<1>10. ASSUME NEW s \in Streams, WriteFailed(s) PROVE Ending(r)'
  BY <1>6, <1>10 DEF WriteFailed, Ops
<1>11. ASSUME NEW s \in Streams, NEW op \in Ops, Disconnect(s, op) PROVE Ending(r)'
  BY <1>6, <1>11 DEF Disconnect
<1> QED
  BY <1>1, <1>2, <1>3, <1>4, <1>7, <1>8, <1>9, <1>10, <1>11, StepKinds DEF Living

LEMMA EndingHolds == Spec => [](TypeOK /\ LifeInv /\ EndInv)
<1>1. Init => EndInv
  BY DEF Init, EndInv, Ending
<1> QED
  BY <1>1, StepEnding, InitLife, StepLife, TypeCorrect, PTL DEF Spec

LEMMA EndingCorrect == StopSpec => [](TypeOK /\ LifeInv /\ EndInv)
  BY EndingHolds, StreamsComposed, PTL

-----------------------------------------------------------------------------
(* Finish() for the second time.                                           *)

\* A stream in use has not called Finish(), and one that has, and was not brought
\* further by its completion, has lost its client.
Once(s) ==
  /\ state[s] \in {"CONNECT", "WRITE"} => s \notin told
  /\ state[s] = "DISCONNECT" /\ s \in told => call[s] = "lost"

OnceInv == (\A s \in Streams : Once(s)) /\ FinishedOnce

LEMMA StepOnce == TypeOK /\ EndInv /\ OnceInv /\ [Next]_vars => OnceInv'
<1> SUFFICES ASSUME TypeOK, EndInv, OnceInv, [Next]_vars PROVE OnceInv'
  OBVIOUS
<1> USE DEF callVars
<1>1. ASSUME NEW r \in Streams PROVE Once(r)'
  <2>0. Once(r) /\ Ending(r)
    BY DEF OnceInv, EndInv
  <2>1. CASE UNCHANGED lifeVars \/ RemovePlugin \/ Shutdown
    BY <2>0, <2>1 DEF lifeVars, RemovePlugin, Shutdown, Once
  <2>2. ASSUME NEW s \in Streams,
               Lose(s) \/ SendEvents(s) \/ EndStream(s) \/ WriteDone(s) \/ Notify(s)
        PROVE  Once(r)'
    BY <2>0, <2>2 DEF Lose, SendEvents, EndStream, WriteDone, Notify, Once, TypeOK
  <2>3. ASSUME NEW s \in Streams, NEW t \in Streams, Accept(s, t) PROVE Once(r)'
    BY <2>0, <2>3 DEF Accept, Once, TypeOK
  <2>4. ASSUME NEW s \in Streams, WriteFailed(s) PROVE Once(r)'
    <3>1. /\ state' = [state EXCEPT ![s] = "DISCONNECT"] /\ told' = told \union {s}
          /\ UNCHANGED call /\ call[s] # "open" /\ tag[s] = "pending" /\ state[s] = "WRITE"
      BY <2>4 DEF WriteFailed, Finish, Completes
    <3>2. call[s] = "lost"
      BY <3>1 DEF EndInv, Ending, TypeOK
    <3> QED
      BY <2>0, <3>1, <3>2 DEF Once, TypeOK
  <2>5. ASSUME NEW s \in Streams, NEW op \in Ops, Disconnect(s, op) PROVE Once(r)'
    BY <2>0, <2>5 DEF Disconnect, Finish, Over, Once, TypeOK
  <2>6. ASSUME NEW s \in Streams, NEW op \in Ops, Kill(s, op), state[s] \in {"CONNECT", "FINISH"}
        PROVE  Once(r)'
    BY <2>0, <2>6 DEF Kill, Over, Once, TypeOK
  <2>7. ASSUME NEW s \in Streams, NoClient(s) \/ \E op \in Ops : Finished(s, op) PROVE Once(r)'
    BY <2>6, <2>7 DEF NoClient, Finished, KillsNow, Ops
  <2> QED
    BY <2>1, <2>2, <2>3, <2>4, <2>5, <2>7, StepKinds DEF Living
<1>2. FinishedOnce'
  <2>1. CASE died = "finish"
    <3>1. UNCHANGED vars
      BY <2>1 DEF Next
    <3> QED
      BY <3>1 DEF OnceInv, FinishedOnce, vars, lifeVars
  <2>2. ASSUME NEW s \in Streams, NEW op \in Ops, FinishAgain(s, op) PROVE FinishedOnce'
    BY <2>2 DEF FinishAgain, Dies, lifeVars, OnceInv, Once, FinishedOnce
  <2>3. CASE died # "finish" /\ ~\E s \in Streams, op \in Ops : FinishAgain(s, op)
    <3>1. CASE Living
      <4>1. UNCHANGED died
        BY <3>1 DEF Living, Lose, SendEvents, EndStream, Notify, NoClient, WriteDone, WriteFailed,
          Accept, Disconnect, Finished, Kill, RemovePlugin, Shutdown
      <4> QED
        BY <2>3, <4>1 DEF FinishedOnce
    <3>2. ASSUME NEW s \in Streams, WriteBeside(s) \/ Malformed(s) PROVE died' # "finish"
      BY <3>2 DEF WriteBeside, Malformed, Dies
    <3>3. CASE UNCHANGED vars
      BY <2>3, <3>3 DEF vars, FinishedOnce
    <3> QED
      BY <2>3, <3>1, <3>2, <3>3 DEF Next, Process, Handles, Living, FinishedOnce
  <2> QED
    BY <2>1, <2>2, <2>3
<1> QED
  BY <1>1, <1>2 DEF OnceInv

\* However many streams there are and in whatever order their operations complete,
\* gRPC is given a second Finish() only for a client that was lost while it was
\* written to, and never after endStream() or a rejection.
THEOREM FinishedCorrect == Spec => []FinishedOnce
<1>1. Init => OnceInv
  BY DEF Init, OnceInv, Once, FinishedOnce
<1>2. OnceInv => FinishedOnce
  BY DEF OnceInv
<1> QED
  BY <1>1, <1>2, StepOnce, EndingHolds, PTL DEF Spec

-----------------------------------------------------------------------------
(* What stop() has reached.                                                *)

\* Nothing is outstanding on queue 0.
Quiet ==
  /\ \A s \in Streams, op \in Ops : ops[s][op] = 0
  /\ \A s \in Streams : call[s] = "none" \/ s \in notified
  /\ alarm = "none"

LEMMA PendingQuiet == TypeOK => (Pending = {} <=> Quiet)
<1> SUFFICES ASSUME TypeOK PROVE Pending = {} <=> Quiet
  OBVIOUS
<1>1. ASSUME Pending = {} PROVE Quiet
  <2>1. ASSUME NEW s \in Streams, NEW op \in Ops PROVE ops[s][op] = 0
    <3>1. <<s, op>> \in Streams \X Ops /\ ops[s][op] \in Nat
      BY DEF TypeOK
    <3>2. ~(ops[s][op] > 0)
      BY <1>1, <3>1 DEF Pending
    <3> QED
      BY <3>1, <3>2
  <2>2. ASSUME NEW s \in Streams, call[s] # "none", s \notin notified PROVE FALSE
    <3>1. <<s, "done">> \in Pending
      BY <2>2 DEF Pending
    <3> QED
      BY <1>1, <3>1
  <2>3. alarm = "none"
    BY <1>1 DEF Pending
  <2> QED
    BY <2>1, <2>2, <2>3 DEF Quiet
<1>2. ASSUME Quiet PROVE Pending = {}
  <2>1. ASSUME NEW o \in Streams \X Ops PROVE ~(ops[o[1]][o[2]] > 0)
    BY <1>2 DEF Quiet
  <2>2. {r \in Streams : call[r] # "none" /\ r \notin notified} = {}
    BY <1>2 DEF Quiet
  <2> QED
    BY <1>2, <2>1, <2>2 DEF Pending, Quiet
<1> QED
  BY <1>1, <1>2

\* The steps of stop() and the queues that they have shut down.
Progress ==
  /\ main \in {"up", "shutdown"} => closed = {}
  /\ main = "teardown0" => closed = {0}
  /\ main \in {"teardown1", "join", "finished"} => closed = {0, 1}
  /\ main \in {"up", "shutdown"} \/ \A s \in Streams : call[s] # "open"

\* Who is inside pollCallback().
Poller ==
  /\ poller = "none" => todo = {}
  /\ poller = "main" => main = "teardown0"
  /\ 0 \in left => poller # "run"

\* What was drained stays so: whoever starts an operation then, aborts.
Emptied ==
  /\ main \in {"teardown1", "join"} => aborted # "no" \/ Quiet
  /\ main = "join" => aborted # "no" \/ Calls = {}
  /\ 1 \in left => Inside = {}
  /\ main = "finished" => Quiet /\ poller = "none" /\ Calls = {} /\ Inside = {}

StopInv == StopTypeOK /\ Progress /\ Poller /\ Emptied

LEMMA InitStop == StopInit => StopInv
  BY DEF StopInit, StopInv, StopTypeOK, Progress, Poller, Emptied, Threads

LEMMA StepStopType ==
  TypeOK /\ StopTypeOK /\ Progress /\ [StopNext]_allVars => StopTypeOK'
<1> SUFFICES ASSUME TypeOK, StopTypeOK, Progress, [StopNext]_allVars PROVE StopTypeOK'
  OBVIOUS
<1>1. CASE UNCHANGED allVars
  BY <1>1 DEF allVars, stopVars, loopVars, StopTypeOK
<1>2. ASSUME NEW handled, Starts(handled) PROVE aborted' \in {"no", "queue", "metadata"}
  BY <1>2 DEF Starts, StartsOn
<1>3. ASSUME NEW s \in Streams, Event0(s) \/ Notifies(s) PROVE StopTypeOK'
  BY <1>2, <1>3 DEF Event0, Fails, Ends, Notifies, stopVars, loopVars, StopTypeOK
<1>4. ASSUME NEW s \in Streams, NEW t \in Streams, Connects(s, t) PROVE StopTypeOK'
  BY <1>4 DEF Connects, StartsLoop, StopTypeOK
<1>5. ASSUME NEW s \in Streams, PollWrites(s) PROVE StopTypeOK'
  BY <1>2, <1>5 DEF PollWrites, StopTypeOK
<1>6. ASSUME NEW t \in Threads, PollFires(t) PROVE StopTypeOK'
  <2>1. todo' \subseteq Streams
    BY <1>6 DEF PollFires, StopTypeOK, TypeOK
  <2> QED
    BY <1>6, <2>1 DEF PollFires, StopTypeOK
<1>7. CASE PollRearms
  BY <1>2, <1>7 DEF PollRearms, StopTypeOK
<1>8. CASE Outside
  BY <1>8 DEF Outside, stopVars, loopVars, StopTypeOK
<1>9. CASE Stop
  BY <1>9 DEF Stop, CancelAllPendingTags, ServerShutdown, ShutdownReturns, TeardownNext,
    TeardownEnds, StopEnds, Goes, stopVars, loopVars, StopTypeOK, Progress
<1>10. CASE RunEnds
  BY <1>10 DEF RunEnds, Drained0, Drained1, loopVars, StopTypeOK
<1>11. CASE Event1 \/ Unary
  <2>1. ASSUME NEW h \in Handlers, UnaryAnswers(h) \/ UnaryThrows(h) \/ UnaryKill(h)
        PROVE  StopTypeOK'
    BY <2>1 DEF UnaryAnswers, StartsOn, UnaryThrows, UnaryKill, loopVars, StopTypeOK
  <2>2. ASSUME NEW h \in Handlers, NEW g \in Handlers, UnaryCall(h, g) PROVE StopTypeOK'
    BY <2>2 DEF UnaryCall, loopVars, StopTypeOK
  <2> QED
    BY <1>11, <2>1, <2>2 DEF Event1, Unary
<1> QED
  BY <1>1, <1>3, <1>4, <1>5, <1>6, <1>7, <1>8, <1>9, <1>10, <1>11 DEF StopNext, Poll

LEMMA StepProgress ==
  TypeOK /\ StopTypeOK /\ Progress /\ [StopNext]_allVars => Progress'
<1> SUFFICES ASSUME TypeOK, StopTypeOK, Progress, [StopNext]_allVars PROVE Progress'
  OBVIOUS
<1>1. ASSUME UNCHANGED <<main, closed>>,
             main \in {"up", "shutdown"} \/ \A s \in Streams : call'[s] # "open"
      PROVE  Progress'
  BY <1>1 DEF Progress
<1>2. ASSUME NEW s \in Streams, NEW op \in Ops, call' = Over(s, op)
      PROVE  \A r \in Streams : call'[r] = "open" => call[r] = "open"
  BY <1>2 DEF Over, TypeOK
<1>3. CASE UNCHANGED allVars
  BY <1>1, <1>3 DEF allVars, vars, lifeVars, callVars, stopVars, Progress
<1>4. ASSUME NEW s \in Streams, Event0(s) \/ Notifies(s) PROVE Progress'
  <2>1. \A r \in Streams : call'[r] = "open" => call[r] = "open"
    BY <1>2, <1>4 DEF Event0, Fails, Ends, Notifies, WriteFailed, Disconnect, FinishAgain, Dies,
      NoClient, WriteDone, Finished, Kill, Notify, lifeVars, callVars, Ops
  <2>2. UNCHANGED <<main, closed>>
    BY <1>4 DEF Event0, Fails, Ends, Notifies, stopVars
  <2> QED
    BY <1>1, <2>1, <2>2 DEF Progress
<1>5. ASSUME NEW s \in Streams, NEW t \in Streams, Connects(s, t) PROVE Progress'
  <2>1. closed = {} /\ UNCHANGED <<main, closed>>
    BY <1>5 DEF Connects
  <2>2. main \in {"up", "shutdown"}
    BY <2>1 DEF Progress, StopTypeOK
  <2> QED
    BY <1>1, <2>1, <2>2
<1>6. ASSUME NEW s \in Streams, PollWrites(s) PROVE Progress'
  BY <1>1, <1>6 DEF PollWrites, SendEvents, WriteBeside, Dies, vars, lifeVars, callVars, Progress
<1>7. ASSUME NEW t \in Threads, PollFires(t) PROVE Progress'
  BY <1>1, <1>7 DEF PollFires, vars, lifeVars, callVars, Progress
<1>8. CASE PollRearms
  BY <1>1, <1>8 DEF PollRearms, vars, lifeVars, callVars, Progress
<1>9. CASE Outside
  <2>1. \A r \in Streams : call'[r] = "open" => call[r] = "open"
    BY <1>9 DEF Outside, Lose, RemovePlugin, callVars, TypeOK
  <2> QED
    BY <1>1, <1>9, <2>1 DEF Outside, stopVars, Progress
<1>10. CASE Stop
  BY <1>10 DEF Stop, CancelAllPendingTags, ServerShutdown, Shutdown, ShutdownReturns,
    TeardownNext, TeardownEnds, StopEnds, Goes, vars, lifeVars, callVars, stopVars, Progress
<1>11. CASE RunEnds \/ Event1 \/ Unary
  BY <1>1, <1>11 DEF RunEnds, Event1, UnaryKill, Unary, UnaryCall, UnaryAnswers, UnaryThrows,
    vars, lifeVars, callVars, Progress
<1> QED
  BY <1>3, <1>4, <1>5, <1>6, <1>7, <1>8, <1>9, <1>10, <1>11 DEF StopNext, Poll

LEMMA StepPoller ==
  TypeOK /\ StopTypeOK /\ Progress /\ Poller /\ [StopNext]_allVars => Poller'
<1> SUFFICES ASSUME TypeOK, StopTypeOK, Progress, Poller, [StopNext]_allVars PROVE Poller'
  OBVIOUS
<1>1. CASE UNCHANGED allVars
  BY <1>1 DEF allVars, stopVars, loopVars, Poller
<1>2. ASSUME NEW s \in Streams, Event0(s) \/ Notifies(s) PROVE Poller'
  BY <1>2 DEF Event0, Fails, Ends, Notifies, stopVars, loopVars, Poller
<1>3. ASSUME NEW s \in Streams, NEW t \in Streams, Connects(s, t) PROVE Poller'
  BY <1>3 DEF Connects, Poller
<1>4. ASSUME NEW s \in Streams, PollWrites(s) PROVE Poller'
  BY <1>4 DEF PollWrites, Poller
<1>5. ASSUME NEW t \in Threads, PollFires(t) PROVE Poller'
  BY <1>5 DEF PollFires, Free, Threads, Poller
<1>6. CASE PollRearms
  BY <1>6 DEF PollRearms, Poller
<1>7. CASE Outside
  BY <1>7 DEF Outside, stopVars, loopVars, Poller
<1>8. CASE Stop
  BY <1>8 DEF Stop, CancelAllPendingTags, ServerShutdown, ShutdownReturns, TeardownNext,
    TeardownEnds, StopEnds, Free, Goes, stopVars, loopVars, Poller
<1>9. CASE RunEnds
  BY <1>9 DEF RunEnds, Free, loopVars, Poller
<1>10. CASE Event1 \/ Unary
  BY <1>10 DEF Event1, UnaryKill, Unary, UnaryCall, UnaryAnswers, UnaryThrows, loopVars, Poller
<1> QED
  BY <1>1, <1>2, <1>3, <1>4, <1>5, <1>6, <1>7, <1>8, <1>9, <1>10 DEF StopNext, Poll

\* On a queue that was drained only a callback that is still inside can act.
LEMMA StaysQuiet ==
  ASSUME TypeOK, StopTypeOK, Progress, Poller, Quiet, StopNext,
         main \in {"teardown1", "join", "finished"}
  PROVE  \/ Quiet' /\ UNCHANGED poller
         \/ aborted' # "no" /\ poller # "none" /\ UNCHANGED main
<1>1. /\ closed = {0, 1} /\ \A s \in Streams : call[s] # "open"
      /\ \A s \in Streams, op \in Ops : ~Completes(s, op)
  BY DEF Progress, Quiet, Completes
<1>2. Pending = {}
  BY PendingQuiet
<1>3. ASSUME NEW handled, Starts(handled) PROVE aborted' # "no"
  <2>1. IsShut(0) /\ Pending \ handled = {}
    BY <1>1, <1>2 DEF IsShut, Quiet, Ops
  <2> QED
    BY <1>3, <2>1 DEF Starts, StartsOn
<1>4. ASSUME UNCHANGED <<ops, call, notified, alarm>> PROVE Quiet'
  BY <1>4 DEF Quiet
<1>5. \A s \in Streams : ~Event0(s)
  BY <1>1 DEF Event0, Fails, Ends, WriteFailed, Disconnect, FinishAgain, NoClient,
    WriteDone, Finished, Ops
<1>6. \A s \in Streams : ~Notifies(s)
  BY DEF Notifies, Notify, Quiet
<1>7. (\A t \in Threads : ~PollFires(t)) /\ (\A s, t \in Streams : ~Connects(s, t)) /\ ~Outside
  BY <1>1 DEF PollFires, Connects, Outside, Lose, Quiet
<1>8. ASSUME NEW s \in Streams, PollWrites(s)
      PROVE  \/ Quiet' /\ UNCHANGED poller
             \/ aborted' # "no" /\ poller # "none" /\ UNCHANGED main
  <2>1. poller # "none" /\ UNCHANGED <<main, alarm, poller>>
    BY <1>8 DEF PollWrites, Poller
  <2>2. CASE Starts({})
    BY <1>3, <2>1, <2>2
  <2>3. CASE UNCHANGED <<vars, aborted>>
    BY <1>4, <2>1, <2>3 DEF vars, lifeVars, callVars
  <2>4. ~WriteBeside(s)
    BY DEF WriteBeside, Quiet, Ops
  <2> QED
    BY <1>8, <2>2, <2>3, <2>4 DEF PollWrites
<1>9. CASE PollRearms
  BY <1>3, <1>9 DEF PollRearms
<1>10. CASE Stop \/ RunEnds \/ Event1 \/ Unary
  <2>1. UNCHANGED <<vars, alarm, poller>>
    BY <1>10 DEF Stop, CancelAllPendingTags, ServerShutdown, ShutdownReturns, TeardownNext,
      TeardownEnds, StopEnds, RunEnds, Event1, UnaryKill, Unary, UnaryCall, UnaryAnswers,
      UnaryThrows, loopVars
  <2> QED
    BY <1>4, <2>1 DEF vars, lifeVars, callVars
<1> QED
  BY <1>5, <1>6, <1>7, <1>8, <1>9, <1>10 DEF StopNext, Poll

\* On a queue that is shut down only a handler that is still inside can start
\* anything, and if nothing was outstanding, gRPC aborts.
LEMMA StepCalls ==
  ASSUME StopTypeOK, StopNext, closed # {}
  PROVE  /\ Inside' \subseteq Inside
         /\ Calls = {} /\ Inside = {} => Calls' = {}
         /\ Calls = {} /\ 1 \in closed => aborted' # "no" \/ Calls' = {}
<1>1. CASE UNCHANGED unary
  BY <1>1 DEF Calls, Inside
<1>2. ASSUME NEW h \in Handlers, UnaryKill(h)
      PROVE  Inside' \subseteq Inside /\ Calls' \subseteq Calls
  BY <1>2 DEF UnaryKill, Calls, Inside, StopTypeOK
<1>3. ASSUME NEW h \in Handlers, UnaryAnswers(h)
      PROVE  /\ Inside' \subseteq Inside /\ Inside # {}
             /\ Calls = {} /\ 1 \in closed => aborted' # "no"
  <2>1. Inside' \subseteq Inside /\ Inside # {}
    BY <1>3 DEF UnaryAnswers, Inside, StopTypeOK
  <2>2. ASSUME Calls = {}, 1 \in closed PROVE aborted' # "no"
    <3>1. IsShut(1)
      BY <2>2 DEF IsShut, Calls
    <3> QED
      BY <1>3, <2>2, <3>1 DEF UnaryAnswers, StartsOn
  <2> QED
    BY <2>1, <2>2
<1>4. \A h, g \in Handlers : ~UnaryCall(h, g)
  BY DEF UnaryCall
<1>5. \/ \E h \in Handlers : UnaryKill(h) \/ UnaryAnswers(h)
      \/ UNCHANGED unary
  BY <1>4 DEF StopNext, Event0, Fails, Ends, Notifies, Poll, PollFires, PollWrites, PollRearms,
    Event1, Unary, UnaryThrows, Stop, CancelAllPendingTags, ServerShutdown, ShutdownReturns,
    TeardownNext, TeardownEnds, StopEnds, RunEnds, Outside, Connects, stopVars, loopVars
<1> QED
  BY <1>1, <1>2, <1>3, <1>5

LEMMA StepEmptied ==
  TypeOK /\ StopTypeOK /\ Progress /\ Poller /\ Emptied /\ [StopNext]_allVars => Emptied'
<1> SUFFICES ASSUME TypeOK, StopTypeOK, Progress, Poller, Emptied, [StopNext]_allVars
             PROVE  Emptied'
  OBVIOUS
<1>1. CASE UNCHANGED allVars
  BY <1>1 DEF allVars, vars, lifeVars, callVars, stopVars, loopVars, Emptied, Quiet, Calls, Inside
<1>2. CASE StopNext
  <2>0. aborted = "no"
    BY <1>2 DEF StopNext, Lives
  <2>1. 1 \in left' => Inside' = {}
    <3>1. CASE 1 \in left
      BY <1>2, <3>1, StepCalls DEF Emptied, StopTypeOK
    <3>2. CASE 1 \notin left /\ 1 \in left'
      <4>1. RunEnds
        BY <1>2, <3>2 DEF StopNext, Event0, Fails, Ends, Notifies, Poll, PollFires, PollWrites,
          PollRearms, Event1, UnaryKill, Unary, UnaryCall, UnaryAnswers, UnaryThrows, Stop,
          CancelAllPendingTags, ServerShutdown, ShutdownReturns, TeardownNext, TeardownEnds,
          StopEnds, Outside, Connects, stopVars
      <4> QED
        BY <3>2, <4>1 DEF RunEnds, Inside
    <3> QED
      BY <3>1, <3>2
  <2>2. main' # main => Stop
    BY <1>2 DEF StopNext, Event0, Fails, Ends, Notifies, Poll, PollFires, PollWrites, PollRearms,
      Event1, UnaryKill, Unary, UnaryCall, UnaryAnswers, UnaryThrows, RunEnds, Outside, Connects,
      stopVars
  <2>3. CASE main' = main
    <3>1. main \in {"teardown1", "join"} => aborted' # "no" \/ Quiet'
      BY <1>2, <2>0, StaysQuiet DEF Emptied
    <3>2. main = "join" => aborted' # "no" \/ Calls' = {}
      BY <1>2, <2>0, StepCalls DEF Emptied, Progress
    <3>3. main = "finished" => Quiet' /\ poller' = "none"
      BY <1>2, StaysQuiet DEF Emptied
    <3>4. main = "finished" => Calls' = {} /\ Inside' = {}
      BY <1>2, StepCalls DEF Emptied, Progress
    <3> QED
      BY <2>1, <2>3, <3>1, <3>2, <3>3, <3>4 DEF Emptied
  <2>4. CASE TeardownNext
    <3>1. Quiet /\ UNCHANGED <<vars, alarm>> /\ main' = "teardown1"
      BY <2>4, PendingQuiet DEF TeardownNext, Drained0, Goes, loopVars
    <3> QED
      BY <2>1, <3>1 DEF Emptied, Quiet, vars, lifeVars, callVars
  <2>5. CASE TeardownEnds
    <3>1. /\ main = "teardown1" /\ main' = "join" /\ Calls = {}
          /\ UNCHANGED <<vars, alarm, unary, aborted>>
      BY <2>5 DEF TeardownEnds, Drained1, Goes, loopVars
    <3> QED
      BY <2>1, <3>1 DEF Emptied, Quiet, Calls, vars, lifeVars, callVars
  <2>6. CASE StopEnds
    <3>1. /\ main = "join" /\ main' = "finished" /\ left = {0, 1}
          /\ UNCHANGED <<vars, alarm, poller, unary, aborted>>
      BY <2>6 DEF StopEnds, Goes, loopVars
    <3>2. poller = "none"
      BY <3>1 DEF Poller, StopTypeOK, Threads
    <3>3. Quiet /\ Calls = {} /\ Inside = {}
      BY <2>0, <3>1 DEF Emptied
    <3> QED
      BY <2>1, <3>1, <3>2, <3>3 DEF Emptied, Quiet, Calls, Inside, vars, lifeVars, callVars
  <2>7. CASE CancelAllPendingTags \/ ServerShutdown \/ ShutdownReturns
    <3>1. main' \in {"shutdown", "teardown0"} \/ main' = main
      BY <2>7 DEF CancelAllPendingTags, ServerShutdown, ShutdownReturns, Goes, stopVars
    <3> QED
      BY <2>1, <2>3, <3>1 DEF Emptied
  <2> QED
    BY <2>2, <2>3, <2>4, <2>5, <2>6, <2>7 DEF Stop
<1> QED
  BY <1>1, <1>2

LEMMA StopInvCorrect == StopSpec => []StopInv
<1>1. TypeOK /\ StopInv /\ [StopNext]_allVars => StopInv'
  BY StepStopType, StepProgress, StepPoller, StepEmptied DEF StopInv
<1> QED
  BY <1>1, InitStop, StreamsComposed, TypeCorrect, PTL DEF StopSpec

\* The variables of stop() have their types, and no thread leaves run() before
\* its queue was shut down.
THEOREM StopTypeCorrect == StopSpec => []StopTypeOK
  BY StopInvCorrect, PTL DEF StopInv

\* For any number of clients and handlers, and however the threads share the
\* events: when stop() returns nothing is left but streams of lost clients.
THEOREM LeftBehindCorrect == StopSpec => []LeftBehind
<1>1. TypeOK /\ LifeInv /\ EndInv /\ StopInv => LeftBehind
  <2> SUFFICES ASSUME TypeOK, LifeInv, EndInv, StopInv, main = "finished"
               PROVE  /\ ~HasAlarmTags
                      /\ \A s \in PendingTags : Forgotten(s)
                      /\ \A h \in Handlers : unary[h] \in {"unborn", "destroyed"}
    BY DEF LeftBehind
  <2>1. /\ Quiet /\ poller = "none" /\ Calls = {} /\ Inside = {}
        /\ \A s \in Streams : call[s] # "open"
    BY DEF StopInv, Emptied, Progress
  <2>2. ~HasAlarmTags
    BY <2>1 DEF HasAlarmTags, Quiet
  <2>3. \A h \in Handlers : unary[h] \in {"unborn", "destroyed"}
    BY <2>1 DEF Calls, Inside, StopInv, StopTypeOK
  <2>4. ASSUME NEW s \in Streams, tag[s] = "pending" PROVE Forgotten(s)
    <3>1. \A op \in Ops : ops[s][op] = 0
      BY <2>1 DEF Quiet
    <3>2. Outstanding(s) = 0
      BY <3>1 DEF Outstanding, Ops
    <3>3. state[s] # "CONNECT"
      <4>1. Only("request")["request"] = 1
        BY DEF Only, None, Ops
      <4>2. ops[s]["request"] = 0
        BY <3>1 DEF Ops
      <4> QED
        BY <2>4, <4>1, <4>2 DEF LifeInv, Fresh
    <3>4. call[s] \notin {"none", "over"}
      BY <2>4, <3>1, <3>3 DEF EndInv, Ending, Ops
    <3> QED
      BY <2>1, <3>2, <3>4 DEF Forgotten, TypeOK
  <2> QED
    BY <2>2, <2>3, <2>4 DEF PendingTags
<1> QED
  BY <1>1, EndingCorrect, StopInvCorrect, PTL

-----------------------------------------------------------------------------
(* Until queue 0 is shut down.                                             *)

\* One thread takes its events, and while that one is inside pollCallback() no
\* other stream is handled.
Undisturbed == closed = {} => PolledAlive

LEMMA StepUndisturbed ==
  ASSUME TypeOK, StreamsAlive, StopTypeOK, Progress, Poller, Undisturbed, [StopNext]_allVars
  PROVE  Undisturbed'
<1> SUFFICES ASSUME closed' = {}
             PROVE  \A s \in todo' : tag'[s] = "pending" \/ (~plugin' /\ s \notin shared')
  BY DEF Undisturbed, PolledAlive, Stray
<1> DEFINE Good == \A s \in todo' : tag'[s] = "pending" \/ (~plugin' /\ s \notin shared')
<1>1. CASE UNCHANGED allVars
  BY <1>1 DEF allVars, vars, stopVars, lifeVars, loopVars, Undisturbed, PolledAlive, Stray
<1>2. CASE closed = {}
  <2>1. \A s \in todo : tag[s] = "pending" \/ (~plugin /\ s \notin shared)
    BY <1>2 DEF Undisturbed, PolledAlive, Stray
  <2>2. main # "teardown0" /\ poller # "main"
    BY <1>2 DEF Progress, Poller
  <2>3. OneIsFree => todo = {}
    BY <2>2 DEF OneIsFree, Free, Threads, Poller, StopTypeOK
  <2>5. ASSUME UNCHANGED <<tag, shared, todo>>, plugin' => plugin PROVE Good
    BY <2>1, <2>5
  <2>6. ASSUME NEW s \in Streams, Event0(s) \/ Notifies(s) PROVE Good
    BY <2>3, <2>6 DEF Event0, Fails, Ends, Notifies, stopVars, loopVars
  <2>7. ASSUME NEW s \in Streams, NEW t \in Streams, Connects(s, t) PROVE Good
    BY <2>1, <2>3, <2>7 DEF Connects
  <2>8. ASSUME NEW s \in Streams, PollWrites(s) PROVE Good
    <3>1. todo' \subseteq todo /\ UNCHANGED <<tag, shared, plugin>>
      BY <2>8 DEF PollWrites, SendEvents, WriteBeside, Dies, vars, lifeVars
    <3> QED
      BY <2>1, <3>1
  <2>9. ASSUME NEW t \in Threads, PollFires(t) PROVE Good
    <3>1. todo' \subseteq registered \/ UNCHANGED todo
      BY <2>9 DEF PollFires
    <3>2. UNCHANGED <<tag, shared, plugin>>
      BY <2>9 DEF PollFires, vars, lifeVars
    <3> QED
      BY <2>1, <3>1, <3>2 DEF StreamsAlive, Stray
  <2>10. CASE PollRearms
    BY <2>5, <2>10 DEF PollRearms, vars, lifeVars
  <2>11. CASE Outside
    BY <2>1, <2>5, <2>11 DEF Outside, Lose, RemovePlugin, stopVars, loopVars
  <2>12. CASE Stop
    BY <2>1, <2>5, <2>12 DEF Stop, CancelAllPendingTags, ServerShutdown, Shutdown, ShutdownReturns,
      TeardownNext, TeardownEnds, StopEnds, vars, lifeVars, stopVars, loopVars
  <2>13. CASE RunEnds \/ Event1 \/ Unary
    BY <2>1, <2>5, <2>13 DEF RunEnds, Event1, UnaryKill, Unary, UnaryCall, UnaryAnswers,
      UnaryThrows, vars, lifeVars, loopVars
  <2> QED
    BY <1>1, <2>6, <2>7, <2>8, <2>9, <2>10, <2>11, <2>12, <2>13 DEF StopNext, Poll
<1>3. closed \subseteq closed'
  BY DEF StopNext, Event0, Fails, Ends, Notifies, Poll, PollFires, PollWrites, PollRearms,
    Event1, UnaryKill, Unary, UnaryCall, UnaryAnswers, UnaryThrows, Stop,
    CancelAllPendingTags, ServerShutdown, ShutdownReturns, TeardownNext, TeardownEnds,
    StopEnds, RunEnds, Outside, Connects, stopVars, allVars, StopTypeOK
<1> QED
  BY <1>2, <1>3

\* Whatever was cancelled or polled before it, until cq->Shutdown() on queue 0 a
\* callback finds every stream that it still writes to alive: no other thread
\* destroys one, as teardown() does afterwards.  (That the process lives is not
\* said: it can die of a stream before.)
THEOREM PolledBefore == StopSpec => [](0 \notin closed => PolledAlive)
<1>1. StopInit => Undisturbed
  BY DEF StopInit, Undisturbed, PolledAlive
<1>2. TypeOK /\ StreamsAlive /\ StopInv /\ Undisturbed /\ [StopNext]_allVars => Undisturbed'
  BY StepUndisturbed DEF StopInv
<1>3. StopInv /\ Undisturbed => (0 \notin closed => PolledAlive)
  BY DEF StopInv, StopTypeOK, Undisturbed
<1> QED
  BY <1>1, <1>2, <1>3, StopInvCorrect, StreamsComposed, TypeCorrect, AliveCorrect, PTL DEF StopSpec
=============================================================================
