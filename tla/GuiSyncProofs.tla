--------------------------- MODULE GuiSyncProofs ---------------------------
(***************************************************************************)
(* The GUI handshake for any number of requests, timeouts and deaths: the  *)
(* lag is bounded by the timeouts, answers come in order, and the answer   *)
(* that makes a call return true is no more requests old than waits timed  *)
(* out.  The requests, the calls of the GUI and the blocking queue are one *)
(* wire, the one of module Handshake.                                      *)
(***************************************************************************)
EXTENDS GuiSync, TLAPS

\* What every call leaves, whatever the outcome of its verification.
LEMMA ReturnEffect ==
  ASSUME TypeOK, NEW ok \in BOOLEAN, main.at = "wait", Return(ok)
  PROVE  /\ main' \in [at : {"idle", "aux"}, ev : GuiEvents]
         /\ created' \in BOOLEAN /\ guiProc' \in {"null", "held"}
         /\ child' \in {"none", "starting", "connected", "gone"}
         /\ zombies' \in Nat /\ polling' = polling
<1> USE DEF TypeOK, MainType, GuiEvents, At, Idle, guiVars
<1>1. main' \in {At("aux", main.ev), Idle}
  BY DEF Return
<1>2. created' \in BOOLEAN /\ guiProc' \in {"null", "held"} /\ polling' = polling
  BY DEF Return
<1>3. UNCHANGED <<child, zombies>> \/ Terminate
  BY DEF Return
<1>4. child' \in {"none", "starting", "connected", "gone"} /\ zombies' \in Nat
  BY <1>3 DEF Terminate
<1> QED
  BY <1>1, <1>2, <1>4

LEMMA HeadAndTail ==
  ASSUME NEW S, NEW q \in Seq(S), q # <<>>
  PROVE  Head(q) \in S /\ Tail(q) \in Seq(S) /\ Len(Tail(q)) = Len(q) - 1
  OBVIOUS

LEMMA InitType == Init => TypeOK
<1> SUFFICES ASSUME Init PROVE TypeOK
  OBVIOUS
<1> USE GuiAssumption DEF Init
<1>1. MainType
  <2>1. main = [at |-> "idle", ev |-> "GuiCreate"]
    BY DEF Idle, At
  <2>2. main \in [at : {"idle", "poll", "push", "valid", "wait", "aux"}, ev : GuiEvents]
    BY <2>1 DEF GuiEvents
  <2>3. created \in BOOLEAN /\ guiProc \in {"null", "held"}
    BY Zenon
  <2> QED
    BY <2>1, <2>2, <2>3 DEF MainType
<1>2. WireType
  BY DEF SlotCap, WireType
<1>3. verified \in SUBSET (Requests \X Requests)
  BY Zenon
<1>4. child \in {"none", "starting", "connected", "gone"} /\ polling \in BOOLEAN
  BY Zenon
<1> QED
  BY <1>1, <1>2, <1>3, <1>4 DEF TypeOK

LEMMA StepType == TypeOK /\ [Next]_vars => TypeOK'
<1> SUFFICES ASSUME TypeOK, [Next]_vars PROVE TypeOK'
  OBVIOUS
<1> USE GuiAssumption DEF TypeOK, guiVars, wireVars, histVars
<1>1. CASE UNCHANGED vars
  BY <1>1 DEF vars, MainType, WireType
<1>2. CASE GuiCreate
  <2>1. MainType'
    BY <1>2 DEF GuiCreate, MainType, At, Idle, GuiEvents
  <2> QED
    BY <1>2, <2>1 DEF GuiCreate, WireType
<1>3. CASE WaitPolling \/ CheckValid \/ Auxiliaries
  <2>1. /\ main' \in {At("push", main.ev), At("valid", main.ev), Idle}
        /\ main'.at = "push" => main.at = "poll"
        /\ main'.at = "valid" => main.at = "push"
    BY <1>3 DEF WaitPolling, CheckValid, Auxiliaries, At, Idle
  <2>2. created' \in BOOLEAN /\ UNCHANGED <<guiProc, asked>>
    BY <1>3 DEF WaitPolling, CheckValid, Auxiliaries, MainType
  <2>3. MainType'
    BY <2>1, <2>2 DEF MainType, At, Idle, GuiEvents
  <2> QED
    BY <1>3, <2>3 DEF WaitPolling, CheckValid, Auxiliaries, WireType
<1>4. CASE PushRequest
  <2>1. [ev |-> main.ev, n |-> asked + 1] \in Requests /\ asked + 1 \in 0 .. MaxRequests
    BY <1>4 DEF PushRequest, Requests, MainType
  <2>2. MainType'
    BY <1>4, <2>1 DEF PushRequest, MainType, At
  <2>3. WireType'
    BY <1>4, <2>1 DEF PushRequest, WireType
  <2> QED
    BY <1>4, <2>1, <2>2, <2>3 DEF PushRequest
<1>5. CASE Verify
  <2> DEFINE pair == <<[ev |-> main.ev, n |-> asked], slot[1]>>
  <2>1. PICK ok \in BOOLEAN : ok = (slot[1].ev = main.ev)
    OBVIOUS
  <2>2. Return(ok) /\ main.at = "wait" /\ slot # <<>>
    BY <1>5, <2>1 DEF Verify
  <2>3. /\ verified' \in {verified, verified \union {pair}}
        /\ UNCHANGED <<toClient, calls, asked, timeouts>> /\ slot' = <<>>
    BY <1>5 DEF Verify
  <2>4. pair \in Requests \X Requests
    <3>1. slot[1] \in Requests
      BY <2>2 DEF WireType
    <3>2. [ev |-> main.ev, n |-> asked] \in Requests
      BY <2>2 DEF MainType, Requests
    <3> QED
      BY <3>1, <3>2
  <2>5. WireType'
    BY <2>3 DEF WireType, SlotCap
  <2> HIDE DEF pair
  <2>6. verified' \in SUBSET (Requests \X Requests)
    BY <2>3, <2>4
  <2>7. MainType'
    BY <2>2, <2>3, ReturnEffect DEF MainType
  <2> QED
    BY <2>2, <2>3, <2>5, <2>6, <2>7, ReturnEffect
<1>6. CASE VerifyTimeout
  <2>1. Return(FALSE) /\ main.at = "wait"
    BY <1>6 DEF VerifyTimeout
  <2>2. WireType' /\ timeouts' \in 0 .. MaxTimeouts /\ UNCHANGED <<asked, verified>>
    BY <1>6 DEF VerifyTimeout, WireType
  <2>3. MainType'
    BY <2>1, <2>2, ReturnEffect DEF MainType
  <2> QED
    BY <2>1, <2>2, <2>3, ReturnEffect
<1>7. ASSUME NEW e \in GuiEvents, Ask(e)
      PROVE  TypeOK'
  <2>1. MainType'
    BY <1>7 DEF Ask, MainType, At, InCall
  <2> QED
    BY <1>7, <2>1 DEF Ask, WireType
<1>8. CASE Connect \/ Die
  <2>1. child' \in {"none", "starting", "connected", "gone"} /\ zombies' \in Nat /\ polling' \in BOOLEAN
    <3>1. polling' \in BOOLEAN
      BY <1>8, Zenon DEF Connect, Die
    <3>2. child' \in {"none", "starting", "connected", "gone"} /\ zombies' \in Nat
      BY <1>8 DEF Connect, Die, Terminate
    <3> QED
      BY <3>1, <3>2
  <2>2. MainType'
    BY <1>8 DEF Connect, Die, MainType
  <2> QED
    BY <1>8, <2>1, <2>2 DEF Connect, Die, WireType
<1>9. CASE Answer
  <2>1. Head(toClient) \in Requests /\ Tail(toClient) \in Seq(Requests)
    BY <1>9, HeadAndTail DEF Answer, WireType
  <2>2. toClient' = Tail(toClient) /\ calls' = Append(calls, Head(toClient)) /\ slot' = slot
    BY <1>9 DEF Answer, Answered
  <2>3. WireType'
    BY <2>1, <2>2 DEF WireType
  <2> QED
    BY <1>9, <2>3 DEF Answer, MainType
<1>10. CASE Lost \/ StreamRemoved \/ PollingEnds
  <2>1. MainType' /\ zombies' \in Nat
    BY <1>10 DEF Lost, StreamRemoved, PollingEnds, MainType
  <2>2. WireType'
    <3>1. toClient' \in Seq(Requests)
      <4>1. CASE Lost
        BY <4>1, HeadAndTail DEF Lost, WireType
      <4>2. CASE StreamRemoved
        BY <4>2 DEF StreamRemoved, WireType
      <4>3. CASE PollingEnds
        <5>1. toClient' = <<>>
          BY <4>3 DEF PollingEnds
        <5> QED
          BY <5>1
      <4> QED
        BY <1>10, <4>1, <4>2, <4>3
    <3> QED
      BY <1>10, <3>1 DEF Lost, StreamRemoved, PollingEnds, WireType
  <2> QED
    BY <1>10, <2>1, <2>2 DEF Lost, StreamRemoved, PollingEnds
<1>11. CASE PushAnswer \/ DropAnswer
  <2>1. Head(calls) \in Requests /\ Tail(calls) \in Seq(Requests)
    BY <1>11, HeadAndTail DEF PushAnswer, DropAnswer, WireType
  <2>2. /\ calls' = Tail(calls) /\ toClient' = toClient
        /\ \/ slot' = slot
           \/ Len(slot) < SlotCap /\ slot' = Append(slot, Head(calls))
    BY <1>11 DEF PushAnswer, DropAnswer, SlotFree
  <2>3. WireType'
    BY <2>1, <2>2 DEF WireType, SlotCap
  <2> QED
    BY <1>11, <2>3 DEF PushAnswer, DropAnswer, MainType
<1> QED
  BY <1>1, <1>2, <1>3, <1>4, <1>5, <1>6, <1>7, <1>8, <1>9, <1>10, <1>11
  DEF Next, MainThread, Server

\* The blocking queue never holds more than one answer, for any number of
\* requests and timeouts.
THEOREM TypeCorrect == Spec => []TypeOK
  BY InitType, StepType, PTL DEF Spec

-----------------------------------------------------------------------------
(* The lag between the main thread and the GUI.                            *)

\* The main thread and the GUI fall out of step by no more than one request
\* for every wait that timed out: answers never multiply.
LagBounded ==
  Outstanding <= timeouts + (IF main.at = "wait" THEN 1 ELSE 0)

LEMMA StepLag == TypeOK /\ LagBounded /\ [Next]_vars => LagBounded'
<1> SUFFICES ASSUME TypeOK, LagBounded, [Next]_vars PROVE LagBounded'
  OBVIOUS
<1> USE DEF LagBounded, Outstanding, TypeOK, WireType, guiVars, wireVars, histVars, At, Idle
<1>1. CASE UNCHANGED vars
  BY <1>1 DEF vars
<1>2. CASE GuiCreate \/ WaitPolling \/ CheckValid \/ Auxiliaries
  BY <1>2 DEF GuiCreate, WaitPolling, CheckValid, Auxiliaries, InCall
<1>3. CASE PushRequest
  BY <1>3 DEF PushRequest, MainType
<1>4. CASE Verify
  <2>1. PICK ok \in BOOLEAN : ok = (slot[1].ev = main.ev)
    OBVIOUS
  <2>2. Return(ok) /\ main.at = "wait"
    BY <1>4, <2>1 DEF Verify
  <2>3. main'.at # "wait"
    BY <2>2, ReturnEffect
  <2>4. slot # <<>> /\ slot' = <<>> /\ UNCHANGED <<toClient, calls, timeouts>>
    BY <1>4 DEF Verify
  <2> QED
    BY <2>2, <2>3, <2>4
<1>5. CASE VerifyTimeout
  <2>1. Return(FALSE) /\ main.at = "wait"
    BY <1>5 DEF VerifyTimeout
  <2>2. main'.at # "wait"
    BY <2>1, ReturnEffect
  <2> QED
    BY <1>5, <2>1, <2>2 DEF VerifyTimeout
<1>6. ASSUME NEW e \in GuiEvents, Ask(e)
      PROVE  LagBounded'
  BY <1>6 DEF Ask, InCall
<1>7. CASE Connect \/ Die \/ StreamRemoved
  BY <1>7 DEF Connect, Die, StreamRemoved
<1>8. CASE Answer
  BY <1>8 DEF Answer, Answered
<1>9. CASE Lost
  BY <1>9 DEF Lost
<1>10. CASE PollingEnds
  BY <1>10 DEF PollingEnds
<1>11. CASE PushAnswer \/ DropAnswer
  BY <1>11 DEF PushAnswer, DropAnswer
<1> QED
  BY <1>1, <1>2, <1>3, <1>4, <1>5, <1>6, <1>7, <1>8, <1>9, <1>10, <1>11
  DEF Next, MainThread, Server

\* However requests, deaths, restarts and dropped answers interleave, the two
\* sides are out of step by at most one request for every wait that timed out.
THEOREM LagCorrect == Spec => []LagBounded
<1>1. Init => LagBounded
  BY GuiAssumption DEF Init, LagBounded, Outstanding, Idle, At
<1> QED
  BY <1>1, StepLag, TypeCorrect, PTL DEF Spec

\* What the comment on blockingPushClientEvent() demands holds as long as no wait
\* timed out: when the main thread asks, no earlier answer is under way.
THEOREM ConsumedCorrect == Spec => [](timeouts = 0 => PreviousConsumed)
<1>1. TypeOK /\ LagBounded => (timeouts = 0 => PreviousConsumed)
  <2> SUFFICES ASSUME TypeOK, LagBounded, timeouts = 0, main.at \in {"push", "valid"}
               PROVE  Outstanding = 0
    BY DEF PreviousConsumed
  <2>1. Outstanding \in Nat
    BY DEF Outstanding, TypeOK, WireType
  <2> QED
    BY <2>1 DEF LagBounded
<1> QED
  BY <1>1, LagCorrect, TypeCorrect, PTL

-----------------------------------------------------------------------------
(* The order of the answers: those in the slot are older than those in     *)
(* calls, and these older than the requests still on their way.            *)

Increasing(q) == \A i, j \in DOMAIN q : i < j => q[i].n < q[j].n
Before(q, r) == \A i \in DOMAIN q, j \in DOMAIN r : q[i].n < r[j].n

Ordered ==
  /\ Increasing(calls) /\ Increasing(toClient)
  /\ Before(slot, calls) /\ Before(slot, toClient) /\ Before(calls, toClient)

\* Whatever is under way was asked for, after everything that was verified and
\* no more waits ago than timed out.
Recent(q) ==
  \A i \in DOMAIN q :
    /\ q[i].n <= asked
    /\ \A v \in verified : v[2].n < q[i].n
    /\ asked - q[i].n + (IF main.at = "wait" THEN 0 ELSE 1) <= timeouts

AllRecent == Recent(slot) /\ Recent(calls) /\ Recent(toClient)

InStep ==
  /\ Ordered /\ AllRecent /\ AnswersRecent
  /\ \A v \in verified : v[1].n <= asked

\* All of this is kept by a step that only lets requests or answers go.
LEMMA TailOrder ==
  ASSUME NEW q \in Seq(Requests), q # <<>>, Increasing(q)
  PROVE  /\ Increasing(Tail(q))
         /\ \A i \in DOMAIN Tail(q) : i + 1 \in DOMAIN q /\ Tail(q)[i] = q[i + 1]
         /\ \A i \in DOMAIN Tail(q) : Head(q).n < Tail(q)[i].n
<1>1. 1 \in DOMAIN q /\ Head(q) = q[1]
  OBVIOUS
<1>2. \A i \in DOMAIN Tail(q) : i + 1 \in DOMAIN q /\ Tail(q)[i] = q[i + 1] /\ i \in Nat \ {0}
  OBVIOUS
<1> QED
  BY <1>1, <1>2 DEF Increasing, Requests

LEMMA AppendOrder ==
  ASSUME NEW q \in Seq(Requests), NEW r \in Requests, Increasing(q),
         \A i \in DOMAIN q : q[i].n < r.n
  PROVE  /\ Increasing(Append(q, r))
         /\ \A i \in DOMAIN Append(q, r) :
              Append(q, r)[i] = r \/ (i \in DOMAIN q /\ Append(q, r)[i] = q[i])
  BY DEF Increasing, Requests

\* What a step does that leaves requests and answers alone.
LEMMA Alone ==
  ASSUME InStep, UNCHANGED <<wireVars, histVars>>,
         main'.at = main.at \/ (main.at # "wait" /\ main'.at # "wait")
  PROVE  InStep'
BY DEF InStep, Ordered, AllRecent, AnswersRecent, Recent, Increasing, Before, wireVars, histVars

LEMMA StepInStep ==
  ASSUME TypeOK, InStep, [Next]_vars
  PROVE  InStep'
<1>1. /\ toClient \in Seq(Requests) /\ calls \in Seq(Requests) /\ slot \in Seq(Requests)
      /\ Len(slot) <= 1 /\ asked \in Nat /\ timeouts \in Nat
      /\ verified \subseteq Requests \X Requests
  BY GuiAssumption DEF TypeOK, WireType, SlotCap
<1>2. \A r \in Requests : r.n \in Nat
  BY GuiAssumption DEF Requests
<1> USE DEF InStep
<1>3. CASE UNCHANGED vars
  BY <1>3, Alone DEF vars
<1>4. CASE GuiCreate \/ WaitPolling \/ CheckValid \/ Auxiliaries
  BY <1>4, Alone DEF GuiCreate, WaitPolling, CheckValid, Auxiliaries, InCall, At, Idle, wireVars
<1>5. CASE PushRequest
  <2> DEFINE r == [ev |-> main.ev, n |-> asked + 1]
  <2>1. /\ toClient' = Append(toClient, r) /\ asked' = asked + 1 /\ main'.at = "wait"
        /\ main.at = "valid" /\ UNCHANGED <<calls, slot, timeouts, verified>>
    BY <1>5 DEF PushRequest, At
  <2>2. r \in Requests
    <3>1. main.ev \in GuiEvents /\ asked < MaxRequests
      BY <2>1 DEF TypeOK, MainType
    <3>2. asked + 1 \in 1 .. MaxRequests
      BY <1>1, <3>1, GuiAssumption
    <3> QED
      BY <3>1, <3>2 DEF Requests
  <2>3. r.n = asked + 1
    OBVIOUS
  <2> HIDE DEF r
  <2>4. \A i \in DOMAIN toClient : toClient[i] \in Requests /\ toClient[i].n < r.n
    BY <1>1, <1>2, <2>3 DEF AllRecent, Recent
  <2>5. /\ Increasing(toClient')
        /\ \A i \in DOMAIN toClient' :
             toClient'[i] = r \/ (i \in DOMAIN toClient /\ toClient'[i] = toClient[i])
    BY <1>1, <2>1, <2>2, <2>4, AppendOrder DEF Ordered
  <2>6. Ordered'
    <3>1. ASSUME NEW q \in {slot, calls} PROVE \A i \in DOMAIN q : q[i].n < r.n
      <4> TAKE i \in DOMAIN q
      <4>1. q[i] \in Requests /\ q[i].n \in Nat /\ q[i].n <= asked
        BY <1>1, <1>2 DEF AllRecent, Recent
      <4> QED
        BY <1>1, <2>3, <4>1
    <3>2. Before(slot, toClient') /\ Before(calls, toClient')
      BY <2>5, <3>1 DEF Ordered, Before
    <3> QED
      BY <2>1, <2>5, <3>2 DEF Ordered, Increasing, Before
  <2>7. \A v \in verified : v[1].n <= asked /\ v[2].n <= asked /\ v[2].n \in Nat
    BY <1>1, <1>2 DEF AnswersRecent
  <2>8. AllRecent'
    BY <1>1, <1>2, <2>1, <2>3, <2>5, <2>7, SMTT(30) DEF AllRecent, Recent
  <2>9. AnswersRecent' /\ \A v \in verified' : v[1].n <= asked'
    <3>1. \A v \in verified : v[1].n \in Nat
      BY <1>1, <1>2
    <3> QED
      BY <1>1, <2>1, <2>7, <3>1 DEF AnswersRecent
  <2> QED
    BY <2>6, <2>8, <2>9
<1>6. CASE Verify
  <2>1. PICK ok \in BOOLEAN : ok = (slot[1].ev = main.ev)
    OBVIOUS
  <2>2. Return(ok) /\ main.at = "wait"
    BY <1>6, <2>1 DEF Verify
  <2>3. main'.at # "wait"
    BY <2>2, ReturnEffect
  <2>4. /\ slot # <<>> /\ slot' = <<>>
        /\ UNCHANGED <<toClient, calls, timeouts, asked>>
    BY <1>6 DEF Verify
  <2>5. PICK h \in Requests : h = slot[1] /\ 1 \in DOMAIN slot
    BY <1>1, <2>4
  <2>6. /\ h.n <= asked /\ asked - h.n <= timeouts /\ \A v \in verified : v[2].n < h.n
    BY <1>1, <1>2, <2>2, <2>5 DEF AllRecent, Recent
  <2> DEFINE r == [ev |-> main.ev, n |-> asked]
  <2>7. \/ verified' = verified
        \/ h.ev = r.ev /\ verified' = verified \union {<<r, h>>}
    BY <1>6, <2>5 DEF Verify
  <2>8. r.n = asked
    OBVIOUS
  <2> HIDE DEF r
  <2>9. /\ \A i \in DOMAIN calls : h.n < calls[i].n
        /\ \A i \in DOMAIN toClient : h.n < toClient[i].n
    BY <2>5 DEF Ordered, Before
  <2>10. Ordered'
    BY <2>4 DEF Ordered, Before, Increasing
  <2>11. AllRecent'
    BY <1>1, <1>2, <2>2, <2>3, <2>4, <2>6, <2>7, <2>9 DEF AllRecent, Recent
  <2>12. AnswersRecent' /\ \A v \in verified' : v[1].n <= asked'
    BY <1>1, <1>2, <2>4, <2>6, <2>7, <2>8 DEF AnswersRecent
  <2> QED
    BY <2>10, <2>11, <2>12
<1>7. CASE VerifyTimeout
  <2>1. Return(FALSE) /\ main.at = "wait" /\ timeouts' = timeouts + 1
        /\ UNCHANGED <<wireVars, asked, verified>>
    BY <1>7 DEF VerifyTimeout
  <2>2. main'.at # "wait"
    BY <2>1, ReturnEffect
  <2>3. Ordered'
    BY <2>1 DEF Ordered, Before, Increasing, wireVars
  <2>4. AllRecent'
    BY <1>1, <1>2, <2>1, <2>2 DEF AllRecent, Recent, wireVars
  <2>5. AnswersRecent' /\ \A v \in verified' : v[1].n <= asked'
    BY <1>1, <1>2, <2>1 DEF AnswersRecent
  <2> QED
    BY <2>3, <2>4, <2>5
<1>8. ASSUME NEW e \in GuiEvents, Ask(e)
      PROVE  InStep'
  BY <1>8, Alone DEF Ask, InCall, At, Idle
<1>9. CASE Connect \/ Die \/ StreamRemoved
  BY <1>9, Alone DEF Connect, Die, StreamRemoved
<1>10. ASSUME UNCHANGED <<main, histVars>>, Ordered',
              \A i \in DOMAIN slot' : \E q \in {slot, calls, toClient} :
                \E j \in DOMAIN q : slot'[i] = q[j],
              \A i \in DOMAIN calls' : \E q \in {calls, toClient} :
                \E j \in DOMAIN q : calls'[i] = q[j],
              \A i \in DOMAIN toClient' : \E j \in DOMAIN toClient : toClient'[i] = toClient[j]
       PROVE  InStep'
  BY <1>10 DEF AllRecent, Recent, AnswersRecent, histVars
<1>11. CASE Answer
  <2>1. /\ toClient # <<>> /\ toClient' = Tail(toClient) /\ calls' = Append(calls, Head(toClient))
        /\ UNCHANGED <<main, slot, histVars>>
    BY <1>11 DEF Answer, Answered
  <2>2. PICK h \in Requests : h = Head(toClient) /\ h = toClient[1] /\ 1 \in DOMAIN toClient
    BY <1>1, <2>1
  <2>3. /\ Increasing(toClient')
        /\ \A i \in DOMAIN toClient' : i + 1 \in DOMAIN toClient /\ toClient'[i] = toClient[i + 1]
        /\ \A i \in DOMAIN toClient' : h.n < toClient'[i].n
    BY <1>1, <2>1, <2>2, TailOrder DEF Ordered
  <2>4. \A i \in DOMAIN calls : calls[i].n < h.n
    BY <2>2 DEF Ordered, Before
  <2>5. /\ Increasing(calls')
        /\ \A i \in DOMAIN calls' :
             calls'[i] = h \/ (i \in DOMAIN calls /\ calls'[i] = calls[i])
    BY <1>1, <2>1, <2>2, <2>4, AppendOrder DEF Ordered
  <2>6. Ordered'
    BY <2>1, <2>2, <2>3, <2>5 DEF Ordered, Before
  <2> QED
    BY <1>10, <2>1, <2>2, <2>3, <2>5, <2>6
<1>12. CASE Lost
  <2>1. toClient # <<>> /\ toClient' = Tail(toClient) /\ UNCHANGED <<main, calls, slot, histVars>>
    BY <1>12 DEF Lost
  <2>2. /\ Increasing(toClient')
        /\ \A i \in DOMAIN toClient' : i + 1 \in DOMAIN toClient /\ toClient'[i] = toClient[i + 1]
    BY <1>1, <2>1, TailOrder DEF Ordered
  <2>3. Ordered'
    BY <2>1, <2>2 DEF Ordered, Before, Increasing
  <2> QED
    BY <1>10, <2>1, <2>2, <2>3
<1>13. CASE PollingEnds
  <2>1. toClient' = <<>> /\ UNCHANGED <<main, calls, slot, histVars>>
    BY <1>13 DEF PollingEnds
  <2>2. Ordered'
    BY <2>1 DEF Ordered, Before, Increasing
  <2> QED
    BY <1>10, <2>1, <2>2
<1>14. CASE PushAnswer
  <2>1. /\ calls # <<>> /\ slot = <<>> /\ calls' = Tail(calls) /\ slot' = <<Head(calls)>>
        /\ UNCHANGED <<main, toClient, histVars>>
    <3>1. Len(slot) < 1 /\ slot' = Append(slot, Head(calls)) /\ calls' = Tail(calls)
      BY <1>14 DEF PushAnswer, SlotFree, SlotCap
    <3>2. calls # <<>> /\ UNCHANGED <<main, toClient, histVars>>
      BY <1>14 DEF PushAnswer
    <3>3. slot = <<>>
      BY <1>1, <3>1
    <3>4. Append(slot, Head(calls)) = <<Head(calls)>>
      BY <3>3
    <3> QED
      BY <3>1, <3>2, <3>3, <3>4
  <2>2. PICK h \in Requests : h = Head(calls) /\ h = calls[1] /\ 1 \in DOMAIN calls
    BY <1>1, <2>1
  <2>3. /\ Increasing(calls')
        /\ \A i \in DOMAIN calls' : i + 1 \in DOMAIN calls /\ calls'[i] = calls[i + 1]
        /\ \A i \in DOMAIN calls' : h.n < calls'[i].n
    BY <1>1, <2>1, <2>2, TailOrder DEF Ordered
  <2>4. \A i \in DOMAIN slot' : slot'[i] = h
    BY <2>1, <2>2
  <2>5. \A i \in DOMAIN toClient : h.n < toClient[i].n
    BY <2>2 DEF Ordered, Before
  <2>6. Ordered'
    BY <2>1, <2>3, <2>4, <2>5 DEF Ordered, Before, Increasing
  <2> QED
    BY <1>10, <2>1, <2>2, <2>3, <2>4, <2>6
<1>15. CASE DropAnswer
  <2>1. calls # <<>> /\ calls' = Tail(calls) /\ UNCHANGED <<main, toClient, slot, histVars>>
    BY <1>15 DEF DropAnswer
  <2>2. /\ Increasing(calls')
        /\ \A i \in DOMAIN calls' : i + 1 \in DOMAIN calls /\ calls'[i] = calls[i + 1]
    BY <1>1, <2>1, TailOrder DEF Ordered
  <2>3. Ordered'
    BY <2>1, <2>2 DEF Ordered, Before, Increasing
  <2> QED
    BY <1>10, <2>1, <2>2, <2>3
<1> QED
  BY <1>3, <1>4, <1>5, <1>6, <1>7, <1>8, <1>9, <1>11, <1>12, <1>13, <1>14, <1>15
  DEF Next, MainThread, Server

LEMMA InitInStep == Init => InStep
BY GuiAssumption DEF Init, InStep, Ordered, Increasing, Before, AllRecent, Recent, AnswersRecent

\* However many waits time out and whatever the GUIs do, a call that returns
\* true got an answer to its own kind of event, no more requests old than
\* waits timed out; without timeouts it is the answer to its own request.
THEOREM RecentCorrect == Spec => []AnswersRecent
<1>1. InStep => AnswersRecent
  BY DEF InStep
<1> QED
  BY <1>1, InitInStep, StepInStep, TypeCorrect, PTL DEF Spec

\* Where an element of three sequences in a row comes from.
LEMMA ThreeInARow ==
  ASSUME NEW S, NEW a \in Seq(S), NEW b \in Seq(S), NEW c \in Seq(S),
         NEW i \in DOMAIN (a \o b \o c)
  PROVE  \/ i \in DOMAIN a /\ (a \o b \o c)[i] = a[i]
         \/ /\ i > Len(a) /\ i - Len(a) \in DOMAIN b
            /\ (a \o b \o c)[i] = b[i - Len(a)]
         \/ /\ i > Len(a) + Len(b) /\ i - (Len(a) + Len(b)) \in DOMAIN c
            /\ (a \o b \o c)[i] = c[i - (Len(a) + Len(b))]
<1>1. a \o b \in Seq(S) /\ Len(a \o b) = Len(a) + Len(b) /\ Len(a) \in Nat /\ Len(b) \in Nat
  OBVIOUS
<1>2. i \in 1 .. Len(a) + Len(b) + Len(c) /\ Len(c) \in Nat
  BY <1>1
<1>3. CASE i <= Len(a)
  BY <1>1, <1>2, <1>3
<1>4. CASE i > Len(a) /\ i <= Len(a) + Len(b)
  BY <1>1, <1>2, <1>4
<1>5. CASE i > Len(a) + Len(b)
  BY <1>1, <1>2, <1>5
<1> QED
  BY <1>1, <1>2, <1>3, <1>4, <1>5

LEMMA InStepOrders ==
  ASSUME TypeOK, InStep
  PROVE  AnswersInOrder
<1> DEFINE q == slot \o calls \o toClient
<1>1. /\ toClient \in Seq(Requests) /\ calls \in Seq(Requests) /\ slot \in Seq(Requests)
      /\ Len(slot) <= 1 /\ DOMAIN slot \subseteq {1}
  BY DEF TypeOK, WireType, SlotCap
<1>2. \A i \in DOMAIN q :
        \/ i \in DOMAIN slot /\ q[i] = slot[i]
        \/ /\ i > Len(slot) /\ i - Len(slot) \in DOMAIN calls
           /\ q[i] = calls[i - Len(slot)]
        \/ /\ i > Len(slot) + Len(calls) /\ i - (Len(slot) + Len(calls)) \in DOMAIN toClient
           /\ q[i] = toClient[i - (Len(slot) + Len(calls))]
  <2> TAKE i \in DOMAIN q
  <2> QED
    BY <1>1, ThreeInARow
<1>3. DOMAIN q \subseteq Nat
  BY <1>1
<1> HIDE DEF q
<1>4. ASSUME NEW i \in DOMAIN q
      PROVE  q[i].n <= asked /\ \A v \in verified : v[2].n < q[i].n
  BY <1>2, <1>4 DEF InStep, AllRecent, Recent
<1>5. ASSUME NEW i \in DOMAIN q, NEW j \in DOMAIN q, i < j
      PROVE  q[i].n < q[j].n
  <2>1. /\ Len(slot) \in Nat /\ Len(calls) \in Nat /\ i \in Nat /\ j \in Nat
        /\ Len(slot) = 0 => DOMAIN slot = {}
    BY <1>1, <1>3
  <2>2. \A k \in DOMAIN calls : k \in 1 .. Len(calls)
    BY <1>1
  <2>3. CASE i \in DOMAIN slot /\ q[i] = slot[i]
    <3>1. i = 1 /\ j # 1 /\ j \notin DOMAIN slot
      BY <1>1, <1>5, <2>1, <2>3
    <3> QED
      BY <1>2, <2>3, <3>1 DEF InStep, Ordered, Before
  <2>4. CASE i > Len(slot) /\ i - Len(slot) \in DOMAIN calls /\ q[i] = calls[i - Len(slot)]
    <3>1. j > Len(slot) /\ j \notin DOMAIN slot /\ i - Len(slot) < j - Len(slot)
      BY <1>1, <1>5, <2>1, <2>4
    <3> QED
      BY <1>2, <2>4, <3>1 DEF InStep, Ordered, Before, Increasing
  <2>5. CASE /\ i > Len(slot) + Len(calls) /\ i - (Len(slot) + Len(calls)) \in DOMAIN toClient
             /\ q[i] = toClient[i - (Len(slot) + Len(calls))]
    <3>1. j > Len(slot) + Len(calls) /\ j \notin DOMAIN slot /\ j - Len(slot) \notin DOMAIN calls
          /\ i - (Len(slot) + Len(calls)) < j - (Len(slot) + Len(calls))
      BY <1>1, <1>5, <2>1, <2>2, <2>5
    <3> QED
      BY <1>2, <2>5, <3>1 DEF InStep, Ordered, Increasing
  <2> QED
    BY <1>2, <2>3, <2>4, <2>5
<1> QED
  BY <1>4, <1>5 DEF AnswersInOrder, q

\* Timeouts, dropped answers, deaths and restarts never reorder or duplicate an
\* answer: what is under way is newer than whatever was read.
THEOREM OrderCorrect == Spec => []AnswersInOrder
BY InitInStep, StepInStep, InStepOrders, TypeCorrect, PTL DEF Spec

-----------------------------------------------------------------------------
(* The refinement of Handshake.                                            *)

Open == IF main.at = "wait" THEN {[ev |-> main.ev, n |-> asked]} ELSE {}

\* What is on the wire when its last part grows.
LEMMA AppendedWire ==
  ASSUME NEW S, NEW a \in Seq(S), NEW b \in Seq(S), NEW c \in Seq(S), NEW x \in S
  PROVE  a \o b \o Append(c, x) = Append(a \o b \o c, x)
<1> DEFINE p == a \o b
<1>1. p \in Seq(S)
  OBVIOUS
<1> HIDE DEF p
<1>2. p \o Append(c, x) = Append(p \o c, x)
  BY <1>1
<1> QED
  BY <1>2 DEF p

\* A part hands its first element to the part before it.
LEMMA HandedOver ==
  ASSUME NEW S, NEW a \in Seq(S), NEW b \in Seq(S), b # <<>>
  PROVE  Append(a, Head(b)) \o Tail(b) = a \o b
<1> DEFINE l == Append(a, Head(b)) \o Tail(b)
           r == a \o b
<1>1. Append(a, Head(b)) \in Seq(S) /\ Tail(b) \in Seq(S) /\ Len(Tail(b)) = Len(b) - 1
  OBVIOUS
<1>2. l \in Seq(S) /\ r \in Seq(S) /\ Len(l) = Len(a) + Len(b) /\ Len(r) = Len(a) + Len(b)
  BY <1>1
<1>3. ASSUME NEW i \in 1 .. Len(a) + Len(b) PROVE l[i] = r[i]
  <2>1. CASE i <= Len(a)
    BY <1>1, <2>1
  <2>2. CASE i = Len(a) + 1
    BY <1>1, <2>2
  <2>3. CASE i > Len(a) + 1
    BY <1>1, <2>3
  <2> QED
    BY <2>1, <2>2, <2>3
<1> HIDE DEF l, r
<1> QED
  BY <1>2, <1>3

\* A sequence without one of its elements.
LEMMA LostOne ==
  ASSUME NEW S, NEW a \in Seq(S), NEW b \in Seq(S), b # <<>>
  PROVE  LET w == a \o b
             i == Len(a) + 1
         IN  i \in DOMAIN w /\ i \in i .. Len(w)
             /\ a \o Tail(b) = SubSeq(w, 1, i - 1) \o SubSeq(w, i + 1, Len(w))
<1> DEFINE w == a \o b
           i == Len(a) + 1
           u == SubSeq(w, 1, i - 1)
           v == SubSeq(w, i + 1, Len(w))
<1>1. w \in Seq(S) /\ Len(w) = Len(a) + Len(b) /\ i \in DOMAIN w /\ i \in i .. Len(w)
  OBVIOUS
<1>2. u = a
  <2>1. Len(u) = Len(a) /\ \A k \in 1 .. Len(a) : u[k] = a[k]
    OBVIOUS
  <2>2. u \in Seq(S)
    BY <1>1
  <2> HIDE DEF u
  <2> QED
    BY <2>1, <2>2
<1>3. v = Tail(b)
  <2> DEFINE m == i + 1
             t == Tail(b)
  <2>1. \A k \in 1 .. Len(b) - 1 : w[k + i] = b[k + 1]
    BY <1>1
  <2>2. \A x \in Seq(S) : \A k \in 1 .. Len(x) + 1 :
          /\ SubSeq(x, k, Len(x)) \in Seq(S) /\ Len(SubSeq(x, k, Len(x))) = Len(x) - k + 1
          /\ \A n \in 1 .. Len(x) - k + 1 : SubSeq(x, k, Len(x))[n] = x[n + k - 1]
    OBVIOUS
  <2>3. m \in 1 .. Len(w) + 1 /\ Len(w) - m + 1 = Len(b) - 1
    BY <1>1
  <2>4. /\ t \in Seq(S) /\ Len(t) = Len(b) - 1
        /\ \A k \in 1 .. Len(b) - 1 : t[k] = b[k + 1]
    OBVIOUS
  <2> HIDE DEF w, t
  <2>5. SubSeq(w, m, Len(w)) \in Seq(S) /\ Len(SubSeq(w, m, Len(w))) = Len(b) - 1
        /\ \A n \in 1 .. Len(b) - 1 : SubSeq(w, m, Len(w))[n] = w[n + m - 1]
    <3> HIDE DEF m
    <3> QED
      BY <1>1, <2>2, <2>3
  <2>6. \A n \in 1 .. Len(b) - 1 : n + m - 1 = n + i
    OBVIOUS
  <2>7. v \in Seq(S) /\ Len(v) = Len(b) - 1 /\ \A k \in 1 .. Len(b) - 1 : v[k] = t[k]
    BY <2>1, <2>4, <2>5, <2>6
  <2> HIDE DEF v
  <2> QED
    BY <2>4, <2>7
<1> QED
  BY <1>1, <1>2, <1>3

\* A sequence without what follows its first part.
LEMMA LostRest ==
  ASSUME NEW S, NEW a \in Seq(S), NEW b \in Seq(S), b # <<>>
  PROVE  LET w == a \o b
             i == Len(a) + 1
         IN  i \in DOMAIN w /\ Len(w) \in i .. Len(w)
             /\ a = SubSeq(w, 1, i - 1) \o SubSeq(w, Len(w) + 1, Len(w))
<1> DEFINE w == a \o b
           i == Len(a) + 1
           u == SubSeq(w, 1, i - 1)
           v == SubSeq(w, Len(w) + 1, Len(w))
<1>1. w \in Seq(S) /\ Len(w) = Len(a) + Len(b) /\ i \in DOMAIN w /\ Len(w) \in i .. Len(w)
  OBVIOUS
<1>2. u = a
  <2>1. Len(u) = Len(a) /\ \A k \in 1 .. Len(a) : u[k] = a[k]
    OBVIOUS
  <2>2. u \in Seq(S)
    BY <1>1
  <2> HIDE DEF u
  <2> QED
    BY <2>1, <2>2
<1>3. v = <<>>
  BY <1>1
<1>4. a \o <<>> = a
  OBVIOUS
<1> QED
  BY <1>1, <1>2, <1>3, <1>4

\* A step that only moves what is on the wire, or leaves it alone, stutters.
LEMMA WireStutters ==
  ASSUME slot' \o calls' \o toClient' = slot \o calls \o toClient,
         UNCHANGED <<histVars>>, Open' = Open
  PROVE  UNCHANGED Wire!handshakeVars
BY DEF Wire!handshakeVars, Open, histVars

LEMMA StepShakesHands == TypeOK /\ [Next]_vars => [Wire!HandshakeNext]_(Wire!handshakeVars)
<1> SUFFICES ASSUME TypeOK, [Next]_vars
             PROVE  Wire!HandshakeNext \/ UNCHANGED Wire!handshakeVars
  OBVIOUS
<1> DEFINE wire == slot \o calls \o toClient
<1>1. /\ toClient \in Seq(Requests) /\ calls \in Seq(Requests) /\ slot \in Seq(Requests)
      /\ Len(slot) <= 1
  BY DEF TypeOK, WireType, SlotCap
<1>2. slot \o calls \in Seq(Requests)
  BY <1>1
<1>3. CASE UNCHANGED vars
  BY <1>3, WireStutters DEF vars, wireVars, histVars, Open
<1>4. CASE GuiCreate \/ WaitPolling \/ CheckValid \/ Auxiliaries
  <2>1. UNCHANGED <<wireVars, histVars>> /\ main.at # "wait" /\ main'.at # "wait"
    BY <1>4 DEF GuiCreate, WaitPolling, CheckValid, Auxiliaries, InCall, At, Idle
  <2> QED
    BY <2>1, WireStutters DEF wireVars, Open
<1>5. CASE PushRequest
  <2> DEFINE r == [ev |-> main.ev, n |-> asked + 1]
  <2>1. /\ toClient' = Append(toClient, r) /\ asked' = asked + 1
        /\ main.at = "valid" /\ main' = [at |-> "wait", ev |-> main.ev]
        /\ UNCHANGED <<calls, slot, verified>>
    BY <1>5 DEF PushRequest, At
  <2>2. main.ev \in GuiEvents /\ r \in Requests
    <3>1. main.ev \in GuiEvents /\ asked < MaxRequests /\ asked \in Nat
      BY <2>1 DEF TypeOK, MainType
    <3> QED
      BY <3>1, GuiAssumption DEF Requests
  <2>3. Open = {} /\ Open' = {r}
    BY <2>1 DEF Open
  <2>4. wire' = Append(wire, r)
    <3> HIDE DEF r
    <3> QED
      BY <1>1, <2>1, <2>2, AppendedWire
  <2>5. Wire!Request(main.ev)
    BY <2>1, <2>3, <2>4 DEF Wire!Request, Open
  <2> QED
    BY <2>2, <2>5 DEF Wire!HandshakeNext
<1>6. CASE Verify
  <2>1. PICK ok \in BOOLEAN : ok = (slot[1].ev = main.ev)
    OBVIOUS
  <2>2. Return(ok) /\ main.at = "wait"
    BY <1>6, <2>1 DEF Verify
  <2>3. main'.at # "wait"
    BY <2>2, ReturnEffect
  <2> DEFINE r == [ev |-> main.ev, n |-> asked]
             h == slot[1]
  <2>4. /\ slot # <<>> /\ slot' = <<>> /\ UNCHANGED <<toClient, calls, asked>>
        /\ verified' = IF h.ev = r.ev THEN verified \union {<<r, h>>} ELSE verified
    BY <1>6 DEF Verify
  <2>5. Open = {r} /\ Open' = {}
    BY <2>2, <2>3 DEF Open
  <2>6. slot = <<h>> /\ h \in Requests
    <3>1. Len(slot) = 1 /\ h \in Requests
      <4>1. slot # <<>>
        BY <2>4
      <4>2. \A s \in Seq(Requests) : Len(s) <= 1 /\ s # <<>> => Len(s) = 1
        OBVIOUS
      <4>3. Len(slot) = 1
        BY <1>1, <4>1, <4>2
      <4>4. 1 \in DOMAIN slot
        BY <1>1, <4>3
      <4>5. h \in Requests
        BY <1>1, <4>4
      <4> QED
        BY <4>3, <4>5
    <3> HIDE DEF h
    <3>2. <<h>> \in Seq(Requests) /\ Len(<<h>>) = 1 /\ <<h>>[1] = h
      BY <3>1
    <3> QED
      BY <1>1, <3>1, <3>2 DEF h
  <2>7. wire # <<>> /\ Head(wire) = h /\ Tail(wire) = wire'
    <3> DEFINE rest == calls \o toClient
    <3>1. wire = <<h>> \o rest /\ wire' = rest /\ rest \in Seq(Requests)
      <4>1. <<h>> \o calls \o toClient = <<h>> \o (calls \o toClient)
        <5> HIDE DEF h
        <5> QED
          BY <1>1, <2>6
      <4>2. <<>> \o calls = calls
        BY <1>1
      <4>3. slot' \o calls' \o toClient' = calls \o toClient
        BY <2>4, <4>2
      <4>4. rest \in Seq(Requests)
        BY <1>1
      <4>5. wire' = rest
        BY <4>3
      <4> HIDE DEF h
      <4> QED
        BY <2>6, <4>1, <4>4, <4>5
    <3> HIDE DEF rest, wire, h
    <3>2. Head(<<h>> \o rest) = h /\ Tail(<<h>> \o rest) = rest /\ <<h>> \o rest # <<>>
      BY <2>6, <3>1
    <3> QED
      BY <3>1, <3>2
  <2>8. Wire!Read
    <3> HIDE DEF r, h
    <3> QED
      BY <2>4, <2>5, <2>7 DEF Wire!Read, Open
  <2> QED
    BY <2>8 DEF Wire!HandshakeNext
<1>7. CASE VerifyTimeout
  <2>1. Return(FALSE) /\ main.at = "wait" /\ UNCHANGED <<wireVars, asked, verified>>
    BY <1>7 DEF VerifyTimeout
  <2>2. main'.at # "wait"
    BY <2>1, ReturnEffect
  <2>3. Wire!GiveUp
    BY <2>1, <2>2 DEF Wire!GiveUp, wireVars
  <2> QED
    BY <2>3 DEF Wire!HandshakeNext
<1>8. ASSUME NEW e \in GuiEvents, Ask(e)
      PROVE  UNCHANGED Wire!handshakeVars
  <2>1. UNCHANGED <<wireVars, histVars>> /\ main.at # "wait" /\ main'.at # "wait"
    BY <1>8 DEF Ask, InCall, At, Idle
  <2> QED
    BY <2>1, WireStutters DEF wireVars, Open
<1>9. CASE Connect \/ Die \/ StreamRemoved
  <2>1. UNCHANGED <<main, wireVars, histVars>>
    BY <1>9 DEF Connect, Die, StreamRemoved
  <2> QED
    BY <2>1, WireStutters DEF wireVars, histVars, Open
<1>10. CASE Answer
  <2>1. /\ toClient # <<>> /\ toClient' = Tail(toClient) /\ calls' = Append(calls, Head(toClient))
        /\ UNCHANGED <<main, slot, histVars>>
    BY <1>10 DEF Answer, Answered
  <2>2. Append(slot \o calls, Head(toClient)) \o Tail(toClient) = wire
    BY <1>1, <1>2, <2>1, HandedOver
  <2>3. slot \o Append(calls, Head(toClient)) = Append(slot \o calls, Head(toClient))
    BY <1>1, <2>1
  <2> QED
    BY <2>1, <2>2, <2>3, WireStutters DEF histVars, Open
<1>11. CASE PushAnswer
  <2>1. /\ calls # <<>> /\ calls' = Tail(calls) /\ slot' = Append(slot, Head(calls))
        /\ UNCHANGED <<main, toClient, histVars>>
    BY <1>11 DEF PushAnswer
  <2>2. Append(slot, Head(calls)) \o Tail(calls) = slot \o calls
    BY <1>1, <2>1, HandedOver
  <2> QED
    BY <2>1, <2>2, WireStutters DEF histVars, Open
<1>12. CASE DropAnswer
  <2>1. calls # <<>> /\ calls' = Tail(calls) /\ UNCHANGED <<main, toClient, slot, histVars>>
    BY <1>12 DEF DropAnswer
  <2> DEFINE rest == calls \o toClient
             i == Len(slot) + 1
  <2>2. rest \in Seq(Requests) /\ rest # <<>> /\ Tail(rest) = Tail(calls) \o toClient
        /\ wire = slot \o rest
    BY <1>1, <2>1
  <2>3. wire' = slot \o Tail(rest)
    <3>1. slot \o (Tail(calls) \o toClient) = slot \o Tail(calls) \o toClient
      BY <1>1, <2>1
    <3> QED
      BY <2>1, <2>2, <3>1
  <2> HIDE DEF rest, wire
  <2>4. /\ i \in DOMAIN wire /\ i \in i .. Len(wire)
        /\ wire' = SubSeq(wire, 1, i - 1) \o SubSeq(wire, i + 1, Len(wire))
    BY <1>1, <2>2, <2>3, LostOne
  <2> HIDE DEF wire, i
  <2>5. Wire!Lose
    BY <2>1, <2>4 DEF Wire!Lose, wire, histVars
  <2> QED
    BY <2>5 DEF Wire!HandshakeNext
<1>13. CASE Lost
  <2>1. toClient # <<>> /\ toClient' = Tail(toClient) /\ UNCHANGED <<main, calls, slot, histVars>>
    BY <1>13 DEF Lost
  <2> DEFINE before == slot \o calls
             i == Len(before) + 1
  <2>2. /\ i \in DOMAIN wire /\ i \in i .. Len(wire)
        /\ wire' = SubSeq(wire, 1, i - 1) \o SubSeq(wire, i + 1, Len(wire))
    BY <1>1, <1>2, <2>1, LostOne, ZenonT(60)
  <2> HIDE DEF wire, i
  <2>3. Wire!Lose
    BY <2>1, <2>2 DEF Wire!Lose, wire, histVars
  <2> QED
    BY <2>3 DEF Wire!HandshakeNext
<1>14. CASE PollingEnds
  <2>1. toClient' = <<>> /\ UNCHANGED <<main, calls, slot, histVars>>
    BY <1>14 DEF PollingEnds
  <2>2. CASE toClient = <<>>
    BY <2>1, <2>2, WireStutters DEF histVars, Open
  <2>3. CASE toClient # <<>>
    <3> DEFINE before == slot \o calls
               i == Len(before) + 1
    <3>1. wire' = before
      <4>1. before \o <<>> = before
        BY <1>2
      <4> QED
        BY <2>1, <4>1
    <3>2. /\ i \in DOMAIN wire /\ Len(wire) \in i .. Len(wire)
          /\ wire' = SubSeq(wire, 1, i - 1) \o SubSeq(wire, Len(wire) + 1, Len(wire))
      BY <1>1, <1>2, <2>3, <3>1, LostRest
    <3> HIDE DEF wire, i
    <3>3. Wire!Lose
      BY <2>1, <3>2 DEF Wire!Lose, wire, histVars
    <3> QED
      BY <3>3 DEF Wire!HandshakeNext
  <2> QED
    BY <2>2, <2>3
<1> QED
  BY <1>3, <1>4, <1>5, <1>6, <1>7, <1>8, <1>9, <1>10, <1>11, <1>12, <1>13, <1>14
  DEF Next, MainThread, Server

\* The queue of requests, the calls of the GUI and the blocking queue together
\* implement the handshake: through any number of deaths, restarts, drops and
\* timeouts, a GUI call reads an answer the GUI gave, unaltered, once, in order.
THEOREM ImplementsHandshake == Spec => IsHandshake
<1>1. Init => Wire!HandshakeInit
  <2> SUFFICES ASSUME Init PROVE Wire!HandshakeInit
    OBVIOUS
  <2>1. Open = {} /\ slot \o calls \o toClient = <<>>
    BY DEF Init, Open, Idle, At
  <2> QED
    BY <2>1 DEF Wire!HandshakeInit, Open, Init
<1> QED
  BY <1>1, StepShakesHands, TypeCorrect, PTL DEF Spec, IsHandshake, Wire!HandshakeSpec
=============================================================================
