-------------------------- MODULE ServerCtrlProofs --------------------------
(***************************************************************************)
(* The server controller for any number of plugin instances on any number  *)
(* of threads: the mutex is held by one of them, no server is lost, and    *)
(* the completion queue's thread never uses one that was stopped.  An      *)
(* instance that is alone in its process has a server all its life.        *)
(***************************************************************************)
EXTENDS ServerCtrl, TLAPS

\* Where a thread holds the mutex it finds the server in the phase it left it.
LockPhase(p) ==
  /\ at[p] = "startLocked" => server # 0 /\ phase[server] \in {"create", "running"}
  /\ at[p] = "building" => server # 0 /\ phase[server] = "building"
  /\ at[p] = "stopLocked" => server = 0 \/ phase[server] = "running"
  /\ at[p] = "stopping" => server # 0 /\ phase[server] = "shutdown"
  /\ at[p] = "reset" => server # 0 /\ phase[server] = "finished"

LockPhases == \A p \in Plugins : LockPhase(p)

\* Outside of the mutex the server is not half built or half stopped.
Unlocked == lock = Nobody => (server = 0 \/ phase[server] = "running")

\* Numbers are given once.
Fresh == (\A s \in Servers : s > created => phase[s] = "none") /\ server <= created

\* Whoever is connected or inside a handler keeps the server from being joined.
BusyValid == busy # 0 => (busy = server /\ phase[busy] \in {"running", "shutdown"})

Shape == NoServerLost /\ HandleValid /\ BusyValid /\ LockPhases /\ Unlocked /\ Fresh
IInv == TypeOK /\ Shape

LEMMA InitInv == Init => IInv
<1> SUFFICES ASSUME Init PROVE IInv
  OBVIOUS
<1> USE CtrlAssumption, NobodyAssumption DEF Init
<1>1. TypeOK
  BY DEF TypeOK, Servers, Places, Locked
<1>2. Shape
  BY DEF Shape, NoServerLost, HandleValid, BusyValid, LockPhases, LockPhase, Unlocked, Fresh,
    Servers
<1> QED
  BY <1>1, <1>2 DEF IInv

LEMMA StepInv == IInv /\ [Next]_vars => IInv'
<1> SUFFICES ASSUME TypeOK, Shape, [Next]_vars PROVE TypeOK' /\ Shape'
  BY DEF IInv
<1> USE CtrlAssumption, NobodyAssumption DEF Goto, Phase, Unlock, LockFree, Servers
<1>1. CASE UNCHANGED vars
  BY <1>1 DEF vars, TypeOK, Shape, NoServerLost, HandleValid, BusyValid, LockPhases, LockPhase,
    Unlocked, Fresh
\* Steps of a thread that neither holds nor takes the mutex.
<1>2. ASSUME NEW p \in Plugins, NEW place \in Places \ Locked, at[p] \notin Locked,
             at' = [at EXCEPT ![p] = place], known' \subseteq Plugins,
             threads' \in {"one", "many"}, UNCHANGED <<server, phase, created, lock, cq, busy>>
      PROVE  TypeOK' /\ Shape'
  <2>1. TypeOK'
    BY <1>2 DEF TypeOK
  <2>2. LockPhases'
    BY <1>2 DEF Shape, LockPhases, LockPhase, TypeOK, Locked
  <2> QED
    BY <1>2, <2>1, <2>2 DEF Shape, NoServerLost, HandleValid, BusyValid, Unlocked, Fresh
<1>3. ASSUME NEW p \in Plugins,
             AddPlugin(p) \/ Constructed(p) \/ CheckRunning(p) \/ Address(p) \/ RemovePlugin(p)
      PROVE  TypeOK' /\ Shape'
  <2>1. /\ at' = [at EXCEPT ![p] = at'[p]]
        /\ at'[p] \in {"start", "alive", "address", "stop"}
        /\ at[p] \in {"out", "started", "alive", "address"}
    BY <1>3 DEF AddPlugin, Constructed, CheckRunning, Address, RemovePlugin, Begin, TypeOK
  <2>2. /\ known' \subseteq Plugins /\ UNCHANGED <<server, phase, created, lock, cq, busy>>
        /\ threads' \in {"one", "many"}
    BY <1>3 DEF AddPlugin, Constructed, CheckRunning, Address, RemovePlugin, Begin, TypeOK
  <2> QED
    BY <1>2, <2>1, <2>2 DEF Places, Locked
<1>4. ASSUME NEW p \in Plugins, StopCheck(p)
      PROVE  TypeOK' /\ Shape'
  <2>1. /\ at' = [at EXCEPT ![p] = at'[p]] /\ at'[p] \in {"stopWait", "out"} /\ at[p] = "stop"
        /\ UNCHANGED <<server, phase, created, lock, known, cq, busy, threads>>
    BY <1>4 DEF StopCheck, TypeOK
  <2>2. known' \subseteq Plugins /\ threads' \in {"one", "many"}
    BY <2>1 DEF TypeOK
  <2> QED
    BY <1>2, <2>1, <2>2 DEF Places, Locked
\* Steps of the thread that takes, holds or releases the mutex.
<1>5. ASSUME NEW p \in Plugins, StartLock(p)
      PROVE  TypeOK' /\ Shape'
  <2>0. /\ at[p] = "start" /\ lock = Nobody /\ lock' = p
        /\ at' = [at EXCEPT ![p] = "startLocked"] /\ UNCHANGED <<known, cq, busy, threads>>
        /\ \/ /\ server = 0 /\ created < MaxServers
              /\ created' = created + 1 /\ server' = created + 1
              /\ phase' = [phase EXCEPT ![created + 1] = "create"]
           \/ server # 0 /\ UNCHANGED <<server, phase, created>>
    BY <1>5 DEF StartLock, NeedsServer
  <2>1. \A q \in Plugins : at[q] \notin Locked
    BY <2>0 DEF TypeOK
  <2>2. TypeOK'
    BY <2>0, <2>1 DEF TypeOK, Places, Locked
  <2>3. LockPhases' /\ Unlocked'
    BY <2>0, <2>1 DEF Shape, LockPhases, LockPhase, Unlocked, TypeOK, Locked
  <2>4. NoServerLost' /\ HandleValid' /\ BusyValid' /\ Fresh'
    BY <2>0 DEF Shape, NoServerLost, HandleValid, BusyValid, Fresh, TypeOK
  <2> QED
    BY <2>2, <2>3, <2>4 DEF Shape
<1>6. ASSUME NEW p \in Plugins, StopLock(p)
      PROVE  TypeOK' /\ Shape'
  <2>0. /\ at[p] = "stopWait" /\ lock = Nobody /\ lock' = p
        /\ at' = [at EXCEPT ![p] = "stopLocked"]
        /\ UNCHANGED <<server, phase, created, known, cq, busy, threads>>
    BY <1>6 DEF StopLock
  <2>1. \A q \in Plugins : at[q] \notin Locked
    BY <2>0 DEF TypeOK
  <2>2. TypeOK'
    BY <2>0, <2>1 DEF TypeOK, Places, Locked
  <2>3. LockPhases' /\ Unlocked'
    BY <2>0, <2>1 DEF Shape, LockPhases, LockPhase, Unlocked, TypeOK, Locked
  <2> QED
    BY <2>0, <2>2, <2>3 DEF Shape, NoServerLost, HandleValid, BusyValid, Fresh
<1>7. ASSUME NEW p \in Plugins, StartReturns(p)
      PROVE  TypeOK' /\ Shape'
  <2>0. /\ at[p] = "startLocked" /\ lock = p /\ lock' = Nobody
        /\ server # 0 /\ phase[server] = "running"
        /\ at' = [at EXCEPT ![p] = "started"]
        /\ UNCHANGED <<server, phase, created, known, cq, busy, threads>>
    BY <1>7 DEF StartReturns, AlreadyRunning, Running, Shape, LockPhases, LockPhase, TypeOK, Locked
  <2>1. \A q \in Plugins : at'[q] \notin Locked
    BY <2>0 DEF TypeOK, Locked
  <2>2. TypeOK'
    BY <2>0, <2>1 DEF TypeOK, Places
  <2>3. LockPhases' /\ Unlocked'
    BY <2>0, <2>1 DEF LockPhases, LockPhase, Unlocked, Locked
  <2> QED
    BY <2>0, <2>2, <2>3 DEF Shape, NoServerLost, HandleValid, BusyValid, Fresh
<1>8. ASSUME NEW p \in Plugins, StartServer(p)
      PROVE  TypeOK' /\ Shape'
  <2>0. /\ at[p] = "startLocked" /\ lock = p /\ server # 0 /\ phase[server] = "create"
        /\ phase' = [phase EXCEPT ![server] = "building"]
        /\ at' = [at EXCEPT ![p] = "building"]
        /\ UNCHANGED <<server, created, lock, known, cq, busy, threads>>
    BY <1>8 DEF StartServer, AlreadyRunning, Running, Shape, LockPhases, LockPhase, TypeOK, Locked
  <2>1. \A q \in Plugins : q # p => at[q] \notin Locked
    BY <2>0 DEF TypeOK
  <2>2. TypeOK'
    BY <2>0 DEF TypeOK, Places, Locked
  <2>3. LockPhases' /\ Unlocked'
    BY <2>0, <2>1 DEF LockPhases, LockPhase, Unlocked, TypeOK, Locked
  <2>4. NoServerLost' /\ HandleValid' /\ BusyValid' /\ Fresh'
    BY <2>0 DEF Shape, NoServerLost, HandleValid, BusyValid, Fresh, TypeOK
  <2> QED
    BY <2>2, <2>3, <2>4 DEF Shape
<1>9. ASSUME NEW p \in Plugins, ServerBuilt(p)
      PROVE  TypeOK' /\ Shape'
  <2>0. /\ at[p] = "building" /\ lock = p /\ lock' = Nobody
        /\ server # 0 /\ phase[server] = "building"
        /\ phase' = [phase EXCEPT ![server] = "running"]
        /\ at' = [at EXCEPT ![p] = "started"]
        /\ UNCHANGED <<server, created, known, cq, busy, threads>>
    BY <1>9 DEF ServerBuilt, Shape, LockPhases, LockPhase, TypeOK, Locked
  <2>1. \A q \in Plugins : at'[q] \notin Locked
    BY <2>0 DEF TypeOK, Locked
  <2>2. TypeOK'
    BY <2>0, <2>1 DEF TypeOK, Places
  <2>3. LockPhases' /\ Unlocked'
    BY <2>0, <2>1 DEF LockPhases, LockPhase, Unlocked, TypeOK, Locked
  <2>4. NoServerLost' /\ HandleValid' /\ BusyValid' /\ Fresh'
    BY <2>0 DEF Shape, NoServerLost, HandleValid, BusyValid, Fresh, TypeOK
  <2> QED
    BY <2>2, <2>3, <2>4 DEF Shape
<1>10. ASSUME NEW p \in Plugins, Shutdown(p)
       PROVE  TypeOK' /\ Shape'
  <2>0. /\ at[p] = "stopLocked" /\ lock = p
        /\ server # 0 /\ phase[server] = "running"
        /\ phase' = [phase EXCEPT ![server] = "shutdown"]
        /\ at' = [at EXCEPT ![p] = "stopping"]
        /\ UNCHANGED <<server, created, lock, known, cq, busy, threads>>
    BY <1>10 DEF Shutdown, TypeOK, Locked
  <2>1. \A q \in Plugins : q # p => at[q] \notin Locked
    BY <2>0 DEF TypeOK
  <2>2. TypeOK'
    BY <2>0 DEF TypeOK, Places, Locked
  <2>3. LockPhases' /\ Unlocked'
    BY <2>0, <2>1 DEF LockPhases, LockPhase, Unlocked, TypeOK, Locked
  <2>4. NoServerLost' /\ HandleValid' /\ BusyValid' /\ Fresh'
    BY <2>0 DEF Shape, NoServerLost, HandleValid, BusyValid, Fresh, TypeOK
  <2> QED
    BY <2>2, <2>3, <2>4 DEF Shape
<1>11. ASSUME NEW p \in Plugins, StopServer(p)
       PROVE  TypeOK' /\ Shape'
  <2>0. /\ at[p] = "stopping" /\ lock = p
        /\ server # 0 /\ phase[server] = "shutdown" /\ cq # server /\ busy # server
        /\ phase' = [phase EXCEPT ![server] = "finished"]
        /\ at' = [at EXCEPT ![p] = "reset"]
        /\ UNCHANGED <<server, created, lock, known, cq, busy, threads>>
    BY <1>11 DEF StopServer, Joined, Shape, LockPhases, LockPhase, TypeOK, Locked
  <2>1. \A q \in Plugins : q # p => at[q] \notin Locked
    BY <2>0 DEF TypeOK
  <2>2. TypeOK'
    BY <2>0 DEF TypeOK, Places, Locked
  <2>3. LockPhases' /\ Unlocked'
    BY <2>0, <2>1 DEF LockPhases, LockPhase, Unlocked, TypeOK, Locked
  <2>4. NoServerLost' /\ HandleValid' /\ BusyValid' /\ Fresh'
    BY <2>0 DEF Shape, NoServerLost, HandleValid, BusyValid, Fresh, TypeOK
  <2> QED
    BY <2>2, <2>3, <2>4 DEF Shape
<1>12. ASSUME NEW p \in Plugins, Reset(p)
       PROVE  TypeOK' /\ Shape'
  <2>0. /\ at[p] = "reset" /\ lock = p /\ lock' = Nobody
        /\ server # 0 /\ phase[server] = "finished" /\ server' = 0
        /\ phase' = [phase EXCEPT ![server] = "gone"]
        /\ at' = [at EXCEPT ![p] = "out"] /\ UNCHANGED <<created, known, cq, busy, threads>>
    BY <1>12 DEF Reset, Shape, LockPhases, LockPhase, TypeOK, Locked
  <2>1. \A q \in Plugins : at'[q] \notin Locked
    BY <2>0 DEF TypeOK, Locked
  <2>2. TypeOK'
    BY <2>0, <2>1 DEF TypeOK, Places
  <2>3. LockPhases' /\ Unlocked'
    BY <2>0, <2>1 DEF LockPhases, LockPhase, Unlocked, Locked
  <2>4. NoServerLost' /\ HandleValid' /\ BusyValid' /\ Fresh'
    BY <2>0 DEF Shape, NoServerLost, HandleValid, BusyValid, Fresh, TypeOK
  <2> QED
    BY <2>2, <2>3, <2>4 DEF Shape
<1>13. CASE Comes \/ Goes \/ CqEnters \/ CqLeaves
  <2>1. /\ UNCHANGED <<server, phase, created, lock, known, at, threads>>
        /\ busy' \in {busy, server, 0} /\ cq' \in {cq, server, 0}
    BY <1>13 DEF Comes, Goes, CqEnters, CqLeaves
  <2>2. TypeOK'
    BY <2>1 DEF TypeOK
  <2>3. HandleValid' /\ BusyValid'
    BY <1>13 DEF Comes, Goes, CqEnters, CqLeaves, Running, Shape, HandleValid, BusyValid
  <2> QED
    BY <2>1, <2>2, <2>3 DEF Shape, NoServerLost, LockPhases, LockPhase, Unlocked, Fresh
<1> QED
  BY <1>1, <1>3, <1>4, <1>5, <1>6, <1>7, <1>8, <1>9, <1>10, <1>12, <1>13, <1>11 DEF Next, Call

\* The inductive invariant holds.
THEOREM Invariance == Spec => []IInv
  BY InitInv, StepInv, PTL DEF Spec

\* mServerMtx is held by the one thread that is inside start() or stop().
THEOREM TypeCorrect == Spec => []TypeOK
<1>1. IInv => TypeOK
  BY DEF IInv
<1> QED
  BY <1>1, Invariance, PTL

\* However instances are constructed and destroyed on different threads, no
\* running server is forgotten and there are never two.
THEOREM ServerCorrect == Spec => []NoServerLost
<1>1. IInv => NoServerLost
  BY DEF IInv, Shape
<1> QED
  BY <1>1, Invariance, PTL

\* The completion queue's thread uses its server only while it runs.
THEOREM HandleCorrect == Spec => []HandleValid
<1>1. IInv => HandleValid
  BY DEF IInv, Shape
<1> QED
  BY <1>1, Invariance, PTL

-----------------------------------------------------------------------------
(* A host whose calls do not overlap.                                      *)

\* One thread at most is inside a call, and what it saw of the server is so.
OneThread ==
  threads = "one" =>
    /\ \A p, q \in Plugins : p = q \/ at[p] \in Resting \/ at[q] \in Resting
    /\ \A p \in Plugins :
         /\ at[p] \in {"stopWait", "stopLocked", "address"} => server # 0
         /\ at[p] = "started" => Running

LEMMA StepOneThread == IInv /\ OneThread /\ [Next]_vars => OneThread'
<1> SUFFICES ASSUME IInv, OneThread, [Next]_vars, threads' = "one" PROVE OneThread'
  BY DEF OneThread
<1> USE DEF Goto, Phase, Unlock, Resting
<1>1. CASE UNCHANGED vars
  BY <1>1 DEF vars, OneThread, Running
<1>2. at \in [Plugins -> Places]
  BY DEF IInv, TypeOK
\* A call begins, when no other is under way.
<1>3. ASSUME NEW p \in Plugins, AddPlugin(p) \/ CheckRunning(p) \/ RemovePlugin(p)
      PROVE  OneThread'
  <2>1. /\ threads = "one" /\ \A q \in Plugins : at[q] \in Resting
        /\ UNCHANGED <<server, phase>>
    BY <1>3 DEF AddPlugin, CheckRunning, RemovePlugin, Begin
  <2>2. \/ at' = [at EXCEPT ![p] = "start"] \/ at' = [at EXCEPT ![p] = "stop"]
        \/ at' = [at EXCEPT ![p] = "address"] /\ server # 0
    BY <1>3 DEF AddPlugin, CheckRunning, RemovePlugin, Running
  <2> QED
    BY <1>2, <2>1, <2>2 DEF OneThread
\* The one call that is under way goes on.
<1>4. ASSUME NEW p \in Plugins, Call(p)
      PROVE  OneThread'
  <2>1. threads = "one" /\ at[p] \notin Resting
    BY <1>4 DEF Call, StartLock, StartReturns, StartServer, ServerBuilt, Constructed, Address,
                StopCheck, StopLock, Shutdown, StopServer, Reset
  <2>2. \A q \in Plugins : q = p \/ at[q] \in Resting
    BY <2>1 DEF OneThread
  <2>3. \A q \in Plugins : q = p \/ at'[q] = at[q]
    BY <1>2, <1>4 DEF Call, StartLock, StartReturns, StartServer, ServerBuilt, Constructed, Address,
                      StopCheck, StopLock, Shutdown, StopServer, Reset
  <2>4. at'[p] \in {"stopWait", "stopLocked", "address"} => server' # 0
    BY <1>2, <1>4, <2>1
    DEF Call, StartLock, StartReturns, StartServer, ServerBuilt, Constructed, Address,
        StopCheck, StopLock, Shutdown, StopServer, Reset, MayStop, Running, OneThread
  <2>5. at'[p] = "started" => Running'
    <3>1. ASSUME at'[p] = "started"
          PROVE  \/ at[p] = "startLocked" /\ Running /\ UNCHANGED <<server, phase>>
                 \/ /\ at[p] = "building" /\ server' = server
                    /\ phase' = [phase EXCEPT ![server] = "running"]
      BY <1>2, <1>4, <3>1
      DEF Call, StartLock, StartReturns, StartServer, ServerBuilt, Constructed, Address,
          StopCheck, StopLock, Shutdown, StopServer, Reset, AlreadyRunning
    <3>2. at[p] = "building" => server # 0
      BY DEF IInv, Shape, LockPhases, LockPhase
    <3>3. server # 0 => server \in DOMAIN phase
      BY CtrlAssumption DEF IInv, TypeOK, Servers
    <3> QED
      BY <3>1, <3>2, <3>3 DEF Running
  <2> QED
    BY <2>2, <2>3, <2>4, <2>5 DEF OneThread
<1>5. CASE Comes \/ Goes \/ CqEnters \/ CqLeaves
  BY <1>5 DEF Comes, Goes, CqEnters, CqLeaves, OneThread, Running
<1> QED
  BY <1>1, <1>3, <1>4, <1>5 DEF Next

THEOREM OneThreadHolds == Spec => []OneThread
<1>1. Init => OneThread
  BY DEF Init, OneThread, Resting
<1> QED
  BY <1>1, StepOneThread, Invariance, PTL DEF Spec

\* When the host's calls do not overlap, a thread that saw the server run finds
\* mServer set when it uses it, in stop() and in address().
THEOREM DerefCorrect == Spec => []NoNullDeref
<1>1. OneThread => NoNullDeref
  BY DEF OneThread, NoNullDeref
<1> QED
  BY <1>1, OneThreadHolds, PTL

\* When the host's calls do not overlap, the assertion isRunning() of the
\* constructor holds.
THEOREM StartCorrect == Spec => []RunningAfterStart
<1>1. OneThread => RunningAfterStart
  BY DEF OneThread, RunningAfterStart
<1> QED
  BY <1>1, OneThreadHolds, PTL

-----------------------------------------------------------------------------
(* A process with one plugin instance.                                     *)

OneInstance == \A p, q \in Plugins : p = q

\* Its calls cannot overlap, and the server is there from constructor to destructor.
ServedAlone ==
  threads = "one" /\ \A p \in Plugins : at[p] \in {"alive", "address"} => Running

LEMMA StepServedAlone ==
  ASSUME OneInstance
  PROVE  IInv /\ OneThread /\ ServedAlone /\ [Next]_vars => ServedAlone'
<1> SUFFICES ASSUME IInv, OneThread, ServedAlone, [Next]_vars PROVE ServedAlone'
  OBVIOUS
<1> USE DEF Goto, Phase, Unlock
<1>1. at \in [Plugins -> Places]
  BY DEF IInv, TypeOK
<1>2. CASE UNCHANGED vars
  BY <1>2 DEF vars, ServedAlone, Running
<1>3. ASSUME NEW p \in Plugins, AddPlugin(p) \/ CheckRunning(p) \/ RemovePlugin(p)
      PROVE  ServedAlone'
  <2>1. at[p] \in Resting /\ \A q \in Plugins : q = p
    BY <1>3 DEF AddPlugin, CheckRunning, RemovePlugin, Begin, Resting, OneInstance
  <2>2. threads' = "one" /\ UNCHANGED <<server, phase>>
    BY <1>3, <2>1 DEF AddPlugin, CheckRunning, RemovePlugin, Begin, ServedAlone
  <2>3. at'[p] = "address" => Running
    BY <1>1, <1>3 DEF AddPlugin, CheckRunning, RemovePlugin
  <2>4. at'[p] # "alive"
    BY <1>1, <1>3 DEF AddPlugin, CheckRunning, RemovePlugin
  <2> QED
    BY <2>1, <2>2, <2>3, <2>4 DEF ServedAlone, Running
<1>4. ASSUME NEW p \in Plugins, Call(p)
      PROVE  ServedAlone'
  <2>1. \A q \in Plugins : q = p
    BY DEF OneInstance
  <2>2. threads' = "one"
    BY <1>4 DEF Call, StartLock, StartReturns, StartServer, ServerBuilt, Constructed, Address,
                StopCheck, StopLock, Shutdown, StopServer, Reset, ServedAlone
  <2>3. CASE Constructed(p) \/ Address(p)
    <3>1. at[p] \in {"started", "address"} /\ UNCHANGED <<server, phase>>
      BY <2>3 DEF Constructed, Address
    <3>2. Running
      BY <3>1 DEF OneThread, ServedAlone
    <3> QED
      BY <2>1, <2>2, <3>1, <3>2 DEF ServedAlone, Running
  <2>4. CASE ~(Constructed(p) \/ Address(p))
    <3>1. at'[p] \notin {"alive", "address"}
      BY <1>1, <1>4, <2>4 DEF Call, StartLock, StartReturns, StartServer, ServerBuilt,
                              StopCheck, StopLock, Shutdown, StopServer, Reset
    <3> QED
      BY <2>1, <2>2, <3>1 DEF ServedAlone
  <2> QED
    BY <2>3, <2>4
<1>5. CASE Comes \/ Goes \/ CqEnters \/ CqLeaves
  BY <1>5 DEF Comes, Goes, CqEnters, CqLeaves, ServedAlone, Running
<1> QED
  BY <1>2, <1>3, <1>4, <1>5 DEF Next

\* The one instance of a process has a server for as long as it lives.  With two
\* the destructor of one takes it from the other.
THEOREM ServedCorrect == ASSUME OneInstance PROVE Spec => []PluginServed
<1>1. Init => ServedAlone
  BY DEF Init, ServedAlone
<1>2. IInv /\ OneThread /\ ServedAlone /\ [Next]_vars => ServedAlone'
  BY StepServedAlone
<1>3. ServedAlone => PluginServed
  BY DEF ServedAlone, PluginServed
<1> QED
  BY <1>1, <1>2, <1>3, Invariance, OneThreadHolds, PTL DEF Spec
=============================================================================
