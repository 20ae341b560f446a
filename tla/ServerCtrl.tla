----------------------------- MODULE ServerCtrl -----------------------------
(***************************************************************************)
(* The process-wide singleton of server/serverctrl.cpp: plugin instances   *)
(* register with it, start the gRPC server it owns when they are           *)
(* constructed and stop it when they are destroyed.                        *)
(*                                                                         *)
(* Two mutexes protect it: mServerMtx, taken by start() and stop(), is the *)
(* variable lock; mSharedDataMtx is held for single steps.  isRunning(),   *)
(* address() and tryGetServerStreamCqHandle() take none.  Dereferencing a  *)
(* null mServer ends the behaviour; that a call ends the process, as in    *)
(* modules ServerEventStream and ServerStop, is left to them.              *)
(***************************************************************************)
EXTENDS Naturals, FiniteSets

CONSTANTS Plugins,    \* plugin instances; the host calls each from one thread
          MaxServers  \* bound: servers created

ASSUME CtrlAssumption == MaxServers \in Nat

Nobody == "nobody"
ASSUME NobodyAssumption == Nobody \notin Plugins

Servers == 1 .. MaxServers

VARIABLES server,  \* the server mServer holds, 0 when it is null
          phase,   \* server -> none, create, building, running, shutdown,
                   \* finished, gone
          created, \* number of servers created
          lock,    \* who holds mServerMtx
          known,   \* keys of mSharedData
          at,      \* instance -> where its thread is
          cq,      \* the server whose completion queue thread 0 is inside
                   \* tryGetServerStreamCqHandle(), else 0
          busy,    \* the server that a client is connected to, or whose thread 1
                   \* is inside a handler, else 0
          threads  \* one, or many once two calls overlapped (history)

vars == <<server, phase, created, lock, known, at, cq, busy, threads>>

Places == {"out", "start", "startLocked", "building", "started", "alive", "address",
           "stop", "stopWait", "stopLocked", "stopping", "reset"}

Resting == {"out", "alive"}

\* Server::state is RUNNING from the first line of Server::start() to the last of
\* Server::stop().
Running == server # 0 /\ phase[server] \in {"building", "running", "shutdown"}
Goto(p, place) == at' = [at EXCEPT ![p] = place]
Phase(s, f) == phase' = [phase EXCEPT ![s] = f]

-----------------------------------------------------------------------------
(* Seeded faults: plausible slips in the definitions below.                *)

KeepLock == UNCHANGED lock
NoJoin == TRUE
Unchecked == TRUE
AlwaysNew == TRUE

-----------------------------------------------------------------------------
Unlock == lock' = Nobody

Init ==
  /\ server = 0 /\ created = 0
  /\ phase = [s \in Servers |-> "none"]
  /\ lock = Nobody /\ known = {} /\ cq = 0 /\ busy = 0 /\ threads = "one"
  /\ at = [p \in Plugins |-> "out"]

\* A call of the host on one instance begins.
Begin(p, place) ==
  /\ at[p] = place
  /\ threads' = IF \A q \in Plugins : at[q] \in Resting THEN threads ELSE "many"

LockFree == lock = Nobody

-----------------------------------------------------------------------------
(* The constructor: addPlugin(), start(), assert(isRunning()).             *)

AddPlugin(p) ==
  /\ Begin(p, "out")
  /\ server = 0 => created < MaxServers
  /\ known' = known \union {p}
  /\ Goto(p, "start")
  /\ UNCHANGED <<server, phase, created, lock, cq, busy>>

NeedsServer == server = 0

StartLock(p) ==
  /\ at[p] = "start" /\ LockFree
  /\ lock' = p
  /\ IF NeedsServer
       THEN /\ created < MaxServers
            /\ created' = created + 1 /\ server' = created + 1
            /\ Phase(created + 1, "create")
       ELSE UNCHANGED <<created, server, phase>>
  /\ Goto(p, "startLocked")
  /\ UNCHANGED <<known, cq, busy, threads>>

AlreadyRunning == Running

StartReturns(p) ==
  /\ at[p] = "startLocked" /\ AlreadyRunning
  /\ Unlock
  /\ Goto(p, "started")
  /\ UNCHANGED <<server, phase, created, known, cq, busy, threads>>

\* Server::start(): RUNNING first, then the completion queues, the port and
\* the threads.
StartServer(p) ==
  /\ at[p] = "startLocked" /\ ~AlreadyRunning
  /\ Phase(server, "building")
  /\ Goto(p, "building")
  /\ UNCHANGED <<server, created, lock, known, cq, busy, threads>>

\* The second mServer->start() finds the state RUNNING and does nothing.
ServerBuilt(p) ==
  /\ at[p] = "building"
  /\ Phase(server, "running")
  /\ Unlock
  /\ Goto(p, "started")
  /\ UNCHANGED <<server, created, known, cq, busy, threads>>

Constructed(p) ==
  /\ at[p] = "started"
  /\ Goto(p, "alive")
  /\ UNCHANGED <<server, phase, created, lock, known, cq, busy, threads>>

-----------------------------------------------------------------------------
(* guiCreate(): isRunning(), then address().                               *)

CheckRunning(p) ==
  /\ Begin(p, "alive") /\ Running
  /\ Goto(p, "address")
  /\ UNCHANGED <<server, phase, created, lock, known, cq, busy>>

Address(p) ==
  /\ at[p] = "address" /\ server # 0
  /\ Goto(p, "alive")
  /\ UNCHANGED <<server, phase, created, lock, known, cq, busy, threads>>

-----------------------------------------------------------------------------
(* The destructor: removePlugin(), stop().                                 *)

RemovePlugin(p) ==
  /\ Begin(p, "alive")
  /\ known' = known \ {p}
  /\ Goto(p, "stop")
  /\ UNCHANGED <<server, phase, created, lock, cq, busy>>

MayStop == Running

StopCheck(p) ==
  /\ at[p] = "stop"
  /\ Goto(p, IF MayStop THEN "stopWait" ELSE "out")
  /\ UNCHANGED <<server, phase, created, lock, known, cq, busy, threads>>

StopLock(p) ==
  /\ at[p] = "stopWait" /\ LockFree
  /\ lock' = p
  /\ Goto(p, "stopLocked")
  /\ UNCHANGED <<server, phase, created, known, cq, busy, threads>>

\* Server::stop(): Shutdown(), which takes no more clients and has no deadline.
Shutdown(p) ==
  /\ at[p] = "stopLocked" /\ server # 0
  /\ phase[server] = "running"
  /\ Phase(server, "shutdown")
  /\ Goto(p, "stopping")
  /\ UNCHANGED <<server, created, lock, known, cq, busy, threads>>

\* It returns when the clients are gone; then both queues are drained and both
\* threads joined.
Joined == cq # server /\ busy # server

StopServer(p) ==
  /\ at[p] = "stopping" /\ Joined
  /\ Phase(server, "finished")
  /\ Goto(p, "reset")
  /\ UNCHANGED <<server, created, lock, known, cq, busy, threads>>

Reset(p) ==
  /\ at[p] = "reset"
  /\ Phase(server, "gone")
  /\ server' = 0
  /\ Unlock
  /\ Goto(p, "out")
  /\ UNCHANGED <<created, known, cq, busy, threads>>

-----------------------------------------------------------------------------
(* The clients, and the threads of the completion queues.                  *)

Comes ==
  /\ busy = 0 /\ server # 0 /\ phase[server] = "running"
  /\ busy' = server
  /\ UNCHANGED <<server, phase, created, lock, known, at, cq, threads>>

Goes ==
  /\ busy # 0
  /\ busy' = 0
  /\ UNCHANGED <<server, phase, created, lock, known, at, cq, threads>>

\* Thread 0 serves a client: tryStartPolling() asks for its own handle.
CqEnters ==
  /\ cq = 0 /\ known # {}
  /\ Running /\ busy = server
  /\ cq' = server
  /\ UNCHANGED <<server, phase, created, lock, known, at, busy, threads>>

CqLeaves ==
  /\ cq # 0
  /\ cq' = 0
  /\ UNCHANGED <<server, phase, created, lock, known, at, busy, threads>>

-----------------------------------------------------------------------------
Call(p) ==
  \/ StartLock(p) \/ StartReturns(p) \/ StartServer(p) \/ ServerBuilt(p) \/ Constructed(p)
  \/ Address(p)
  \/ StopCheck(p) \/ StopLock(p) \/ Shutdown(p) \/ StopServer(p) \/ Reset(p)

Next ==
  \/ \E p \in Plugins : AddPlugin(p) \/ CheckRunning(p) \/ RemovePlugin(p) \/ Call(p)
  \/ Comes \/ Goes \/ CqEnters \/ CqLeaves

Spec == Init /\ [][Next]_vars

\* A call that has begun goes on, and the completion queue's thread leaves.  That
\* a client goes or a handler comes out is not assumed.
FairSpec ==
  /\ Spec
  /\ WF_vars(CqLeaves)
  /\ \A p \in Plugins : WF_vars(Call(p))

-----------------------------------------------------------------------------
(* Correctness.                                                            *)

Locked == {"startLocked", "building", "stopLocked", "stopping", "reset"}

\* The mutex is held by the one instance whose thread is inside start() or
\* stop(), if any.
TypeOK ==
  /\ server \in 0 .. MaxServers /\ created \in 0 .. MaxServers
  /\ cq \in 0 .. MaxServers /\ busy \in 0 .. MaxServers
  /\ phase \in [Servers -> {"none", "create", "building", "running", "shutdown",
                           "finished", "gone"}]
  /\ lock \in Plugins \union {Nobody}
  /\ known \subseteq Plugins
  /\ at \in [Plugins -> Places] /\ threads \in {"one", "many"}
  /\ \A p \in Plugins : at[p] \in Locked <=> lock = p

\* Whichever instances start and stop at the same time, a server that is being
\* built, runs or has just stopped is the one that mServer holds: none is
\* forgotten while its threads run, and there are never two.
NoServerLost ==
  \A s \in Servers :
    phase[s] \in {"create", "building", "running", "shutdown", "finished"} => s = server

\* The completion queue's thread uses its server only while mServer holds it
\* and it has not been stopped: stop() joins the thread first.
HandleValid == cq # 0 => (cq = server /\ phase[cq] \in {"running", "shutdown"})

\* As long as the host's calls do not overlap, no thread finds mServer null
\* after it has seen the server run.  On several threads it may: stop() tests
\* isRunning() before it takes the mutex.
NoNullDeref ==
  threads = "one" => \A p \in Plugins : at[p] \in {"stopLocked", "address"} => server # 0

\* The constructor's assertion, on the same condition: after start() the server
\* is running.
RunningAfterStart ==
  threads = "one" => \A p \in Plugins : at[p] = "started" => Running

\* Some thread has dereferenced a null mServer, in stop() or address().
NullDeref == server = 0 /\ \E p \in Plugins : at[p] \in {"stopLocked", "address"}

\* A call of the host on an instance returns if clients and handlers leave the
\* server alone from time to time, unless a null mServer was dereferenced (or the
\* bound on servers keeps the model from starting one).  While a client stays, or
\* pushClientParam() waits, a destructor does not return, nor does any other call
\* that needs mServerMtx: nothing in the code bounds that.
CallsReturn ==
  []<>(busy = 0) =>
    \A p \in Plugins :
      at[p] \notin Resting
        ~> at[p] \in Resting \/ NullDeref \/ (server = 0 /\ created = MaxServers)

\* The constructor's comment: the static instance can hold multiple plugins.
\* A plugin that lives has a server.
PluginServed == \A p \in Plugins : at[p] = "alive" => Running
=============================================================================
