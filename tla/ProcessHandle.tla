---------------------------- MODULE ProcessHandle ----------------------------
(***************************************************************************)
(* core/processhandle.cpp, the POSIX half: the objects through which the   *)
(* plugin starts, watches and ends its GUI process, beside the kernel's    *)
(* table of processes, where a number is free again once its process was   *)
(* waited for.  Each handle is used by one thread at a time; waitpid() and *)
(* kill() are external.                                                    *)
(***************************************************************************)
EXTENDS Naturals

CONSTANTS Handles, \* the objects
          Pids,    \* the numbers of processes
          NoPid    \* -1

ASSUME HandleAssumption == NoPid \notin Pids

VARIABLES life,     \* handle -> live, moved (its dPtr is null) or gone
          path,     \* handle -> mPath names an existing file
          child,    \* handle -> mChildHandle
          doing,    \* handle -> the call that waits for the child, or idle
          proc,     \* pid -> free, running, zombie or stranger (not ours)
          signalled, \* the pids of our processes that got SIGTERM
          \* history:
          owner,    \* pid -> the handle its process belongs to
          checked,  \* handles whose number checkChildStatus() waited for
          dropped,  \* pids of the children that a move assignment let go
          hit,      \* handles that signalled a process not their own
          madeUp    \* handles that returned an uninitialised status

histVars == <<owner, checked, dropped, hit, madeUp>>
procVars == <<proc, signalled>>
vars == <<life, path, child, doing, procVars, histVars>>

Ours(p) == proc[p] \in {"running", "zombie"}
IsChildRunning(h) == child[h] # NoPid
Usable(h) == life[h] = "live" /\ doing[h] = "idle"

-----------------------------------------------------------------------------
(* Seeded faults: plausible slips in the definitions below.                *)

NeverReset(h) == child
NotTerminated(h) == TRUE
WaitsUnsignalled(h) == signalled

-----------------------------------------------------------------------------
Init ==
  /\ life = [h \in Handles |-> "live"] /\ path = [h \in Handles |-> FALSE]
  /\ child = [h \in Handles |-> NoPid] /\ doing = [h \in Handles |-> "idle"]
  /\ proc = [p \in Pids |-> "free"] /\ owner \in [Pids -> Handles]
  /\ signalled = {} /\ checked = {} /\ dropped = {} /\ hit = {} /\ madeUp = {}

-----------------------------------------------------------------------------
(* The kernel: processes of others come and go, ours become zombies.       *)

Stranger(p) ==
  /\ \/ proc[p] = "free" /\ proc' = [proc EXCEPT ![p] = "stranger"]
     \/ proc[p] = "stranger" /\ proc' = [proc EXCEPT ![p] = "free"]
  /\ UNCHANGED <<life, path, child, doing, signalled, histVars>>

Exit(p) ==
  /\ proc[p] = "running"
  /\ proc' = [proc EXCEPT ![p] = "zombie"]
  /\ UNCHANGED <<life, path, child, doing, signalled, histVars>>

Reap(p) ==
  /\ proc[p] = "zombie"
  /\ proc' = [proc EXCEPT ![p] = "free"]
  /\ signalled' = signalled \ {p}

-----------------------------------------------------------------------------
(* The handle.                                                             *)

SetExecutable(h) ==
  /\ Usable(h) /\ ~IsChildRunning(h)
  /\ path' = [path EXCEPT ![h] = TRUE]
  /\ UNCHANGED <<life, child, doing, procVars, histVars>>

IsValid(h) == path[h] /\ ~IsChildRunning(h)

\* startChild(): fork() may fail, which leaves mChildHandle at -1.
StartChild(h, p) ==
  /\ Usable(h) /\ IsValid(h) /\ proc[p] = "free"
  /\ proc' = [proc EXCEPT ![p] = "running"]
  /\ owner' = [owner EXCEPT ![p] = h]
  /\ child' = [child EXCEPT ![h] = p]
  /\ dropped' = dropped \ {p}
  /\ UNCHANGED <<life, path, doing, signalled, checked, hit, madeUp>>

Reset(h) == [child EXCEPT ![h] = NoPid]

\* checkChildStatus() waits for the child but keeps its number.
CheckChildStatus(h) ==
  /\ Usable(h) /\ IsChildRunning(h)
  /\ Reap(child[h])
  /\ checked' = checked \union {h}
  /\ UNCHANGED <<life, path, child, doing, owner, dropped, hit, madeUp>>

WaitForChild(h) ==
  /\ Usable(h) /\ IsChildRunning(h)
  /\ doing' = [doing EXCEPT ![h] = "wait"]
  /\ UNCHANGED <<life, path, child, procVars, histVars>>

Signals(h) ==
  IF Ours(child[h]) THEN signalled \union {child[h]} ELSE signalled

\* terminateChild(), and the destructor that calls it: kill() reaches whatever
\* process has the number now.
Kill(h, call) ==
  LET p == child[h] IN
  /\ IsChildRunning(h) /\ proc[p] # "free"
  /\ signalled' = Signals(h)
  /\ hit' = IF Ours(p) /\ owner[p] = h THEN hit ELSE hit \union {h}
  /\ doing' = [doing EXCEPT ![h] = call]
  /\ UNCHANGED <<life, path, child, proc, owner, checked, dropped, madeUp>>

\* No process has the number, or we may not signal it: nullopt, and the
\* number stays.
KillFails(h) ==
  IsChildRunning(h) /\ proc[child[h]] \in {"free", "stranger"}

TerminateChild(h) == Usable(h) /\ Kill(h, "terminate")

\* After waitpid() returned in the call, with the child reaped or not.
Ends(h) ==
  /\ doing' = [doing EXCEPT ![h] = "idle"]
  /\ life' = IF doing[h] = "destroy" THEN [life EXCEPT ![h] = "gone"] ELSE life

Waited(h) ==
  /\ doing[h] # "idle" /\ Reap(child[h])
  /\ child' = Reset(h)
  /\ Ends(h)
  /\ UNCHANGED <<path, histVars>>

\* waitpid() fails when the number is not that of a child: terminateChild()
\* gives up; waitForChild() does not look and reads its uninitialised status.
WaitFails(h) ==
  /\ doing[h] # "idle" /\ ~Ours(child[h])
  /\ \/ child' = Reset(h)
     \/ child' = child /\ doing[h] = "wait"
  /\ madeUp' = IF doing[h] = "wait" THEN madeUp \union {h} ELSE madeUp
  /\ Ends(h)
  /\ UNCHANGED <<path, procVars, owner, checked, dropped, hit>>

Forsaken(h) == ~IsChildRunning(h) \/ KillFails(h)

Destroy(h) ==
  /\ Usable(h)
  /\ \/ Kill(h, "destroy")
     \/ /\ Forsaken(h)
        /\ life' = [life EXCEPT ![h] = "gone"]
        /\ UNCHANGED <<path, child, doing, procVars, histVars>>

MoveChild(h, g) == [child EXCEPT ![h] = child[g], ![g] = NoPid]

\* h = std::move(g): what h held is dropped without terminating it.
MoveAssign(h, g) ==
  /\ h # g /\ Usable(h) /\ Usable(g)
  /\ child' = MoveChild(h, g)
  /\ path' = [path EXCEPT ![h] = path[g]]
  /\ life' = [life EXCEPT ![g] = "moved"]
  /\ owner' = [p \in Pids |-> IF child[g] = p /\ owner[p] = g THEN h ELSE owner[p]]
  /\ dropped' = dropped \union {p \in Pids : child[h] = p /\ owner[p] = h}
  /\ UNCHANGED <<doing, procVars, checked, hit, madeUp>>

-----------------------------------------------------------------------------
Next ==
  \/ \E p \in Pids : Stranger(p) \/ Exit(p)
  \/ \E h \in Handles :
       \/ SetExecutable(h) \/ CheckChildStatus(h) \/ WaitForChild(h)
       \/ TerminateChild(h) \/ Waited(h) \/ WaitFails(h) \/ Destroy(h)
       \/ \E p \in Pids : StartChild(h, p)
       \/ \E g \in Handles : MoveAssign(h, g)

Spec == Init /\ [][Next]_vars

\* A process that is told to terminate does so, and waitpid() returns then.
Fairness ==
  /\ \A p \in Pids : WF_vars(p \in signalled /\ Exit(p))
  /\ \A h \in Handles : WF_vars(Waited(h) \/ WaitFails(h))

LiveSpec == Spec /\ Fairness

-----------------------------------------------------------------------------
(* Properties.                                                             *)

\* The state has its type.
TypeOK ==
  /\ life \in [Handles -> {"live", "moved", "gone"}]
  /\ path \in [Handles -> BOOLEAN]
  /\ child \in [Handles -> Pids \union {NoPid}]
  /\ doing \in [Handles -> {"idle", "wait", "terminate", "destroy"}]
  /\ proc \in [Pids -> {"free", "running", "zombie", "stranger"}]
  /\ owner \in [Pids -> Handles]
  /\ signalled \subseteq {p \in Pids : Ours(p)}
  /\ checked \subseteq Handles /\ dropped \subseteq Pids
  /\ hit \subseteq Handles /\ madeUp \subseteq Handles

\* No call of a handle signals a process that does not belong to it, and every
\* status waitForChild() returns is its child's, however the kernel uses the
\* number again, as long as checkChildStatus() has not waited for a child and
\* left its number behind: from then on one handle's calls may reach another
\* handle's child as well.
ActsOnOwnChild == checked = {} => hit = {} /\ madeUp = {}

\* Every child that has not been waited for can be reached: a handle that is
\* alive holds it.  None outlives its handle, none stays a zombie for ever,
\* unless the handle that ran it was assigned another one.
ChildrenHeld ==
  \A p \in Pids \ dropped :
    Ours(p) => life[owner[p]] = "live" /\ child[owner[p]] = p

\* terminateChild() and the destructor return, whatever numbers the kernel uses
\* again; on the same condition, for otherwise waitpid() may wait for another
\* handle's child.
TerminateReturns ==
  \A h \in Handles :
    doing[h] \in {"terminate", "destroy"} ~> doing[h] = "idle" \/ checked # {}
=============================================================================
