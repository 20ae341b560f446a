------------------------- MODULE ProcessHandleProofs -------------------------
(***************************************************************************)
(* Handles of processes, for any number of them and of process numbers:    *)
(* until checkChildStatus() waits for a child, a handle that holds a number *)
(* holds its own child, whatever the kernel does with those that are free. *)
(***************************************************************************)
EXTENDS ProcessHandle, TLAPS

\* A call that waits belongs to a live handle with a number.
Waits ==
  \A h \in Handles : doing[h] # "idle" => life[h] = "live" /\ IsChildRunning(h)

LEMMA InitType == Init => TypeOK /\ Waits
<1> SUFFICES ASSUME Init PROVE TypeOK /\ Waits
  OBVIOUS
<1> USE DEF Init
<1>1. TypeOK
  BY DEF TypeOK, Ours
<1> QED
  BY <1>1 DEF Waits

\* The type of the state after a step of a handle, part by part.
LEMMA TypeStep == ASSUME TypeOK, Waits, [Next]_vars PROVE TypeOK' /\ Waits'
<1> DEFINE Lives == {"live", "moved", "gone"}
           Calls == {"idle", "wait", "terminate", "destroy"}
           Kinds == {"free", "running", "zombie", "stranger"}
<1> USE HandleAssumption
<1>1. /\ life \in [Handles -> Lives] /\ path \in [Handles -> BOOLEAN]
      /\ child \in [Handles -> Pids \union {NoPid}] /\ doing \in [Handles -> Calls]
      /\ proc \in [Pids -> Kinds] /\ owner \in [Pids -> Handles]
      /\ signalled \subseteq {p \in Pids : Ours(p)}
      /\ checked \subseteq Handles /\ dropped \subseteq Pids
      /\ hit \subseteq Handles /\ madeUp \subseteq Handles
  BY DEF TypeOK
<1>2. CASE UNCHANGED vars
  BY <1>2 DEF vars, procVars, histVars, TypeOK, Ours, Waits, IsChildRunning
<1>3. ASSUME NEW p \in Pids, Stranger(p) \/ Exit(p) PROVE TypeOK' /\ Waits'
  <2>1. proc' \in [Pids -> Kinds] /\ \A q \in Pids : Ours(q)' <=> Ours(q)
    BY <1>1, <1>3 DEF Stranger, Exit, Ours
  <2>2. UNCHANGED <<life, path, child, doing, signalled, owner, checked, dropped, hit, madeUp>>
    BY <1>3 DEF Stranger, Exit, histVars
  <2> QED
    BY <1>1, <2>1, <2>2 DEF TypeOK, Waits, IsChildRunning
<1>4. ASSUME NEW p \in Pids, Reap(p)
      PROVE  /\ proc' \in [Pids -> Kinds] /\ signalled' \subseteq {q \in Pids : Ours(q)'}
             /\ \A q \in Pids \ {p} : proc'[q] = proc[q]
             /\ ~Ours(p)' /\ Ours(p)
  BY <1>1, <1>4 DEF Reap, Ours
<1>5. ASSUME NEW h \in Handles, SetExecutable(h) \/ WaitForChild(h) \/ CheckChildStatus(h)
      PROVE  TypeOK' /\ Waits'
  <2>1. CASE SetExecutable(h)
    BY <1>1, <2>1 DEF SetExecutable, procVars, histVars, TypeOK, Waits, Ours, IsChildRunning
  <2>2. CASE WaitForChild(h)
    BY <1>1, <2>2 DEF WaitForChild, Usable, procVars, histVars, TypeOK, Waits, Ours,
       IsChildRunning
  <2>3. CASE CheckChildStatus(h)
    <3>1. child[h] \in Pids
      BY <1>1, <2>3 DEF CheckChildStatus, IsChildRunning
    <3>2. /\ Reap(child[h]) /\ UNCHANGED <<life, path, child, doing, owner, dropped, hit, madeUp>>
          /\ checked' \subseteq Handles
      BY <1>1, <2>3 DEF CheckChildStatus
    <3> QED
      BY <1>1, <1>4, <3>1, <3>2 DEF TypeOK, Waits, IsChildRunning
  <2> QED
    BY <1>5, <2>1, <2>2, <2>3
<1>6. ASSUME NEW h \in Handles, NEW p \in Pids, StartChild(h, p) PROVE TypeOK' /\ Waits'
  <2>1. /\ proc' \in [Pids -> Kinds] /\ owner' \in [Pids -> Handles]
        /\ child' \in [Handles -> Pids \union {NoPid}]
        /\ dropped' \subseteq Pids
        /\ UNCHANGED <<life, path, doing, signalled, checked, hit, madeUp>>
    BY <1>1, <1>6 DEF StartChild
  <2>2. \A q \in Pids : Ours(q) => Ours(q)'
    BY <1>1, <1>6 DEF StartChild, Ours
  <2>3. \A g \in Handles : child[g] # NoPid => child'[g] # NoPid
    BY <1>1, <1>6 DEF StartChild
  <2> QED
    BY <1>1, <2>1, <2>2, <2>3 DEF TypeOK, Waits, IsChildRunning
<1>7. ASSUME NEW h \in Handles, NEW call \in Calls \ {"idle"}, Usable(h), Kill(h, call)
      PROVE  TypeOK' /\ Waits'
  <2>1. /\ UNCHANGED <<life, path, child, proc, owner, checked, dropped, madeUp>>
        /\ doing' = [doing EXCEPT ![h] = call] /\ IsChildRunning(h)
    BY <1>7 DEF Kill
  <2>2. hit' \subseteq Handles
    BY <1>1, <1>7 DEF Kill
  <2>3. signalled' \subseteq {q \in Pids : Ours(q)'}
    BY <1>1, <1>7, <2>1 DEF Kill, Signals, IsChildRunning, Ours
  <2>4. Waits'
    BY <1>1, <1>7, <2>1 DEF Waits, Usable, IsChildRunning
  <2> QED
    BY <1>1, <2>1, <2>2, <2>3, <2>4 DEF TypeOK
<1>8. ASSUME NEW h \in Handles, Ends(h), child' = Reset(h) \/ child' = child
      PROVE  /\ life' \in [Handles -> Lives] /\ doing' \in [Handles -> Calls]
             /\ child' \in [Handles -> Pids \union {NoPid}] /\ Waits'
  BY <1>1, <1>8 DEF Ends, Reset, Waits, IsChildRunning
<1>9. ASSUME NEW h \in Handles, Waited(h) PROVE TypeOK' /\ Waits'
  <2>1. child[h] \in Pids
    BY <1>1, <1>9 DEF Waited, Waits, IsChildRunning
  <2>2. Reap(child[h]) /\ Ends(h) /\ child' = Reset(h)
        /\ UNCHANGED <<path, owner, checked, dropped, hit, madeUp>>
    BY <1>9 DEF Waited, histVars
  <2> QED
    BY <1>1, <1>4, <1>8, <2>1, <2>2 DEF TypeOK
<1>10. ASSUME NEW h \in Handles, WaitFails(h) PROVE TypeOK' /\ Waits'
  <2>1. /\ Ends(h) /\ (child' = Reset(h) \/ child' = child)
        /\ UNCHANGED <<path, proc, signalled, owner, checked, dropped, hit>>
    BY <1>10 DEF WaitFails, procVars
  <2>2. madeUp' \subseteq Handles
    BY <1>1, <1>10 DEF WaitFails
  <2> QED
    BY <1>1, <1>8, <2>1, <2>2 DEF TypeOK, Ours
<1>11. ASSUME NEW h \in Handles, Destroy(h) PROVE TypeOK' /\ Waits'
  <2>1. CASE Kill(h, "destroy")
    BY <1>7, <1>11, <2>1 DEF Destroy
  <2>2. CASE /\ life' = [life EXCEPT ![h] = "gone"]
             /\ UNCHANGED <<path, child, doing, procVars, histVars>>
    BY <1>1, <1>11, <2>2 DEF Destroy, Usable, procVars, histVars, TypeOK, Waits, Ours,
       IsChildRunning
  <2> QED
    BY <1>11, <2>1, <2>2 DEF Destroy
<1>12. ASSUME NEW h \in Handles, NEW g \in Handles, MoveAssign(h, g) PROVE TypeOK' /\ Waits'
  <2>1. /\ child' = [child EXCEPT ![h] = child[g], ![g] = NoPid]
        /\ path' = [path EXCEPT ![h] = path[g]] /\ life' = [life EXCEPT ![g] = "moved"]
        /\ UNCHANGED <<doing, proc, signalled, checked, hit, madeUp>>
        /\ doing[h] = "idle" /\ doing[g] = "idle"
    BY <1>12 DEF MoveAssign, MoveChild, Usable, procVars
  <2>2. owner' \in [Pids -> Handles] /\ dropped' \subseteq Pids
    BY <1>1, <1>12 DEF MoveAssign
  <2>3. Waits'
    BY <1>1, <2>1 DEF Waits, IsChildRunning
  <2> QED
    BY <1>1, <2>1, <2>2, <2>3 DEF TypeOK, Ours
<1>13. ASSUME NEW h \in Handles, TerminateChild(h) PROVE TypeOK' /\ Waits'
  BY <1>7, <1>13 DEF TerminateChild
<1> QED
  BY <1>2, <1>3, <1>5, <1>6, <1>9, <1>10, <1>11, <1>12, <1>13 DEF Next

\* The state has its type.
THEOREM TypeCorrect == Spec => []TypeOK
<1>1. Init => TypeOK /\ Waits
  BY InitType
<1>2. (TypeOK /\ Waits) /\ [Next]_vars => (TypeOK /\ Waits)'
  BY TypeStep
<1> QED
  BY <1>1, <1>2, PTL DEF Spec

-----------------------------------------------------------------------------
(* Handles that never check the status: what they hold is their child.     *)

HandleNamesChild ==
  \A h \in Handles :
    life[h] = "live" /\ IsChildRunning(h) => Ours(child[h]) /\ owner[child[h]] = h

NoHarm == HandleNamesChild /\ hit = {} /\ madeUp = {}

Honest == checked = {} => NoHarm

LEMMA HonestStep ==
  ASSUME TypeOK, Waits, Honest, [Next]_vars
  PROVE  Honest'
<1> SUFFICES ASSUME checked' = {} PROVE NoHarm'
  BY DEF Honest
<1>0. NoHarm
  <2>1. checked \subseteq checked'
    BY DEF Next, vars, procVars, histVars, Stranger, Exit, SetExecutable, CheckChildStatus,
       WaitForChild, TerminateChild, Kill, Waited, WaitFails, Destroy, StartChild, MoveAssign
  <2> QED
    BY <2>1 DEF Honest
<1> USE <1>0, HandleAssumption DEF NoHarm
<1>1. /\ child \in [Handles -> Pids \union {NoPid}]
      /\ proc \in [Pids -> {"free", "running", "zombie", "stranger"}]
      /\ owner \in [Pids -> Handles]
      /\ \E S : life \in [Handles -> S]
  BY DEF TypeOK
<1>2. \A h \in Handles : life[h] = "live" /\ IsChildRunning(h) =>
        child[h] \in Pids /\ Ours(child[h]) /\ owner[child[h]] = h
  BY <1>1 DEF HandleNamesChild, IsChildRunning
<1>3. ASSUME UNCHANGED <<life, child, owner, hit, madeUp>>, \A p \in Pids : Ours(p) => Ours(p)'
      PROVE  NoHarm'
  BY <1>2, <1>3 DEF HandleNamesChild, IsChildRunning
<1>4. ASSUME NEW p \in Pids, Stranger(p) \/ Exit(p) PROVE NoHarm'
  <2>1. \A q \in Pids : Ours(q) => Ours(q)'
    BY <1>1, <1>4 DEF Stranger, Exit, Ours
  <2> QED
    BY <1>3, <1>4, <2>1 DEF Stranger, Exit, histVars
<1>5. ASSUME NEW h \in Handles, SetExecutable(h) \/ WaitForChild(h) PROVE NoHarm'
  BY <1>3, <1>5 DEF SetExecutable, WaitForChild, procVars, histVars, Ours
<1>6. ASSUME NEW h \in Handles, NEW p \in Pids, StartChild(h, p) PROVE NoHarm'
  <2>1. /\ proc' = [proc EXCEPT ![p] = "running"] /\ owner' = [owner EXCEPT ![p] = h]
        /\ child' = [child EXCEPT ![h] = p] /\ UNCHANGED <<life, hit, madeUp>>
        /\ ~Ours(p)
    BY <1>6 DEF StartChild, Ours
  <2>2. \A g \in Handles \ {h} : life[g] = "live" /\ IsChildRunning(g) => child[g] # p
    BY <1>2, <2>1
  <2> QED
    BY <1>1, <1>2, <2>1, <2>2 DEF HandleNamesChild, IsChildRunning, Ours
<1>7. ASSUME NEW h \in Handles, NEW call, Usable(h), Kill(h, call) PROVE NoHarm'
  <2>1. /\ UNCHANGED <<life, child, proc, owner, madeUp>> /\ IsChildRunning(h)
        /\ (Ours(child[h]) /\ owner[child[h]] = h) => hit' = hit
    BY <1>7 DEF Kill
  <2>2. life[h] = "live" /\ Ours(child[h]) /\ owner[child[h]] = h
    BY <1>2, <1>7, <2>1 DEF Usable
  <2>3. hit' = {}
    BY <2>1, <2>2
  <2> QED
    BY <1>2, <2>1, <2>3 DEF HandleNamesChild, IsChildRunning, Ours
<1>8. ASSUME NEW h \in Handles, Waited(h) PROVE NoHarm'
  <2> DEFINE p == child[h]
  <2>1. life[h] = "live" /\ IsChildRunning(h)
    BY <1>8 DEF Waited, Waits
  <2>2. p \in Pids /\ owner[p] = h
    BY <1>2, <2>1
  <2>3. /\ proc' = [proc EXCEPT ![p] = "free"] /\ child' = [child EXCEPT ![h] = NoPid]
        /\ UNCHANGED <<owner, hit, madeUp>>
        /\ life' = life \/ life' = [life EXCEPT ![h] = "gone"]
    BY <1>8 DEF Waited, Reap, Reset, Ends, histVars
  <2>4. \A g \in Handles \ {h} : life[g] = "live" /\ IsChildRunning(g) => child[g] # p
    BY <1>2, <2>2
  <2> HIDE DEF p
  <2>5. \A g \in Handles \ {h} : child'[g] = child[g] /\ life'[g] = life[g]
    BY <1>1, <2>3
  <2>6. \A q \in Pids \ {p} : proc'[q] = proc[q]
    BY <1>1, <2>3
  <2>7. child'[h] = NoPid
    BY <1>1, <2>3
  <2> QED
    BY <1>2, <2>3, <2>4, <2>5, <2>6, <2>7 DEF HandleNamesChild, IsChildRunning, Ours
<1>9. ASSUME NEW h \in Handles, WaitFails(h) PROVE FALSE
  <2>1. life[h] = "live" /\ IsChildRunning(h) /\ ~Ours(child[h])
    BY <1>9 DEF WaitFails, Waits
  <2> QED
    BY <1>2, <2>1
<1>10. ASSUME NEW h \in Handles, Destroy(h) PROVE NoHarm'
  <2>1. CASE Kill(h, "destroy")
    BY <1>7, <1>10, <2>1 DEF Destroy
  <2>2. CASE /\ life' = [life EXCEPT ![h] = "gone"]
             /\ UNCHANGED <<path, child, doing, procVars, histVars>>
    BY <1>1, <1>2, <2>2 DEF HandleNamesChild, IsChildRunning, Ours, procVars, histVars
  <2> QED
    BY <1>10, <2>1, <2>2 DEF Destroy
<1>11. ASSUME NEW h \in Handles, NEW g \in Handles, MoveAssign(h, g) PROVE NoHarm'
  <2>1. /\ h # g /\ life[h] = "live" /\ life[g] = "live"
        /\ child' = [child EXCEPT ![h] = child[g], ![g] = NoPid]
        /\ life' = [life EXCEPT ![g] = "moved"]
        /\ owner' = [p \in Pids |-> IF child[g] = p /\ owner[p] = g THEN h ELSE owner[p]]
        /\ UNCHANGED <<proc, hit, madeUp>>
    BY <1>11 DEF MoveAssign, MoveChild, Usable, procVars
  <2>2. child'[h] = child[g] /\ child'[g] = NoPid
    BY <1>1, <2>1
  <2>3. \A k \in Handles \ {h, g} : child'[k] = child[k] /\ life'[k] = life[k]
    BY <1>1, <2>1
  <2>4. \A k \in Handles \ {h, g} :
          life'[k] = "live" /\ child'[k] # NoPid => Ours(child[k]) /\ owner'[child[k]] = k
    BY <1>1, <1>2, <2>1, <2>3 DEF IsChildRunning
  <2>5. child'[h] # NoPid => Ours(child[g]) /\ owner'[child[g]] = h
    BY <1>1, <1>2, <2>1, <2>2 DEF IsChildRunning
  <2>6. life'[g] # "live"
    BY <1>1, <2>1
  <2>7. \A k \in Handles : life'[k] = "live" /\ child'[k] # NoPid =>
          proc'[child'[k]] \in {"running", "zombie"} /\ owner'[child'[k]] = k
    BY <2>1, <2>2, <2>3, <2>4, <2>5, <2>6, ZenonT(60) DEF Ours
  <2>8. hit' = {} /\ madeUp' = {}
    BY <2>1
  <2> QED
    BY <2>7, <2>8 DEF HandleNamesChild, IsChildRunning, Ours
<1>12. ASSUME NEW h \in Handles, TerminateChild(h) PROVE NoHarm'
  BY <1>7, <1>12 DEF TerminateChild
<1>13. CASE UNCHANGED vars
  BY <1>3, <1>13 DEF vars, procVars, histVars, Ours
<1>14. \A h \in Handles : ~CheckChildStatus(h)
  BY DEF CheckChildStatus
<1> QED
  BY <1>4, <1>5, <1>6, <1>8, <1>9, <1>10, <1>11, <1>12, <1>13, <1>14 DEF Next

\* Until checkChildStatus() waits for a child (the plugin does not call it),
\* every number a live handle holds is that of its own child.
THEOREM NamesCorrect == Spec => []Honest
<1>1. Init => TypeOK /\ Waits
  BY InitType
<1>2. Init => Honest
  BY DEF Init, Honest, NoHarm, HandleNamesChild, IsChildRunning
<1>3. (TypeOK /\ Waits) /\ [Next]_vars => (TypeOK /\ Waits)'
  BY TypeStep
<1>4. (TypeOK /\ Waits) /\ Honest /\ [Next]_vars => Honest'
  BY HonestStep
<1> QED
  BY <1>1, <1>2, <1>3, <1>4, PTL DEF Spec

\* ... so no call signals a process of somebody else, and no status is made up.
THEOREM OwnChildCorrect == Spec => []ActsOnOwnChild
<1>1. Honest => ActsOnOwnChild
  BY DEF Honest, NoHarm, ActsOnOwnChild
<1> QED
  BY <1>1, NamesCorrect, PTL

-----------------------------------------------------------------------------
(* No child is out of reach, but those a move assignment let go.           *)

LEMMA HeldStep ==
  ASSUME TypeOK, Waits, ChildrenHeld, [Next]_vars
  PROVE  ChildrenHeld'
<1> USE HandleAssumption
<1>1. /\ child \in [Handles -> Pids \union {NoPid}]
      /\ proc \in [Pids -> {"free", "running", "zombie", "stranger"}]
      /\ owner \in [Pids -> Handles]
      /\ \E S : life \in [Handles -> S]
  BY DEF TypeOK
<1>2. ASSUME UNCHANGED <<life, child, owner, dropped>>, \A p \in Pids : Ours(p)' => Ours(p)
      PROVE  ChildrenHeld'
  BY <1>2 DEF ChildrenHeld, Ours
<1>3. ASSUME NEW p \in Pids, Stranger(p) \/ Exit(p) PROVE ChildrenHeld'
  <2>1. \A q \in Pids : Ours(q)' => Ours(q)
    BY <1>1, <1>3 DEF Stranger, Exit, Ours
  <2> QED
    BY <1>2, <1>3, <2>1 DEF Stranger, Exit, histVars
<1>4. ASSUME NEW p, Reap(p) PROVE \A q \in Pids : Ours(q)' => Ours(q) /\ q # p
  BY <1>1, <1>4 DEF Reap, Ours
<1>5. ASSUME NEW h \in Handles,
             SetExecutable(h) \/ WaitForChild(h) \/ TerminateChild(h) \/ CheckChildStatus(h)
      PROVE  ChildrenHeld'
  <2>1. UNCHANGED <<life, child, owner, dropped>>
    BY <1>5 DEF SetExecutable, WaitForChild, TerminateChild, Kill, CheckChildStatus, histVars
  <2>2. \A q \in Pids : Ours(q)' => Ours(q)
    BY <1>4, <1>5 DEF SetExecutable, WaitForChild, TerminateChild, Kill, CheckChildStatus,
       procVars, Ours
  <2> QED
    BY <1>2, <2>1, <2>2
<1>6. ASSUME NEW h \in Handles, NEW p \in Pids, StartChild(h, p) PROVE ChildrenHeld'
  <2>1. /\ proc' = [proc EXCEPT ![p] = "running"] /\ owner' = [owner EXCEPT ![p] = h]
        /\ child' = [child EXCEPT ![h] = p] /\ life' = life
        /\ life[h] = "live" /\ child[h] = NoPid /\ dropped' = dropped \ {p}
    BY <1>6 DEF StartChild, Usable, IsValid, IsChildRunning
  <2>2. \A q \in Pids \ dropped : Ours(q) => owner[q] # h
    BY <1>1, <2>1 DEF ChildrenHeld
  <2> QED
    BY <1>1, <2>1, <2>2 DEF ChildrenHeld, Ours
<1>7. ASSUME NEW h \in Handles, owner' = owner, dropped' = dropped, Ends(h),
             child' = Reset(h) \/ child' = child,
             \A q \in Pids : Ours(q)' => Ours(q) /\ q # child[h]
      PROVE  ChildrenHeld'
  <2>1. \A q \in Pids \ dropped : Ours(q)' => owner[q] # h /\ life[owner[q]] = "live" /\ child[owner[q]] = q
    BY <1>7 DEF ChildrenHeld
  <2>2. \A g \in Handles \ {h} : child'[g] = child[g] /\ life'[g] = life[g]
    BY <1>1, <1>7 DEF Ends, Reset
  <2> QED
    BY <1>1, <1>7, <2>1, <2>2 DEF ChildrenHeld, Ours
<1>8. ASSUME NEW h \in Handles, Waited(h) PROVE ChildrenHeld'
  BY <1>4, <1>7, <1>8 DEF Waited, histVars
<1>9. ASSUME NEW h \in Handles, WaitFails(h) PROVE ChildrenHeld'
  <2>1. proc' = proc /\ ~Ours(child[h])
    BY <1>9 DEF WaitFails, procVars
  <2>2. \A q \in Pids : Ours(q)' => Ours(q) /\ q # child[h]
    BY <2>1 DEF Ours
  <2> QED
    BY <1>7, <1>9, <2>2 DEF WaitFails
<1>10. ASSUME NEW h \in Handles, Destroy(h) PROVE ChildrenHeld'
  <2>1. CASE Kill(h, "destroy")
    BY <1>2, <2>1 DEF Kill, Ours
  <2>2. CASE /\ Forsaken(h) /\ life' = [life EXCEPT ![h] = "gone"]
             /\ UNCHANGED <<path, child, doing, procVars, histVars>>
    <3>1. \A q \in Pids \ dropped : Ours(q) => owner[q] # h
      BY <1>1, <2>2 DEF Forsaken, KillFails, IsChildRunning, ChildrenHeld, Ours
    <3> QED
      BY <1>1, <2>2, <3>1 DEF ChildrenHeld, Ours, procVars, histVars
  <2> QED
    BY <1>10, <2>1, <2>2 DEF Destroy
<1>11. CASE UNCHANGED vars
  BY <1>2, <1>11 DEF vars, procVars, histVars, Ours
<1>12. ASSUME NEW h \in Handles, NEW g \in Handles, MoveAssign(h, g) PROVE ChildrenHeld'
  <2>1. /\ h # g /\ life[h] = "live" /\ life[g] = "live" /\ proc' = proc
        /\ child' = [child EXCEPT ![h] = child[g], ![g] = NoPid]
        /\ life' = [life EXCEPT ![g] = "moved"]
        /\ owner' = [p \in Pids |-> IF child[g] = p /\ owner[p] = g THEN h ELSE owner[p]]
        /\ dropped' = dropped \union {p \in Pids : child[h] = p /\ owner[p] = h}
    BY <1>12 DEF MoveAssign, MoveChild, Usable, procVars
  <2>2. \A k \in Handles \ {h, g} : child'[k] = child[k] /\ life'[k] = life[k]
    BY <1>1, <2>1
  <2>3. child'[h] = child[g] /\ life'[h] = "live"
    BY <1>1, <2>1
  <2>4. ASSUME NEW q \in Pids, q \notin dropped', Ours(q)
        PROVE  life'[owner'[q]] = "live" /\ child'[owner'[q]] = q
    <3>1. life[owner[q]] = "live" /\ child[owner[q]] = q /\ owner[q] # h /\ owner[q] \in Handles
      BY <1>1, <2>1, <2>4 DEF ChildrenHeld
    <3>2. CASE owner[q] = g
      BY <2>1, <2>3, <3>1, <3>2
    <3>3. CASE owner[q] # g
      BY <2>1, <2>2, <3>1, <3>3
    <3> QED
      BY <3>2, <3>3
  <2> QED
    BY <2>1, <2>4 DEF ChildrenHeld, Ours
<1> QED
  BY <1>3, <1>5, <1>6, <1>8, <1>9, <1>10, <1>11, <1>12 DEF Next

\* No child outlives its handle and none stays a zombie nobody can wait for,
\* but those of a handle that was assigned another one.
THEOREM HeldCorrect == Spec => []ChildrenHeld
<1>1. Init => TypeOK /\ Waits
  BY InitType
<1>2. Init => ChildrenHeld
  BY DEF Init, ChildrenHeld, Ours
<1>3. (TypeOK /\ Waits) /\ [Next]_vars => (TypeOK /\ Waits)'
  BY TypeStep
<1>4. (TypeOK /\ Waits) /\ ChildrenHeld /\ [Next]_vars => ChildrenHeld'
  BY HeldStep
<1> QED
  BY <1>1, <1>2, <1>3, <1>4, PTL DEF Spec
=============================================================================
