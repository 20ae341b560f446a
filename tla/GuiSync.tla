------------------------------ MODULE GuiSync ------------------------------
(***************************************************************************)
(* The GUI handshake of plugin/coreplugin.cpp: the host's main thread      *)
(* starts the GUI process, sends it requests through the main queue and    *)
(* the event stream, and waits up to 10 s for the answer, which comes back *)
(* as a unary call that completion queue 1 puts into the blocking queue.   *)
(*                                                                         *)
(* The host follows CLAP: its GUI calls come one at a time, and show,      *)
(* hide, set_transient and destroy only after a create that succeeded.     *)
(* The GUI answers the requests it reads one by one.  Requests carry a     *)
(* number the code does not have: it only compares events.                 *)
(***************************************************************************)
EXTENDS Naturals, Sequences, SequencesExt

CONSTANTS MaxRequests, \* bound: requests the host's calls issue
          MaxTimeouts, \* bound: waits that time out
          MayDie       \* whether the GUI process may end by itself

ASSUME GuiAssumption ==
  /\ MaxRequests \in Nat /\ MaxTimeouts \in Nat
  /\ MayDie \in BOOLEAN

WindowEvents == {"GuiSetTransient", "GuiShow", "GuiHide"}
GuiEvents == WindowEvents \union {"GuiCreate", "GuiDestroy"}
Requests == [ev : GuiEvents, n : 1 .. MaxRequests]
SlotCap == 1

VARIABLES main,      \* the main thread: where it is and the event it asks for
          asked,     \* number of requests issued
          created,   \* the host's view: its last guiCreate() succeeded
          guiProc,   \* null or held: dPtr->guiProc
          child,     \* the process: none, starting, connected or gone
          zombies,   \* streams of GUIs that are gone, still in `streams`
          polling,   \* pollRunning
          toClient,  \* requests on their way to the GUI
          calls,     \* answers that completion queue 1 has not handled
          slot,      \* mBlockingClientEventQueue
          timeouts,  \* number of waits that timed out
          verified   \* <<request, answer>> of every successful verification

guiVars == <<created, guiProc, child, zombies, polling>>
wireVars == <<toClient, calls, slot>>
histVars == <<asked, timeouts, verified>>
vars == <<main, guiVars, wireVars, histVars>>

At(place, e) == [at |-> place, ev |-> e]
Idle == At("idle", "GuiCreate")
InCall == main.at # "idle"

\* isValid(): some stream is connected, be it that of a GUI that is gone.
Valid == child = "connected" \/ zombies > 0

-----------------------------------------------------------------------------
(* Seeded faults: plausible slips in the definitions below.                *)

AnySlot == Len(slot) <= SlotCap
AnswerTwice(r) == calls \o <<r, r>>
AnswerFirst(r) == <<r>> \o calls
NoTimer == FALSE

-----------------------------------------------------------------------------
Init ==
  /\ main = Idle
  /\ created = FALSE /\ guiProc = "null" /\ child = "none"
  /\ zombies = 0 /\ polling = FALSE
  /\ toClient = <<>> /\ calls = <<>> /\ slot = <<>>
  /\ asked = 0 /\ timeouts = 0 /\ verified = {}

\* terminateChild(), in guiCreate() or by ~ProcessHandle(): the stream of the
\* process stays connected until the completion queue notices.
Terminate ==
  IF child \in {"starting", "connected"}
    THEN /\ child' = "gone"
         /\ zombies' = IF child = "connected" THEN zombies + 1 ELSE zombies
    ELSE UNCHANGED <<child, zombies>>

-----------------------------------------------------------------------------
(* The main thread.                                                        *)

\* guiCreate() when guiProc is null: either the executable cannot be started
\* or the main thread goes on to wait for the polling.  With guiProc held, or
\* without a server, the call returns false and changes nothing.
GuiCreate ==
  /\ ~InCall /\ ~created /\ guiProc = "null" /\ asked < MaxRequests
  /\ guiProc' = "held"
  /\ \/ main' = Idle /\ child' = "none"
     \/ main' = At("poll", "GuiCreate") /\ child' = "starting"
  /\ UNCHANGED <<created, zombies, polling, wireVars, histVars>>

WaitPolling ==
  /\ main.at = "poll" /\ polling
  /\ main' = At("push", main.ev)
  /\ UNCHANGED <<guiVars, wireVars, histVars>>

\* guiSetTransient(), guiShow(), guiHide(), guiDestroy().
Ask(e) ==
  /\ ~InCall /\ created /\ asked < MaxRequests
  /\ e # "GuiCreate"
  /\ main' = At("push", e)
  /\ UNCHANGED <<guiVars, wireVars, histVars>>

\* pushToMainQueueBlocking(): spin until isValid(), then push.
CheckValid ==
  /\ main.at = "push" /\ Valid
  /\ main' = At("valid", main.ev)
  /\ UNCHANGED <<guiVars, wireVars, histVars>>

PushRequest ==
  /\ main.at = "valid"
  /\ asked' = asked + 1
  /\ toClient' = Append(toClient, [ev |-> main.ev, n |-> asked + 1])
  /\ main' = At("wait", main.ev)
  /\ UNCHANGED <<guiVars, calls, slot, timeouts, verified>>

\* What each call does with the outcome of blockingVerifyEvent().
Return(ok) ==
  \/ /\ main.ev = "GuiCreate" /\ ok
     /\ main' = At("aux", main.ev) /\ UNCHANGED guiVars
  \/ /\ main.ev = "GuiCreate" /\ ~ok
     /\ main' = Idle /\ Terminate /\ UNCHANGED <<created, guiProc, polling>>
  \/ /\ main.ev = "GuiDestroy"
     /\ main' = Idle /\ created' = FALSE /\ guiProc' = "null"
     /\ Terminate /\ UNCHANGED polling
  \/ /\ main.ev \in WindowEvents
     /\ main' = Idle /\ UNCHANGED guiVars

\* blockingVerifyEvent() takes whatever is in the slot and compares events.
Verify ==
  /\ main.at = "wait" /\ slot # <<>>
  /\ LET ok == slot[1].ev = main.ev
     IN  /\ Return(ok)
         /\ verified' = IF ok THEN verified \union {<<[ev |-> main.ev, n |-> asked], slot[1]>>}
                              ELSE verified
  /\ slot' = <<>>
  /\ UNCHANGED <<toClient, calls, asked, timeouts>>

Expired == slot = <<>>

VerifyTimeout ==
  /\ main.at = "wait" /\ Expired
  /\ timeouts < MaxTimeouts
  /\ timeouts' = timeouts + 1
  /\ Return(FALSE)
  /\ UNCHANGED <<wireVars, asked, verified>>

\* enqueueAuxiliaries(): the parameters' descriptions; each waits for isValid()
\* and none is answered.
Auxiliaries ==
  /\ main.at = "aux" /\ Valid
  /\ main' = Idle /\ created' = TRUE
  /\ UNCHANGED <<guiProc, child, zombies, polling, wireVars, histVars>>

MainThread ==
  WaitPolling \/ CheckValid \/ PushRequest \/ Verify \/ VerifyTimeout \/ Auxiliaries

-----------------------------------------------------------------------------
(* The GUI process.                                                        *)

\* The stream is added before tryStartPolling().
Connect ==
  /\ child = "starting"
  /\ child' = "connected" /\ polling' = TRUE
  /\ UNCHANGED <<main, created, guiProc, zombies, wireVars, histVars>>

Answered(r) == Append(calls, r)

Answer ==
  /\ child = "connected" /\ toClient # <<>>
  /\ toClient' = Tail(toClient)
  /\ calls' = Answered(Head(toClient))
  /\ UNCHANGED <<main, guiVars, slot, histVars>>

Die ==
  /\ MayDie /\ child \in {"starting", "connected"}
  /\ Terminate
  /\ UNCHANGED <<main, created, guiProc, polling, wireVars, histVars>>

-----------------------------------------------------------------------------
(* The completion queues.                                                  *)

\* A request written to nobody but the stream of a GUI that is gone.
Lost ==
  /\ child # "connected" /\ zombies > 0 /\ polling /\ toClient # <<>>
  /\ toClient' = Tail(toClient)
  /\ UNCHANGED <<main, guiVars, calls, slot, histVars>>

StreamRemoved ==
  /\ zombies > 0
  /\ zombies' = zombies - 1
  /\ UNCHANGED <<main, created, guiProc, child, polling, wireVars, histVars>>

\* pollCallback() without streams: the loop ends and drains the queues.
PollingEnds ==
  /\ polling /\ ~Valid
  /\ polling' = FALSE /\ toClient' = <<>>
  /\ UNCHANGED <<main, created, guiProc, child, zombies, calls, slot, histVars>>

SlotFree == Len(slot) < SlotCap

\* handleEvent() on completion queue 1, one call at a time.
PushAnswer ==
  /\ calls # <<>> /\ SlotFree
  /\ slot' = Append(slot, Head(calls))
  /\ calls' = Tail(calls)
  /\ UNCHANGED <<main, guiVars, toClient, histVars>>

\* blockingPushClientEvent() gives up after 10 s: the answer is dropped.
DropAnswer ==
  /\ calls # <<>> /\ ~SlotFree
  /\ calls' = Tail(calls)
  /\ UNCHANGED <<main, guiVars, toClient, slot, histVars>>

Server == Lost \/ StreamRemoved \/ PollingEnds \/ PushAnswer \/ DropAnswer

Next ==
  \/ GuiCreate \/ MainThread
  \/ \E e \in GuiEvents : Ask(e)
  \/ Connect \/ Answer \/ Die
  \/ Server

Spec == Init /\ [][Next]_vars

\* The main thread runs, its timer too, and a GUI that was started connects.
\* That it answers, or that the stream of one that is gone is removed, is not
\* assumed.
FairSpec ==
  /\ Spec
  /\ WF_vars(MainThread) /\ WF_vars(Connect)

-----------------------------------------------------------------------------
(* Correctness.                                                            *)

MainType ==
  /\ main \in [at : {"idle", "poll", "push", "valid", "wait", "aux"}, ev : GuiEvents]
  /\ main.at \in {"poll", "push", "valid"} => asked < MaxRequests
  /\ main.at = "wait" => asked > 0
  /\ created \in BOOLEAN /\ guiProc \in {"null", "held"}

WireType ==
  /\ toClient \in Seq(Requests) /\ calls \in Seq(Requests) /\ slot \in Seq(Requests)
  /\ Len(slot) <= SlotCap

\* The blocking queue holds one answer at most.
TypeOK ==
  /\ MainType /\ WireType
  /\ child \in {"none", "starting", "connected", "gone"}
  /\ zombies \in Nat /\ polling \in BOOLEAN
  /\ asked \in 0 .. MaxRequests /\ timeouts \in 0 .. MaxTimeouts
  /\ verified \in SUBSET (Requests \X Requests)

Outstanding == Len(toClient) + Len(calls) + Len(slot)

\* An answer read belongs to the request the main thread waits for or to an
\* earlier one, and no answer is read twice or after a later one's, whatever
\* times out, is dropped or dies.
AnswersInOrder ==
  LET q == slot \o calls \o toClient
  IN  /\ \A i, j \in DOMAIN q : i < j => q[i].n < q[j].n
      /\ \A i \in DOMAIN q : q[i].n <= asked
      /\ \A i \in DOMAIN q : \A v \in verified : v[2].n < q[i].n

\* A GUI call returns true on an answer to an event of its kind that is no
\* more requests old than waits timed out: on its own, if none did.
AnswersRecent ==
  \A v \in verified : v[1].ev = v[2].ev /\ v[1].n - v[2].n \in 0 .. timeouts

\* The comment on blockingPushClientEvent(): the previous event has to be
\* consumed.  When the main thread asks, no earlier answer is still under way.
PreviousConsumed == main.at \in {"push", "valid"} => Outstanding = 0

Wire == INSTANCE Handshake WITH
          Events <- GuiEvents, accepted <- verified, wire <- slot \o calls \o toClient,
          open <- IF main.at = "wait" THEN {[ev |-> main.ev, n |-> asked]} ELSE {}

\* Queues, streams, completion queues and the slot together are one wire that
\* loses but never alters, repeats or reorders, through every death and restart.
IsHandshake == Wire!HandshakeSpec

\* Every GUI call returns, whether the GUI answers or not, unless its process
\* has ended.
EveryCallReturns == InCall ~> ~InCall \/ child = "gone"
=============================================================================
