----------------------------- MODULE CorePlugin -----------------------------
(***************************************************************************)
(* What one thread of plugin/coreplugin.cpp computes: the numbering of the *)
(* modules' parameters and the tables they are found in, the handling of   *)
(* one host event, and the walk of process() over a block's events and     *)
(* frames.  Functions of their inputs, compared with what they are for on  *)
(* all small inputs.                                                       *)
(***************************************************************************)
EXTENDS Naturals, Sequences, SequencesExt

CONSTANTS ParamOffset, \* Module::ParamOffset (1024)
          IdCount,     \* number of a clap_id's values (2^32)
          Modules, Locals, \* bounds: module numbers, and parameter numbers in one
          MaxAdded,    \* bound: calls of addParameter()
          MaxHostEvents, MaxFrames \* bounds: events and frames of a block

ASSUME PluginAssumption ==
  /\ ParamOffset \in Nat \ {0} /\ IdCount \in Nat \ {0}
  /\ Modules \subseteq Nat /\ Locals \subseteq Nat
  /\ MaxAdded \in Nat /\ MaxHostEvents \in Nat /\ MaxFrames \in Nat

Null == 0

-----------------------------------------------------------------------------
(* Seeded faults: plausible slips in the definitions below.                *)

OneEventPerFrame(evs, i, frame) ==
  IF i < Len(evs) /\ evs[i + 1] = frame THEN 1 ELSE 0
KeepThrown(reg, id, ptr) == Append(reg.params, ptr)
CookieOnly(reg, ev) == ev.cookie

-----------------------------------------------------------------------------
(* Adding parameters.  A Parameter is named by the number of its creation. *)

ParamId(moduleId, id) == (moduleId * ParamOffset + id) % IdCount

NoParameters == [ids |-> <<>>, index |-> <<>>, params |-> <<>>, hashed |-> <<>>]

\* An id that exists throws, and the exception destroys the new parameter.
Stored(reg, id, ptr) ==
  IF id \in DOMAIN reg.hashed THEN reg.params ELSE Append(reg.params, ptr)

\* insert_or_assign() comes before the test.
AddParameter(reg, id) ==
  LET ptr == Len(reg.ids) + 1
  IN  [ids    |-> Append(reg.ids, id),
       index  |-> Append(reg.index, Len(reg.params)),
       hashed |-> [k \in DOMAIN reg.hashed \union {id} |->
                     IF k = id THEN ptr ELSE reg.hashed[k]],
       params |-> Stored(reg, id, ptr)]

\* The registry after each of the calls.
Adding(ids) ==
  LET reg[n \in 0 .. Len(ids)] ==
        IF n = 0 THEN NoParameters ELSE AddParameter(reg[n - 1], ids[n])
  IN  reg

Registry(ids) == Adding(ids)[Len(ids)]

GetParameterById(reg, id) == IF id \in DOMAIN reg.hashed THEN reg.hashed[id] ELSE Null
GetParameterByIndex(reg, i) == IF i >= Len(reg.params) THEN Null ELSE reg.params[i + 1]

-----------------------------------------------------------------------------
(* processEvent(): what an event does, and to which parameter.             *)

ParamEvents == {"value", "modulation"}
NoteEvents == {"on", "off", "choke", "end", "expression"}

Target(reg, ev) == IF ev.cookie # Null THEN ev.cookie ELSE GetParameterById(reg, ev.id)
Mismatched(reg, ev) == Target(reg, ev) # Null /\ reg.ids[Target(reg, ev)] # ev.id

\* Both parameter events and all notes go on to the clients; what is not in
\* the core event space, MIDI and the rest go nowhere.
ProcessEvent(reg, ev) ==
  LET Does(what, p) == [does |-> what, param |-> p]
  IN  IF ev.core /\ ev.type \in ParamEvents /\ Target(reg, ev) # Null
        THEN IF Mismatched(reg, ev) THEN Does("terminate", Null)
             ELSE Does(ev.type, Target(reg, ev))
      ELSE IF ev.core /\ ev.type \in NoteEvents THEN Does("note", Null)
      ELSE Does("nothing", Null)

-----------------------------------------------------------------------------
(* process(): evs are the times of the events, which the host should sort. *)

\* How many events after the first i are handled at this frame.
RunLength(evs, i, frame) ==
  CHOOSE n \in 0 .. Len(evs) - i :
    /\ \A k \in 1 .. n : evs[i + k] = frame
    /\ i + n < Len(evs) => evs[i + n + 1] # frame

\* The number of events handled when the module has processed so many frames.
HandledBefore(evs, frames) ==
  LET handled[f \in 0 .. frames] ==
        IF f = 0 THEN 0
        ELSE handled[f - 1] + RunLength(evs, handled[f - 1], f - 1)
  IN  handled

-----------------------------------------------------------------------------
(* Correctness.                                                            *)

Calls(ids, id) == {k \in DOMAIN ids : ids[k] = id}
Once(ids, id) == \E k \in DOMAIN ids : Calls(ids, id) = {k}

\* The parameters that live have distinct ids and sit at their index.
LivePlaced(ids) ==
  LET reg == Registry(ids)
      live == reg.params
  IN  /\ \A i, j \in DOMAIN live : ids[live[i]] = ids[live[j]] => i = j
      /\ \A i \in DOMAIN live :
           reg.index[live[i]] = i - 1 /\ GetParameterByIndex(reg, i - 1) = live[i]

\* The table finds a parameter by its id if it was added once; an id that was
\* added again leads to the parameter which the exception has destroyed.
IdLeads(ids, id) ==
  LET reg == Registry(ids)
      p == GetParameterById(reg, id)
  IN  /\ p = Null <=> Calls(ids, id) = {}
      /\ p # Null => ids[p] = id /\ (p \in ToSet(reg.params) <=> Once(ids, id))

SmallIds == {ParamId(m, l) : m \in Modules, l \in Locals}

LookupExact ==
  \A ids \in BoundedSeq(SmallIds, MaxAdded) :
    LivePlaced(ids) /\ \A id \in SmallIds : IdLeads(ids, id)

\* Modules never share an id while each numbers its parameters below
\* ParamOffset and no id wraps.
Separate(m, l) == l < ParamOffset /\ m * ParamOffset + l < IdCount

IdsApart(m, k, n, l) ==
  Separate(m, k) /\ Separate(n, l) /\ ParamId(m, k) = ParamId(n, l) => m = n /\ k = l

\* An event with the cookie that paramsInfo() hands out, or with none and the
\* id of a parameter added once, changes that parameter; the plugin is only
\* terminated for a cookie that contradicts the id.
EventFinds(ids) ==
  LET reg == Registry(ids)
      live == ToSet(reg.params)
  IN  \A p \in live, c \in live \union {Null}, type \in ParamEvents :
        LET out == ProcessEvent(reg, [core |-> TRUE, type |-> type,
                                      cookie |-> c, id |-> ids[p]])
        IN  /\ c = p \/ (c = Null /\ Once(ids, ids[p])) =>
                 out = [does |-> type, param |-> p]
            /\ out.does = "terminate" <=> c \notin {p, Null}

EventFindsParameter ==
  /\ \A m, n \in Modules, k, l \in Locals : IdsApart(m, k, n, l)
  /\ \A ids \in BoundedSeq(SmallIds, MaxAdded - 1) : EventFinds(ids)

\* The events handled in the first f frames are those at these frames, in the
\* host's order, as far as the host sorted them: the first that is in the past
\* of the one before it blocks all later ones.
Sorted(evs, n) == \A k \in 2 .. n : evs[k - 1] <= evs[k]

HandledAt(evs, f, n) ==
  /\ Sorted(evs, n) /\ \A k \in 1 .. n : evs[k] < f
  /\ n < Len(evs) => evs[n + 1] >= f \/ ~Sorted(evs, n + 1)

FramesExact ==
  \A evs \in BoundedSeq(0 .. MaxFrames, MaxHostEvents), frames \in 0 .. MaxFrames :
    \A f \in 0 .. frames : HandledAt(evs, f, HandledBefore(evs, frames)[f])
=============================================================================
