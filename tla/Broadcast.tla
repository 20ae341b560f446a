----------------------------- MODULE Broadcast -----------------------------
(***************************************************************************)
(* What a plugin's SharedData (src/server/shareddata.cpp) promises about   *)
(* the events of its audio and main threads: each source is a channel that *)
(* keeps its order and says the same to all the clients that are connected *)
(* when it says it.  Events may be lost on the way, when a queue is full   *)
(* or when polling ends, but are neither invented, repeated nor reordered. *)
(***************************************************************************)
EXTENDS Naturals, Sequences, SequencesExt

CONSTANTS Plugins, Streams, Sources

VARIABLES published,  \* plugin -> source -> number of events published
          buffer,     \* plugin -> source -> events still to be sent, in order
          members,    \* plugin -> the clients connected to it
          received    \* client -> source -> events received, in order

broadcastVars == <<published, buffer, members, received>>

Event(src, n) == [src |-> src, n |-> n]

BroadcastInit ==
  /\ published = [p \in Plugins |-> [src \in Sources |-> 0]]
  /\ buffer = [p \in Plugins |-> [src \in Sources |-> <<>>]]
  /\ members = [p \in Plugins |-> {}]
  /\ received = [s \in Streams |-> [src \in Sources |-> <<>>]]

\* A full channel refuses the new event or loses one that it holds.
Publish(p, src) ==
  LET n == published[p][src] + 1
      q == buffer[p][src]
  IN  /\ published' = [published EXCEPT ![p][src] = n]
      /\ \E kept \in {q} \union {RemoveAt(q, i) : i \in DOMAIN q} :
           buffer' \in {buffer, [buffer EXCEPT ![p][src] = Append(kept, Event(src, n))]}
      /\ UNCHANGED <<members, received>>

\* The oldest events of every source, as many as are sent, to all clients.
Send(p) ==
  \E upto \in [Sources -> UNION {0 .. Len(buffer[p][src]) : src \in Sources}] :
    /\ \A src \in Sources : upto[src] <= Len(buffer[p][src])
    /\ buffer' = [buffer EXCEPT ![p] =
                    [src \in Sources |-> SubSeq(@[src], upto[src] + 1, Len(@[src]))]]
    /\ received' = [s \in Streams |->
                      IF s \in members[p]
                        THEN [src \in Sources |->
                                received[s][src] \o SubSeq(buffer[p][src], 1, upto[src])]
                        ELSE received[s]]
    /\ UNCHANGED <<published, members>>

\* When polling ends, what has not been taken for sending is discarded.
Discard(p, src) ==
  /\ \E kept \in 0 .. Len(buffer[p][src]) :
       buffer' = [buffer EXCEPT ![p][src] = SubSeq(@, 1, kept)]
  /\ UNCHANGED <<published, members, received>>

Join(s, p) ==
  /\ \A q \in Plugins : s \notin members[q]
  /\ \A src \in Sources : received[s][src] = <<>>
  /\ members' = [members EXCEPT ![p] = @ \union {s}]
  /\ UNCHANGED <<published, buffer, received>>

Leave(p) ==
  /\ \E staying \in SUBSET members[p] : members' = [members EXCEPT ![p] = staying]
  /\ UNCHANGED <<published, buffer, received>>

BroadcastNext ==
  \E p \in Plugins :
    \/ \E src \in Sources : Publish(p, src) \/ Discard(p, src)
    \/ Send(p) \/ Leave(p) \/ \E s \in Streams : Join(s, p)

BroadcastSpec == BroadcastInit /\ [][BroadcastNext]_broadcastVars
=============================================================================
