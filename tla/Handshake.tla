----------------------------- MODULE Handshake -----------------------------
(***************************************************************************)
(* What the GUI calls of plugin/coreplugin.cpp may rely on when they wait  *)
(* for an answer: requests are asked one at a time and the wire hands back *)
(* the answers to them, unaltered, each once and in order, or not at all.  *)
(* A call that gives up leaves its request on the wire, and a call takes   *)
(* whichever answer comes first, as blockingVerifyEvent() does.            *)
(***************************************************************************)
EXTENDS Naturals, Sequences

CONSTANT Events     \* what can be asked for

VARIABLES asked,    \* number of requests
          open,     \* the request a call waits for, if any
          wire,     \* requests that were neither lost nor read, oldest first
          accepted  \* <<request, answer>> of every call that returned true

handshakeVars == <<asked, open, wire, accepted>>

HandshakeInit == asked = 0 /\ open = {} /\ wire = <<>> /\ accepted = {}

Request(e) ==
  LET r == [ev |-> e, n |-> asked + 1]
  IN  /\ open = {} /\ open' = {r}
      /\ asked' = asked + 1
      /\ wire' = Append(wire, r)
      /\ UNCHANGED accepted

\* An answer to another kind of event is used up too, and the call fails.
Read ==
  /\ wire # <<>> /\ wire' = Tail(wire)
  /\ \E r \in open :
       accepted' = IF Head(wire).ev = r.ev THEN accepted \union {<<r, Head(wire)>>} ELSE accepted
  /\ open' = {}
  /\ UNCHANGED asked

GiveUp == open # {} /\ open' = {} /\ UNCHANGED <<asked, wire, accepted>>

\* A GUI that dies, a stream that goes, a loop that ends or a full slot lose
\* some of what is on the wire.
Lose ==
  /\ \E i \in DOMAIN wire : \E j \in i .. Len(wire) :
       wire' = SubSeq(wire, 1, i - 1) \o SubSeq(wire, j + 1, Len(wire))
  /\ UNCHANGED <<asked, open, accepted>>

HandshakeNext == Read \/ GiveUp \/ Lose \/ \E e \in Events : Request(e)

HandshakeSpec == HandshakeInit /\ [][HandshakeNext]_handshakeVars
=============================================================================
