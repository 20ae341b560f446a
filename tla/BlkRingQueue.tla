---------------------------- MODULE BlkRingQueue ----------------------------
(***************************************************************************)
(* The single-reader single-writer blocking queue of                       *)
(* src/core/blkringqueue.h: an array of cells, the counting semaphores     *)
(* slots (free places) and items (filled places), the atomic itemCount     *)
(* that size() and peek() read, and a private cursor for each of the two   *)
(* threads.  Every access to shared memory is a step of its own, so the    *)
(* steps of the producer and of the consumer interleave freely.            *)
(*                                                                         *)
(* The cursors nextSlot and nextItem of the code count up for ever and are *)
(* masked on use; here they hold the masked index.  That is exact, since   *)
(* Cells is a power of two (module RingMask) and divides 2^64, where the   *)
(* counters wrap.                                                          *)
(***************************************************************************)
EXTENDS Integers, Sequences

CONSTANTS Values,     \* the items that can be enqueued
          NoValue,    \* the content of a cell that holds no constructed item
          Capacity,   \* the capacity the queue was constructed with
          Cells,      \* mask + 1, the cells allocated for it
          MaxPops     \* bound: how many calls of tryPop() are explored

ASSUME RingAssumption ==
  /\ Capacity \in Nat \ {0}
  /\ Cells \in Nat
  /\ Capacity <= Cells
  /\ MaxPops \in Nat
  /\ NoValue \notin Values

VARIABLES cells,      \* data: index -> constructed item or NoValue
          slots,      \* semaphore: free places
          items,      \* semaphore: filled places
          itemCount,  \* what size() returns
          nextSlot,   \* where the producer constructs next
          nextItem,   \* where the consumer reads next
          ppc, held,  \* the producer's place in its call, and its item
          cpc, got,   \* the consumer's place in its call, its last item
          pops        \* calls of tryPop() so far

producerVars == <<ppc, held, nextSlot>>
consumerVars == <<cpc, got, nextItem, pops>>
vars == <<cells, slots, items, itemCount, producerVars, consumerVars>>

Idx == 0 .. Cells - 1
Wrap(i) == IF i < Cells THEN i ELSE i - Cells

-----------------------------------------------------------------------------
(* Seeded faults: plausible slips in the definitions below.  The checks    *)
(* use them to see that each property notices the code going wrong.        *)

AcquireNoWait == slots' = IF slots > 0 THEN slots - 1 ELSE slots
CountTwice == itemCount' = itemCount + 2
FilledUnsignalled == items' = items
ReadNewest == cells[Wrap(nextSlot + Cells - 1)]

-----------------------------------------------------------------------------
\* The increments of a private cursor: nextSlot++ & mask, nextItem++ & mask.
Advance(i) == Wrap(i + 1)

Init ==
  /\ cells = [i \in Idx |-> NoValue]
  /\ slots = Capacity /\ items = 0 /\ itemCount = 0
  /\ nextSlot = 0 /\ nextItem = 0
  /\ ppc = "idle" /\ held = NoValue
  /\ cpc = "idle" /\ got = NoValue /\ pops = 0

SlotsAcquire == slots > 0 /\ slots' = slots - 1
SlotsRelease == slots' = slots + 1
CountUp == itemCount' = itemCount + 1
CountDown == itemCount' = itemCount - 1
SignalFilled == items' = items + 1
OldestItem == cells[nextItem]
DestroyCell(i) == cells' = [cells EXCEPT ![i] = NoValue]

(* The producer: tryEnqueue, waitEnqueue and waitEnqueueTimed differ only  *)
(* in how long they wait for a slot; a call that gives up changes nothing. *)

Enqueue(v) ==
  /\ ppc = "idle"
  /\ SlotsAcquire
  /\ ppc' = "construct" /\ held' = v
  /\ UNCHANGED <<cells, items, itemCount, nextSlot, consumerVars>>

Construct ==
  /\ ppc = "construct"
  /\ cells' = [cells EXCEPT ![nextSlot] = held]
  /\ nextSlot' = Advance(nextSlot)
  /\ ppc' = "count"
  /\ UNCHANGED <<slots, items, itemCount, held, consumerVars>>

CountItem ==
  /\ ppc = "count"
  /\ CountUp
  /\ ppc' = "release"
  /\ UNCHANGED <<cells, slots, items, nextSlot, held, consumerVars>>

ReleaseItem ==
  /\ ppc = "release"
  /\ SignalFilled
  /\ ppc' = "idle" /\ held' = NoValue
  /\ UNCHANGED <<cells, slots, itemCount, nextSlot, consumerVars>>

(* The consumer: tryDequeue, waitDequeue, waitDequeueTimed, and tryPop.    *)

Dequeue ==
  /\ cpc = "idle"
  /\ items > 0 /\ items' = items - 1
  /\ cpc' = "move"
  /\ UNCHANGED <<cells, slots, itemCount, got, nextItem, pops, producerVars>>

MoveItem ==
  /\ cpc = "move"
  /\ got' = OldestItem
  /\ nextItem' = Advance(nextItem)
  /\ cpc' = "destroy"
  /\ UNCHANGED <<cells, slots, items, itemCount, pops, producerVars>>

Consumed == Wrap(nextItem + Cells - 1)    \* the cell MoveItem has read

DestroyItem ==
  /\ cpc = "destroy"
  /\ DestroyCell(Consumed)
  /\ cpc' = "uncount"
  /\ UNCHANGED <<slots, items, itemCount, got, nextItem, pops, producerVars>>

UncountItem ==
  /\ cpc = "uncount"
  /\ CountDown
  /\ cpc' = "release"
  /\ UNCHANGED <<cells, slots, items, got, nextItem, pops, producerVars>>

ReleaseSlot ==
  /\ cpc = "release"
  /\ SlotsRelease
  /\ cpc' = "idle"
  /\ UNCHANGED <<cells, items, itemCount, got, nextItem, pops, producerVars>>

Pop ==
  /\ cpc = "idle" /\ pops < MaxPops
  /\ items > 0 /\ items' = items - 1
  /\ cpc' = "pop" /\ pops' = pops + 1
  /\ UNCHANGED <<cells, slots, itemCount, got, nextItem, producerVars>>

\* popImpl() leaves itemCount as it is.
PopItem ==
  /\ cpc = "pop"
  /\ DestroyCell(nextItem)
  /\ nextItem' = Advance(nextItem)
  /\ cpc' = "release"
  /\ UNCHANGED <<slots, items, itemCount, got, pops, producerVars>>

-----------------------------------------------------------------------------
ProducerStep == Construct \/ CountItem \/ ReleaseItem
ConsumerStep == MoveItem \/ DestroyItem \/ UncountItem \/ ReleaseSlot \/ PopItem

Next ==
  \/ \E v \in Values : Enqueue(v)
  \/ ProducerStep
  \/ Dequeue \/ Pop
  \/ ConsumerStep

Spec == Init /\ [][Next]_vars

\* A thread inside a call runs on; a consumer with nothing else to do calls
\* waitDequeue() again.  Nothing makes the producer produce.
FairSpec ==
  Spec /\ WF_vars(ProducerStep) /\ WF_vars(ConsumerStep) /\ WF_vars(Dequeue)

-----------------------------------------------------------------------------
(* Correctness.                                                            *)

One(b) == IF b THEN 1 ELSE 0

\* Items constructed and not yet read or discarded.  Every slot is free, or
\* holds such an item, or is on its way: acquired and not yet constructed,
\* or emptied and not yet released.
Held == Capacity - slots - One(ppc = "construct")
                 - One(cpc \in {"destroy", "uncount", "release"})

\* The abstract buffer: the items between the two cursors, oldest first.
Contents == [k \in 1 .. Held |-> cells[Wrap(nextItem + k - 1)]]

TypeOK ==
  /\ cells \in [Idx -> Values \union {NoValue}]
  /\ slots \in 0 .. Capacity /\ items \in 0 .. Capacity
  /\ itemCount \in 0 .. Capacity + MaxPops
  /\ nextSlot \in Idx /\ nextItem \in Idx
  /\ ppc \in {"idle", "construct", "count", "release"}
  /\ held \in Values \union {NoValue}
  /\ cpc \in {"idle", "move", "destroy", "uncount", "release", "pop"}
  /\ got \in Values \union {NoValue}
  /\ pops \in 0 .. MaxPops

\* The producer constructs into a cell that holds no live item and that the
\* consumer is not touching; the consumer reads a constructed cell only.
NoDataRace ==
  /\ ppc = "construct" =>
       /\ cells[nextSlot] = NoValue
       /\ cpc \in {"move", "pop"} => nextSlot # nextItem
       /\ cpc = "destroy" => nextSlot # Consumed
  /\ cpc \in {"move", "pop"} => cells[nextItem] \in Values

\* How many cells after nextItem the cell i lies.
Dist(i) == IF i >= nextItem THEN i - nextItem ELSE i + Cells - nextItem

\* The cells that hold a constructed item are exactly those from nextItem up
\* to nextSlot, and the one the consumer is about to destroy: nothing leaks,
\* nothing is destroyed early, and the cursors never drift apart.
Occupancy ==
  /\ nextSlot = Wrap(nextItem + Held)
  /\ \A i \in Idx :
       cells[i] \in Values <=>
         Dist(i) < Held \/ (cpc = "destroy" /\ i = Consumed)

\* How far size() is from the truth: it runs behind the two calls under way,
\* and every tryPop() leaves it one too large for good.
SizeDrift ==
  itemCount = Held - One(ppc = "count") + One(cpc \in {"destroy", "uncount"})
                   + pops - One(cpc = "pop")

\* The cells ~BlkRingQueue() runs item destructors on.
DestructedCells == {Wrap(nextItem + k) : k \in 0 .. itemCount - 1}

\* With both threads gone, the destructor destroys every constructed item
\* once and no cell without one, unless items were popped.
DestructorExact ==
  (pops = 0 /\ ppc = "idle" /\ cpc = "idle") =>
    DestructedCells = {i \in Idx : cells[i] # NoValue}

Fifo == INSTANCE BoundedFifo WITH queue <- Contents, taken <- got

\* The queue implements the bounded FIFO buffer: an item goes in at
\* Construct and out at MoveItem or PopItem, every other step stutters.
IsFifo == Fifo!FifoSpec

\* An item that was constructed is handed to the consumer, as long as the
\* consumer keeps calling waitDequeue() and pops nothing: no wake-up is lost.
EveryItemTaken ==
  \A v \in Values :
    (ppc = "count" /\ held = v) ~> (cpc = "destroy" /\ got = v) \/ pops > 0
=============================================================================
