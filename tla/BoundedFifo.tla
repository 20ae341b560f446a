---------------------------- MODULE BoundedFifo ----------------------------
(***************************************************************************)
(* What a BlkRingQueue (src/core/blkringqueue.h) promises its one producer *)
(* and its one consumer: a first-in first-out buffer that never holds more *)
(* than Capacity items.  A Put that finds the buffer full and a Take or a  *)
(* Drop that finds it empty wait or fail, and change nothing.              *)
(***************************************************************************)
EXTENDS Naturals, Sequences

CONSTANTS Values,     \* the items that can be enqueued
          NoValue,    \* what the consumer has received before the first Take
          Capacity    \* how many of them the buffer may hold

VARIABLES queue,      \* the items in the buffer, oldest first
          taken       \* the item the last Take handed to the consumer

fifoVars == <<queue, taken>>

FifoInit == queue = <<>> /\ taken = NoValue

Put(v) ==
  /\ Len(queue) < Capacity
  /\ queue' = Append(queue, v)
  /\ UNCHANGED taken

\* The consumer receives the oldest item.
Take ==
  /\ queue # <<>>
  /\ taken' = Head(queue)
  /\ queue' = Tail(queue)

\* The consumer discards the oldest item without reading it.
Drop ==
  /\ queue # <<>>
  /\ queue' = Tail(queue)
  /\ UNCHANGED taken

FifoNext == Take \/ Drop \/ \E v \in Values : Put(v)

FifoSpec == FifoInit /\ [][FifoNext]_fifoVars
=============================================================================
