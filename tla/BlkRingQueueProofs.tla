------------------------- MODULE BlkRingQueueProofs -------------------------
(***************************************************************************)
(* The ring queue is correct for every capacity, every number of cells at  *)
(* least as large, every set of items and any number of pops: its private  *)
(* cursors and its semaphores never disagree about which cells hold items, *)
(* and it implements the bounded FIFO buffer.  The mask its constructor    *)
(* computes is the least that fits, for every capacity and word width.     *)
(***************************************************************************)
EXTENDS RingMask, TLAPS, Recursion

\* The two semaphores agree: an item the consumer may take is one that is
\* constructed, whatever the two threads are in the middle of.
PermitsAgree ==
  items = Held - One(ppc \in {"count", "release"}) - One(cpc \in {"move", "pop"})

\* The invariant that is inductive.  TypeOK bounds itemCount, so it needs
\* SizeDrift; slots <= Capacity is Held >= 0, which PermitsAgree gives since
\* items >= 0; a constructed cell needs a held item.
IInv ==
  /\ TypeOK
  /\ PermitsAgree
  /\ Occupancy
  /\ SizeDrift
  /\ ppc # "idle" => held \in Values
  /\ One(cpc = "pop") <= pops

LEMMA InitHeld == Init => Held = 0
<1> SUFFICES ASSUME Init PROVE Held = 0
  OBVIOUS
<1>1. One(ppc = "construct") = 0 /\ One(cpc \in {"destroy", "uncount", "release"}) = 0
  BY Zenon DEF Init, One
<1> QED
  BY <1>1, RingAssumption DEF Init, Held

LEMMA InitInv == Init => IInv
<1> SUFFICES ASSUME Init PROVE IInv
  OBVIOUS
<1>1. TypeOK
  BY RingAssumption DEF Init, TypeOK, Idx
<1>2. /\ One(ppc = "count") = 0 /\ One(ppc \in {"count", "release"}) = 0
      /\ One(cpc \in {"destroy", "uncount"}) = 0
      /\ One(cpc \in {"move", "pop"}) = 0 /\ One(cpc = "pop") = 0
  BY Zenon DEF Init, One
<1>3. PermitsAgree /\ SizeDrift /\ One(cpc = "pop") <= pops
  BY <1>2, InitHeld DEF Init, PermitsAgree, SizeDrift
<1>4. Occupancy
  BY InitHeld, RingAssumption DEF Init, Occupancy, Idx, Dist, Wrap
<1> QED
  BY <1>1, <1>3, <1>4 DEF IInv, Init

LEMMA StepInv == IInv /\ [Next]_vars => IInv'
<1> SUFFICES ASSUME IInv, [Next]_vars PROVE IInv'
  OBVIOUS
<1> USE RingAssumption DEF IInv, TypeOK, PermitsAgree, SizeDrift, Held, One, Idx
<1>1. CASE UNCHANGED vars
  BY <1>1 DEF vars, producerVars, consumerVars, Occupancy, Dist, Consumed, Wrap
<1>2. ASSUME NEW v \in Values, Enqueue(v) PROVE IInv'
  BY <1>2 DEF Enqueue, SlotsAcquire, consumerVars, Occupancy, Dist, Consumed, Wrap
<1>3. CASE Construct
  BY <1>3 DEF Construct, Advance, consumerVars, Occupancy, Dist, Consumed, Wrap
<1>4. CASE CountItem
  BY <1>4 DEF CountItem, CountUp, consumerVars, Occupancy, Dist, Consumed, Wrap
<1>5. CASE ReleaseItem
  BY <1>5 DEF ReleaseItem, SignalFilled, consumerVars, Occupancy, Dist, Consumed, Wrap
<1>6. CASE Dequeue
  BY <1>6 DEF Dequeue, producerVars, Occupancy, Dist, Consumed, Wrap
<1>7. CASE MoveItem
  BY <1>7 DEF MoveItem, OldestItem, Advance, producerVars, Occupancy, Dist, Consumed, Wrap
<1>8. CASE DestroyItem
  BY <1>8 DEF DestroyItem, DestroyCell, producerVars, Occupancy, Dist, Consumed, Wrap
<1>9. CASE UncountItem
  BY <1>9 DEF UncountItem, CountDown, producerVars, Occupancy, Dist, Consumed, Wrap
<1>10. CASE ReleaseSlot
  BY <1>10 DEF ReleaseSlot, SlotsRelease, producerVars, Occupancy, Dist, Consumed, Wrap
<1>11. CASE Pop
  BY <1>11 DEF Pop, producerVars, Occupancy, Dist, Consumed, Wrap
<1>12. CASE PopItem
  BY <1>12 DEF PopItem, DestroyCell, Advance, producerVars, Occupancy, Dist, Consumed, Wrap
<1> QED
  BY <1>1, <1>2, <1>3, <1>4, <1>5, <1>6, <1>7, <1>8, <1>9, <1>10, <1>11, <1>12
     DEF Next, ProducerStep, ConsumerStep

\* The inductive invariant holds in every reachable state of the queue.
THEOREM Invariance == Spec => []IInv
  BY InitInv, StepInv, PTL DEF Spec

\* Every variable keeps its type; in particular neither semaphore of
\* BlkRingQueue exceeds the capacity it was constructed with.
THEOREM TypeCorrect == Spec => []TypeOK
<1>1. IInv => TypeOK
  BY DEF IInv
<1> QED
  BY <1>1, Invariance, PTL

\* items.acquire() succeeds exactly when there is a constructed item for it.
THEOREM PermitsCorrect == Spec => []PermitsAgree
<1>1. IInv => PermitsAgree
  BY DEF IInv
<1> QED
  BY <1>1, Invariance, PTL

\* The cells between the cursors, and no others, hold constructed items.
THEOREM OccupancyCorrect == Spec => []Occupancy
<1>1. IInv => Occupancy
  BY DEF IInv
<1> QED
  BY <1>1, Invariance, PTL

\* size() is wrong by the calls under way and by the pops ever made.
THEOREM SizeDriftCorrect == Spec => []SizeDrift
<1>1. IInv => SizeDrift
  BY DEF IInv
<1> QED
  BY <1>1, Invariance, PTL

\* Producer and consumer never touch the same cell at the same time, and the
\* consumer reads constructed cells only.
THEOREM NoDataRaceCorrect == Spec => []NoDataRace
<1>1. IInv => NoDataRace
  BY RingAssumption DEF IInv, TypeOK, Idx, PermitsAgree, Occupancy, Held, One, Dist,
                        Wrap, Consumed, NoDataRace
<1> QED
  BY <1>1, Invariance, PTL

\* peek(), called by the consumer between two calls, never hands out a cell
\* with no item in it; tryPop() breaks that, since it does not count down.
PeekIsLive ==
  (pops = 0 /\ cpc = "idle" /\ itemCount > 0) => cells[nextItem] \in Values

\* Until the consumer pops an item, peek() hands out constructed items only.
THEOREM PeekCorrect == Spec => []PeekIsLive
<1>1. IInv => PeekIsLive
  BY RingAssumption DEF IInv, TypeOK, Idx, Occupancy, SizeDrift, Held, One, Dist, PeekIsLive
<1> QED
  BY <1>1, Invariance, PTL

\* With both threads gone and nothing popped, the destructor destroys every
\* item once and no other cell: the cells it walks are those between the
\* cursors, each at its own distance.
THEOREM DestructorCorrect == Spec => []DestructorExact
<1>1. ASSUME IInv, pops = 0, ppc = "idle", cpc = "idle"
      PROVE  DestructedCells = {i \in Idx : cells[i] # NoValue}
  <2>1. itemCount = Held /\ Held \in 0 .. Capacity /\ nextItem \in Idx
    BY <1>1, RingAssumption DEF IInv, TypeOK, SizeDrift, PermitsAgree, Held, One
  <2>2. \A i \in Idx : cells[i] # NoValue <=> Dist(i) < Held
    BY <1>1, RingAssumption DEF IInv, TypeOK, Occupancy
  <2>3. \A k \in 0 .. Held - 1 :
          Wrap(nextItem + k) \in Idx /\ Dist(Wrap(nextItem + k)) = k
    BY <2>1, RingAssumption DEF Idx, Wrap, Dist
  <2>4. \A i \in Idx : Dist(i) \in Nat /\ Wrap(nextItem + Dist(i)) = i
    BY <2>1, RingAssumption DEF Idx, Wrap, Dist
  <2>5. \A i \in Idx : Dist(i) < Held => Dist(i) \in 0 .. Held - 1
    BY <2>1, <2>4
  <2> HIDE DEF Held, Dist, Wrap
  <2> QED
    BY <2>1, <2>2, <2>3, <2>4, <2>5 DEF DestructedCells
<1>2. IInv => DestructorExact
  BY <1>1 DEF DestructorExact
<1> QED
  BY <1>2, Invariance, PTL

-----------------------------------------------------------------------------
(* The refinement.  Contents is computed from the concrete state, so it is *)
(* enough to see what each step does to it.                                *)

LEMMA AppendIsExtension ==
  ASSUME NEW S, NEW n \in Nat, NEW s \in [1 .. n -> S], NEW e \in S,
         NEW t \in [1 .. n + 1 -> S], t[n + 1] = e,
         \A k \in 1 .. n : t[k] = s[k]
  PROVE  /\ s \in Seq(S) /\ Len(s) = n
         /\ t = Append(s, e)
  OBVIOUS

LEMMA TailIsShift ==
  ASSUME NEW S, NEW n \in Nat \ {0}, NEW s \in [1 .. n -> S],
         NEW t \in [1 .. n - 1 -> S],
         \A k \in 1 .. n - 1 : t[k] = s[k + 1]
  PROVE  s # <<>> /\ Head(s) = s[1] /\ t = Tail(s)
  OBVIOUS

ContentsOK ==
  Held \in 0 .. Capacity /\ Contents \in [1 .. Held -> Values]

LEMMA ContentsType == IInv => ContentsOK
<1> SUFFICES ASSUME IInv PROVE ContentsOK
  OBVIOUS
<1>1. Held \in 0 .. Capacity
  BY RingAssumption DEF IInv, TypeOK, PermitsAgree, Held, One
<1>2. ASSUME NEW k \in 1 .. Held PROVE cells[Wrap(nextItem + k - 1)] \in Values
  BY <1>1, RingAssumption DEF IInv, TypeOK, Idx, Occupancy, Dist, Wrap
<1> QED
  BY <1>1, <1>2 DEF ContentsOK, Contents

LEMMA ContentsTypeNext == IInv' => ContentsOK'
  BY ContentsType, PTL

\* A step that neither moves nextItem nor changes Held or an item between the
\* cursors leaves the abstract buffer as it is.
LEMMA StutterStep ==
  ASSUME IInv, IInv', Held' = Held, nextItem' = nextItem, got' = got,
         \A k \in 1 .. Held :
           cells'[Wrap(nextItem + k - 1)] = cells[Wrap(nextItem + k - 1)]
  PROVE  UNCHANGED Fifo!fifoVars
<1>1. Contents' = Contents
  BY ContentsType DEF ContentsOK, Contents, Wrap
<1> QED
  BY <1>1 DEF Fifo!fifoVars

LEMMA ConstructPuts ==
  ASSUME IInv, IInv', Construct
  PROVE  \E v \in Values : Fifo!Put(v)
<1> DEFINE n == Held
<1>1. n \in 0 .. Capacity - 1 /\ Held' = n + 1 /\ nextItem' = nextItem /\ got' = got
  BY ContentsType, RingAssumption
  DEF ContentsOK, Construct, Held, One, consumerVars, IInv, TypeOK, PermitsAgree
<1>2. Contents' \in [1 .. n + 1 -> Values] /\ Contents \in [1 .. n -> Values]
  BY ContentsType, ContentsTypeNext, <1>1 DEF ContentsOK
<1>3. Contents'[n + 1] = held /\ held \in Values
  BY <1>1, RingAssumption
  DEF Construct, Contents, IInv, TypeOK, Idx, Occupancy, Wrap, consumerVars
<1>4. ASSUME NEW k \in 1 .. n PROVE Contents'[k] = Contents[k]
  BY <1>1, RingAssumption
  DEF Construct, Contents, IInv, TypeOK, Idx, Occupancy, Wrap, consumerVars
<1>5. Len(Contents) = n /\ Contents' = Append(Contents, held)
  BY <1>1, <1>2, <1>3, <1>4, AppendIsExtension, RingAssumption
<1> QED
  BY <1>1, <1>3, <1>5, RingAssumption DEF Fifo!Put

LEMMA ReadsShift ==
  ASSUME IInv, IInv', MoveItem \/ PopItem
  PROVE  /\ Contents # <<>> /\ Head(Contents) = cells[nextItem]
         /\ Contents' = Tail(Contents)
<1> DEFINE n == Held
<1>1. n \in 1 .. Capacity /\ Held' = n - 1 /\ nextItem' = Wrap(nextItem + 1)
  <2>1. CASE MoveItem
    BY <2>1, ContentsType, RingAssumption
    DEF ContentsOK, MoveItem, Advance, Held, One, producerVars, IInv, TypeOK, PermitsAgree
  <2>2. CASE PopItem
    BY <2>2, ContentsType, RingAssumption
    DEF ContentsOK, PopItem, Advance, Held, One, producerVars, IInv, TypeOK, PermitsAgree
  <2> QED
    BY <2>1, <2>2
<1>2. Contents' \in [1 .. n - 1 -> Values] /\ Contents \in [1 .. n -> Values]
  BY ContentsType, ContentsTypeNext, <1>1 DEF ContentsOK
<1>3. ASSUME NEW k \in 1 .. n - 1 PROVE Contents'[k] = Contents[k + 1]
  BY <1>1, <1>3, RingAssumption
  DEF MoveItem, PopItem, DestroyCell, Contents, IInv, TypeOK, Idx, Wrap, producerVars
<1>4. Contents[1] = cells[nextItem]
  BY <1>1, RingAssumption DEF Contents, IInv, TypeOK, Idx, Wrap
<1> QED
  BY <1>1, <1>2, <1>3, <1>4, TailIsShift, RingAssumption

LEMMA StepRefines == IInv /\ IInv' /\ [Next]_vars => [Fifo!FifoNext]_(Fifo!fifoVars)
<1> SUFFICES ASSUME IInv, IInv', [Next]_vars
             PROVE  [Fifo!FifoNext]_(Fifo!fifoVars)
  OBVIOUS
<1>1. CASE UNCHANGED vars
  BY <1>1, StutterStep DEF vars, producerVars, consumerVars, Held
<1>2. CASE \E v \in Values : Enqueue(v)
  BY <1>2, StutterStep, RingAssumption
  DEF Enqueue, SlotsAcquire, consumerVars, Held, One, IInv, TypeOK
<1>3. CASE Construct
  BY <1>3, ConstructPuts DEF Fifo!FifoNext
<1>4. CASE CountItem \/ ReleaseItem \/ Dequeue \/ Pop \/ UncountItem
  BY <1>4, StutterStep
  DEF CountItem, ReleaseItem, Dequeue, Pop, UncountItem, producerVars, consumerVars,
      Held, One
<1>5. CASE MoveItem
  BY <1>5, ReadsShift DEF MoveItem, OldestItem, Fifo!FifoNext, Fifo!Take
<1>6. CASE PopItem
  BY <1>6, ReadsShift DEF PopItem, Fifo!FifoNext, Fifo!Drop
<1>7. CASE DestroyItem
  <2>1. Held' = Held /\ nextItem' = nextItem /\ got' = got
    BY <1>7 DEF DestroyItem, Held, One, producerVars
  <2>2. Held < Cells
    BY <1>7, RingAssumption DEF DestroyItem, Held, One, IInv, TypeOK
  <2>3. ASSUME NEW k \in 1 .. Held
        PROVE  cells'[Wrap(nextItem + k - 1)] = cells[Wrap(nextItem + k - 1)]
    BY <1>7, <2>2, <2>3, RingAssumption, ContentsType
    DEF ContentsOK, DestroyItem, DestroyCell, Consumed, Wrap, IInv, TypeOK, Idx
  <2> QED
    BY <2>1, <2>3, StutterStep
<1>8. CASE ReleaseSlot
  BY <1>8, StutterStep, RingAssumption
  DEF ReleaseSlot, SlotsRelease, producerVars, Held, One, IInv, TypeOK
<1> QED
  BY <1>1, <1>2, <1>3, <1>4, <1>5, <1>6, <1>7, <1>8 DEF Next, ProducerStep, ConsumerStep

\* The queue of blkringqueue.h implements the bounded FIFO buffer: items come
\* out once, in the order they went in, and never more than Capacity are held.
THEOREM ImplementsFifo == Spec => IsFifo
<1>1. Init => Fifo!FifoInit
  <2> SUFFICES ASSUME Init PROVE Fifo!FifoInit
    OBVIOUS
  <2> QED
    BY InitHeld DEF Fifo!FifoInit, Contents, Init
<1> QED
  BY <1>1, StepRefines, Invariance, PTL DEF Spec, IsFifo, Fifo!FifoSpec
-----------------------------------------------------------------------------
(* Powers of two, words and the numbers they stand for.                    *)

LEMMA BitsType == Bits \in {8, 16, 32, 64}
  BY MaskAssumption DEF Bits

\* Quotient and remainder are the only ones.
LEMMA DivUnique ==
  ASSUME NEW d \in Nat \ {0}, NEW q \in Nat, NEW r \in 0 .. d - 1
  PROVE  (d * q + r) \div d = q /\ (d * q + r) % d = r
<1> DEFINE a == d * q + r
           p == a \div d
           s == a % d
<1>1. a \in Nat
  OBVIOUS
<1>2. p \in Nat /\ s \in 0 .. d - 1 /\ a = d * p + s
  BY <1>1
<1>3. d * (q - p) = s - r
  BY <1>1, <1>2
<1> HIDE DEF p, s, a
<1>4. q - p \in Int /\ s - r < d /\ r - s < d /\ s \in Int /\ r \in Int
  BY <1>2
<1>5. CASE q - p >= 1
  <2>1. d * (q - p) >= d
    BY <1>4, <1>5
  <2> QED
    BY <1>3, <1>4, <2>1
<1>6. CASE q - p <= -1
  <2>1. d * (q - p) <= -d
    BY <1>4, <1>6
  <2> QED
    BY <1>3, <1>4, <2>1
<1>7. CASE q - p = 0
  <2>1. q = p
    BY <1>2, <1>7
  <2>2. s = r
    BY <1>3, <1>4, <1>7
  <2> QED
    BY <2>1, <2>2 DEF p, s, a
<1> QED
  BY <1>4, <1>5, <1>6, <1>7

LEMMA DivMod ==
  ASSUME NEW d \in Nat \ {0}, NEW a \in Nat
  PROVE  a \div d \in Nat /\ a % d \in 0 .. d - 1 /\ a = d * (a \div d) + (a % d)
  OBVIOUS

\* Pow2 is the function its definition describes.
LEMMA PowSteps ==
  /\ Pow2 \in [0 .. Bits -> Nat] /\ Pow2[0] = 1
  /\ \A n \in 1 .. Bits : Pow2[n] = 2 * Pow2[n - 1]
<1> DEFINE T == [n \in 1 .. Bits |-> [x \in Nat |-> 2 * x]]
           IsIt(f) == f = [n \in 0 .. Bits |-> IF n = 0 THEN 1 ELSE 2 * f[n - 1]]
<1>1. Bits \in Nat
  BY BitsType
<1>2. PICK f \in [0 .. Bits -> Nat] : f[0] = 1 /\ \A n \in 1 .. Bits : f[n] = T[n][f[n - 1]]
  <2>1. T \in [1 .. Bits -> [Nat -> Nat]]
    OBVIOUS
  <2> HIDE DEF T
  <2>2. Steps(Nat, 1, Bits, T) # {}
    BY <1>1, <2>1, StepsExist
  <2> QED
    BY <2>2 DEF Steps
<1>3. ASSUME NEW n \in 1 .. Bits PROVE f[n] = 2 * f[n - 1]
  <2>1. f[n - 1] \in Nat
    BY <1>1, <1>2
  <2> QED
    BY <1>2, <2>1
<1>4. f = [n \in 0 .. Bits |-> f[n]]
  BY <1>2
<1>5. IsIt(f)
  <2>1. \A n \in 0 .. Bits : f[n] = IF n = 0 THEN 1 ELSE 2 * f[n - 1]
    BY <1>1, <1>2, <1>3
  <2> QED
    BY <1>4, <2>1
<1>6. Pow2 = CHOOSE g : IsIt(g)
  BY DEF Pow2
<1>7. IsIt(Pow2)
  BY <1>5, <1>6
<1> DEFINE g == Pow2
<1> HIDE DEF g, T
<1>8. g = [n \in 0 .. Bits |-> IF n = 0 THEN 1 ELSE 2 * g[n - 1]]
  BY <1>7 DEF g
<1>9. g[0] = 1 /\ \A n \in 1 .. Bits : g[n] = 2 * g[n - 1]
  BY <1>1, <1>8
<1> DEFINE M == {n \in Nat : n <= Bits => g[n] \in Nat}
<1>10. 0 \in M
  BY <1>9
<1>11. ASSUME NEW n \in Nat, n \in M PROVE n + 1 \in M
  <2> SUFFICES ASSUME n + 1 <= Bits PROVE g[n + 1] \in Nat
    OBVIOUS
  <2>1. n + 1 \in 1 .. Bits /\ (n + 1) - 1 = n /\ g[n] \in Nat
    BY <1>1, <1>11
  <2> QED
    BY <1>9, <2>1
<1>12. \A n \in Nat : n \in M
  BY <1>10, <1>11, NaturalsReached
<1>13. \A n \in 0 .. Bits : g[n] \in Nat
  BY <1>1, <1>12
<1> QED
  BY <1>8, <1>9, <1>13 DEF g

LEMMA PowNext ==
  ASSUME NEW n \in Nat, n < Bits
  PROVE  Pow2[n] \in Nat /\ Pow2[n + 1] \in Nat /\ Pow2[n + 1] = 2 * Pow2[n]
<1>1. n + 1 \in 1 .. Bits /\ (n + 1) - 1 = n /\ n \in 0 .. Bits /\ n + 1 \in 0 .. Bits
  BY BitsType
<1> QED
  BY <1>1, PowSteps

LEMMA PowPositive == \A n \in 0 .. Bits : Pow2[n] \in Nat \ {0}
<1> DEFINE M == {n \in Nat : n <= Bits => Pow2[n] \in Nat \ {0}}
<1>1. 0 \in M
  BY PowSteps
<1>2. ASSUME NEW n \in Nat, n \in M PROVE n + 1 \in M
  <2> SUFFICES ASSUME n + 1 <= Bits PROVE Pow2[n + 1] \in Nat \ {0}
    OBVIOUS
  <2>1. n < Bits /\ Pow2[n] \in Nat \ {0}
    BY <1>2, BitsType
  <2> QED
    BY <2>1, PowNext
<1>3. \A n \in Nat : n \in M
  BY <1>1, <1>2, NaturalsReached
<1> QED
  BY <1>3, BitsType

\* A greater power is a multiple of a smaller one.
LEMMA PowDivides ==
  ASSUME NEW m \in 0 .. Bits, NEW n \in m .. Bits
  PROVE  \E k \in Nat \ {0} : Pow2[n] = k * Pow2[m]
<1> DEFINE M == {j \in Nat : m + j <= Bits => \E k \in Nat \ {0} : Pow2[m + j] = k * Pow2[m]}
<1>0. Bits \in Nat /\ m \in Nat /\ n \in Nat /\ Pow2[m] \in Nat \ {0}
  BY BitsType, PowPositive
<1>1. 0 \in M
  <2>1. m + 0 = m /\ Pow2[m] = 1 * Pow2[m]
    BY <1>0
  <2> QED
    BY <2>1
<1>2. ASSUME NEW j \in Nat, j \in M PROVE j + 1 \in M
  <2> SUFFICES ASSUME m + (j + 1) <= Bits PROVE \E k \in Nat \ {0} : Pow2[m + (j + 1)] = k * Pow2[m]
    OBVIOUS
  <2>1. m + j < Bits /\ m + (j + 1) = (m + j) + 1 /\ m + j \in Nat
    BY <1>0
  <2>2. PICK k \in Nat \ {0} : Pow2[m + j] = k * Pow2[m]
    BY <1>0, <1>2, <2>1
  <2>3. Pow2[m + (j + 1)] = 2 * (k * Pow2[m])
    BY <2>1, <2>2, PowNext
  <2>4. 2 * (k * Pow2[m]) = (2 * k) * Pow2[m] /\ 2 * k \in Nat \ {0}
    BY <1>0
  <2> QED
    BY <2>3, <2>4
<1>3. \A j \in Nat : j \in M
  BY <1>1, <1>2, NaturalsReached
<1>4. n - m \in Nat /\ m + (n - m) = n /\ n <= Bits
  BY <1>0
<1> QED
  BY <1>3, <1>4

LEMMA PowGrows ==
  ASSUME NEW m \in 0 .. Bits, NEW n \in m .. Bits
  PROVE  Pow2[m] <= Pow2[n]
<1>1. PICK k \in Nat \ {0} : Pow2[n] = k * Pow2[m]
  BY PowDivides
<1>2. Pow2[m] \in Nat \ {0}
  BY PowPositive
<1>3. k * Pow2[m] >= Pow2[m]
  BY <1>2
<1> QED
  BY <1>1, <1>3

\* Number(word) adds up the bits of the word.
Sums(word) ==
  {f \in [0 .. Bits -> Nat] :
     /\ f[0] = 0 /\ Number(word) = f[Bits]
     /\ \A n \in 0 .. Bits - 1 : f[n + 1] = f[n] + IF n \in word THEN Pow2[n] ELSE 0}

LEMMA SumExists == ASSUME NEW word PROVE Sums(word) # {}
<1> DEFINE T == [n \in 1 .. Bits |-> [x \in Nat |-> x + IF n - 1 \in word THEN Pow2[n - 1] ELSE 0]]
           IsIt(f) == f = [n \in 0 .. Bits |->
                             IF n = 0 THEN 0
                             ELSE f[n - 1] + IF n - 1 \in word THEN Pow2[n - 1] ELSE 0]
<1>1. Bits \in Nat /\ \A n \in 1 .. Bits : Pow2[n - 1] \in Nat
  BY BitsType, PowPositive
<1>2. PICK f \in [0 .. Bits -> Nat] : f[0] = 0 /\ \A n \in 1 .. Bits : f[n] = T[n][f[n - 1]]
  <2>1. T \in [1 .. Bits -> [Nat -> Nat]]
    BY <1>1
  <2> HIDE DEF T
  <2>2. Steps(Nat, 0, Bits, T) # {}
    BY <1>1, <2>1, StepsExist
  <2> QED
    BY <2>2 DEF Steps
<1>3. ASSUME NEW n \in 1 .. Bits
      PROVE  f[n] = f[n - 1] + IF n - 1 \in word THEN Pow2[n - 1] ELSE 0
  <2>1. f[n - 1] \in Nat
    BY <1>1, <1>2
  <2> QED
    BY <1>2, <2>1
<1>4. f = [n \in 0 .. Bits |-> f[n]]
  BY <1>2
<1>5. IsIt(f)
  <2>1. \A n \in 0 .. Bits :
          f[n] = IF n = 0 THEN 0 ELSE f[n - 1] + IF n - 1 \in word THEN Pow2[n - 1] ELSE 0
    BY <1>1, <1>2, <1>3
  <2> QED
    BY <1>4, <2>1
<1> DEFINE g == CHOOSE h : IsIt(h)
<1>6. Number(word) = g[Bits]
  BY DEF Number
<1> HIDE DEF IsIt
<1>7. IsIt(g)
  BY <1>5
<1> HIDE DEF g, T
<1>8. g = [n \in 0 .. Bits |-> IF n = 0 THEN 0
                               ELSE g[n - 1] + IF n - 1 \in word THEN Pow2[n - 1] ELSE 0]
  BY <1>7 DEF IsIt
<1>9. /\ g[0] = 0
      /\ \A n \in 1 .. Bits : g[n] = g[n - 1] + IF n - 1 \in word THEN Pow2[n - 1] ELSE 0
  BY <1>1, <1>8
<1>10. ASSUME NEW n \in 0 .. Bits - 1
       PROVE  g[n + 1] = g[n] + IF n \in word THEN Pow2[n] ELSE 0
  <2>1. n + 1 \in 1 .. Bits /\ (n + 1) - 1 = n
    BY <1>1
  <2> QED
    BY <1>9, <2>1
<1> DEFINE M == {n \in Nat : n <= Bits => g[n] \in Nat}
<1>11. 0 \in M
  BY <1>9
<1>12. ASSUME NEW n \in Nat, n \in M PROVE n + 1 \in M
  <2> SUFFICES ASSUME n + 1 <= Bits PROVE g[n + 1] \in Nat
    OBVIOUS
  <2>1. n \in 0 .. Bits - 1 /\ g[n] \in Nat /\ Pow2[n] \in Nat
    BY <1>1, <1>12, PowPositive
  <2> QED
    BY <1>10, <2>1
<1>13. \A n \in Nat : n \in M
  BY <1>11, <1>12, NaturalsReached
<1>14. g \in [0 .. Bits -> Nat]
  BY <1>1, <1>8, <1>13, SMTT(30)
<1> QED
  BY <1>6, <1>9, <1>10, <1>14 DEF Sums

\* A word that is zero from one place on is added up when that place is reached.
LEMMA SumsEnd ==
  ASSUME NEW m \in 0 .. Bits, NEW word \in SUBSET (0 .. m - 1), NEW f \in Sums(word)
  PROVE  Number(word) = f[m]
<1>1. /\ f \in [0 .. Bits -> Nat] /\ Number(word) = f[Bits]
      /\ \A n \in 0 .. Bits - 1 : f[n + 1] = f[n] + IF n \in word THEN Pow2[n] ELSE 0
  BY DEF Sums
<1>2. Bits \in Nat /\ m \in Nat /\ m <= Bits
  BY BitsType
<1> DEFINE High == {n \in Nat : m + n <= Bits => f[m + n] = f[m]}
<1>3. 0 \in High
  BY <1>2
<1>4. ASSUME NEW n \in Nat, n \in High PROVE n + 1 \in High
  <2> SUFFICES ASSUME m + (n + 1) <= Bits PROVE f[m + (n + 1)] = f[m]
    OBVIOUS
  <2>1. m + n \in 0 .. Bits - 1 /\ (m + n) + 1 = m + (n + 1) /\ f[m + n] = f[m]
    BY <1>2, <1>4
  <2>2. m + n \notin word
    BY <1>2
  <2>3. f[(m + n) + 1] = f[m + n] + 0
    BY <1>1, <2>1, <2>2
  <2>4. f[m + n] \in Nat
    BY <1>1, <2>1
  <2> QED
    BY <2>1, <2>3, <2>4
<1>5. \A n \in Nat : n \in High
  BY <1>3, <1>4, NaturalsReached
<1>6. Bits - m \in Nat /\ m + (Bits - m) = Bits
  BY <1>2
<1>7. f[m + (Bits - m)] = f[m]
  <2>1. Bits - m \in High
    BY <1>5, <1>6
  <2> QED
    BY <1>2, <1>6, <2>1
<1> QED
  BY <1>1, <1>6, <1>7

\* The bits below one place add up to the remainder.
LEMMA MaskedIs ==
  ASSUME NEW c \in Nat, NEW m \in 0 .. Bits
  PROVE  Number(Word(c) \intersect (0 .. m - 1)) = c % Pow2[m]
<1> DEFINE word == Word(c) \intersect (0 .. m - 1)
<1>1. PICK f \in Sums(word) : TRUE
  BY SumExists
<1>2. /\ f \in [0 .. Bits -> Nat] /\ f[0] = 0 /\ Number(word) = f[Bits]
      /\ \A n \in 0 .. Bits - 1 : f[n + 1] = f[n] + IF n \in word THEN Pow2[n] ELSE 0
  BY <1>1 DEF Sums
<1>3. Bits \in Nat /\ m \in Nat /\ m <= Bits
  BY BitsType
<1> DEFINE Low == {n \in Nat : n <= m => f[n] = c % Pow2[n]}
<1>4. 0 \in Low
  BY <1>2, PowSteps
<1>5. ASSUME NEW n \in Nat, n \in Low PROVE n + 1 \in Low
  <2> SUFFICES ASSUME n + 1 <= m PROVE f[n + 1] = c % Pow2[n + 1]
    OBVIOUS
  <2> DEFINE d == Pow2[n]
             q == c \div d
             r == c % d
             h == q \div 2
             b == q % 2
  <2>1. n \in 0 .. Bits - 1 /\ n \in 0 .. m - 1 /\ f[n] = r
    BY <1>3, <1>5
  <2>2. d \in Nat \ {0} /\ Pow2[n + 1] = 2 * d
    BY <1>3, <2>1, PowPositive, PowNext
  <2> HIDE DEF d
  <2>3. q \in Nat /\ r \in 0 .. d - 1 /\ c = d * q + r
    BY <2>2, DivMod
  <2> HIDE DEF q, r
  <2>4. h \in Nat /\ b \in {0, 1} /\ q = 2 * h + b
    BY <2>3
  <2>5. f[n + 1] = r + IF b = 1 THEN d ELSE 0
    <3>1. n \in word <=> b = 1
      BY <2>1 DEF Word, d, q
    <3> QED
      BY <1>2, <2>1, <3>1 DEF d
  <2> HIDE DEF h, b
  <2> DEFINE s == r + IF b = 1 THEN d ELSE 0
             D == 2 * d
  <2>6. s \in 0 .. D - 1 /\ D \in Nat \ {0}
    BY <2>2, <2>3, <2>4
  <2>7. c = D * h + s
    <3>1. d * q = (2 * d) * h + d * b
      BY <2>2, <2>3, <2>4
    <3>2. d * b = IF b = 1 THEN d ELSE 0
      BY <2>2, <2>4
    <3> QED
      BY <2>2, <2>3, <2>4, <3>1, <3>2
  <2>8. Pow2[n + 1] = D /\ f[n + 1] = s
    BY <2>2, <2>5
  <2> HIDE DEF s, D
  <2>9. (D * h + s) % D = s
    BY <2>4, <2>6, DivUnique
  <2> QED
    BY <2>7, <2>8, <2>9
<1>6. \A n \in Nat : n \in Low
  BY <1>4, <1>5, NaturalsReached
<1>7. f[m] = c % Pow2[m] /\ Number(word) = f[m]
  <2>1. word \in SUBSET (0 .. m - 1)
    OBVIOUS
  <2> QED
    BY <1>1, <1>3, <1>6, <2>1, SumsEnd
<1> QED
  BY <1>7

\* All bits below one place add up to one less than the power of that place.
LEMMA AllOnes ==
  ASSUME NEW m \in 0 .. Bits
  PROVE  Number(0 .. m - 1) = Pow2[m] - 1
<1> DEFINE word == 0 .. m - 1
<1>1. PICK f \in Sums(word) : TRUE
  BY SumExists
<1>2. /\ f \in [0 .. Bits -> Nat] /\ f[0] = 0 /\ Number(word) = f[Bits]
      /\ \A n \in 0 .. Bits - 1 : f[n + 1] = f[n] + IF n \in word THEN Pow2[n] ELSE 0
  BY <1>1 DEF Sums
<1>3. Bits \in Nat /\ m \in Nat /\ m <= Bits
  BY BitsType
<1> DEFINE Low == {n \in Nat : n <= m => f[n] = Pow2[n] - 1}
<1>4. 0 \in Low
  BY <1>2, PowSteps
<1>5. ASSUME NEW n \in Nat, n \in Low PROVE n + 1 \in Low
  <2> SUFFICES ASSUME n + 1 <= m PROVE f[n + 1] = Pow2[n + 1] - 1
    OBVIOUS
  <2>1. n \in 0 .. Bits - 1 /\ n \in word /\ f[n] = Pow2[n] - 1 /\ n < Bits
    BY <1>3, <1>5
  <2>2. Pow2[n] \in Nat /\ Pow2[n + 1] = 2 * Pow2[n]
    BY <2>1, PowNext
  <2>3. f[n + 1] = f[n] + Pow2[n]
    BY <1>2, <2>1
  <2> QED
    BY <2>1, <2>2, <2>3
<1>6. \A n \in Nat : n \in Low
  BY <1>4, <1>5, NaturalsReached
<1>7. f[m] = Pow2[m] - 1 /\ Number(word) = f[m]
  <2>1. word \in SUBSET (0 .. m - 1)
    OBVIOUS
  <2> QED
    BY <1>1, <1>3, <1>6, <2>1, SumsEnd
<1> QED
  BY <1>7

\* Counting on and wrapping at a multiple of d is counting round d numbers.
LEMMA NextRemainder ==
  ASSUME NEW d \in Nat \ {0}, NEW k \in Nat \ {0}, NEW D, D = k * d, NEW c \in 0 .. D - 1
  PROVE  ((c + 1) % D) % d = IF c % d = d - 1 THEN 0 ELSE (c % d) + 1
<1> DEFINE q == c \div d
           r == c % d
           n == (c + 1) % D
<1>1. D \in Nat \ {0} /\ c \in Nat /\ c < D
  OBVIOUS
<1>2. q \in Nat /\ r \in 0 .. d - 1 /\ c = d * q + r
  BY <1>1, DivMod
<1>3. CASE c + 1 = D
  <2>1. 0 \in 0 .. D - 1 /\ c + 1 = D * 1 + 0 /\ (D * 1 + 0) % D = 0
    BY <1>1, <1>3, DivUnique
  <2>2. n = 0
    BY <2>1
  <2>3. 0 % d = 0
    <3>1. (d * 0 + 0) % d = 0
      BY DivUnique
    <3> QED
      BY <3>1
  <2>4. r = d - 1
    <3>1. c = d * (k - 1) + (d - 1) /\ k - 1 \in Nat /\ d - 1 \in 0 .. d - 1
      BY <1>1, <1>3
    <3>2. (d * (k - 1) + (d - 1)) % d = d - 1
      BY <3>1, DivUnique
    <3> QED
      BY <3>1, <3>2
  <2> QED
    BY <2>2, <2>3, <2>4
<1>4. CASE c + 1 # D
  <2>1. c + 1 \in 0 .. D - 1 /\ c + 1 = D * 0 + (c + 1) /\ (D * 0 + (c + 1)) % D = c + 1
    BY <1>1, <1>4, DivUnique
  <2>2. n = c + 1
    BY <2>1
  <2> HIDE DEF q, r, n
  <2>3. CASE r = d - 1
    <3>1. c + 1 = d * (q + 1) + 0 /\ q + 1 \in Nat /\ 0 \in 0 .. d - 1
      BY <1>2, <2>3
    <3>2. (d * (q + 1) + 0) % d = 0
      BY <3>1, DivUnique
    <3> QED
      BY <2>2, <2>3, <3>1, <3>2 DEF n, r
  <2>4. CASE r # d - 1
    <3>1. c + 1 = d * q + (r + 1) /\ r + 1 \in 0 .. d - 1
      BY <1>2, <2>4
    <3>2. (d * q + (r + 1)) % d = r + 1
      BY <1>2, <3>1, DivUnique
    <3> QED
      BY <2>2, <2>4, <3>1, <3>2 DEF n, r
  <2> QED
    BY <2>3, <2>4
<1> QED
  BY <1>3, <1>4
-----------------------------------------------------------------------------
(* The constructor's mask.                                                 *)

\* A number has a highest bit.
LEMMA TopBit ==
  ASSUME NEW x \in Nat, 0 < x, NEW n \in 0 .. Bits, x < Pow2[n]
  PROVE  \E t \in 0 .. n - 1 : Pow2[t] <= x /\ x < Pow2[t + 1]
<1> DEFINE M == {k \in Nat : k <= Bits /\ x < Pow2[k] =>
                   \E t \in 0 .. k - 1 : Pow2[t] <= x /\ x < Pow2[t + 1]}
<1>1. 0 \in M
  BY PowSteps
<1>2. ASSUME NEW k \in Nat, k \in M PROVE k + 1 \in M
  <2> SUFFICES ASSUME k + 1 <= Bits, x < Pow2[k + 1]
               PROVE  \E t \in 0 .. k : Pow2[t] <= x /\ x < Pow2[t + 1]
    OBVIOUS
  <2>1. k \in 0 .. Bits /\ Pow2[k] \in Nat
    BY BitsType, PowPositive
  <2>2. CASE Pow2[k] <= x
    BY <2>2
  <2>3. CASE ~(Pow2[k] <= x)
    <3>1. x < Pow2[k] /\ k <= Bits
      BY <2>1, <2>3, BitsType
    <3>2. PICK t \in 0 .. k - 1 : Pow2[t] <= x /\ x < Pow2[t + 1]
      BY <1>2, <3>1
    <3>3. t \in 0 .. k
      OBVIOUS
    <3> QED
      BY <3>2, <3>3
  <2> QED
    BY <2>2, <2>3
<1>3. \A k \in Nat : k \in M
  BY <1>1, <1>2, NaturalsReached
<1> QED
  BY <1>3, BitsType

LEMMA WordOf ==
  ASSUME NEW x \in Nat, NEW t \in 0 .. Bits - 1, Pow2[t] <= x, x < Pow2[t + 1]
  PROVE  t \in Word(x) /\ \A i \in Word(x) : i <= t
<1>1. Bits \in Nat /\ t \in Nat /\ t + 1 \in 0 .. Bits
  BY BitsType
<1>2. t \in Word(x)
  <2> DEFINE d == Pow2[t]
             r == x - d
  <2>1. d \in Nat \ {0} /\ Pow2[t + 1] = 2 * d
    BY <1>1, PowPositive, PowNext
  <2>2. r \in 0 .. d - 1 /\ x = d * 1 + r
    BY <2>1
  <2> HIDE DEF d, r
  <2>3. (d * 1 + r) \div d = 1
    BY <2>1, <2>2, DivUnique
  <2>4. (x \div d) % 2 = 1
    BY <2>2, <2>3
  <2> QED
    BY <2>4 DEF Word, d
<1>3. ASSUME NEW i \in Word(x), i > t PROVE FALSE
  <2> DEFINE d == Pow2[i]
  <2>1. i \in t + 1 .. Bits /\ i \in 0 .. Bits /\ (x \div d) % 2 = 1
    BY <1>1, <1>3 DEF Word
  <2>2. Pow2[t + 1] <= d /\ d \in Nat \ {0} /\ Pow2[t + 1] \in Nat
    BY <1>1, <2>1, PowGrows, PowPositive
  <2>3. x \in 0 .. d - 1 /\ x = d * 0 + x
    BY <2>2
  <2> HIDE DEF d
  <2>4. (d * 0 + x) \div d = 0
    BY <2>2, <2>3, DivUnique
  <2> QED
    BY <2>1, <2>3, <2>4
<1>4. \A i \in Word(x) : i \in Nat
  BY DEF Word
<1> QED
  BY <1>1, <1>2, <1>3, <1>4

\* After n shifts every bit is set that is less than 2^n below one of cap - 1.
Below(word, by) == {j \in 0 .. Bits - 1 : \E b \in word : j <= b /\ b < j + by}

LEMMA SmearGrows ==
  ASSUME NEW word \in SUBSET (0 .. Bits - 1), NEW by \in Nat
  PROVE  Smeared(Below(word, by), by) = Below(word, 2 * by)
<1>1. Bits \in Nat /\ \A b \in word : b \in 0 .. Bits - 1
  BY BitsType
<1>2. ASSUME NEW j \in 0 .. Bits - 1
      PROVE  j \in Smeared(Below(word, by), by) <=> j \in Below(word, 2 * by)
  <2>1. j \in Smeared(Below(word, by), by)
          <=> \/ \E b \in word : j <= b /\ b < j + by
              \/ j + by <= Bits - 1 /\ \E b \in word : j + by <= b /\ b < (j + by) + by
    BY <1>1 DEF Smeared, ShiftRight, Below
  <2>2. ASSUME NEW b \in word, j <= b, b < j + by PROVE j \in Below(word, 2 * by)
    BY <1>1, <2>2 DEF Below
  <2>3. ASSUME NEW b \in word, j + by <= b, b < (j + by) + by PROVE j \in Below(word, 2 * by)
    BY <1>1, <2>3 DEF Below
  <2>4. ASSUME NEW b \in word, j <= b, b < j + 2 * by
        PROVE  b < j + by \/ (j + by <= Bits - 1 /\ j + by <= b /\ b < (j + by) + by)
    BY <1>1, <2>4
  <2> QED
    BY <2>1, <2>2, <2>3, <2>4 DEF Below
<1>3. /\ Smeared(Below(word, by), by) \subseteq 0 .. Bits - 1
      /\ Below(word, 2 * by) \subseteq 0 .. Bits - 1
  BY DEF Smeared, ShiftRight, Below
<1> QED
  BY <1>2, <1>3

LEMMA ShiftsType == Shifts \in 0 .. Bits /\ Pow2[Shifts] = Bits
<1>1. /\ Pow2[0] = 1 /\ Pow2[1] = 2 * Pow2[0] /\ Pow2[2] = 2 * Pow2[1] /\ Pow2[3] = 2 * Pow2[2]
  BY PowSteps, BitsType
<1>2. /\ Pow2[4] = 2 * Pow2[3] /\ Pow2[5] = 2 * Pow2[4] /\ Pow2[6] = 2 * Pow2[5]
  BY PowSteps, BitsType
<1>3. Pow2[3] = 8 /\ Pow2[4] = 16 /\ Pow2[5] = 32 /\ Pow2[6] = 64
  BY <1>1, <1>2
<1>4. \E n \in 3 .. 6 : Pow2[n] = Bits
  BY <1>3, BitsType
<1>5. Shifts \in 3 .. 6 /\ Pow2[Shifts] = Bits
  BY <1>4 DEF Shifts
<1> QED
  BY <1>5, BitsType

\* The whole loop sets all the bits below the highest one.
LEMMA MaskBelow ==
  ASSUME NEW cap \in Nat
  PROVE  Mask(cap) = Below(Decremented(cap), Bits)
<1> DEFINE word == Decremented(cap)
           Words == SUBSET (0 .. Bits - 1)
           T == [n \in 1 .. Shifts |-> [w \in Words |-> Smeared(w, Pow2[n - 1])]]
           IsIt(f) == f = [n \in 0 .. Shifts |-> IF n = 0 THEN Decremented(cap)
                                                 ELSE Smeared(f[n - 1], Pow2[n - 1])]
<1>1. Bits \in Nat /\ Shifts \in Nat /\ Shifts <= Bits /\ word \in Words
  BY BitsType, ShiftsType DEF Decremented, Word
<1>2. ASSUME NEW w \in Words, NEW by PROVE Smeared(w, by) \in Words
  BY DEF Smeared, ShiftRight
<1>3. PICK f \in [0 .. Shifts -> Words] :
        f[0] = word /\ \A n \in 1 .. Shifts : f[n] = T[n][f[n - 1]]
  <2>1. T \in [1 .. Shifts -> [Words -> Words]]
    BY <1>2
  <2> HIDE DEF T, Words, word
  <2>2. Steps(Words, word, Shifts, T) # {}
    BY <1>1, <2>1, StepsExist
  <2> QED
    BY <2>2 DEF Steps
<1>4. ASSUME NEW n \in 1 .. Shifts PROVE f[n] = Smeared(f[n - 1], Pow2[n - 1])
  <2>1. f[n - 1] \in Words
    BY <1>1, <1>3
  <2> HIDE DEF Words
  <2>2. T[n][f[n - 1]] = Smeared(f[n - 1], Pow2[n - 1])
    BY <2>1
  <2> QED
    BY <1>3, <2>2
<1>5. IsIt(f)
  <2>1. \A n \in 0 .. Shifts :
          f[n] = IF n = 0 THEN Decremented(cap) ELSE Smeared(f[n - 1], Pow2[n - 1])
    BY <1>1, <1>3, <1>4
  <2>2. f = [n \in 0 .. Shifts |-> f[n]]
    BY <1>3
  <2> QED
    BY <2>1, <2>2
<1> DEFINE g == CHOOSE h : IsIt(h)
<1>6. Mask(cap) = g[Shifts]
  BY DEF Mask
<1> HIDE DEF IsIt
<1>7. IsIt(g)
  BY <1>5
<1> HIDE DEF g
<1>8. g = [n \in 0 .. Shifts |-> IF n = 0 THEN word ELSE Smeared(g[n - 1], Pow2[n - 1])]
  BY <1>7 DEF IsIt
<1> HIDE DEF T, word
<1>9. g[0] = word /\ \A n \in 1 .. Shifts : g[n] = Smeared(g[n - 1], Pow2[n - 1])
  BY <1>1, <1>8
<1> DEFINE M == {n \in Nat : n <= Shifts => g[n] = Below(word, Pow2[n])}
<1>10. 0 \in M
  <2>1. ASSUME NEW j \in 0 .. Bits - 1 PROVE j \in word <=> \E b \in word : j <= b /\ b < j + 1
    BY <1>1
  <2>2. Below(word, 1) = word
    BY <1>1, <2>1 DEF Below
  <2> QED
    BY <1>9, <2>2, PowSteps
<1>11. ASSUME NEW n \in Nat, n \in M PROVE n + 1 \in M
  <2> SUFFICES ASSUME n + 1 <= Shifts PROVE g[n + 1] = Below(word, Pow2[n + 1])
    OBVIOUS
  <2>1. n + 1 \in 1 .. Shifts /\ (n + 1) - 1 = n /\ n < Bits /\ g[n] = Below(word, Pow2[n])
    BY <1>1, <1>11
  <2>2. Pow2[n] \in Nat /\ Pow2[n + 1] = 2 * Pow2[n]
    BY <2>1, PowNext
  <2>3. g[n + 1] = Smeared(Below(word, Pow2[n]), Pow2[n])
    BY <1>9, <2>1
  <2> QED
    BY <1>1, <2>2, <2>3, SmearGrows
<1>12. \A n \in Nat : n \in M
  BY <1>10, <1>11, NaturalsReached
<1>13. g[Shifts] = Below(word, Pow2[Shifts])
  BY <1>1, <1>12
<1> QED
  BY <1>6, <1>13, ShiftsType DEF word

\* The mask is the bits below the least power of two that holds the capacity.
LEMMA MaskIs ==
  ASSUME NEW cap \in 1 .. Pow2[Bits - 1]
  PROVE  \E m \in 0 .. Bits - 1 : /\ Mask(cap) = 0 .. m - 1
                                  /\ cap <= Pow2[m] /\ (m > 0 => Pow2[m] < 2 * cap)
<1> DEFINE x == cap - 1
           word == Decremented(cap)
<1>0. Bits \in Nat \ {0} /\ Bits - 1 \in 0 .. Bits /\ Pow2[Bits - 1] \in Nat
  BY BitsType, PowPositive
<1>1. cap \in Nat /\ x \in Nat /\ x < Pow2[Bits - 1] /\ word = Word(x)
  BY <1>0 DEF Decremented
<1>2. Mask(cap) = Below(word, Bits)
  BY <1>1, MaskBelow
<1>3. CASE x = 0
  <2>1. word = {}
    <3> SUFFICES ASSUME NEW i \in 0 .. Bits - 1, (x \div Pow2[i]) % 2 = 1 PROVE FALSE
      BY <1>1 DEF Word
    <3> DEFINE d == Pow2[i]
    <3>1. d \in Nat \ {0} /\ 0 \in 0 .. d - 1 /\ x = d * 0 + 0
      BY <1>0, <1>3, PowPositive
    <3> HIDE DEF d
    <3>2. (d * 0 + 0) \div d = 0
      BY <3>1, DivUnique
    <3>3. (x \div d) % 2 = 0
      BY <3>1, <3>2
    <3> QED
      BY <3>3 DEF d
  <2>2. Mask(cap) = 0 .. 0 - 1
    BY <1>2, <2>1 DEF Below
  <2>3. cap <= Pow2[0] /\ 0 \in 0 .. Bits - 1
    BY <1>0, <1>3, PowSteps
  <2> QED
    BY <2>2, <2>3
<1>4. CASE x > 0
  <2>1. PICK t \in 0 .. (Bits - 1) - 1 : Pow2[t] <= x /\ x < Pow2[t + 1]
    BY <1>0, <1>1, <1>4, TopBit
  <2>2. t \in 0 .. Bits - 1 /\ t \in Nat /\ t + 1 \in 0 .. Bits - 1 /\ t < Bits
    BY <1>0
  <2>3. t \in word /\ \A i \in word : i <= t
    BY <1>1, <2>1, <2>2, WordOf
  <2>4. \A j \in 0 .. Bits - 1 : j \in Below(word, Bits) <=> j <= t
    <3>1. word \subseteq 0 .. Bits - 1
      BY <1>1 DEF Word
    <3> HIDE DEF word
    <3>2. ASSUME NEW j \in 0 .. Bits - 1, j <= t PROVE j \in Below(word, Bits)
      BY <1>0, <2>2, <2>3, <3>2 DEF Below
    <3>3. ASSUME NEW j \in 0 .. Bits - 1, j \in Below(word, Bits) PROVE j <= t
      BY <1>0, <2>2, <2>3, <3>1, <3>3 DEF Below
    <3> QED
      BY <3>2, <3>3
  <2>5. Mask(cap) = 0 .. (t + 1) - 1
    <3>1. Below(word, Bits) \subseteq 0 .. Bits - 1
      BY DEF Below
    <3>2. 0 .. (t + 1) - 1 \subseteq 0 .. Bits - 1
      BY <1>0, <2>2
    <3>3. \A j \in 0 .. Bits - 1 : j \in 0 .. (t + 1) - 1 <=> j <= t
      BY <1>0, <2>2
    <3> QED
      BY <1>2, <2>4, <3>1, <3>2, <3>3
  <2>6. cap <= Pow2[t + 1] /\ Pow2[t + 1] < 2 * cap
    <3>1. Pow2[t] \in Nat /\ Pow2[t + 1] \in Nat /\ Pow2[t + 1] = 2 * Pow2[t]
      BY <2>2, PowNext
    <3> QED
      BY <1>1, <2>1, <3>1
  <2> QED
    BY <2>2, <2>5, <2>6
<1> QED
  BY <1>1, <1>3, <1>4

\* The cells that are allocated are the least power of two that holds the
\* capacity, and a counter of the word's width, masked, walks round them from
\* every value it can have: for words of any size the build can choose.
THEOREM MaskCorrect ==
  \A cap \in 1 .. Pow2[Bits - 1] :
    /\ LeastPower(CellsOf(Mask(cap)), cap)
    /\ \A c \in 0 .. Pow2[Bits] - 1 : WalksOn(c, Mask(cap))
<1> SUFFICES ASSUME NEW cap \in 1 .. Pow2[Bits - 1]
             PROVE  /\ LeastPower(CellsOf(Mask(cap)), cap)
                    /\ \A c \in 0 .. Pow2[Bits] - 1 : WalksOn(c, Mask(cap))
  OBVIOUS
<1>1. PICK m \in 0 .. Bits - 1 : /\ Mask(cap) = 0 .. m - 1
                                 /\ cap <= Pow2[m] /\ (m > 0 => Pow2[m] < 2 * cap)
  BY MaskIs
<1> DEFINE d == Pow2[m]
           D == Pow2[Bits]
<1>2. /\ Bits \in Nat \ {0} /\ m \in 0 .. Bits /\ m \in Nat /\ d \in Nat \ {0} /\ D \in Nat \ {0}
      /\ Bits - 1 \in 0 .. Bits /\ Bits \in m .. Bits /\ cap \in Nat
  BY BitsType, PowPositive
<1>3. Number(Mask(cap)) = d - 1
  BY <1>1, <1>2, AllOnes
<1>4. \A c \in Nat : Masked(c, Mask(cap)) = c % d
  BY <1>1, <1>2, MaskedIs DEF Masked
<1>5. LeastPower(CellsOf(Mask(cap)), cap)
  <2>1. CellsOf(Mask(cap)) = d
    BY <1>2, <1>3 DEF CellsOf
  <2>2. m = 0 => d = 1
    BY PowSteps
  <2> QED
    BY <1>1, <1>2, <2>1, <2>2 DEF LeastPower
<1>6. ASSUME NEW c \in 0 .. D - 1 PROVE WalksOn(c, Mask(cap))
  <2> DEFINE n == (c + 1) % D
  <2>1. c \in Nat /\ n \in Nat
    BY <1>2
  <2>2. PICK k \in Nat \ {0} : D = k * d
    BY <1>2, PowDivides
  <2> HIDE DEF d, D
  <2>3. n % d = IF c % d = d - 1 THEN 0 ELSE (c % d) + 1
    BY <1>2, <2>1, <2>2, NextRemainder, ZenonT(60)
  <2>4. Masked(n, Mask(cap)) = n % d /\ Masked(c, Mask(cap)) = c % d
    BY <1>4, <2>1
  <2> QED
    BY <1>3, <2>3, <2>4 DEF WalksOn, D
<1> QED
  BY <1>5, <1>6 DEF D

\* The bounded statement of module RingMask, for every bound and every width.
LEMMA MaskAlwaysFits == MaskFits
<1> SUFFICES ASSUME NEW cap \in 1 .. MaxCap
             PROVE  /\ LeastPower(CellsOf(Mask(cap)), cap)
                    /\ \A c \in {0, cap - 1, cap, Number(Mask(cap)), Pow2[Bits] - 1} :
                         WalksOn(c, Mask(cap))
  BY DEF MaskFits
<1>1. /\ Bits - 1 \in Nat /\ (Bits - 1) + 1 = Bits /\ Bits - 1 < Bits /\ Bits - 1 \in 0 .. Bits
      /\ Bits \in 0 .. Bits
  BY BitsType
<1>2. /\ Pow2[Bits - 1] \in Nat \ {0} /\ Pow2[Bits] \in Nat /\ Pow2[Bits] = 2 * Pow2[Bits - 1]
  BY <1>1, PowNext, PowPositive
<1>3. cap \in 1 .. Pow2[Bits - 1]
  BY <1>2, MaskAssumption
<1>4. PICK m \in 0 .. Bits - 1 : Mask(cap) = 0 .. m - 1
  BY <1>3, MaskIs
<1>5. Number(Mask(cap)) \in 0 .. Pow2[Bits] - 1
  <2>1. m \in 0 .. Bits /\ Bits \in m .. Bits
    BY <1>1
  <2>2. Pow2[m] \in Nat \ {0} /\ Pow2[m] <= Pow2[Bits] /\ Number(0 .. m - 1) = Pow2[m] - 1
    BY <2>1, PowPositive, PowGrows, AllOnes
  <2> QED
    BY <1>2, <1>4, <2>2
<1>6. /\ 0 \in 0 .. Pow2[Bits] - 1 /\ Pow2[Bits] - 1 \in 0 .. Pow2[Bits] - 1
      /\ cap - 1 \in 0 .. Pow2[Bits] - 1 /\ cap \in 0 .. Pow2[Bits] - 1
  BY <1>2, <1>3
<1> QED
  BY <1>3, <1>5, <1>6, MaskCorrect

\* The cursors of the model, which hold masked indices, step exactly as the
\* masked counters nextSlot++ & mask and nextItem++ & mask of the code do, for
\* every capacity the constructor can round up and the cells it allocates.
THEOREM RingFitsCorrect ==
  ASSUME Capacity <= Pow2[Bits - 1], Cells = CellsOf(Mask(Capacity))
  PROVE  Spec => []RingFits
<1>1. Capacity \in 1 .. Pow2[Bits - 1]
  BY RingAssumption, BitsType, PowPositive
<1>2. PICK m \in 0 .. Bits - 1 : Mask(Capacity) = 0 .. m - 1
  BY <1>1, MaskIs
<1>3. m \in 0 .. Bits /\ Pow2[m] \in Nat \ {0} /\ Number(0 .. m - 1) = Pow2[m] - 1
  BY BitsType, PowPositive, AllOnes
<1>4. Cells = Pow2[m]
  BY <1>2, <1>3 DEF CellsOf
<1>5. ASSUME NEW i \in Idx PROVE Advance(i) = Masked(i + 1, Mask(Capacity))
  <2> DEFINE d == Pow2[m]
  <2>1. i \in Nat /\ i < d
    BY <1>3, <1>4 DEF Idx
  <2>2. Masked(i + 1, Mask(Capacity)) = (i + 1) % d
    BY <1>2, <1>3, <2>1, MaskedIs DEF Masked
  <2>3. d \in Nat \ {0} /\ Advance(i) = IF i + 1 < d THEN i + 1 ELSE 0
    BY <1>3, <1>4, <2>1 DEF Advance, Wrap
  <2> HIDE DEF d
  <2>4. CASE i + 1 < d
    <3>1. i + 1 \in 0 .. d - 1 /\ d * 0 + (i + 1) = i + 1
      BY <2>1, <2>3, <2>4
    <3>2. (d * 0 + (i + 1)) % d = i + 1
      BY <2>3, <3>1, DivUnique
    <3> QED
      BY <2>2, <2>3, <2>4, <3>1, <3>2
  <2>5. CASE i + 1 = d
    <3>1. 0 \in 0 .. d - 1 /\ d * 1 + 0 = i + 1
      BY <2>1, <2>3, <2>5
    <3>2. (d * 1 + 0) % d = 0
      BY <2>3, <3>1, DivUnique
    <3> QED
      BY <2>2, <2>3, <2>5, <3>1, <3>2
  <2> QED
    BY <2>1, <2>3, <2>4, <2>5
<1>6. IInv => RingFits
  BY <1>5, MaskAlwaysFits DEF RingFits, IInv, TypeOK
<1> QED
  BY <1>6, Invariance, PTL
=============================================================================
