------------------------------ MODULE RingMask ------------------------------
(***************************************************************************)
(* The constructor of BlkRingQueue (src/core/blkringqueue.h): how the mask *)
(* is computed from the requested capacity by smearing the top bit of      *)
(* cap - 1 over all lower bits, in words of Bytes bytes.  It justifies the *)
(* assumptions of module BlkRingQueue: the cells are at least as many as   *)
(* the capacity, and masking a counter that wraps at the width of the word *)
(* walks round the cells without skipping one.                             *)
(*                                                                         *)
(* What the code does bit by bit is done here on the set of a word's bits  *)
(* that are set, so that | is the union of two sets and & what they share. *)
(***************************************************************************)
EXTENDS BlkRingQueue

CONSTANTS Bytes,      \* sizeof(std::size_t)
          MaxCap      \* bound: the largest capacity explored

Bits == 8 * Bytes

Pow2 == LET power[n \in 0 .. Bits] == IF n = 0 THEN 1 ELSE 2 * power[n - 1] IN power

ASSUME MaskAssumption == Bytes \in {1, 2, 4, 8} /\ MaxCap \in 1 .. Pow2[Bits - 1]

\* The bits of a number and the number of these bits.
Word(x) == {i \in 0 .. Bits - 1 : (x \div Pow2[i]) % 2 = 1}

Number(word) ==
  LET sum[n \in 0 .. Bits] ==
        IF n = 0 THEN 0 ELSE sum[n - 1] + IF n - 1 \in word THEN Pow2[n - 1] ELSE 0
  IN  sum[Bits]

ShiftRight(word, by) == {i \in 0 .. Bits - 1 : i + by \in word}

-----------------------------------------------------------------------------
(* Seeded faults: plausible slips in the definitions below.                *)

SkipByOne(word, by) == IF by = 1 THEN word ELSE word \union ShiftRight(word, by)

-----------------------------------------------------------------------------
Decremented(cap) == Word(cap - 1)
Smeared(word, by) == word \union ShiftRight(word, by)

\* The three fixed shifts and then the loop over i << 3, by half a word at last.
Shifts == CHOOSE n \in 3 .. 6 : Pow2[n] = Bits

Mask(cap) ==
  LET smear[n \in 0 .. Shifts] ==
        IF n = 0 THEN Decremented(cap) ELSE Smeared(smear[n - 1], Pow2[n - 1])
  IN  smear[Shifts]

CellsOf(mask) == Number(mask) + 1
Masked(c, mask) == Number(Word(c) \intersect mask)

-----------------------------------------------------------------------------
(* Correctness.                                                            *)

\* The cells allocated are the least power of two that holds the capacity.
LeastPower(size, cap) ==
  /\ \E e \in 0 .. Bits - 1 : size = Pow2[e]
  /\ size >= cap
  /\ size > 1 => size < 2 * cap

\* nextSlot++ & mask steps to the next cell and from the last one to the
\* first, also where the counter itself wraps.
WalksOn(c, mask) ==
  Masked((c + 1) % Pow2[Bits], mask)
    = IF Masked(c, mask) = Number(mask) THEN 0 ELSE Masked(c, mask) + 1

\* For every capacity the constructor's bit trick allocates no more cells than
\* it has to, and a cursor of the word's width walks round them for ever.
MaskFits ==
  \A cap \in 1 .. MaxCap :
    /\ LeastPower(CellsOf(Mask(cap)), cap)
    /\ \A c \in {0, cap - 1, cap, Number(Mask(cap)), Pow2[Bits] - 1} : WalksOn(c, Mask(cap))

\* The cells the queue walks round are those its constructor allocates, both
\* cursors step as the masked counters of the code do, and the mask fits every
\* capacity and width of the word as it fits this one.
RingFits ==
  /\ Cells = CellsOf(Mask(Capacity))
  /\ \A i \in {nextSlot, nextItem} : Advance(i) = Masked(i + 1, Mask(Capacity))
  /\ MaskFits
=============================================================================
