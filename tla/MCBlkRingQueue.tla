--------------------------- MODULE MCBlkRingQueue ---------------------------
(***************************************************************************)
(* Instances of BlkRingQueue for TLC.  Three places in four cells, as      *)
(* BlkRingQueue<int> queue(3) of tests/auto/core/tst_blkqueue.cpp: the     *)
(* cursors wrap at a different point than the capacity.  RingMask is       *)
(* evaluated beside it.                                                    *)
(***************************************************************************)
EXTENDS RingMask

CONSTANTS v1, v2, v3

ThreeValues == {v1, v2, v3}
=============================================================================
