---------------------------- MODULE MCSharedData ----------------------------
(***************************************************************************)
(* Instances of SharedData for TLC.  A queue of one place overflows with   *)
(* two events.                                                             *)
(***************************************************************************)
EXTENDS SharedData

CONSTANTS p1, p2, s1, s2, s3

OnePlugin == {p1}
TwoPlugins == {p1, p2}
TwoStreams == {s1, s2}
ThreeStreams == {s1, s2, s3}
=============================================================================
