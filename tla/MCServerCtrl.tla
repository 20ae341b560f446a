---------------------------- MODULE MCServerCtrl ----------------------------
(***************************************************************************)
(* Instances of ServerCtrl for TLC.  Three instances can be constructed,   *)
(* destroyed and used at the same time; a server can be stopped, another   *)
(* created, and stopped again.                                             *)
(***************************************************************************)
EXTENDS ServerCtrl

CONSTANTS p1, p2, p3

TwoPlugins == {p1, p2}
ThreePlugins == {p1, p2, p3}
=============================================================================
