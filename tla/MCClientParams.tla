--------------------------- MODULE MCClientParams ---------------------------
(***************************************************************************)
(* Small instances of ClientParams, and of the arithmetic and the tables   *)
(* the parameters rest on.                                                 *)
(***************************************************************************)
EXTENDS PluginParams

\* Stamps that are ordered against their nanoseconds.
TwoStamps == {<<0, 2>>, <<1, 1>>}
=============================================================================
