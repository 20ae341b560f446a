---------------------------- MODULE MCServerStop ----------------------------
(***************************************************************************)
(* Instances of ServerStop for TLC: two clients, the stream that waits for *)
(* the next, and a unary call with its successor.  The unborn streams and  *)
(* handlers are alike, so it does not matter which one start() creates nor *)
(* which one succeeds it.                                                  *)
(***************************************************************************)
EXTENDS ServerStop

CONSTANTS s1, s2, s3, h1, h2

ThreeStreams == {s1, s2, s3}
TwoHandlers == {h1, h2}

InOrder ==
  /\ tag[s1] # "unborn" /\ unary[h1] # "unborn"
  /\ tag[s3] # "unborn" => tag[s2] # "unborn"
=============================================================================
