------------------------ MODULE MCServerEventStream ------------------------
(***************************************************************************)
(* Instances of ServerEventStream for TLC: two clients one after or beside *)
(* the other, and the stream that waits for the next.                      *)
(***************************************************************************)
EXTENDS ServerEventStream

CONSTANTS s1, s2, s3

ThreeStreams == {s1, s2, s3}
=============================================================================
