-------------------------- MODULE MCProcessHandle --------------------------
(* Small instances of ProcessHandle.                                       *)
EXTENDS ProcessHandle
=============================================================================
