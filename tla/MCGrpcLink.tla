------------------------------ MODULE MCGrpcLink ------------------------------
(***************************************************************************)
(* Small instances of GrpcLink, with buffers of one or two messages.       *)
(***************************************************************************)
EXTENDS GrpcLink

CONSTANTS r1, r2
===============================================================================
