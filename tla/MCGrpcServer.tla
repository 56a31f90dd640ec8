---------------------------- MODULE MCGrpcServer ----------------------------
(***************************************************************************)
(* Two contexts, three calls of two rpcs, and starts that fail and succeed.  *)
(***************************************************************************)
EXTENDS GrpcServer

CONSTANTS c1, c2, c3, notice, order   \* calls and rpcs, as model values
=============================================================================
