---------------------------- MODULE MCGrpcClient ----------------------------
(***************************************************************************)
(* Five calls over none to three contexts, with a counter of two bits: the *)
(* last call comes after an overflow.                                      *)
(***************************************************************************)
EXTENDS GrpcClient
=============================================================================
