----------------------------- MODULE MCGenerator ----------------------------
(***************************************************************************)
(* Up to two services of one package.                                      *)
(***************************************************************************)
EXTENDS Generator

CONSTANTS v1, Example, Admin, GrpcClient   \* model values
=============================================================================
