-------------------------- MODULE MCPubSubService ---------------------------
(***************************************************************************)
(* Two threads race to make a topic and to publish on it; the process dies *)
(* at most twice, and a buffer of one message overflows.                   *)
(***************************************************************************)
EXTENDS PubSubService, TLC

CONSTANTS c1, c2, n1, n2   \* callers and names, as model values

Symmetry == Permutations(Callers)
=============================================================================
