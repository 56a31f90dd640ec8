------------------------------ MODULE MCTopic -------------------------------
(***************************************************************************)
(* One topic on a small instance: a buffer that overflows, recoveries that *)
(* fill it and that do not, subscribers that ask for evicted, retained and *)
(* future numbers.                                                         *)
(***************************************************************************)
EXTENDS Topic
=============================================================================
