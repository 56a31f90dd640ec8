-------------------------- MODULE MCGeneratedCalls --------------------------
(***************************************************************************)
(* Each of the five pairs, with room for two messages on their way.        *)
(***************************************************************************)
EXTENDS GeneratedCalls
=============================================================================
