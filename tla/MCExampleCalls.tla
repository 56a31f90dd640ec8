--------------------------- MODULE MCExampleCalls ---------------------------
(***************************************************************************)
(* Two calls of any kind on a server of two contexts that is started once; *)
(* the thread of a stream sends two messages.                              *)
(***************************************************************************)
EXTENDS ExampleCalls

CONSTANTS x1, x2   \* calls, as model values
=============================================================================
