--------------------------- MODULE MCNoticeStream ---------------------------
(***************************************************************************)
(* Instances of the Notice call: one stream that asks twice, for what its  *)
(* client sees; two streams and a notice, for what stop() leaves behind;   *)
(* two streams without notices and one stream with them, for the           *)
(* termination of stop().                                                  *)
(***************************************************************************)
EXTENDS NoticeStream

CONSTANTS s1, s2   \* the streams, as model values
=============================================================================
