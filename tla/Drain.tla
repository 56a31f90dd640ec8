-------------------------------- MODULE Drain -------------------------------
(***************************************************************************)
(* What every stop() of this code promises, whatever it waits for: once it *)
(* has returned, nothing it stands for is running and nothing begins until *)
(* the next start.  Until it returns, activities may still begin and end.  *)
(*                                                                         *)
(* GrpcServer, GrpcClient and the Notice calls of the example server       *)
(* implement it.                                                           *)
(***************************************************************************)
VARIABLES phase,    \* "on", "closing" or "off"
          active    \* the activities that have begun and not ended

vars == <<phase, active>>

Init == phase \in {"on", "off"} /\ active = {}

Open == phase = "off" /\ phase' = "on" /\ UNCHANGED active

Begin(a) ==
    /\ phase # "off" /\ a \notin active
    /\ active' = active \cup {a}
    /\ UNCHANGED phase

End(a) == a \in active /\ active' = active \ {a} /\ UNCHANGED phase

Close == phase = "on" /\ phase' = "closing" /\ UNCHANGED active

Finish ==
    /\ phase = "closing" /\ active = {}
    /\ phase' = "off"
    /\ UNCHANGED active

Next ==
    \/ Open \/ Close \/ Finish
    \/ (\E a \in active' : Begin(a)) \/ (\E a \in active : End(a))

Spec == Init /\ [][Next]_vars
=============================================================================
