-------------------------------- MODULE Feed --------------------------------
(***************************************************************************)
(* What a topic promises its subscribers, without the buffer, the search   *)
(* in it, the callback table or the locks: a topic is a log numbered from  *)
(* 0, of which the messages below "end" have been published.  A            *)
(* subscription opened at number "first" has, as long as it is open,       *)
(* received exactly the slice first .. end-1, in order, each message once; *)
(* closed, it keeps a slice of the log and receives nothing more.          *)
(*                                                                         *)
(* Topic.tla implements this specification (Topic!FeedSpec).               *)
(***************************************************************************)
EXTENDS Integers, Sequences

VARIABLES end,      \* number of the next message
          first,    \* subscription -> its first number
          got,      \* subscription -> what it has received
          open      \* the subscriptions that receive

vars == <<end, first, got, open>>

Slice(lo, hi) == [i \in 1 .. hi - lo |-> lo + i - 1]

Opened == DOMAIN got

Init == end = 0 /\ first = << >> /\ got = << >> /\ open = {}

\* Before the first subscription the log may be restored from a copy.
Restore ==
    /\ end = 0 /\ Opened = {}
    /\ end' \in Nat
    /\ UNCHANGED <<first, got, open>>

Extend ==
    /\ end' = end + 1
    /\ got' = [s \in Opened |-> IF s \in open THEN Slice(first[s], end + 1)
                                ELSE got[s]]
    /\ UNCHANGED <<first, open>>

\* Some subscriptions close and some open in one step: a resubscription
\* leaves no message that neither or both receive.
Turn(closing, opening) ==
    /\ opening \cap Opened = {}
    /\ open' = (open \ closing) \cup opening
    /\ DOMAIN first' = Opened \cup opening
    /\ DOMAIN got' = Opened \cup opening
    /\ \A s \in Opened : first'[s] = first[s] /\ got'[s] = got[s]
    /\ \A s \in opening :
          first'[s] \in 0 .. end /\ got'[s] = Slice(first'[s], end)
    /\ UNCHANGED end

Next ==
    \/ Restore
    \/ Extend
    \/ \E closing \in SUBSET open, opening \in SUBSET DOMAIN got' :
          Turn(closing, opening)

Spec == Init /\ [][Next]_vars
=============================================================================
