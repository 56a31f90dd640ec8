----------------------------- MODULE GrpcClient -----------------------------
(***************************************************************************)
(* The generated GrpcClient (grpc_client.hpp): contexts that a work guard  *)
(* keeps running, one thread for each, handlers that any thread of the     *)
(* program spawns on the context whose turn it is, and stop(), which       *)
(* resets the guards one after the other and joins.  The program passes    *)
(* what std::thread::hardware_concurrency() returns for the number of      *)
(* contexts, which may be 0 (example_client.cpp:115).                      *)
(*                                                                         *)
(* A GrpcContext is external: run() returns when the context has neither a *)
(* guard nor a coroutine, and what is spawned later never starts.  An      *)
(* integer division by zero is undefined and, as the processor traps it,   *)
(* taken for the end of the process.                                       *)
(***************************************************************************)
EXTENDS Integers, Sequences, FiniteSets, SequencesExt

CONSTANTS MaxThreads,   \* bound: contexts that a client may be made with
          Width,        \* of std::size_t in bits
          MaxCalls      \* bound: calls of the rpc methods

\* (That a power is a number is for the provers, which know nothing of powers.)
ASSUME ClientAssumption ==
    /\ MaxThreads \in Nat /\ Width \in Nat \ {0} /\ MaxCalls \in Nat
    /\ 2^Width \in Nat /\ MaxThreads < 2^Width

VARIABLES thread_count, \* of the constructor
          current,      \* current_ of the RoundRobin
          guard,        \* the contexts that are guarded
          m_threads,    \* whether each context's run() is "running" or "returned"
          call,         \* the calls made, each where it is and on which context
          main,         \* "up", "resetting", "joining" or "stopped"
          i,            \* index of the loop of stop()
          wraps,        \* history: how often current_ overflowed
          late,         \* history: the calls spawned after stop() began
          crashed       \* the process has died

stopVars == <<guard, m_threads, main, i>>
fixed == <<thread_count, crashed>>
vars == <<current, call, stopVars, wraps, late, fixed>>

Contexts == 1 .. thread_count

-----------------------------------------------------------------------------
(* The threads that call notice(), order() and the others.                 *)

\* One past the end.
PosPast == (current % (thread_count + 1)) + 1

\* The last context is never used.
PosShort == IF thread_count = 1 THEN 1 ELSE (current % (thread_count - 1)) + 1

\* The context that next() returns.
Pos == (current % thread_count) + 1

\* fetch_add, which is all that a caller shares with the others.
Pick ==
    /\ thread_count # 0 /\ Len(call) < MaxCalls
    /\ call' = Append(call, [st |-> "picked", at |-> Pos])
    /\ current' = (current + 1) % 2^Width
    /\ wraps' = wraps + (current + 1) \div 2^Width
    /\ UNCHANGED <<stopVars, late, fixed>>

\* next() of a client without contexts divides by zero.
PickNone ==
    /\ thread_count = 0 /\ Len(call) < MaxCalls
    /\ crashed' = TRUE
    /\ UNCHANGED <<current, call, stopVars, wraps, late, thread_count>>

Turn(x, from, to) ==
    /\ call[x].st = from
    /\ call' = [call EXCEPT ![x].st = to]
    /\ UNCHANGED <<current, stopVars, wraps, fixed>>

\* co_spawn queues the handler.
Spawn(x) ==
    /\ Turn(x, "picked", "queued")
    /\ late' = IF main = "up" THEN late ELSE late \cup {x}

-----------------------------------------------------------------------------
(* The threads of the client.                                              *)

OnContext(c) == {x \in DOMAIN call : call[x].at = c /\ call[x].st \in {"queued", "running"}}

Runs(c) == c \in DOMAIN m_threads /\ m_threads[c] = "running"

Begin(x) == Runs(call[x].at) /\ Turn(x, "queued", "running") /\ UNCHANGED late

\* The handler returns or throws, which is logged or, if it is no
\* std::exception, ignored by asio::detached.
End(x) == Runs(call[x].at) /\ Turn(x, "running", "done") /\ UNCHANGED late

RunReturns(c) ==
    /\ Runs(c) /\ c \notin guard /\ OnContext(c) = {}
    /\ m_threads' = [m_threads EXCEPT ![c] = "returned"]
    /\ UNCHANGED <<current, call, guard, main, i, wraps, late, fixed>>

-----------------------------------------------------------------------------
(* The constructor and stop(), which ~GrpcClient calls again.              *)

\* Contexts without a guard.
InitUnguarded ==
    /\ thread_count \in 0 .. MaxThreads /\ crashed = FALSE
    /\ current = 0 /\ guard = {} /\ m_threads = [c \in Contexts |-> "running"]
    /\ call = << >> /\ main = "up" /\ i = 1 /\ wraps = 0 /\ late = {}

Init ==
    /\ thread_count \in 0 .. MaxThreads /\ crashed = FALSE
    /\ current = 0 /\ guard = Contexts /\ m_threads = [c \in Contexts |-> "running"]
    /\ call = << >> /\ main = "up" /\ i = 1 /\ wraps = 0 /\ late = {}

Stop ==
    /\ main \in {"up", "stopped"}
    /\ main' = (IF thread_count = 0 THEN "joining" ELSE "resetting") /\ i' = 1
    /\ UNCHANGED <<current, call, guard, m_threads, wraps, late, fixed>>

\* Only the first guard.
ResetGuardOnce ==
    /\ main = "resetting"
    /\ main' = "joining" /\ guard' = guard \ {1}
    /\ UNCHANGED <<current, call, m_threads, i, wraps, late, fixed>>

\* One round of the loop over the contexts.
ResetGuard ==
    /\ main = "resetting"
    /\ guard' = guard \ {i}
    /\ i' = IF i = thread_count THEN 1 ELSE i + 1
    /\ main' = IF i = thread_count THEN "joining" ELSE main
    /\ UNCHANGED <<current, call, m_threads, wraps, late, fixed>>

\* Clears the threads without joining them.
JoinedDetached ==
    /\ main = "joining"
    /\ main' = "stopped" /\ m_threads' = << >>
    /\ UNCHANGED <<current, call, guard, i, wraps, late, fixed>>

Joined ==
    /\ main = "joining" /\ ToSet(m_threads) \subseteq {"returned"}
    /\ main' = "stopped" /\ m_threads' = << >>
    /\ UNCHANGED <<current, call, guard, i, wraps, late, fixed>>

Next ==
    /\ ~crashed
    /\ \/ Pick \/ PickNone \/ (\E x \in DOMAIN call : Spawn(x) \/ Begin(x) \/ End(x))
       \/ Stop \/ ResetGuard \/ Joined
       \/ \E c \in Contexts : RunReturns(c)

\* Threads are scheduled; the handlers of the repository set a deadline of
\* five seconds for each call and so end.
Fairness ==
    /\ WF_vars(~crashed /\ ResetGuard) /\ WF_vars(~crashed /\ Joined)
    /\ \A c \in 1 .. MaxThreads : WF_vars(~crashed /\ RunReturns(c))
    /\ \A x \in 1 .. MaxCalls :
          WF_vars(~crashed /\ x \in DOMAIN call /\ (Begin(x) \/ End(x)))

Spec == Init /\ [][Next]_vars /\ Fairness

-----------------------------------------------------------------------------
\* With no context next() returns none: the process dies of it.
TypeOK ==
    /\ thread_count \in 0 .. MaxThreads
    /\ crashed \in BOOLEAN /\ (crashed => thread_count = 0)
    /\ current \in 0 .. 2^Width - 1
    /\ guard \subseteq Contexts
    /\ m_threads \in Seq({"running", "returned"})
    /\ Len(m_threads) \in {0, thread_count}
    /\ call \in Seq([st : {"picked", "queued", "running", "done"}, at : Contexts])
    /\ Len(call) <= MaxCalls
    /\ main \in {"up", "resetting", "joining", "stopped"}
    /\ i \in Contexts \cup {1} /\ wraps \in Nat /\ late \subseteq DOMAIN call

\* A handler that was spawned before stop() began is run to its end before
\* stop() returns (the guards, grpc_client.hpp:84); only one spawned during or
\* after it can be left on a context that nobody runs.
NothingDropped ==
    m_threads = << >> =>
        \A x \in DOMAIN call : call[x].st \in {"queued", "running"} => x \in late

Picks(c) == Cardinality({x \in DOMAIN call : call[x].at = c})

\* Round robin is even however the callers interleave: no context is ahead of
\* another by more than one call, and one more for each overflow of the counter
\* unless thread_count divides its range (grpc_client.hpp:71).
Balanced ==
    \A c, d \in Contexts :
        Picks(c) - Picks(d) <= 1 + IF (2^Width) % thread_count = 0 THEN 0 ELSE wraps

\* stop() keeps the promise of Drain: it returns when no handler is running,
\* and none begins afterwards.
Served == INSTANCE Drain WITH
    phase <- IF m_threads = << >> THEN "off"
             ELSE IF main = "up" THEN "on" ELSE "closing",
    active <- {x \in DOMAIN call : call[x].st = "running"}
ClientIsDrain == Served!Spec

\* stop() returns, whatever was spawned before it or while it runs.
StopReturns == main # "up" ~> main = "stopped" \/ crashed
=============================================================================
