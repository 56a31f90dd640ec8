------------------------------ MODULE GrpcServer ----------------------------
(***************************************************************************)
(* The generated GrpcServer (grpc_server.hpp): start() with its ways to    *)
(* fail, one thread for each GrpcContext, the calls their handlers serve,  *)
(* and stop(), which posts Shutdown to the first context and joins.  The   *)
(* program calls start() and stop() from one thread and start() only while *)
(* no server runs.                                                         *)
(*                                                                         *)
(* gRPC and asio-grpc are external.  grpc::Server::Shutdown returns when   *)
(* no call is in flight, that is answered by its handler or given up by    *)
(* its client; a context runs until it has no listener, no coroutine and   *)
(* no posted function left; a server refuses a completion queue that was   *)
(* made with another builder, and the process aborts.                      *)
(***************************************************************************)
EXTENDS Integers, Sequences, SequencesExt

CONSTANTS thread_count,   \* of GrpcServerConfig
          Kinds,          \* the rpcs of the services
          Calls,          \* the calls clients make
          MaxStart        \* bound: attempts to start

\* start() uses m_grpc_contexts[0].
ASSUME ServerAssumption == thread_count \in Nat \ {0} /\ MaxStart \in Nat

VARIABLES callbacks,        \* the rpcs that have a handler
          m_grpc_contexts,  \* the attempt to start each context was made in
          m_threads,        \* "registering", "running", "blocked", "returned"
          m_server_ptr,     \* "null", "up", "shutting" or "down"
          attempt,          \* attempts so far
          posted,           \* TRUE: Shutdown waits in the queue of a context
          main,             \* "out" of stop(), or "joining"
          call,             \* call -> where it is
          tries,            \* history: attempts since the last stop()
          aborted

serverVars == <<m_grpc_contexts, m_threads, m_server_ptr, attempt>>
vars == <<callbacks, serverVars, posted, main, call, tries, aborted>>

NoCall == [st |-> "none", at |-> 0, kind |-> "none", gone |-> FALSE]

Init ==
    /\ callbacks = {}
    /\ m_grpc_contexts = << >> /\ m_threads = << >> /\ m_server_ptr = "null"
    /\ attempt = 0 /\ posted = FALSE /\ main = "out"
    /\ call = [c \in Calls |-> NoCall]
    /\ tries = 0 /\ aborted = FALSE

-----------------------------------------------------------------------------
(* The program: set...Callback, start() and stop().                        *)

SetCallback(k) ==
    /\ m_threads = << >> /\ k \notin callbacks
    /\ callbacks' = callbacks \cup {k}
    /\ UNCHANGED <<serverVars, posted, main, call, tries, aborted>>

\* start() changes nothing unless every rpc has a handler.
CheckCallback == callbacks = Kinds

\* The loop with <= for <.
MakeContextsMore ==
    m_grpc_contexts \o [i \in 1 .. thread_count + 1 |-> attempt + 1]

\* The loop that appends a context for each thread, with a queue of this
\* attempt's builder.
MakeContexts == m_grpc_contexts \o [i \in 1 .. thread_count |-> attempt + 1]

Attempt ==
    /\ main = "out" /\ m_threads = << >>
    /\ attempt < MaxStart /\ CheckCallback
    /\ attempt' = attempt + 1
    /\ m_grpc_contexts' = MakeContexts
    /\ tries' = tries + 1
    /\ UNCHANGED <<callbacks, posted, main, call, aborted>>

\* BuildAndStart returns nullptr, a port in use for instance; start() returns
\* false and leaves the contexts it has made.
StartFails == Attempt /\ m_server_ptr' = "null" /\ UNCHANGED m_threads

Start ==
    /\ Attempt
    /\ m_server_ptr' = "up"
    /\ m_threads' = [i \in 1 .. thread_count |-> "registering"]

\* Without the post.
StopUnposted ==
    /\ main = "out" /\ m_grpc_contexts # << >>
    /\ main' = "joining"
    /\ UNCHANGED <<callbacks, serverVars, posted, call, tries, aborted>>

\* stop() and ~GrpcServer; without contexts they do nothing.
Stop ==
    /\ main = "out" /\ m_grpc_contexts # << >>
    /\ main' = "joining" /\ posted' = TRUE
    /\ UNCHANGED <<callbacks, serverVars, call, tries, aborted>>

\* Joins the first thread only.
JoinedFirst ==
    /\ main = "joining" /\ (m_threads # << >> => m_threads[1] = "returned")
    /\ main' = "out" /\ posted' = FALSE /\ tries' = 0
    /\ m_grpc_contexts' = << >> /\ m_threads' = << >>
    /\ UNCHANGED <<callbacks, m_server_ptr, attempt, call, aborted>>

\* Keeps the contexts.
JoinedKeeping ==
    /\ main = "joining" /\ ToSet(m_threads) \subseteq {"returned"}
    /\ main' = "out" /\ posted' = FALSE /\ tries' = 0
    /\ m_threads' = << >>
    /\ UNCHANGED <<callbacks, m_grpc_contexts, m_server_ptr, attempt, call, aborted>>

\* Every thread is joined, the contexts are destroyed and with them what is
\* still posted.
Joined ==
    /\ main = "joining" /\ ToSet(m_threads) \subseteq {"returned"}
    /\ main' = "out" /\ posted' = FALSE /\ tries' = 0
    /\ m_grpc_contexts' = << >> /\ m_threads' = << >>
    /\ UNCHANGED <<callbacks, m_server_ptr, attempt, call, aborted>>

-----------------------------------------------------------------------------
(* The threads.                                                            *)

Go(i, from, to) ==
    /\ i \in DOMAIN m_threads /\ m_threads[i] = from
    /\ m_threads' = [m_threads EXCEPT ![i] = to]

\* registerHandler on context i.
Register(i) ==
    /\ \/ m_grpc_contexts[i] = attempt
          /\ Go(i, "registering", "running") /\ UNCHANGED aborted
       \/ m_grpc_contexts[i] # attempt
          /\ Go(i, "registering", "registering") /\ aborted' = TRUE
    /\ UNCHANGED <<callbacks, m_grpc_contexts, m_server_ptr, attempt, posted,
                   main, call, tries>>

\* The context that Shutdown is posted to.
ShutdownAtLast == thread_count
ShutdownAt == 1

\* The function that stop() has posted blocks the thread that runs it.
Shutdown ==
    /\ posted /\ posted' = FALSE
    /\ Go(ShutdownAt, "running", "blocked")
    /\ m_server_ptr' = "shutting"
    /\ UNCHANGED <<callbacks, m_grpc_contexts, attempt, main, call, tries, aborted>>

Held(i) == {c \in Calls : call[c].st \in {"matched", "running"} /\ call[c].at = i}
InFlight(i) == {c \in Held(i) : ~call[c].gone}

ShutdownReturns ==
    /\ \A i \in DOMAIN m_threads : InFlight(i) = {}
    /\ Go(ShutdownAt, "blocked", "running")
    /\ m_server_ptr' = "down"
    /\ UNCHANGED <<callbacks, m_grpc_contexts, attempt, posted, main, call,
                   tries, aborted>>

\* grpc_context.run() returns.
RunReturns(i) ==
    /\ m_server_ptr # "up" /\ ~(posted /\ i = ShutdownAt) /\ Held(i) = {}
    /\ Go(i, "running", "returned")
    /\ UNCHANGED <<callbacks, m_grpc_contexts, m_server_ptr, attempt, posted,
                   main, call, tries, aborted>>

-----------------------------------------------------------------------------
(* The calls.                                                              *)

Turn(c, to) ==
    /\ call' = [call EXCEPT ![c] = to]
    /\ UNCHANGED <<callbacks, serverVars, posted, main, tries, aborted>>

\* The server matches a new call with the listener for its rpc on context i,
\* of which there is one until the thread renews it.
Arrive(c, k, i) ==
    /\ call[c].st = "none" /\ m_server_ptr = "up"
    /\ i \in DOMAIN m_threads /\ m_threads[i] = "running"
    /\ \A d \in Held(i) : call[d].st = "matched" => call[d].kind # k
    /\ Turn(c, [st |-> "matched", at |-> i, kind |-> k, gone |-> FALSE])

Runs(c) == call[c].at \in DOMAIN m_threads /\ m_threads[call[c].at] = "running"

\* The thread renews the listener and starts the wrapped handler.
Dispatch(c) ==
    /\ call[c].st = "matched" /\ Runs(c)
    /\ Turn(c, [call[c] EXCEPT !.st = "running"])

\* The handler returns or throws, which the wrapper logs; an rpc that it has
\* not finished is cancelled.
EndCall(c) ==
    /\ call[c].st = "running" /\ Runs(c)
    /\ Turn(c, [call[c] EXCEPT !.st = "ended"])

\* The client cancels, disconnects or meets its deadline.
ClientGone(c) ==
    /\ call[c].st \in {"matched", "running"} /\ ~call[c].gone
    /\ Turn(c, [call[c] EXCEPT !.gone = TRUE])

\* The program and the threads.
Server ==
    \/ \E k \in Kinds : SetCallback(k)
    \/ StartFails \/ Start \/ Stop \/ Joined
    \/ Shutdown \/ ShutdownReturns
    \/ \E i \in DOMAIN m_threads : Register(i) \/ RunReturns(i)

Next ==
    /\ ~aborted
    /\ \/ Server
       \/ \E c \in Calls :
             \/ \E k \in Kinds, i \in DOMAIN m_threads : Arrive(c, k, i)
             \/ Dispatch(c) \/ EndCall(c) \/ ClientGone(c)

\* The operating system runs every thread and the contexts whatever is ready.
ServerFairness ==
    /\ WF_vars(~aborted /\ (Joined \/ Shutdown \/ ShutdownReturns))
    /\ \A i \in 1 .. thread_count :
          WF_vars(~aborted /\ i \in DOMAIN m_threads /\ (Register(i) \/ RunReturns(i)))

\* A handler whose client has gone ends, since its operations fail.
Fairness ==
    /\ ServerFairness
    /\ \A c \in Calls : WF_vars(~aborted /\ (Dispatch(c) \/ (call[c].gone /\ EndCall(c))))

Spec == Init /\ [][Next]_vars /\ Fairness

-----------------------------------------------------------------------------
TypeOK ==
    /\ callbacks \subseteq Kinds
    /\ m_grpc_contexts \in Seq(1 .. attempt)
    /\ Len(m_grpc_contexts) <= attempt * thread_count
    /\ m_threads \in Seq({"registering", "running", "blocked", "returned"})
    /\ Len(m_threads) \in {0, thread_count}
    /\ Len(m_threads) <= Len(m_grpc_contexts)
    /\ m_server_ptr \in {"null", "up", "shutting", "down"}
    /\ attempt \in 0 .. MaxStart /\ main \in {"out", "joining"}
    /\ posted \in BOOLEAN /\ tries \in 0 .. attempt /\ aborted \in BOOLEAN
    /\ call \in [Calls -> {NoCall} \cup
                         [st : {"matched", "running", "ended"},
                          at : 1 .. thread_count, kind : Kinds, gone : BOOLEAN]]

\* A server can be stopped and started again, also after starts that failed:
\* no thread serves a queue of another attempt, which would abort the process,
\* unless start() was called again without stop() in between, when it appends
\* to the contexts the failed one left (grpc_server.hpp:113, 167).
CleanRestart == tries <= 1 => ~aborted

\* stop() keeps the promise of Drain: when it returns, no handler is running
\* and none will be until the next start().
Served == INSTANCE Drain WITH
    phase <- IF m_threads = << >> THEN "off"
             ELSE IF main = "joining" THEN "closing" ELSE "on",
    active <- {c \in Calls : call[c].st \in {"matched", "running"}}
StopIsDrain == Served!Spec

HandlersEnd == \A c \in Calls : WF_vars(~aborted /\ EndCall(c))

\* A call in flight on the first context, whose thread waits for it in Shutdown.
Hung(c) == m_server_ptr = "shutting" /\ c \in InFlight(1)
Stuck == \E c \in Calls : Hung(c)

\* Nothing the server does ends that: the call stays in flight, and Shutdown
\* waits, until the client gives up.
OnlyClientFrees == [][\A c \in Calls : Hung(c) => Hung(c)' \/ ClientGone(c)]_vars

\* stop() needs no client if the handlers end by themselves and none of the
\* first context is left when its thread runs Shutdown: calls on the other
\* contexts never block it.  What becomes of those left depends on the handlers
\* and their clients (ExampleCalls).
StopNeedsNoClient ==
    HandlersEnd /\ []~Stuck => (main = "joining" ~> main = "out" \/ aborted)
=============================================================================
