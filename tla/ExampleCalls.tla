---------------------------- MODULE ExampleCalls ----------------------------
(***************************************************************************)
(* The other calls of example/src/server.cpp in the server that runs them, *)
(* GrpcServer: getOrderSeqNo, which a detached thread resumes, order,      *)
(* which an alarm resumes, and ServerStreaming, with                       *)
(* USE_GRPC_NOTIFY_WHEN_DONE (kind "stream"), whose detached thread sends  *)
(* into a channel and closes it while the handler waits for a message or   *)
(* the end of the call, or, in a build without that macro ("counted"),     *)
(* writes a message after each of some alarms.  A "notice" is a Notice     *)
(* that finds m_stop set; those that began before it have ended when       *)
(* stop() comes to the server (NoticeStream).                              *)
(*                                                                         *)
(* Everything a handler does, it does on the thread of its context, so     *)
(* nothing while that thread registers or is blocked in Shutdown.  A       *)
(* detached thread asks nobody.                                            *)
(***************************************************************************)
EXTENDS Integers

CONSTANTS thread_count, Calls, MaxStart,   \* of GrpcServer
          Messages    \* a stream has, ten in the code; the channel holds 1000

ASSUME ExampleAssumption ==
    thread_count \in Nat \ {0} /\ MaxStart \in Nat /\ Messages \in 1 .. 1000

VARIABLES callbacks, m_grpc_contexts, m_threads, m_server_ptr, attempt, posted,
          main, call, tries, aborted,   \* of GrpcServer
          job         \* call -> its coroutine, its thread, its channel

Kinds == {"seqno", "order", "stream", "counted", "notice"}

G == INSTANCE GrpcServer

serverVars == <<callbacks, m_grpc_contexts, m_threads, m_server_ptr, attempt,
                posted, main, call, tries, aborted>>
vars == <<serverVars, job>>

NoJob == [pc |-> "none", thread |-> "none", sent |-> 0, open |-> TRUE,
          taken |-> 0, wrote |-> 0, status |-> "none"]

Init == G!Init /\ job = [x \in Calls |-> NoJob]

Becomes(x, to) == job' = [job EXCEPT ![x] = to]

-----------------------------------------------------------------------------
(* The handlers.                                                           *)

ThreadOf(k) == IF k = "seqno" THEN "posting"
               ELSE IF k = "stream" THEN "sending" ELSE "none"

\* The context starts the handler, which starts its thread, if it has one, and
\* waits.
Start(x) ==
    /\ G!Dispatch(x)
    /\ Becomes(x, [job[x] EXCEPT !.pc = "waiting", !.thread = ThreadOf(call[x].kind)])

At(x, pc) == G!Runs(x) /\ call[x].st = "running" /\ job[x].pc = pc
Waits(x, k) == At(x, "waiting") /\ call[x].kind = k

Goes(x, to) == Becomes(x, to) /\ UNCHANGED serverVars
Returns(x, to) == Becomes(x, to) /\ G!EndCall(x)

\* The function the thread has posted completes checkClOrderId.
SeqNoResumes(x) ==
    /\ Waits(x, "seqno") /\ job[x].thread = "done"
    /\ Goes(x, [job[x] EXCEPT !.pc = "finish"])

\* The alarm of two seconds expires.
OrderResumes(x) == Waits(x, "order") /\ Goes(x, [job[x] EXCEPT !.pc = "finish"])

Finish(x) ==
    /\ At(x, "finish")
    /\ Returns(x, [job[x] EXCEPT
           !.wrote = IF call[x].gone \/ call[x].kind = "counted" THEN @ ELSE 1,
           !.status = IF call[x].gone THEN "left" ELSE "ok"])

\* The handler returns without finish(), and the call is cancelled.
Unfinished(x) ==
    Returns(x, [job[x] EXCEPT !.status = IF call[x].gone THEN "left" ELSE "cancelled"])

\* m_stop is set.
NoticeReturns(x) == Waits(x, "notice") /\ Unfinished(x)

Pending(x) == job[x].taken < job[x].sent

\* Without the look at channel_ok.
StreamReceivesOnce(x) ==
    /\ Waits(x, "stream") /\ Pending(x)
    /\ Returns(x, [job[x] EXCEPT !.taken = @ + 1, !.status = "cancelled"])

\* async_receive is first of the group; the message is only logged.
StreamReceives(x) ==
    /\ Waits(x, "stream") /\ Pending(x)
    /\ Goes(x, [job[x] EXCEPT !.taken = @ + 1])

\* The channel is closed and empty, or wait_for_done is first.
StreamEnds(x) ==
    /\ Waits(x, "stream")
    /\ (~Pending(x) /\ ~job[x].open) \/ call[x].gone
    /\ Unfinished(x)

\* Without USE_GRPC_NOTIFY_WHEN_DONE: a message after each alarm, and finish()
\* after the last or when a write has failed.
CountedWrites(x, ok) ==
    /\ Waits(x, "counted") /\ (ok \/ call[x].gone)
    /\ Goes(x, [job[x] EXCEPT
           !.taken = @ + 1,
           !.wrote = IF ok /\ ~call[x].gone THEN @ + 1 ELSE @,
           !.pc = IF ok /\ job[x].taken + 1 < Messages THEN @ ELSE "finish"])

-----------------------------------------------------------------------------
(* The detached threads, which no one joins.                               *)

ThreadPosts(x) ==
    /\ job[x].thread = "posting"
    /\ Goes(x, [job[x] EXCEPT !.thread = "done"])

\* The loop with <= for <.
ThreadSendsMore(x) ==
    /\ job[x].thread = "sending" /\ job[x].sent <= Messages
    /\ Goes(x, [job[x] EXCEPT !.sent = @ + 1])

\* The thread holds the channel itself, so that its weak_ptr never expires.
ThreadSends(x) ==
    /\ job[x].thread = "sending" /\ job[x].sent < Messages
    /\ Goes(x, [job[x] EXCEPT !.sent = @ + 1])

\* Leaves the channel open.
ThreadEnds(x) ==
    /\ job[x].thread = "sending" /\ job[x].sent = Messages
    /\ Goes(x, [job[x] EXCEPT !.thread = "done"])

ThreadCloses(x) ==
    /\ job[x].thread = "sending" /\ job[x].sent = Messages
    /\ Goes(x, [job[x] EXCEPT !.thread = "done", !.open = FALSE])

-----------------------------------------------------------------------------
(* The server and the clients.                                             *)

Arrive(x) ==
    /\ \E k \in Kinds, i \in DOMAIN m_threads : G!Arrive(x, k, i)
    /\ UNCHANGED job

\* The client disconnects or, in make_server_streaming_request, meets its
\* deadline of five seconds.
ClientGone(x) == G!ClientGone(x) /\ UNCHANGED job

Handler(x) ==
    \/ SeqNoResumes(x) \/ OrderResumes(x) \/ Finish(x) \/ NoticeReturns(x)
    \/ StreamReceives(x) \/ StreamEnds(x)
    \/ \E ok \in BOOLEAN : CountedWrites(x, ok)

Thread(x) == ThreadPosts(x) \/ ThreadSends(x) \/ ThreadCloses(x)

Next ==
    /\ ~aborted
    /\ \/ G!Server /\ UNCHANGED job
       \/ \E x \in Calls :
             Arrive(x) \/ Start(x) \/ Handler(x) \/ Thread(x) \/ ClientGone(x)

\* The contexts run whatever is ready, and the operating system every thread;
\* no client has to do anything.
Fairness ==
    /\ G!ServerFairness
    /\ \A x \in Calls : /\ WF_vars(~aborted /\ (Start(x) \/ Handler(x)))
                        /\ WF_vars(~aborted /\ Thread(x))

Spec == Init /\ [][Next]_vars /\ Fairness

-----------------------------------------------------------------------------
TypeOK ==
    /\ G!TypeOK
    /\ job \in [Calls ->
           [pc : {"none", "waiting", "finish"},
            thread : {"none", "posting", "sending", "done"},
            sent : 0 .. Messages, open : BOOLEAN,
            taken : 0 .. Messages, wrote : 0 .. Messages,
            status : {"none", "ok", "cancelled", "left"}]]

\* When the contexts are gone no detached thread still has anything to do with
\* them, a post, a send or the close of a channel, but for one case: the thread
\* of a stream whose client left goes on for its ten seconds (server.cpp:397).
LateOnlyAfterLeave ==
    \A x \in Calls :
        m_grpc_contexts = << >> /\ job[x].thread \in {"posting", "sending"} =>
            call[x].kind = "stream" /\ call[x].gone

Active(x) == call[x].st \in {"matched", "running"}
Blocked(x) == call[x].at \in DOMAIN m_threads /\ m_threads[call[x].at] = "blocked"

\* Every call ends although its client stays, as StopNeedsNoClient of GrpcServer
\* supposes, unless it was on the first context when the thread of that ran
\* Shutdown (grpc_server.hpp:178).
HandlersEnd == \A x \in Calls : Active(x) ~> call[x].st = "ended" \/ Blocked(x) \/ aborted

\* Their clients set no deadline (client.cpp:145-149, 177-206).
Patient == {"seqno", "order"}

\* The other clients set one (client.cpp:44, 98).
DeadlinesExpire ==
    \A x \in Calls :
        WF_vars(~aborted /\ call[x].kind \notin Patient /\ ClientGone(x))

\* stop() of the server returns, with calls anywhere in their handlers and with
\* clients that only meet the deadlines they set, unless Shutdown finds a
\* getOrderSeqNo or an order on the context whose thread it blocks.
StopReturns ==
    DeadlinesExpire /\ [](\A x \in Calls : G!Hung(x) => call[x].kind \notin Patient) =>
        (main = "joining" ~> main = "out" \/ aborted)

\* What server.cpp:419-420 says, "channel completed, send the next message to
\* the client": a client that stays is sent every message of the channel.  The
\* code only logs them, and then cancels the call.
NextMessageSent ==
    \A x \in Calls :
        call[x].kind = "stream" /\ job[x].status = "cancelled" =>
            job[x].wrote = job[x].taken
=============================================================================
