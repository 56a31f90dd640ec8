# A verification project for cpp-grpc-auto-gen

The repository generates C++ gRPC servers and clients from `.proto` files and
ships, under `example/`, a server with a publish/subscribe service that pushes
notices to its clients.  This directory holds TLA+ models of that system, TLC
configurations that check them on small instances, and proofs checked by TLAPS.

## Inventory

| component | state | operations | what is hard | what makes it correct |
|---|---|---|---|---|
| **Topic** (`example/include/pubsub_service.hpp:20-218`) | bounded buffer, next number, callback table, next call id; `ScopedConn` objects outside it | `recover`, `publish`, `subscribe` and `resubscribe` (by number and by filter), `~ScopedConn`, `clear` | snapshot and live callbacks must join; eviction; ownership of callbacks | every subscriber gets an unbroken stretch of the log; nothing still held is withheld |
| **PubSubService** (`pubsub_service.hpp:220-349`) | map of topics, notice callback | `getTopicPtr`, `publish`, `subscribe`..., `recover`, `setNoticeCallback` | double-checked creation; death of the process inside `publish` | one topic per name; a number never gets a second message |
| **Notice call** (`example/src/server.cpp:116-285`) | per stream: outstanding read, parallel group, two channels, connection, snapshot | open, request, alarm, notice, stop, failure, exception | four operations race and only the first is looked at; channels fill; requests overlap replays | order at the client, no orphan callback, known losses only |
| **Shutdown** (`server.cpp:491-516`) | `m_stop`, `m_exit_chan` | `stop` | calls that arrive meanwhile, tokens that arrive when nobody receives | it ends, and then nothing is running |
| **Unary and streaming handlers** (`server.cpp:60-114`, `353-467`, `client.cpp:91-206`) | a detached thread, a channel | one coroutine per call | detached threads that outlive the call and the server | handlers end by themselves; nothing late except after a client that left |
| **GrpcServer** (`grpc_server.hpp`, generated; the copies in `example/` and `example_project/` are the same text) | contexts, threads, handlers, server | `set...Callback`, `start`, `stop`, `checkCallback`, `registerHandler` | a failed start, a second start, shutdown posted to a context that must also run handlers | `stop` returns, nothing runs after it, a restart finds nothing of the attempt before |
| **GrpcClient** (`grpc_client.hpp`, generated) | contexts with work guards, threads, round robin | one per rpc, `stop` | calls during and after `stop`, overflow of the counter, no threads | even rotation, no handler dropped, `stop` returns after the last one |
| **Generated program** (`example_project/src`) | one call: what each side waits for, messages on their way | read, write, finish, alarm, deadline | each side waits for the other | a sound call ends without its deadline, with everything read |
| **Generator** (`proto2yaml.py`, `cpp-grpc-auto-gen.py`, `template/`) | none (pure) | parse, render, copy | several services, name collisions | a client class for each service |

**Interaction.** The publisher thread (`server.cpp:472`) calls
`PubSubService::publish`, which finds the topic and calls every registered
callback under the topic's lock. The callback of a Notice call does `try_send`
on the channel of its coroutine, which runs on one of the threads of `GrpcServer`.
The coroutine registers itself with `resubscribe` when its client asks for the
notices from some number on, and its `ScopedConn` erases the callback when the
frame is destroyed. The main thread calls `stop()`, which sends every coroutine a
token and waits until all their `stop_chan`s are gone, and then `GrpcServer::stop()`,
which has to wait for the handlers of every rpc.

Three pieces of code have a `stop()` with the same promise, written as `Drain`: it
returns when no activity it stands for is running, and none begins until the next
start. `NoticeStream`, `GrpcServer` and `GrpcClient` are shown to keep it.
`GrpcServer!StopNeedsNoClient` says when `stop()` of the server returns without help of
a client: if every handler ends by itself, and if no call is in flight on the first
context when its thread runs `Shutdown` (`[]~Stuck`). `ExampleCalls` is that server with
the example's handlers on its contexts. It shows that they do end by themselves on a
context that is not blocked, and what becomes of a call on the one that is: it ends only
with its client, so that `stop()` returns by the deadlines that clients set, and waits for
ever for a `getOrderSeqNo` or an `order`, whose clients set none.

`PROJECT.json` lists every component with its status and every hazard with the
line where it bites and the properties that cover it.

## Modules

| module | models | uses |
|---|---|---|
| `Feed` | what a topic promises a subscriber: exactly one slice of a log | |
| `Topic` | `Topic<T>` | implements `Feed` |
| `TopicProofs` | theorems about `Topic` | `Topic`, TLAPS |
| `TopicFeedProofs` | `Topic` implements `Feed` | `TopicProofs` |
| `PubSubServiceProofs`, `GrpcServerProofs`, `GrpcClientProofs`, `ExampleCallsProofs`, `GeneratedCallsProofs` | theorems about the module of that name | that module, TLAPS |
| `NoticeStreamProofs` | theorems about `NoticeStream` | `NoticeStream`, `TopicFeedProofs` by `INSTANCE` |
| `PubSubService` | `PubSubService<T>`, `publish` step by step, crashes, the journal | |
| `NoticeStream` | the Notice call, the publisher and `stop()` | composed with `Topic` (`T == INSTANCE Topic`); its shutdown implements `Drain` |
| `Drain` | what a `stop()` promises | |
| `GrpcServer` | the generated server: starts, threads, calls, `stop()` | implements `Drain` |
| `GrpcClient` | the generated client: rotation, guards, handlers, `stop()` | implements `Drain` |
| `ExampleCalls` | the other handlers of the example server, their detached threads and clients | composed with `GrpcServer` (`G == INSTANCE GrpcServer`) |
| `GeneratedCalls` | each generated handler with the generated coroutine that calls it | |
| `Generator` | services, yaml and the classes of the client header | |
| `MC...` | instances for TLC | |

**Topic.** Each public operation holds `m_mutex` from its first access to its last
(`findAndSubscribe` is called with the lock held), so each is one action:
`Recover`, `Publish`, `Subscribe`, `Resubscribe`, `SubscribeFiltered`,
`ResubscribeFiltered`, `DropConn` (`~ScopedConn` and `erase`) and `Destruct`. A
message is its number, since the payload is never looked at. A resubscribing
owner has called `reset()` on its old connection, so `held` loses that id in the
same step in which `m_sig` does. What a callback has been handed is the history
variable `got`. `recover` is restricted to what `PubSubService::recover` does with
it: a fresh topic, consecutive numbers. The buffer is the `boost::circular_buffer`
that `server.cpp:35` selects. The filter is the one of `server.cpp:209-231`, the
only one in the repository, although it is compiled out there.

**PubSubService.** `getTopicPtr` is two actions, `FindShared` and `FindOrInsert`, one for
each lock it takes. `Topic::publish` is three, `Store`, `Notice` and `FanOut`,
between which the process may die; `Free` is the topic's mutex. The fan-out is one
step: a death in the middle of it leaves the same `seen` as one before or after it,
because `seen` belongs to the name and not to the subscriber. `Crash` keeps only
the journal, after which `SetNoticeCallback`, `Recover` and `Serve` follow in the
order of `TestServer::init`. A call that registers a callback hands out some suffix
of the buffer, which is what search and filter have in common. The journal is
external: `server.cpp` declares the shared-memory vector for it but has the
statements on both sides commented out (306-313, 323-335), so the shipped program
starts every run with an empty journal. What the module shows is that the service
supports such a journal correctly.

**NoticeStream.** One `pc` per stream:

    idle -> opened -> launch -> wait -+-> subscribe -> replay -> launch
                        ^             +-> write -> launch
                        |             +-> launch              (alarm)
                                      +-> close -> closed -> release -> done
                                      +-> unwind -> release -> done

`Launch` starts the parallel group, in which an operation whose value is there
completes at once; `AlarmExpires`, `Complete` (the read), `Publish` and `SendStop`
complete operations of a group that waits; `OnRead`, `OnAlarm`, `OnNotice` and
`OnStop` resume the coroutine after the first. A channel receive that completed
too has taken its value with it (`missed`, `tokenLost`); the read has not, because
`agrpc::Waiter` belongs to the handler and not to the group. `OnRead` of a text that
is not a number is the exception of `std::stoul`, which unwinds without closing the
channels. The branch for a channel error (267-271) is unreachable: the channel is
closed only after the loop. Locals are destroyed in two actions, `DropConn` and
`Release`, because others can act between them. The main thread is `Stop`,
`SendStop` (once for each entry), `Unlock` and `Poll`; while it holds
`m_stop_mutex` (`main = "sending"`) no `CheckStop` can happen. A call may reach the
server at any time, also after the loop, since the server takes calls until its
`Shutdown`: such a call sees `m_stop`. The client of
`client.cpp` asks once, for number 0; the model allows what the handler accepts,
any number at any time and a text that is none. After a write that
fails the handler goes on, as in the code, until its read fails.

**GrpcServer.** `m_grpc_contexts[i]` is the number of the attempt whose builder made
the queue of context i, which is what tells a context left by a failed start from one of
this start. `StartFails` and `Start` are the two outcomes of `start()` after `checkCallback`;
they share `Attempt`. A thread registers (`Register`; on a queue of another attempt the
process aborts), runs, and returns when its context has nothing left. `Stop` posts,
`Shutdown` is the posted function, which blocks the thread of context 0 (1 in the
model) until `ShutdownReturns`, and `Joined` is the rest of `stop()`. A call is matched
with the listener of its rpc on some context, dispatched by that context's thread and
ended by it. gRPC lets `Shutdown` return when no call is in flight; a call whose
client has left is not. A second `start()` without a `stop()` after a failed one is a
legal call that the program does not make; `tries` counts it, and `CleanRestart` says
that it is the only way to the abort. A call in flight on the first context during
`Shutdown` is `Hung`: its handler cannot run, since the thread that would run it waits for
it. `OnlyClientFrees`, a theorem, says that no step of the server ends this, only the client.

**GrpcClient.** A call is `Pick` (`next()`, whose `fetch_add` is all that callers share)
and `Spawn` (`co_spawn`), between which anything may happen; its handler is then run on
its context by `Begin` and `End`. `ResetGuard` is one round of the first loop of
`stop()`, `Joined` the second loop and what follows. `~GrpcClient` calls `stop()` again.
The five methods differ in name only. `Width` is the width of `std::size_t`. The number of
contexts is a variable that the constructor sets and nobody changes, from 0 on, because
`example_client.cpp:115` passes `std::thread::hardware_concurrency()`, which may be 0. A
client without contexts is made and stopped like any other, but its first call divides by
zero in `next()` (`PickNone`); the model takes that for the end of the process (`crashed`).

**ExampleCalls.** The module has the variables and the steps of `GrpcServer`; where that has a
handler that may end, `job` says what the handler is doing, with its detached thread and its
channel. `Start` is `GrpcServer!Dispatch`, and a handler that returns is
`GrpcServer!EndCall`. Every step of a handler requires `GrpcServer!Runs`, that the thread
of its context is running, and so none happens on a context that is blocked in `Shutdown`;
a step of a detached thread requires nothing. The thread of a stream is two actions; that it
holds the channel by `shared_ptr`, so that its `weak_ptr` never expires, is why
`ThreadSends` does not ask for the handler. The few instructions in which it releases the
channel after `close()` belong to `ThreadCloses`. Kind `counted` is the handler of the
build without `USE_GRPC_NOTIFY_WHEN_DONE`. Kind `notice` is a Notice call that finds
`m_stop` set: `stop()` comes to the server after its polling loop, when the calls that found it
unset have ended (`NoticeStream!DrainedMeansSilent`). The `ClientStreaming` handler returns
at once and is left out.

**GeneratedCalls.** One call of one of five kinds: `c` and `s` say what coroutine and handler
wait for. A message counts only by its existence. That a client's `finish()` first
signals `writes_done` is what asio-grpc does for it, and what both comments
(`example_client.cpp:101`, `server.cpp:119`) rely on. Results that the code ignores are ignored,
such as that of the handler's read in `procNotice`.

**Generator.** A service is its package and its name. The dictionary of `generate_yaml` and
the loop of `grpc_client.hpp.j2:93` are sets; what is lost is the order.

Operators with names such as `FindOrInsertBlind` or `OnStopIgnored` are faulty
variants of the definition after them; no specification uses them. Each property
is checked to fail when its variant takes the place of the definition.

## Runs

| run | instance | shows |
|---|---|---|
| `topic` | capacity 2, 3 messages, 3 subscriptions | the seven properties of `Topic`, among them that it implements `Feed` |
| `pubsub` | 2 threads, 2 names, capacity 1, 3 messages, 2 crashes | `OneTopic`, `NumberNamesOneMessage`, `DeliveredIsDurable`, `BufferIsJournalTail` |
| `notice_order` | 1 stream, 2 requests, channel and buffer of 2, 4 messages | `InOrder`, `NothingVanishes`, `NoOrphanCallback` |
| `notice_stop` | 2 streams, 1 request each, channel and buffer of 1, 1 message | `DrainedMeansSilent`, `StopReachesEveryone`, and that it implements `Drain` |
| `notice_drain` | 2 streams, 1 request each, no message | `DrainTerminates` |
| `notice_live` | 1 stream, 2 requests, channel and buffer of 1, 2 messages | `StopSuffices` |
| `grpc_server` | 2 contexts, 2 rpcs, 3 calls, 2 attempts to start | `CleanRestart`, `StopNeedsNoClient`, and that it implements `Drain` |
| `grpc_client` | 0 to 3 contexts, a counter of 2 bits, 5 calls | `NothingDropped`, `Balanced`, `StopReturns`, and that it implements `Drain` |
| `example_calls` | 2 contexts, 1 start, 2 calls of any kind, 2 messages in a stream | `LateOnlyAfterLeave`, `HandlersEnd`, `StopReturns` |
| `example_message` | the same | a violation of `NextMessageSent` |
| `generated_calls` | the 5 pairs, room for 2 messages | `Conversation`, `CallsEnd`, `NeedsNoDeadline` |
| `generator` | 2 services of one package | a violation of `ClientForEachService` |

**What the two violations say.** The comment in `server.cpp:419-420` announces that what comes
from the channel is sent to the client. The code logs it, and after the channel is closed
returns without `finish()`: a client that has stayed reads nothing and gets a cancelled
call. (That of `make_server_streaming_request` reads nothing either, and meets its own
deadline of 5 s before the channel is closed after 10.) And `README.md:13` of the repository promises a client for each
service; `grpc_client.hpp.j2:94` declares a class of the same name for each, in the one
header that all the generated clients include.

**Why the bounds are enough.** In `topic` three messages overflow a buffer of
two, a request may be for an evicted, a retained, the next or a future number, and
three subscriptions allow two live ones and a resubscription of a resubscription.
In `pubsub` both threads may miss in the map at once, on the same name or on
two, while a third message pushes the second out of a buffer of one; the second
crash meets a process that has itself been restored. In `notice_order` four
messages fill the channel (two), the group (one) and overflow it, and the second
request finds both notices of the first subscription in the channel and an
evicting buffer. In `notice_stop` a stream may be anywhere in its life while the
other is at any other place. The shutdown does not depend on the messages except
through the race for a group, for which `notice_live` has them; `notice_drain`
leaves them out so that two streams remain within reach.

In `grpc_server` two calls meet on one context while a third is on the other, of the
same rpc or not, and two attempts are a failed and a successful start in either order
or two of a kind, with or without a `stop()` between. In `grpc_client` the counter
overflows at the fourth call and 3 does not divide its range, 1 and 2 do, so that with 3
contexts the fifth call lands where the first and the fourth did; the other calls are
anywhere meanwhile. In `example_calls` the two calls are on one context or on two, so that
one of them may be blocked while the other is anywhere, of any two kinds; two messages
allow the handler to lag behind its thread, and the thread to be sending when the client
leaves. What a second start meets is the question of `grpc_server`. In
`generated_calls` no side is ever ahead by more than one message but the handler
that is notified when done, for which the window is the bound.

The bounds are `MaxThreads`, a bound of the constructor's argument, and `MaxSeq`, `MaxCall`, `MaxRequest`, `MaxMsg`, `MaxCrash`, `MaxStart`,
`MaxCalls` and `MaxService`, each a guard of one action; `Window` is the flow control of
gRPC. The passing runs do not check deadlock: at the bounds, after `stop()` and after the
death of a process there is nothing left to do. `pubsub` uses the symmetry of the two threads, which
no property tells apart; the runs with liveness use none.

**Fairness.** `NoticeStream!Fairness` is weak fairness of each handler and of the main
thread's steps: the context threads of `GrpcServer` run whatever coroutine can go
on, and `stop()` is a plain loop. A stream's requests, the alarm, publications and
the call of `stop()` are not fair. `DrainTerminates` assumes in addition that every
client ends its call, which the 50 s deadline of `client.cpp:44` makes it do; that a
client asks only finitely often before is the bound `MaxRequest`.
`StopSuffices` needs no client but excludes behaviours in which a group took the
token while another operation came first: the code drops that token
(`server.cpp:164-281`), and `stop()` then waits until the client leaves. TLC
confirms that this does happen (`tokenLost` becomes non-empty), as do notices lost
in the same way (`missed`); no document of the repository promises otherwise.

The threads of `GrpcServer` and `GrpcClient` and the functions posted to a context are weakly
fair, and so are handlers of a client that has left, since their operations fail. That
handlers end by themselves is a condition of `StopNeedsNoClient` and not part of the
specification; no property assumes that the clients of `GrpcServer` leave. The handlers of the
generated client end by their deadline of 5 s (`example_client.cpp:25` and others). Callers need not
spawn what they have picked: `stop()` does not wait for them. In `ExampleCalls` detached
threads are fair, and handlers as far as their context runs; both are what the operating
system and the context do. `HandlersEnd` needs no more. `StopReturns` assumes in addition the
deadlines that `client.cpp` sets, 50 s for Notice and 5 s for the stream
(`DeadlinesExpire`), and excludes the behaviours in which a call without a deadline is
`Hung`; TLC finds `stop()` waiting for ever without that exclusion.
In `GeneratedCalls` both programs are weakly fair, and `SDone` strongly: a call
that is done stays done, so that the alarm of 30 s cannot come first for ever. The
deadline is a condition of `CallsEnd` only, and `NeedsNoDeadline` excludes it.

## Proofs

`TopicProofs` proves, for every capacity above 0 and every bound, that `TypeOK`,
`BufferIsTail`, `ExactFeed`, `NothingWithheld` and `CallbackOwned` are invariants
of `Topic!Spec` and that `Retention` holds of every step. The inductive invariant is
their conjunction; none of the last four is inductive alone. `BufferIsTail` carries the
search: only on a buffer of consecutive numbers that ends at `m_seq_no - 1` does
`lower_bound` return a suffix that the next publication continues, which is what
`ExactFeed` needs of a new subscription. `ExactFeed` needs in turn that registered
ids are in the domain of `got` (`TypeOK`), and `NothingWithheld` needs both to know
that an element of the buffer at or above the request belongs to the suffix. The
proof has one lemma per action. It uses the assumptions `CapAssumption` and
`BoundAssumption`; the first is what `m_buffer.back()` after a push requires of the code.

`TopicFeedProofs` proves `Spec => FeedSpec`: under the mapping of `Promise`, `Recover`
is `Restore`, `Publish` is `Extend`, the four subscriptions and `DropConn` are
`Turn`s and `Destruct` closes whatever is open.

`PubSubServiceProofs`: `TypeOK` and the four properties of run `pubsub`, for any callers,
names, capacity and number of crashes. `OneTopic` alone is not inductive: that a call in
`getTopicPtr` inserts only where the map has nothing needs the map to lead to topics of
their own name (`MapNames`), calls to hold topics that exist (`CallHolds`), and the
process to serve only after its topics are restored (`Started`). `DeliveredIsDurable`
needs `Exclusive` (one `publish` on a topic at a time): the message a `FanOut` hands out
is the last of the buffer, and that is the one which the `Notice` before it journalled only if
no other `Store` came between. `IsTail` ties buffer, number and journal together, with
`Log` for the message that is stored and not yet journalled; a crash in that state loses
the message and its number with it. `NumberNamesOneMessage` then follows, since whatever has
been seen is in the journal and a message's number is its position there.

`NoticeStreamProofs`: `TypeOK`, the five invariants of the runs, and three refinements, for any
set of streams and any capacity. The invariant of `TopicProofs` is one of its
conjuncts and the action lemmas of that module say what a call of the topic does to
it; what remains is stated for one stream at a time.
`Owned` pairs callbacks and connections. `Ordered` is stated on the *line* of a stream: the wire, the rest
of a snapshot, what a group has taken, the channel. It says of any two places of the line
in which order their notices are, and that all are below `m_seq_no`, which is why the
next publication may join at the end; the lemmas `LineReplay`, `LineWrite`, `LineTake`,
`LineLose`, `LinePut` and `LineSubscribe` move a notice along it, and `LineSent` derives `InOrder`, which
compares pairs of positions of `Sent(s)`: every two until the second request, and after it two of the
channel or two of one request's snapshot. Between a later snapshot and the channel there is
no order in the code: a client that asks again gets what it asked for, also if it has seen it or
if the channel still holds it. `Kept` says that the topic's history of a connection is on the line or in `missed`. `Fits` says
which of these places each `pc` leaves empty; without it `Subscribe` could drop part of a
snapshot, and a group that waits could overtake its channel. `Stops` relates `m_stop`, `m_exit_chan` and
the loop of `stop()`; its conjunct that a stream past `CheckStop` is in `m_exit_chan` is what makes
`DrainedMeansSilent` true. `TopicRefinement` (`Spec => T!Spec`) shows that streams, publisher and `stop()` use the
topic only by its operations and within its bounds, and `FeedRefinement` (`Spec =>
T!FeedSpec`) that the topic's promise holds in the composition.

`GrpcServerProofs`: `TypeOK`, `CleanRestart`, `OnlyClientFrees` and `StopIsDrain`. `FreshContexts` says that after
`stop()` no context is left and that one attempt alone makes all of them, `HeldIsRun` that
a call which has been matched is on a context with a thread; the latter is why `Joined` finds
no call in progress. `OnlyClientFrees` rests on `ShuttingIsBlocked`: while the server shuts down
the thread of the first context is in `Shutdown`. `GrpcClientProofs`: `TypeOK`, `NothingDropped`, `Balanced` and `ClientIsDrain`. A
handler waits only on a context that is run, or was spawned late (`LeftOnlyLate`), because
until `stop()` every context is guarded (`OpenRuns`). `Balanced` needs what a
counter that has overflowed `wraps` times has dealt out (`Counted`), and the division it rests on is proved there.
`GrpcClientProofs!TypeCorrect` holds for every number of contexts from 0 on: a call that has been
given a context has one that exists, and the process dies only where there is none.
`ExampleCallsProofs`: `TypeOK` and `LateOnlyAfterLeave` of the composition, with the invariant and the
action lemmas of `GrpcServerProofs`, which it has by `INSTANCE`, for what the server does. `GeneratedCallsProofs`: `TypeOK` and `Conversation`; `HandlerDone` and `StatusSent`
say of the status on its way what `Conversation` says of it when it is read, since the client
cannot see the handler's side by then.

Each of these inductive invariants is a conjunction of named parts, and TLC
finds each to hold on the instances of the runs above. A proof has
one lemma for each action, and `Invariance` is the theorem the others follow from. The proofs assume of
the constants what the modules' `ASSUME`s say: capacities, windows and the threads of the server above 0
(a `circular_buffer` of capacity 0 has no `back()`, and `start()` uses its first context), at least one topic name, a stream of 1 to 1000 messages,
a counter that can count the threads; the bounds are any naturals, and sets of
streams, calls and callers are arbitrary. That `2^Width` is a natural is an
assumption of `ClientAssumption` because the prover has no theory of powers.

**What stays with TLC.** The liveness properties (`DrainTerminates`, `StopSuffices`, `StopReturns` of client and
example server, `StopNeedsNoClient`, `HandlersEnd`, `CallsEnd`, `NeedsNoDeadline`), since fairness
and ENABLED are out of the prover's reach, and the two violations, which a counterexample
shows. There are no RECURSIVE operators. Every other property of a run is a theorem.

## Not modelled

Payloads, log lines, the health service, credentials and keepalive options. The
`std::vector` variant of the buffer, which is not selected and never evicts.
Failure of allocation and of the creation of a thread. Wrap of the 64-bit counters
`m_seq_no` and `m_call_id`, and of the counter of `getOrderSeqNo`, whose value nobody
reads. A `start()` on a running server, which no program here calls. Calls made on
a `GrpcClient` that has been destroyed. Time: an alarm may come at any moment, so
that the ten seconds of a detached thread and the five of its client's deadline may
end in either order. Call types and message types in `proto2yaml.py`, and the text that the
templates render beyond what the models of its result say. Build files and protos.

## Plan

1. Done: `Topic` with its proofs, `Feed`, `PubSubService`, `NoticeStream`, `Drain`,
   `GrpcServer`, `GrpcClient`, `ExampleCalls`, `GeneratedCalls`, `Generator`.
2. Done: the invariants, the action property and the refinements of every run as theorems.
3. Done: the handlers of the example composed with the server that runs them.
4. Next: the same for `NoticeStream`, whose Notice calls are calls of `GrpcServer` too; that
   the two parts of `TestServer::stop()` fit together is argued above. A step invariant for the rotation between two overflows of the client's counter.
