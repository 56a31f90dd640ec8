----------------------------- MODULE NoticeStream ---------------------------
(***************************************************************************)
(* The bidirectional Notice call of example/src/server.cpp: for every      *)
(* stream a coroutine (orderNoticeHandler) that waits for the client's     *)
(* next request, a 2 s alarm, a notice of topic "001" and a stop token,    *)
(* whichever comes first; the publisher thread; and the main thread in     *)
(* stop().  The topic is the one of Topic.tla, whose operations the        *)
(* handlers and the publisher call.                                        *)
(*                                                                         *)
(* The parallel group of asio starts the four operations in order and      *)
(* resumes the coroutine when the first completes; the others are then     *)
(* cancelled.  An operation that completed in the meantime has taken its   *)
(* value from the channel, and the handler looks at the first only: the    *)
(* value of another one is gone.  The read is different: its agrpc::Waiter *)
(* outlives the group and completes the next one.                          *)
(***************************************************************************)
EXTENDS Integers, Sequences, SequencesExt

CONSTANTS Streams,          \* the calls a client may open
          ChanCap,          \* m_channel_size
          MaxRequest,       \* bound: requests a client sends on one stream
          Cap, MaxSeq, MaxCall   \* of the topic

ASSUME StreamAssumption == ChanCap \in Nat \ {0} /\ MaxRequest \in Nat

\* What Topic.tla asks of the constants of the topic.
ASSUME TopicAssumption == Cap \in Nat \ {0} /\ MaxSeq \in Nat /\ MaxCall \in Nat

VARIABLES m_buffer, m_seq_no, m_sig, m_call_id, alive, held, request, got,
          pc,        \* where the coroutine of a stream is
          waiter,    \* the outstanding or completed read: [st, no]
          group,     \* the running parallel group: [first, notice, stop]
          chan,      \* notices in the channel of a stream
          token,     \* TRUE: a stop token waits in stop_chan
          conn,      \* call id of scoped_conn_ptr, as a sequence of at most one
          store,     \* notice_store: the snapshot still to be written
          wire,      \* history: what was written to the client
          missed,    \* history: notices dropped by a full or closed channel,
                     \* or taken by a group that something else won
          epoch,     \* history: subscriptions made by a stream
          tokenLost, \* history: streams whose group took a token unused
          main,      \* "run", "sending", "drain" or "down"
          m_stop,
          m_exit_chan,  \* streams with an entry in m_exit_chan
          toStop        \* entries the loop of stop() has still to visit

topicVars == <<m_buffer, m_seq_no, m_sig, m_call_id, alive, held, request, got>>
subVars == <<conn, store>>
dataVars == <<waiter, group, chan, token, subVars>>
historyVars == <<wire, missed, epoch, tokenLost>>
mainVars == <<main, m_stop, m_exit_chan, toStop>>
vars == <<topicVars, pc, dataVars, historyVars, mainVars>>

T == INSTANCE Topic

NoRead == [st |-> "pending", no |-> 0]
NoGroup == [first |-> "none", notice |-> << >>, stop |-> FALSE]
Everywhere(x) == [s \in Streams |-> x]

Init ==
    /\ T!Init
    /\ pc = Everywhere("idle")
    /\ waiter = Everywhere(NoRead) /\ group = Everywhere(NoGroup)
    /\ chan = Everywhere(<< >>) /\ token = Everywhere(FALSE)
    /\ conn = Everywhere(<< >>) /\ store = Everywhere(<< >>)
    /\ wire = Everywhere(<< >>) /\ missed = Everywhere({})
    /\ epoch = Everywhere(0) /\ tokenLost = {}
    /\ main = "run" /\ m_stop = FALSE /\ m_exit_chan = {} /\ toStop = {}

Go(s, from, to) == pc[s] = from /\ pc' = [pc EXCEPT ![s] = to]

-----------------------------------------------------------------------------
(* The client.                                                             *)

\* The group in which what has just completed; only the first one counts.
Arrive(s, what) ==
    IF pc[s] = "wait" /\ group[s].first = "none"
    THEN [group EXCEPT ![s].first = what]
    ELSE group

\* The call reaches the server, which creates the channels and the read.
OpenStream(s) ==
    /\ Go(s, "idle", "opened")
    /\ UNCHANGED <<topicVars, dataVars, historyVars, mainVars>>

\* The read of a stream completes.
Complete(s, read) ==
    /\ waiter[s].st = "pending" /\ pc[s] \notin {"idle", "done"}
    /\ waiter' = [waiter EXCEPT ![s] = read]
    /\ group' = Arrive(s, "read")
    /\ UNCHANGED <<topicVars, pc, chan, token, subVars, historyVars, mainVars>>

\* The client asks for the notices from number no on; st is "bad" when its
\* text is not a number.
ClientRequest(s, st, no) ==
    epoch[s] < MaxRequest /\ Complete(s, [st |-> st, no |-> no])

\* The client finishes, disconnects or meets its deadline.
ClientGone(s) == Complete(s, [st |-> "fail", no |-> 0])

-----------------------------------------------------------------------------
(* orderNoticeHandler.                                                     *)

\* Without the look at m_stop.
CheckStopNever(s) ==
    /\ Go(s, "opened", "launch") /\ main # "sending"
    /\ m_exit_chan' = m_exit_chan \cup {s}
    /\ UNCHANGED <<topicVars, dataVars, historyVars, main, m_stop, toStop>>

\* Under m_stop_mutex: register the stop_chan, or finish the call at once
\* after stop().
CheckStop(s) ==
    /\ main # "sending"
    /\ \/ m_stop /\ Go(s, "opened", "done") /\ UNCHANGED m_exit_chan
       \/ ~m_stop /\ Go(s, "opened", "launch") /\ m_exit_chan' = m_exit_chan \cup {s}
    /\ UNCHANGED <<topicVars, dataVars, historyVars, main, m_stop, toStop>>

\* The group starts: an operation whose value is already there completes at
\* once, in the order read, alarm, notice, stop.
Launch(s) ==
    /\ Go(s, "launch", "wait")
    /\ LET notice == IF chan[s] = << >> THEN << >> ELSE <<Head(chan[s])>>
           first == IF waiter[s].st # "pending" THEN "read"
                    ELSE IF notice # << >> THEN "notice"
                    ELSE IF token[s] THEN "stop" ELSE "none"
       IN group' = [group EXCEPT ![s] =
                       [first |-> first, notice |-> notice, stop |-> token[s]]]
    /\ chan' = [chan EXCEPT ![s] = SubSeq(@, 2, Len(@))]
    /\ token' = [token EXCEPT ![s] = FALSE]
    /\ UNCHANGED <<topicVars, waiter, subVars, historyVars, mainVars>>

\* The 2 s deadline passes.
AlarmExpires(s) ==
    /\ pc[s] = "wait" /\ group[s].first = "none"
    /\ group' = Arrive(s, "alarm")
    /\ UNCHANGED <<topicVars, pc, waiter, chan, token, subVars, historyVars, mainVars>>

\* The coroutine resumes after "first" and continues at "next"; what the
\* other operations have taken is lost.
Resume(s, first, next) ==
    /\ Go(s, "wait", next) /\ group[s].first = first
    /\ LET notice == group[s].notice
       IN /\ group' = [group EXCEPT ![s] =
                          IF first = "notice" THEN [NoGroup EXCEPT !.notice = notice]
                          ELSE NoGroup]
          /\ missed' = [missed EXCEPT ![s] =
                           IF first = "notice" THEN @ ELSE @ \cup ToSet(notice)]
    /\ tokenLost' = IF group[s].stop /\ first # "stop" THEN tokenLost \cup {s}
                    ELSE tokenLost
    /\ UNCHANGED <<topicVars, waiter, chan, token, subVars, wire, epoch, mainVars>>

\* A failed read does not leave the loop.
OnReadIgnored(s) ==
    \/ waiter[s].st = "ok"   /\ Resume(s, "read", "subscribe")
    \/ waiter[s].st = "bad"  /\ Resume(s, "read", "unwind")
    \/ waiter[s].st = "fail" /\ Resume(s, "read", "launch")

\* std::stoul of the request throws when it is not a number: the frame is
\* destroyed without closing the channels.
OnRead(s) ==
    \/ waiter[s].st = "ok"   /\ Resume(s, "read", "subscribe")
    \/ waiter[s].st = "bad"  /\ Resume(s, "read", "unwind")
    \/ waiter[s].st = "fail" /\ Resume(s, "read", "close")

OnAlarm(s) == Resume(s, "alarm", "launch")

OnNotice(s) == Resume(s, "notice", "write")

\* The branch without its break.
OnStopIgnored(s) == Resume(s, "stop", "launch")

\* "Receive exit signal!!!": rpc.finish and break.
OnStop(s) == Resume(s, "stop", "close")

\* Subscribes without the id of the previous callback, whose connection has
\* been reset.
SubscribeAnew(s) ==
    /\ Go(s, "subscribe", "replay")
    /\ T!Subscribe(waiter[s].no)
    /\ conn' = [conn EXCEPT ![s] = <<m_call_id>>]
    /\ store' = [store EXCEPT ![s] = T!Find(waiter[s].no)]
    /\ epoch' = [epoch EXCEPT ![s] = @ + 1]
    /\ UNCHANGED <<waiter, group, chan, token, wire, missed, tokenLost, mainVars>>

\* reset() on the connection of the previous request and one resubscribe call,
\* which erases its callback and registers the new one under one lock.
Subscribe(s) ==
    /\ Go(s, "subscribe", "replay")
    /\ IF conn[s] = << >> THEN T!Subscribe(waiter[s].no)
       ELSE T!Resubscribe(Head(conn[s]), waiter[s].no)
    /\ conn' = [conn EXCEPT ![s] = <<m_call_id>>]
    /\ store' = [store EXCEPT ![s] = T!Find(waiter[s].no)]
    /\ epoch' = [epoch EXCEPT ![s] = @ + 1]
    /\ UNCHANGED <<waiter, group, chan, token, wire, missed, tokenLost, mainVars>>

\* Sends m; "of" is the request whose snapshot m belongs to, 0 for a notice of
\* the channel.
Write(s, m, of) ==
    /\ wire' = [wire EXCEPT ![s] = Append(@, [m |-> m, of |-> of])]
    /\ UNCHANGED <<missed, epoch, tokenLost>>

\* The loop over notice_store; publications go on between its writes.
Replay(s) ==
    /\ pc[s] = "replay" /\ store[s] # << >>
    /\ Write(s, Head(store[s]), epoch[s])
    /\ store' = [store EXCEPT ![s] = Tail(@)]
    /\ UNCHANGED <<topicVars, pc, waiter, group, chan, token, conn, mainVars>>

\* Goes back to reading before the snapshot is written.
ReadAgainEarly(s) ==
    /\ Go(s, "replay", "launch")
    /\ waiter' = [waiter EXCEPT ![s] = NoRead]
    /\ store' = [store EXCEPT ![s] = << >>]
    /\ UNCHANGED <<topicVars, group, chan, token, conn, historyVars, mainVars>>

\* The next read is started only after the whole snapshot is written.
ReadAgain(s) ==
    /\ Go(s, "replay", "launch") /\ store[s] = << >>
    /\ waiter' = [waiter EXCEPT ![s] = NoRead]
    /\ UNCHANGED <<topicVars, group, chan, token, subVars, historyVars, mainVars>>

WriteNotice(s) ==
    /\ Go(s, "write", "launch")
    /\ Write(s, Head(group[s].notice), 0)
    /\ group' = [group EXCEPT ![s] = NoGroup]
    /\ UNCHANGED <<topicVars, waiter, chan, token, subVars, mainVars>>

\* chan->close() and stop_chan->close(), after rpc.finish if it was a stop.
Close(s) ==
    /\ Go(s, "close", "closed")
    /\ UNCHANGED <<topicVars, dataVars, historyVars, mainVars>>

\* The locals are destroyed in reverse order: scoped_conn_ptr first.
DropConn(s) ==
    /\ Go(s, "closed", "release") \/ Go(s, "unwind", "release")
    /\ IF conn[s] = << >> THEN UNCHANGED topicVars
       ELSE T!DropConn(Head(conn[s]))
    /\ conn' = [conn EXCEPT ![s] = << >>]
    /\ UNCHANGED <<waiter, group, chan, token, store, historyVars, mainVars>>

\* Then the channels: the entry of m_exit_chan expires.
Release(s) ==
    /\ Go(s, "release", "done")
    /\ chan' = [chan EXCEPT ![s] = << >>] /\ token' = [token EXCEPT ![s] = FALSE]
    /\ UNCHANGED <<topicVars, waiter, group, subVars, historyVars, mainVars>>

-----------------------------------------------------------------------------
(* The publisher thread.                                                   *)

\* The callback with the id in conn[s] does try_send on the channel of s: a
\* waiting receive takes the notice, else the buffer, if it has room and the
\* channel is open; else the notice is logged and dropped.
Called(s) == conn[s] # << >> /\ Head(conn[s]) \in m_sig

\* A receive that stays outstanding while the loop goes round, and a channel
\* without a bound.
ReceivingBetween(s) == pc[s] \in {"wait", "launch"} /\ group[s].notice = << >>
RoomAlways(s) == pc[s] # "closed"

Receiving(s) == pc[s] = "wait" /\ group[s].notice = << >>
Room(s) == pc[s] # "closed" /\ Len(chan[s]) < ChanCap

Publish ==
    /\ T!Publish
    /\ group' = [s \in Streams |->
                    IF Called(s) /\ Receiving(s)
                    THEN [group[s] EXCEPT !.notice = <<m_seq_no>>,
                             !.first = IF @ = "none" THEN "notice" ELSE @]
                    ELSE group[s]]
    /\ chan' = [s \in Streams |->
                   IF Called(s) /\ ~Receiving(s) /\ Room(s)
                   THEN Append(chan[s], m_seq_no) ELSE chan[s]]
    /\ missed' = [s \in Streams |->
                     IF Called(s) /\ ~Receiving(s) /\ ~Room(s)
                     THEN missed[s] \cup {m_seq_no} ELSE missed[s]]
    /\ UNCHANGED <<pc, waiter, token, subVars, wire, epoch, tokenLost, mainVars>>

-----------------------------------------------------------------------------
(* The main thread in stop().                                              *)

\* Takes m_stop_mutex, which it keeps until every entry has been visited.
Stop ==
    /\ main = "run"
    /\ main' = "sending" /\ m_stop' = TRUE /\ toStop' = m_exit_chan
    /\ UNCHANGED <<topicVars, pc, dataVars, historyVars, m_exit_chan>>

\* As if stop_chan had no buffer.
SendStopUnbuffered(s) ==
    /\ main = "sending" /\ s \in toStop
    /\ toStop' = toStop \ {s}
    /\ group' = IF pc[s] = "wait" THEN [Arrive(s, "stop") EXCEPT ![s].stop = TRUE]
                ELSE group
    /\ UNCHANGED <<topicVars, pc, waiter, chan, token, subVars, historyVars,
                   main, m_stop, m_exit_chan>>

\* try_send on a stop_chan that has not expired; it fails on a closed one.
SendStop(s) ==
    /\ main = "sending" /\ s \in toStop
    /\ toStop' = toStop \ {s}
    /\ IF pc[s] = "wait"
       THEN group' = [Arrive(s, "stop") EXCEPT ![s].stop = TRUE] /\ UNCHANGED token
       ELSE /\ token' = [token EXCEPT ![s] =
                            pc[s] \notin {"closed", "release", "done"}]
            /\ UNCHANGED group
    /\ UNCHANGED <<topicVars, pc, waiter, chan, subVars, historyVars,
                   main, m_stop, m_exit_chan>>

Unlock ==
    /\ main = "sending" /\ toStop = {}
    /\ main' = "drain"
    /\ UNCHANGED <<topicVars, pc, dataVars, historyVars, m_stop, m_exit_chan, toStop>>

\* Goes on when one of the entries has expired.
PollAny ==
    /\ main = "drain"
    /\ m_exit_chan' = {s \in m_exit_chan : pc[s] # "done"}
    /\ main' = IF m_exit_chan' # m_exit_chan \/ m_exit_chan = {} THEN "down" ELSE "drain"
    /\ UNCHANGED <<topicVars, pc, dataVars, historyVars, m_stop, toStop>>

\* One round of the polling loop; when no entry is left stop() goes on to
\* m_grpc_server->stop().  A call that still reaches the server before its
\* Shutdown finds m_stop set.
Poll ==
    /\ main = "drain"
    /\ m_exit_chan' = {s \in m_exit_chan : pc[s] # "done"}
    /\ main' = IF m_exit_chan' = {} THEN "down" ELSE "drain"
    /\ UNCHANGED <<topicVars, pc, dataVars, historyVars, m_stop, toStop>>

-----------------------------------------------------------------------------
Handler(s) ==
    \/ CheckStop(s) \/ Launch(s)
    \/ OnRead(s) \/ OnAlarm(s) \/ OnNotice(s) \/ OnStop(s)
    \/ Subscribe(s) \/ Replay(s) \/ ReadAgain(s) \/ WriteNotice(s)
    \/ Close(s) \/ DropConn(s) \/ Release(s)

Client(s) ==
    \/ OpenStream(s)
    \/ \E no \in T!Numbers : ClientRequest(s, "ok", no)
    \/ ClientRequest(s, "bad", 0)
    \/ ClientGone(s)

Main == Stop \/ (\E s \in Streams : SendStop(s)) \/ Unlock \/ Poll

Next ==
    \/ \E s \in Streams : Client(s) \/ Handler(s) \/ AlarmExpires(s)
    \/ Publish
    \/ Main

\* The threads of the grpc contexts run every coroutine that can go on, and
\* the main thread runs through stop() once it is called.
Fairness ==
    /\ \A s \in Streams : WF_vars(Handler(s)) /\ WF_vars(SendStop(s))
    /\ WF_vars(Unlock) /\ WF_vars(Poll)

Spec == Init /\ [][Next]_vars /\ Fairness

-----------------------------------------------------------------------------
Places == {"idle", "opened", "launch", "wait", "subscribe", "replay", "write",
           "close", "closed", "unwind", "release", "done"}

Option(S) == {q \in Seq(S) : Len(q) <= 1}

TypeOK ==
    /\ T!TypeOK
    /\ pc \in [Streams -> Places]
    /\ waiter \in [Streams -> [st : {"pending", "ok", "bad", "fail"}, no : Nat]]
    /\ group \in [Streams -> [first : {"none", "read", "alarm", "notice", "stop"},
                              notice : Option(Nat), stop : BOOLEAN]]
    /\ chan \in [Streams -> Seq(Nat)]
    /\ \A s \in Streams : Len(chan[s]) <= ChanCap
    /\ token \in [Streams -> BOOLEAN]
    /\ conn \in [Streams -> Option(Nat)]
    /\ store \in [Streams -> Seq(Nat)]
    /\ wire \in [Streams -> Seq([m : Nat, of : Nat])]
    /\ missed \in [Streams -> SUBSET Nat] /\ epoch \in [Streams -> Nat]
    /\ main \in {"run", "sending", "drain", "down"} /\ m_stop \in BOOLEAN
    /\ m_exit_chan \subseteq Streams /\ toStop \subseteq m_exit_chan
    /\ tokenLost \subseteq Streams

\* What is still to be written to the client of s from its channel.
Coming(s) == group[s].notice \o chan[s]
Numbers(w) == [i \in DOMAIN w |-> w[i].m]
Marked(q, of) == [i \in DOMAIN q |-> [m |-> q[i], of |-> of]]

\* What the client of s has seen and has still to see, in that order.
Sent(s) == wire[s] \o Marked(store[s], epoch[s]) \o Marked(Coming(s), 0)

\* The client of a stream sees each notice of the channel once and in the order
\* of the numbers, however often it has subscribed to that channel, and the
\* snapshot of each request likewise.  Until it asks a second time this holds
\* of everything it sees, the snapshot before what the channel brings.  After
\* that the code orders no more: a new snapshot repeats what is on the wire or
\* in the channel, and comes before what is in the channel.
InOrder ==
    \A s \in Streams : \A i, j \in DOMAIN Sent(s) :
        i < j /\ (epoch[s] <= 1 \/ Sent(s)[i].of = Sent(s)[j].of)
        => Sent(s)[i].m < Sent(s)[j].m

\* A notice that the topic has handed to a stream since its last request is
\* written, on its way, or one that a full channel or a lost race took: the
\* handler forgets none when it replays, resubscribes or goes round its loop.
NothingVanishes ==
    \A s \in Streams : \A m \in ToSet(IF conn[s] = << >> THEN << >>
                                      ELSE got[Head(conn[s])]) :
        \/ m \in ToSet(Numbers(wire[s])) \/ m \in missed[s]
        \/ m \in ToSet(store[s]) \/ m \in ToSet(Coming(s))

\* The callbacks in the topic are exactly those of the coroutines that still
\* have a connection, one each: none outlives its stream or its request,
\* whichever way the coroutine ends.
NoOrphanCallback ==
    /\ m_sig = UNION {ToSet(conn[s]) : s \in Streams}
    /\ \A s, t \in Streams : s # t => ToSet(conn[s]) \cap ToSet(conn[t]) = {}
    /\ \A s \in Streams :
          pc[s] \in {"idle", "opened", "release", "done"} => conn[s] = << >>

\* Once stop() has seen every entry expire, no callback is left in the topic
\* and no stream is, or will be, past the check of m_stop.
DrainedMeansSilent ==
    main = "down" =>
        /\ m_sig = {}
        /\ \A s \in Streams : pc[s] \in {"idle", "opened", "done"}

\* stop() keeps the promise of Drain for the coroutines: it goes on to the
\* server when none is past the check, and none gets past it any more.
Served == INSTANCE Drain WITH
    phase <- CASE main = "run" -> "on" [] main \in {"sending", "drain"} -> "closing"
               [] main = "down" -> "off",
    active <- {s \in Streams : pc[s] \notin {"idle", "opened", "done"}}
NoticeIsDrain == Served!Spec

\* After the loop of stop() every stream it waits for is ending, has the token
\* ahead of it, or lost it to a race in its group.
StopReachesEveryone ==
    main \in {"drain", "down"} =>
        \A s \in m_exit_chan :
            \/ token[s] \/ group[s].stop \/ s \in tokenLost
            \/ pc[s] \in {"close", "closed", "unwind", "release", "done"}

\* stop() gets through its polling loop if every client ends its call, as the
\* deadline of client.cpp:44 makes it do.
ClientsLeave == \A s \in Streams : WF_vars(ClientGone(s))
DrainTerminates == ClientsLeave => (main = "sending" ~> main = "down")

\* It does without the clients unless a group took a token and something else
\* came first.
StopSuffices ==
    [](tokenLost = {}) => (main = "sending" ~> main = "down")
=============================================================================
