------------------------------- MODULE Topic --------------------------------
(***************************************************************************)
(* Topic<T> of example/include/pubsub_service.hpp: the bounded buffer of   *)
(* one topic, its numbering, and its table of subscriber callbacks.  Every *)
(* public operation holds m_mutex from its first access to its last, so    *)
(* each is one action.  A message is its seq_no: info_ptr is never         *)
(* inspected.  A callback is its call id; what it has been handed, first   *)
(* as the vector that (re)subscribe returns and then by publish, is kept   *)
(* in the history variables "request" and "got".                           *)
(*                                                                         *)
(* The buffer is the boost::circular_buffer that server.cpp:35 selects.    *)
(***************************************************************************)
EXTENDS Integers, Sequences, SequencesExt

CONSTANTS Cap,       \* capacity of m_buffer (PubSubService::m_size)
          MaxSeq,    \* bound: no message is numbered MaxSeq or above
          MaxCall    \* bound: at most MaxCall subscriptions are made

\* publish() takes m_buffer.back() right after the push, which a buffer of
\* capacity 0 would not have.
ASSUME CapAssumption == Cap \in Nat \ {0}
ASSUME BoundAssumption == MaxSeq \in Nat /\ MaxCall \in Nat

VARIABLES m_buffer,  \* the retained messages, oldest first
          m_seq_no,  \* number of the next message
          m_sig,     \* call ids of the registered callbacks
          m_call_id, \* next call id
          alive,     \* FALSE once ~Topic has run
          held,      \* call ids of the ScopedConn objects that would erase
          request,   \* call id -> what its owner asked, and the first number
                     \* it has been or will be handed
          got        \* call id -> the messages its owner has been handed

vars == <<m_buffer, m_seq_no, m_sig, m_call_id, alive, held, request, got>>

\* The newest n elements of s.
Newest(s, n) == IF Len(s) <= n THEN s ELSE SubSeq(s, Len(s) - n + 1, Len(s))

\* Variants with a plausible fault, for the mutation runs (here and below, the
\* specification uses none of them): a buffer that grows, one that rejects
\* the new message when full, one that is full one message too early.
PushBackGrowing(s, m) == Append(s, m)
PushBackRejecting(s, m) == IF Len(s) < Cap THEN Append(s, m) ELSE s
PushBackEarly(s, m) == IF Len(s) + 1 < Cap \/ s = << >> THEN Append(s, m)
                       ELSE Append(Tail(s), m)

\* boost::circular_buffer::push_back: a full buffer loses its oldest message.
PushBack(s, m) == IF Len(s) < Cap THEN Append(s, m) ELSE Append(Tail(s), m)

\* The bound of the other kind: the first message above no.
UpperBound(no) ==
    CHOOSE i \in 1 .. Len(m_buffer) + 1 :
        /\ \A j \in 1 .. i - 1 : m_buffer[j] <= no
        /\ \A j \in i .. Len(m_buffer) : m_buffer[j] > no

\* std::lower_bound: the position of the first message numbered no or above.
LowerBound(no) ==
    CHOOSE i \in 1 .. Len(m_buffer) + 1 :
        /\ \A j \in 1 .. i - 1 : m_buffer[j] < no
        /\ \A j \in i .. Len(m_buffer) : m_buffer[j] >= no

\* The last message left out.
FindShort(no) == SubSeq(m_buffer, LowerBound(no), Len(m_buffer) - 1)

\* The messages findAndSubscribe returns for a request.
Find(no) == SubSeq(m_buffer, LowerBound(no), Len(m_buffer))

\* The messages the filter of server.cpp (its compiled-out alternative to
\* resubscribe by number) returns for a request: those from the message
\* numbered no, none if that message is not in the buffer.
Filter(no) ==
    IF \E i \in 1 .. Len(m_buffer) : m_buffer[i] = no THEN Find(no) ELSE << >>

-----------------------------------------------------------------------------
Init ==
    /\ m_buffer = << >> /\ m_seq_no = 0
    /\ m_sig = {} /\ m_call_id = 0
    /\ alive = TRUE /\ held = {}
    /\ request = [id \in {} |-> id] /\ got = [id \in {} |-> id]

\* recover(vec) with vec = lo, lo+1, .. lo+n-1.  PubSubService::recover makes
\* the topic and restores it before the server accepts a call: nothing has
\* been published and nobody subscribed.  An empty vec changes nothing.
Recover(lo, n) ==
    /\ alive /\ m_seq_no = 0 /\ m_call_id = 0
    /\ n > 0 /\ lo + n <= MaxSeq
    /\ LET vec == [i \in 1 .. n |-> lo + i - 1]
       IN /\ m_buffer' = Newest(m_buffer \o vec, Cap)
          /\ m_seq_no' = Last(vec) + 1
    /\ UNCHANGED <<m_sig, m_call_id, alive, held, request, got>>

\* Hands the message to callbacks that have been erased, too.
PublishToErased ==
    /\ alive /\ m_seq_no < MaxSeq
    /\ m_seq_no' = m_seq_no + 1
    /\ m_buffer' = PushBack(m_buffer, m_seq_no)
    /\ got' = [id \in DOMAIN got |-> Append(got[id], Last(m_buffer'))]
    /\ UNCHANGED <<m_sig, m_call_id, alive, held, request>>

\* publish(ptr): number, store, then call every registered callback with the
\* stored message.
Publish ==
    /\ alive /\ m_seq_no < MaxSeq
    /\ m_seq_no' = m_seq_no + 1
    /\ m_buffer' = PushBack(m_buffer, m_seq_no)
    /\ got' = [id \in DOMAIN got |->
                  IF id \in m_sig THEN Append(got[id], Last(m_buffer'))
                  ELSE got[id]]
    /\ UNCHANGED <<m_sig, m_call_id, alive, held, request>>

\* The part every overload shares: register a callback under a new id, hand
\* out its ScopedConn and the snapshot of what was asked for.  "old" is the
\* id resubscribe erases first; its owner has called reset() on that
\* ScopedConn, so that its destructor will not erase again.
Register(old, no, filtered, snapshot) ==
    /\ alive /\ m_call_id < MaxCall
    /\ m_sig' = (m_sig \ old) \cup {m_call_id}
    /\ held' = (held \ old) \cup {m_call_id}
    /\ m_call_id' = m_call_id + 1
    /\ request' = [id \in DOMAIN request \cup {m_call_id} |->
                      IF id = m_call_id
                      THEN [asked |-> no, filtered |-> filtered,
                            first |-> IF snapshot = << >> THEN m_seq_no
                                      ELSE Head(snapshot)]
                      ELSE request[id]]
    /\ got' = [id \in DOMAIN got \cup {m_call_id} |->
                  IF id = m_call_id THEN snapshot ELSE got[id]]
    /\ UNCHANGED <<m_buffer, m_seq_no, alive>>

Subscribe(no) == Register({}, no, FALSE, Find(no))

Resubscribe(id, no) == id \in held /\ Register({id}, no, FALSE, Find(no))

SubscribeFiltered(no) == Register({}, no, TRUE, Filter(no))

ResubscribeFiltered(id, no) ==
    id \in held /\ Register({id}, no, TRUE, Filter(no))

\* The destructor returns early although its connection was not reset.
DropConnSilently(id) ==
    /\ id \in held
    /\ held' = held \ {id}
    /\ UNCHANGED <<m_buffer, m_seq_no, m_sig, m_call_id, alive, request, got>>

\* ~ScopedConn of a connection that was not reset: erase(id) while the topic
\* lives, nothing once its weak_ptr has expired.
DropConn(id) ==
    /\ id \in held
    /\ held' = held \ {id}
    /\ m_sig' = IF alive THEN m_sig \ {id} ELSE m_sig
    /\ UNCHANGED <<m_buffer, m_seq_no, m_call_id, alive, request, got>>

\* ~Topic: clear().
Destruct ==
    /\ alive
    /\ alive' = FALSE /\ m_sig' = {} /\ m_buffer' = << >>
    /\ UNCHANGED <<m_seq_no, m_call_id, held, request, got>>

Numbers == 0 .. MaxSeq
Ids == 0 .. MaxCall - 1

Next ==
    \/ \E lo, n \in Numbers : Recover(lo, n)
    \/ Publish
    \/ \E no \in Numbers : Subscribe(no)
    \/ \E id \in Ids, no \in Numbers : Resubscribe(id, no)
    \/ \E no \in Numbers : SubscribeFiltered(no)
    \/ \E id \in Ids, no \in Numbers : ResubscribeFiltered(id, no)
    \/ \E id \in Ids : DropConn(id)
    \/ Destruct

Spec == Init /\ [][Next]_vars

-----------------------------------------------------------------------------
Requests == [asked : Nat, filtered : BOOLEAN, first : Nat]

\* Every variable stays in its range; the ids given out are those below
\* m_call_id, and the buffer never outgrows its capacity.
TypeOK ==
    /\ m_buffer \in Seq(Nat) /\ Len(m_buffer) <= Cap
    /\ m_seq_no \in Nat /\ m_call_id \in Nat
    /\ alive \in BOOLEAN
    /\ request \in [0 .. m_call_id - 1 -> Requests]
    /\ got \in [0 .. m_call_id - 1 -> Seq(Nat)]
    /\ m_sig \subseteq DOMAIN got /\ held \subseteq DOMAIN got

\* s is a stretch of the log without a hole that ends before number hi.
EndsAt(s, hi) ==
    /\ Len(s) <= hi
    /\ \A i \in 1 .. Len(s) : s[i] = hi - Len(s) + i - 1

\* The buffer is the newest stretch of the log, without a hole and ending at
\* the message before m_seq_no, through recovery, publishing and eviction.
\* lower_bound (pubsub_service.hpp:180) is undefined on any other buffer.
BufferIsTail == EndsAt(m_buffer, m_seq_no)

\* Snapshot and live callbacks join without a gap, a repetition or a swap:
\* an owner has been handed consecutive numbers, and a registered one every
\* number from its first to the last published.
ExactFeed ==
    \A id \in DOMAIN got :
        /\ EndsAt(got[id], request[id].first + Len(got[id]))
        /\ id \in m_sig => request[id].first + Len(got[id]) = m_seq_no

\* A message that the buffer still holds and that a subscriber by number
\* asked for has been handed to it, whatever was evicted before or since.
NothingWithheld ==
    \A id \in m_sig : \A i \in 1 .. Len(m_buffer) :
        ~request[id].filtered /\ m_buffer[i] >= request[id].asked
            => m_buffer[i] >= request[id].first

\* A callback is in the table exactly as long as the ScopedConn that would
\* erase it: none is leaked by a resubscription (reset() skips the erase of
\* the destructor because resubscribe has erased), none is lost.
CallbackOwned == m_sig = IF alive THEN held ELSE {}

\* While the topic lives, a message leaves the buffer only to make room for
\* Cap newer ones.
Retention ==
    [][alive' => \A m \in ToSet(m_buffer) :
                    m \in ToSet(m_buffer') \/ m < m_seq_no' - Cap]_vars

\* The topic keeps the promise of Feed.tla to every subscriber.
Promise == INSTANCE Feed WITH
    end <- m_seq_no,
    first <- [id \in DOMAIN got |-> request[id].first],
    open <- m_sig
FeedSpec == Promise!Spec
=============================================================================
