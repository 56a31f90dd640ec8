---------------------------- MODULE PubSubService ---------------------------
(***************************************************************************)
(* PubSubService<T> of example/include/pubsub_service.hpp: the map from    *)
(* names to topics that publishers and subscribers share and fill on       *)
(* demand, the notice callback every topic inherits, and recover(), which  *)
(* restores the topics when the process starts again.                      *)
(*                                                                         *)
(* What a topic does with its callback table is in Topic.tla; here a topic *)
(* is its buffer, its next number and whether anybody is registered, and   *)
(* publish() is taken apart where the process may die: after the message   *)
(* is stored, after the notice callback, after the fan-out.                *)
(*                                                                         *)
(* The journal that the notice callback appends to and that recover()      *)
(* reads back is outside the service.  The one intended for it is the      *)
(* vector in shared memory of server.cpp:306-335, which that commit has    *)
(* commented out on both sides.                                            *)
(***************************************************************************)
EXTENDS Integers, Sequences, SequencesExt

CONSTANTS Callers,   \* threads that publish or subscribe
          Names,     \* names of topics
          Cap,       \* m_size
          MaxMsg,    \* bound: messages published
          MaxCrash   \* bound: crashes

ASSUME ServiceAssumption ==
    /\ Names # {} /\ Cap \in Nat \ {0}
    /\ MaxMsg \in Nat /\ MaxCrash \in Nat

VARIABLES m_topic_map,  \* name -> position of its topic in "topics"
          m_notice_cb,  \* TRUE once setNoticeCallback has been called
          topics,       \* every Topic made since the process started
          main,         \* start of the process: "callback", "recover", "serving"
          toRecover,    \* names recover() has still to restore
          pc,           \* caller -> where it is
          name,         \* caller -> the topic it names in its call
          topic_ptr,    \* caller -> position of its topic, 0 for nullptr
          journal,      \* name -> what the notice callback has stored
          seen,         \* history: name -> what subscribers have been handed
          published,    \* history: messages handed to publish()
          crashes

processVars == <<m_topic_map, m_notice_cb, topics, main, toRecover>>
callVars == <<pc, name, topic_ptr>>
durableVars == <<journal, seen, crashes>>
vars == <<processVars, callVars, durableVars, published>>

\* A topic without messages; "notify" is its own copy of the callback.
NewTopic(n) == [name |-> n, m_buffer |-> << >>, m_seq_no |-> 0,
                notify |-> m_notice_cb, sig |-> {}]

\* As if the buffer were not bounded.
NewestAll(s, n) == s

\* The newest n elements of s, which a full boost::circular_buffer keeps.
Newest(s, n) == IF Len(s) <= n THEN s ELSE SubSeq(s, Len(s) - n + 1, Len(s))

Init ==
    /\ m_topic_map = << >> /\ m_notice_cb = FALSE /\ topics = << >>
    /\ main = "callback" /\ toRecover = {}
    /\ pc = [c \in Callers |-> "idle"]
    /\ topic_ptr = [c \in Callers |-> 0]
    /\ name = [c \in Callers |-> CHOOSE n \in Names : TRUE]
    /\ journal = [n \in Names |-> << >>] /\ seen = [n \in Names |-> {}]
    /\ published = 0 /\ crashes = 0

-----------------------------------------------------------------------------
(* Start of the process: init() of server.cpp.                             *)

\* setNoticeCallback, and the call of recover's cb, which reads the journal.
SetNoticeCallback ==
    /\ main = "callback"
    /\ main' = "recover" /\ m_notice_cb' = TRUE
    /\ toRecover' = {n \in Names : journal[n] # << >>}
    /\ UNCHANGED <<m_topic_map, topics, callVars, durableVars, published>>

\* The number after the last one, without the increment.
RestoredStale(n) == [NewTopic(n) EXCEPT !.m_buffer = Newest(journal[n], Cap),
                                        !.m_seq_no = Last(journal[n]).no]

\* What Topic::recover leaves in a new topic.
Restored(n) == [NewTopic(n) EXCEPT !.m_buffer = Newest(journal[n], Cap),
                                   !.m_seq_no = Last(journal[n]).no + 1]

\* m_topic_map[n] = t.
Assign(n, t) ==
    m_topic_map' = [k \in DOMAIN m_topic_map \cup {n} |->
                      IF k = n THEN t ELSE m_topic_map[k]]

\* One round of the loop of recover(): getTopicPtr makes the topic.
Recover(n) ==
    /\ main = "recover" /\ n \in toRecover
    /\ toRecover' = toRecover \ {n}
    /\ topics' = Append(topics, Restored(n))
    /\ Assign(n, Len(topics'))
    /\ UNCHANGED <<m_notice_cb, main, callVars, durableVars, published>>

Serve ==
    /\ main = "recover" /\ toRecover = {}
    /\ main' = "serving"
    /\ UNCHANGED <<m_topic_map, m_notice_cb, topics, toRecover, callVars,
                   durableVars, published>>

-----------------------------------------------------------------------------
(* Calls.                                                                  *)

Go(c, from, to) == pc[c] = from /\ pc' = [pc EXCEPT ![c] = to]

\* publish or (re)subscribe is called: getTopicPtr begins.
Call(c, n) ==
    /\ main = "serving" /\ Go(c, "idle", "find")
    /\ name' = [name EXCEPT ![c] = n]
    /\ UNCHANGED <<processVars, topic_ptr, durableVars, published>>

Mapped(c) == name[c] \in DOMAIN m_topic_map

Take(c, t) == topic_ptr' = [topic_ptr EXCEPT ![c] = t]

\* The first look, under the shared lock.
FindShared(c) ==
    /\ \/ Mapped(c) /\ Go(c, "find", "enter") /\ Take(c, m_topic_map[name[c]])
       \/ ~Mapped(c) /\ Go(c, "find", "insert") /\ UNCHANGED topic_ptr
    /\ UNCHANGED <<processVars, name, durableVars, published>>

Insert(c) ==
    /\ topics' = Append(topics, NewTopic(name[c]))
    /\ Assign(name[c], Len(topics'))
    /\ Take(c, Len(topics'))

\* Without the second look.
FindOrInsertBlind(c) ==
    /\ Go(c, "insert", "enter")
    /\ Insert(c)
    /\ UNCHANGED <<m_notice_cb, main, toRecover, name, durableVars, published>>

\* The second look, under the unique lock, and the insertion.
FindOrInsert(c) ==
    /\ Go(c, "insert", "enter")
    /\ \/ Mapped(c) /\ Take(c, m_topic_map[name[c]])
                    /\ UNCHANGED <<topics, m_topic_map>>
       \/ ~Mapped(c) /\ Insert(c)
    /\ UNCHANGED <<m_notice_cb, main, toRecover, name, durableVars, published>>

Topic(c) == topics[topic_ptr[c]]

\* publish() without a lock.
FreeAlways(t) == TRUE

\* Topic::m_mutex of a topic is free: no call is inside its publish().
Free(t) == \A c \in Callers : topic_ptr[c] = t => pc[c] \notin {"notice", "fanout"}

\* The callbacks are called before the notice callback.
StoreHanding(c) ==
    /\ published < MaxMsg /\ Free(topic_ptr[c]) /\ Go(c, "enter", "notice")
    /\ published' = published + 1
    /\ LET m == [no |-> Topic(c).m_seq_no, msg |-> published]
       IN /\ topics' = [topics EXCEPT
                 ![topic_ptr[c]].m_seq_no = @ + 1,
                 ![topic_ptr[c]].m_buffer = Newest(Append(@, m), Cap)]
          /\ seen' = IF Topic(c).sig = {} THEN seen
                     ELSE [seen EXCEPT ![name[c]] = @ \cup {m}]
    /\ UNCHANGED <<m_topic_map, m_notice_cb, main, toRecover, name, topic_ptr,
                   journal, crashes>>

\* Topic::publish: number and store the message.
Store(c) ==
    /\ published < MaxMsg /\ Free(topic_ptr[c]) /\ Go(c, "enter", "notice")
    /\ published' = published + 1
    /\ LET m == [no |-> Topic(c).m_seq_no, msg |-> published]
       IN topics' = [topics EXCEPT
              ![topic_ptr[c]].m_seq_no = @ + 1,
              ![topic_ptr[c]].m_buffer = Newest(Append(@, m), Cap)]
    /\ UNCHANGED <<m_topic_map, m_notice_cb, main, toRecover, name, topic_ptr,
                   durableVars>>

\* Topic::publish: m_notice_cb, if the topic has one.
Notice(c) ==
    /\ Go(c, "notice", "fanout")
    /\ journal' = IF Topic(c).notify
                  THEN [journal EXCEPT ![name[c]] = Append(@, Last(Topic(c).m_buffer))]
                  ELSE journal
    /\ UNCHANGED <<processVars, name, topic_ptr, seen, crashes, published>>

\* Topic::publish: every registered callback.
FanOut(c) ==
    /\ Go(c, "fanout", "idle")
    /\ seen' = IF Topic(c).sig = {} THEN seen
               ELSE [seen EXCEPT ![name[c]] = @ \cup {Last(Topic(c).m_buffer)}]
    /\ Take(c, 0)
    /\ UNCHANGED <<processVars, name, journal, crashes, published>>

\* Topic::subscribe or resubscribe, which registers the caller and hands it
\* the buffer from some number on.
Subscribe(c) ==
    /\ Free(topic_ptr[c]) /\ Go(c, "enter", "idle")
    /\ topics' = [topics EXCEPT ![topic_ptr[c]].sig = @ \cup {c}]
    /\ \E i \in 1 .. Len(Topic(c).m_buffer) + 1 :
          seen' = [seen EXCEPT ![name[c]] = @ \cup
                      ToSet(SubSeq(Topic(c).m_buffer, i, Len(Topic(c).m_buffer)))]
    /\ Take(c, 0)
    /\ UNCHANGED <<m_topic_map, m_notice_cb, main, toRecover, name, journal,
                   crashes, published>>

\* ~ScopedConn: its weak_ptr still leads to the topic it registered with.
Unsubscribe(c, t) ==
    /\ c \in topics[t].sig /\ Free(t)
    /\ topics' = [topics EXCEPT ![t].sig = @ \ {c}]
    /\ UNCHANGED <<m_topic_map, m_notice_cb, main, toRecover, callVars,
                   durableVars, published>>

\* The process dies, or ends with ~PubSubService, and is started again: only
\* the journal is left.
Crash ==
    /\ crashes < MaxCrash
    /\ crashes' = crashes + 1
    /\ m_topic_map' = << >> /\ m_notice_cb' = FALSE /\ topics' = << >>
    /\ main' = "callback" /\ toRecover' = {}
    /\ pc' = [c \in Callers |-> "idle"]
    /\ topic_ptr' = [c \in Callers |-> 0]
    /\ UNCHANGED <<name, journal, seen, published>>

Next ==
    \/ SetNoticeCallback \/ Serve \/ (\E n \in Names : Recover(n))
    \/ \E c \in Callers :
          \/ \E n \in Names : Call(c, n)
          \/ FindShared(c) \/ FindOrInsert(c)
          \/ Store(c) \/ Notice(c) \/ FanOut(c) \/ Subscribe(c)
          \/ \E t \in DOMAIN topics : Unsubscribe(c, t)
    \/ Crash

Spec == Init /\ [][Next]_vars

-----------------------------------------------------------------------------
Messages == [no : Nat, msg : Nat]

TypeOK ==
    /\ m_notice_cb \in BOOLEAN
    /\ \A n \in DOMAIN m_topic_map : n \in Names /\ m_topic_map[n] \in DOMAIN topics
    /\ topics \in Seq([name : Names, m_buffer : Seq(Messages), m_seq_no : Nat,
                       notify : BOOLEAN, sig : SUBSET Callers])
    /\ \A t \in DOMAIN topics : Len(topics[t].m_buffer) <= Cap
    /\ main \in {"callback", "recover", "serving"} /\ toRecover \subseteq Names
    /\ pc \in [Callers -> {"idle", "find", "insert", "enter", "notice", "fanout"}]
    /\ name \in [Callers -> Names]
    /\ topic_ptr \in [Callers -> 0 .. Len(topics)]
    /\ journal \in [Names -> Seq(Messages)] /\ seen \in [Names -> SUBSET Messages]
    /\ published \in Nat /\ crashes \in Nat

\* Calls that race to make the topic of a name all end up with the same one,
\* the one later calls find: no message goes to a topic, and no callback waits
\* in one, that nobody else can reach (getTopicPtr looks twice).
OneTopic ==
    /\ \A c \in Callers : topic_ptr[c] # 0 =>
          /\ name[c] \in DOMAIN m_topic_map
          /\ topic_ptr[c] = m_topic_map[name[c]]
    /\ \A t \in DOMAIN topics :
          /\ topics[t].name \in DOMAIN m_topic_map
          /\ t = m_topic_map[topics[t].name]

\* Under one name a number means one message, for the journal and for whoever
\* subscribed at any time, before a crash or after: a message that a crash
\* takes between its number and the journal has been seen by nobody, and a
\* number that somebody saw is not given out again.
NumberNamesOneMessage ==
    \A n \in Names : \A x, y \in seen[n] \cup ToSet(journal[n]) :
        x.no = y.no => x = y

\* What a subscriber has been handed, live or from the buffer, is in the
\* journal by then: publish() calls the notice callback before the others and
\* keeps the topic locked until it is done.
DeliveredIsDurable == \A n \in Names : seen[n] \subseteq ToSet(journal[n])

\* The buffer of a topic and the journal tell the same story after any number
\* of crashes: the buffer is the newest stretch of the journal and of the
\* message whose notice callback has not been called yet, and the next number
\* is the one after it.
BufferIsJournalTail ==
    \A t \in DOMAIN topics :
        LET underway == \E c \in Callers : topic_ptr[c] = t /\ pc[c] = "notice"
            log == IF underway
                   THEN Append(journal[topics[t].name], Last(topics[t].m_buffer))
                   ELSE journal[topics[t].name]
        IN /\ topics[t].m_buffer = Newest(log, Cap)
           /\ topics[t].m_seq_no = Len(log)
           /\ \A i \in DOMAIN log : log[i].no = i - 1
=============================================================================
