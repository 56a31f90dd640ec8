------------------------- MODULE PubSubServiceProofs --------------------------
(***************************************************************************)
(* Theorems of PubSubService.tla, for every set of callers and names and   *)
(* every capacity: the type invariant, that racing calls agree on a topic, *)
(* and what the journal, the buffers and the subscribers have in common    *)
(* after any number of crashes.                                            *)
(***************************************************************************)
EXTENDS PubSubService, SequenceTheorems, TLAPS

-----------------------------------------------------------------------------
(* The newest part of a sequence.                                          *)

\* A suffix of a sequence.
LEMMA SuffixFacts ==
    ASSUME NEW S, NEW s \in Seq(S), NEW j \in 1 .. Len(s) + 1
    PROVE  /\ SubSeq(s, j, Len(s)) \in Seq(S)
           /\ Len(SubSeq(s, j, Len(s))) = Len(s) - j + 1
           /\ \A i \in 1 .. Len(s) - j + 1 : SubSeq(s, j, Len(s))[i] = s[j + i - 1]
  OBVIOUS

LEMMA ToSetFacts ==
    ASSUME NEW S, NEW s \in Seq(S)
    PROVE  ToSet(s) = {s[i] : i \in 1 .. Len(s)} /\ ToSet(s) \subseteq S
  BY DEF ToSet

\* The elements of a suffix.
LEMMA SuffixSet ==
    ASSUME NEW S, NEW s \in Seq(S), NEW j \in 1 .. Len(s) + 1
    PROVE  ToSet(SubSeq(s, j, Len(s))) \subseteq ToSet(s)
  <1> DEFINE t == SubSeq(s, j, Len(s))
             n == Len(s)
  <1>1. /\ n \in Nat /\ t \in Seq(S) /\ Len(t) = n - j + 1
        /\ \A i \in 1 .. n - j + 1 : t[i] = s[j + i - 1]
    BY SuffixFacts
  <1>2. ToSet(t) = {t[i] : i \in 1 .. Len(t)} /\ ToSet(s) = {s[i] : i \in 1 .. n}
    BY <1>1, ToSetFacts
  <1>3. j \in 1 .. n + 1
    OBVIOUS
  <1> HIDE DEF t, n
  <1>4. \A i \in 1 .. n - j + 1 : j + i - 1 \in 1 .. n
    BY <1>1, <1>3
  <1>5. ToSet(t) \subseteq ToSet(s)
    BY <1>1, <1>2, <1>4
  <1> QED BY <1>5 DEF t

\* More than the newest k is cut to exactly those.
LEMMA NewestCut ==
    ASSUME NEW S, NEW s \in Seq(S), NEW k \in Nat \ {0}, Len(s) > k
    PROVE  /\ Newest(s, k) = SubSeq(s, Len(s) - k + 1, Len(s))
           /\ Len(s) - k + 1 \in 1 .. Len(s) + 1
           /\ Newest(s, k) \in Seq(S) /\ Len(Newest(s, k)) = k
           /\ \A i \in 1 .. k : Newest(s, k)[i] = s[Len(s) - k + i]
  <1> DEFINE n == Len(s)
             j == n - k + 1
             t == SubSeq(s, j, n)
  <1>1. n \in Nat /\ n > k
    OBVIOUS
  <1>2. Newest(s, k) = t
    BY <1>1 DEF Newest
  <1>3. j \in 1 .. n + 1 /\ n - j + 1 = k
    BY <1>1
  <1>4. /\ t \in Seq(S) /\ Len(t) = n - j + 1
        /\ \A i \in 1 .. n - j + 1 : t[i] = s[j + i - 1]
    BY <1>3, SuffixFacts
  <1>5. \A i \in 1 .. k : j + i - 1 = n - k + i
    BY <1>1
  <1> HIDE DEF t
  <1>6. t \in Seq(S) /\ Len(t) = k /\ \A i \in 1 .. k : t[i] = s[n - k + i]
    BY <1>3, <1>4, <1>5
  <1> QED BY <1>2, <1>3, <1>6 DEF t

LEMMA NewestFacts ==
    ASSUME NEW S, NEW s \in Seq(S), NEW k \in Nat \ {0}
    PROVE  /\ Newest(s, k) \in Seq(S) /\ Len(Newest(s, k)) <= k
           /\ ToSet(Newest(s, k)) \subseteq ToSet(s)
           /\ s # << >> => Newest(s, k) # << >> /\ Last(Newest(s, k)) = Last(s)
  <1>1. CASE Len(s) <= k
    BY <1>1 DEF Newest
  <1>2. CASE Len(s) > k
    <2> DEFINE t == Newest(s, k)
               n == Len(s)
    <2>1. /\ t \in Seq(S) /\ Len(t) = k /\ \A i \in 1 .. k : t[i] = s[n - k + i]
          /\ ToSet(t) \subseteq ToSet(s) /\ n \in Nat
      <3>1. /\ t = SubSeq(s, n - k + 1, n) /\ n - k + 1 \in 1 .. n + 1
            /\ t \in Seq(S) /\ Len(t) = k
            /\ \A i \in 1 .. k : t[i] = s[n - k + i]
        BY <1>2, NewestCut, Zenon
      <3>2. ToSet(SubSeq(s, n - k + 1, n)) \subseteq ToSet(s)
        BY <3>1, SuffixSet, Zenon
      <3> QED BY <3>1, <3>2
    <2>2. Last(s) = s[n]
      BY DEF Last
    <2> HIDE DEF t, n
    <2>3. Last(t) = t[k] /\ n - k + k = n /\ k \in 1 .. k
      BY <2>1 DEF Last
    <2>4. t # << >> /\ Last(t) = Last(s)
      BY <2>1, <2>2, <2>3
    <2> QED BY <2>1, <2>4 DEF t
  <1> QED BY <1>1, <1>2

LEMMA AppendFacts ==
    ASSUME NEW S, NEW s \in Seq(S), NEW m \in S
    PROVE  /\ Append(s, m) \in Seq(S) /\ Len(Append(s, m)) = Len(s) + 1
           /\ Append(s, m) # << >> /\ Last(Append(s, m)) = m
           /\ ToSet(Append(s, m)) = ToSet(s) \cup {m}
           /\ Append(s, m)[Len(s) + 1] = m
           /\ \A i \in 1 .. Len(s) : Append(s, m)[i] = s[i]
  <1> DEFINE t == Append(s, m)
             n == Len(s)
  <1>1. /\ t \in Seq(S) /\ Len(t) = n + 1 /\ n \in Nat /\ t[n + 1] = m
        /\ \A i \in 1 .. n : t[i] = s[i]
    OBVIOUS
  <1>2. ToSet(t) = {t[i] : i \in 1 .. n + 1} /\ ToSet(s) = {s[i] : i \in 1 .. n}
    BY <1>1 DEF ToSet
  <1> HIDE DEF t, n
  <1>3. 1 .. n + 1 = (1 .. n) \cup {n + 1}
    BY <1>1
  <1>4. ToSet(t) = ToSet(s) \cup {m}
    BY <1>1, <1>2, <1>3
  <1>5. Last(t) = m /\ t # << >>
    BY <1>1 DEF Last
  <1> QED BY <1>1, <1>4, <1>5 DEF t, n

\* push_back on the circular buffer keeps it the newest part of the log.
LEMMA NewestAppend ==
    ASSUME NEW S, NEW s \in Seq(S), NEW m \in S, NEW k \in Nat \ {0}
    PROVE  Newest(Append(Newest(s, k), m), k) = Newest(Append(s, m), k)
  <1> DEFINE n == Len(s)
             a == Append(s, m)
             t == Newest(s, k)
             b == Append(t, m)
  <1>1. /\ a \in Seq(S) /\ Len(a) = n + 1 /\ n \in Nat /\ a[n + 1] = m
        /\ \A i \in 1 .. n : a[i] = s[i]
    BY AppendFacts
  <1>2. CASE n <= k
    BY <1>2 DEF Newest
  <1>3. CASE n > k
    <2>1. t \in Seq(S) /\ Len(t) = k /\ \A i \in 1 .. k : t[i] = s[n - k + i]
      BY <1>3, NewestCut
    <2> HIDE DEF t
    <2>2. /\ b \in Seq(S) /\ Len(b) = k + 1 /\ b[k + 1] = m
          /\ \A i \in 1 .. k : b[i] = s[n - k + i]
      BY <2>1, AppendFacts
    <2> HIDE DEF a, b, n
    <2>3. /\ Newest(b, k) \in Seq(S) /\ Len(Newest(b, k)) = k
          /\ \A i \in 1 .. k : Newest(b, k)[i] = b[k + 1 - k + i]
      <3>1. b \in Seq(S) /\ Len(b) > k
        BY <2>2
      <3>2. /\ Newest(b, k) \in Seq(S) /\ Len(Newest(b, k)) = k
            /\ \A i \in 1 .. k : Newest(b, k)[i] = b[Len(b) - k + i]
        BY <3>1, NewestCut, Zenon
      <3>3. ASSUME NEW i \in 1 .. k PROVE Len(b) - k + i = k + 1 - k + i
        BY <2>2
      <3> QED BY <3>2, <3>3, Zenon
    <2>4. /\ Newest(a, k) \in Seq(S) /\ Len(Newest(a, k)) = k
          /\ \A i \in 1 .. k : Newest(a, k)[i] = a[n + 1 - k + i]
      <3>1. a \in Seq(S) /\ Len(a) > k
        BY <1>1, <1>3
      <3>2. /\ Newest(a, k) \in Seq(S) /\ Len(Newest(a, k)) = k
            /\ \A i \in 1 .. k : Newest(a, k)[i] = a[Len(a) - k + i]
        BY <3>1, NewestCut, Zenon
      <3>3. ASSUME NEW i \in 1 .. k PROVE Len(a) - k + i = n + 1 - k + i
        BY <1>1
      <3> QED BY <3>2, <3>3, Zenon
    <2>5. ASSUME NEW i \in 1 .. k PROVE b[k + 1 - k + i] = a[n + 1 - k + i]
      <3>1. CASE i = k
        <4>1. k + 1 - k + i = k + 1 /\ n + 1 - k + i = n + 1
          BY <1>1, <3>1
        <4> QED BY <1>1, <2>2, <4>1, Zenon
      <3>2. CASE i # k
        <4>1. i + 1 \in 1 .. k /\ n - k + (i + 1) \in 1 .. n
          BY <1>1, <1>3, <3>2
        <4>2. b[i + 1] = s[n - k + (i + 1)] /\ a[n - k + (i + 1)] = s[n - k + (i + 1)]
          BY <1>1, <2>2, <4>1
        <4>3. k + 1 - k + i = i + 1 /\ n + 1 - k + i = n - k + (i + 1)
          BY <1>1
        <4> QED BY <4>2, <4>3
      <3> QED BY <3>1, <3>2
    <2>6. \A i \in 1 .. k : Newest(b, k)[i] = Newest(a, k)[i]
      BY <2>3, <2>4, <2>5
    <2>7. Newest(b, k) = Newest(a, k)
      <3> DEFINE u == Newest(b, k)
                 v == Newest(a, k)
      <3>1. /\ u \in Seq(S) /\ v \in Seq(S) /\ Len(u) = Len(v)
            /\ \A i \in 1 .. Len(u) : u[i] = v[i]
        BY <2>3, <2>4, <2>6
      <3> HIDE DEF u, v
      <3>2. u = v
        BY <3>1, SeqEqual
      <3> QED BY <3>2 DEF u, v
    <2> QED BY <2>7 DEF a, b, t
  <1> QED BY <1>1, <1>2, <1>3

-----------------------------------------------------------------------------
(* The inductive invariant.                                                *)

Topics == [name : Names, m_buffer : Seq(Messages), m_seq_no : Nat,
           notify : BOOLEAN, sig : SUBSET Callers]

\* The map leads from a name to the topic of that name.
MapNames == \A n \in DOMAIN m_topic_map : topics[m_topic_map[n]].name = n

\* The start of the process: no topic before the notice callback is set, and
\* none missing for a name of the journal when calls are served.
Started ==
    /\ main = "callback" => topics = << >> /\ DOMAIN m_topic_map = {}
    /\ main # "callback" =>
         /\ m_notice_cb = TRUE
         /\ \A n \in Names : journal[n] # << >> => n \in toRecover \cup DOMAIN m_topic_map
    /\ \A n \in toRecover : journal[n] # << >> /\ n \notin DOMAIN m_topic_map
    /\ main = "serving" => toRecover = {}
    /\ \A t \in DOMAIN topics : topics[t].notify = TRUE

\* A call has a topic from when it has found it to its end; inside publish() it
\* has stored a message there.
CallHolds ==
    \A c \in Callers :
        /\ topic_ptr[c] # 0 <=> pc[c] \in {"enter", "notice", "fanout"}
        /\ pc[c] # "idle" => main = "serving"
        /\ pc[c] \in {"notice", "fanout"} => topics[topic_ptr[c]].m_buffer # << >>

\* Topic::m_mutex admits one publish() at a time.
Exclusive ==
    \A c, d \in Callers :
        /\ c # d /\ topic_ptr[c] = topic_ptr[d]
        /\ pc[c] \in {"notice", "fanout"}
        => pc[d] \notin {"notice", "fanout"}

JournalNumbered == \A n \in Names : \A i \in DOMAIN journal[n] : journal[n][i].no = i - 1

Underway(t) == \E c \in Callers : topic_ptr[c] = t /\ pc[c] = "notice"

\* The log of a topic, with the message that is not in the journal yet.
Log(t) == IF Underway(t)
          THEN Append(journal[topics[t].name], Last(topics[t].m_buffer))
          ELSE journal[topics[t].name]

IsTail(t) ==
    /\ topics[t].m_buffer = Newest(Log(t), Cap) /\ topics[t].m_seq_no = Len(Log(t))
    /\ \A i \in DOMAIN Log(t) : Log(t)[i].no = i - 1

Agree == OneTopic /\ MapNames /\ Started /\ CallHolds /\ Exclusive

Inv == TypeOK /\ Agree /\ JournalNumbered /\ DeliveredIsDurable
       /\ \A t \in DOMAIN topics : IsTail(t)

LEMMA TailMeans == BufferIsJournalTail <=> \A t \in DOMAIN topics : IsTail(t)
  BY DEF BufferIsJournalTail, IsTail, Log, Underway

LEMMA InitInv == Init => Inv
  <1> SUFFICES ASSUME Init PROVE Inv
    OBVIOUS
  <1>1. (CHOOSE n \in Names : TRUE) \in Names
    BY ServiceAssumption
  <1>2. topics = << >> /\ DOMAIN topics = {} /\ DOMAIN m_topic_map = {} /\ Len(topics) = 0
    BY DEF Init
  <1>3. TypeOK
    <2>1. << >> \in Seq(Topics) /\ << >> \in Seq(Messages)
      OBVIOUS
    <2>2. m_notice_cb \in BOOLEAN
      BY Zenon DEF Init
    <2> QED BY <1>1, <1>2, <2>1, <2>2 DEF Init, TypeOK, Topics
  <1>4. OneTopic /\ MapNames /\ Started
    BY <1>2 DEF Init, OneTopic, MapNames, Started
  <1>5. CallHolds /\ Exclusive
    BY DEF Init, CallHolds, Exclusive
  <1>6. JournalNumbered /\ DeliveredIsDurable
    BY DEF Init, JournalNumbered, DeliveredIsDurable
  <1> QED BY <1>2, <1>3, <1>4, <1>5, <1>6 DEF Inv, Agree

-----------------------------------------------------------------------------
(* What a call knows of its topic.                                         *)

LEMMA TopicFacts ==
    ASSUME TypeOK, NEW t \in DOMAIN topics
    PROVE  /\ t \in 1 .. Len(topics) /\ topics[t] \in Topics /\ topics[t].name \in Names
           /\ topics[t].m_buffer \in Seq(Messages) /\ topics[t].m_seq_no \in Nat
           /\ topics[t].sig \subseteq Callers
           /\ journal[topics[t].name] \in Seq(Messages)
  <1>1. topics \in Seq(Topics)
    BY DEF TypeOK, Topics
  <1>2. t \in 1 .. Len(topics) /\ topics[t] \in Topics
    BY <1>1
  <1> QED BY <1>2 DEF Topics, TypeOK

LEMMA CallerFacts ==
    ASSUME Inv, NEW c \in Callers, pc[c] \in {"enter", "notice", "fanout"}
    PROVE  /\ topic_ptr[c] \in DOMAIN topics /\ topic_ptr[c] # 0
           /\ topics[topic_ptr[c]].name = name[c] /\ name[c] \in Names
           /\ name[c] \in DOMAIN m_topic_map /\ m_topic_map[name[c]] = topic_ptr[c]
           /\ topics[topic_ptr[c]].notify = TRUE
           /\ main = "serving"
  <1>1. topic_ptr[c] # 0 /\ main = "serving"
    BY DEF Inv, Agree, CallHolds
  <1>2. /\ name[c] \in DOMAIN m_topic_map /\ topic_ptr[c] = m_topic_map[name[c]]
        /\ topics[topic_ptr[c]].name = name[c]
    BY <1>1 DEF Inv, Agree, OneTopic, MapNames
  <1>3. topic_ptr[c] \in DOMAIN topics /\ name[c] \in Names
    BY <1>2 DEF Inv, TypeOK
  <1> QED BY <1>1, <1>2, <1>3 DEF Inv, Agree, Started

\* While nobody is inside publish() the journal is the log.
LEMMA FreeFacts ==
    ASSUME Inv, NEW t \in DOMAIN topics, Free(t)
    PROVE  /\ ~Underway(t) /\ Log(t) = journal[topics[t].name]
           /\ topics[t].m_buffer = Newest(journal[topics[t].name], Cap)
           /\ topics[t].m_seq_no = Len(journal[topics[t].name])
  <1>1. ~Underway(t)
    BY DEF Free, Underway
  <1> QED BY <1>1 DEF Log, Inv, IsTail

\* Two topics have two names.
LEMMA NamesDiffer ==
    ASSUME Inv, NEW t \in DOMAIN topics, NEW u \in DOMAIN topics,
           topics[t].name = topics[u].name
    PROVE  t = u
  BY DEF Inv, Agree, OneTopic

-----------------------------------------------------------------------------
(* Start of the process.                                                   *)

LEMMA CallbackStep ==
    ASSUME Inv, SetNoticeCallback PROVE Inv'
  <1>1. /\ main = "callback" /\ main' = "recover" /\ m_notice_cb' = TRUE
        /\ toRecover' = {n \in Names : journal[n] # << >>}
        /\ UNCHANGED <<m_topic_map, topics, pc, name, topic_ptr, journal, seen, crashes, published>>
    BY DEF SetNoticeCallback, callVars, durableVars
  <1>2. topics = << >> /\ DOMAIN topics = {} /\ DOMAIN m_topic_map = {}
    BY <1>1 DEF Inv, Agree, Started
  <1>3. TypeOK'
    BY <1>1 DEF Inv, TypeOK
  <1>4. \A c \in Callers : pc[c] = "idle"
    BY <1>1 DEF Inv, Agree, CallHolds
  <1>5. Agree'
    BY <1>1, <1>2, <1>4 DEF Inv, Agree, OneTopic, MapNames, Started, CallHolds, Exclusive
  <1> QED BY <1>1, <1>2, <1>3, <1>5 DEF Inv, JournalNumbered, DeliveredIsDurable

LEMMA ServeStep ==
    ASSUME Inv, Serve PROVE Inv'
  <1>1. /\ main = "recover" /\ main' = "serving" /\ toRecover = {}
        /\ UNCHANGED <<m_topic_map, m_notice_cb, topics, toRecover, pc, name, topic_ptr,
                       journal, seen, crashes, published>>
    BY DEF Serve, callVars, durableVars
  <1>2. TypeOK'
    BY <1>1 DEF Inv, TypeOK
  <1>3. Agree'
    BY <1>1 DEF Inv, Agree, OneTopic, MapNames, Started, CallHolds, Exclusive
  <1> QED BY <1>1, <1>2, <1>3
          DEF Inv, JournalNumbered, DeliveredIsDurable, IsTail, Log, Underway

\* A crash leaves the journal and no topic.
LEMMA CrashStep ==
    ASSUME Inv, Crash PROVE Inv'
  <1>1. /\ m_topic_map' = << >> /\ m_notice_cb' = FALSE /\ topics' = << >>
        /\ main' = "callback" /\ toRecover' = {} /\ crashes' = crashes + 1
        /\ pc' = [c \in Callers |-> "idle"] /\ topic_ptr' = [c \in Callers |-> 0]
        /\ UNCHANGED <<name, journal, seen, published>>
    BY DEF Crash
  <1>2. DOMAIN topics' = {} /\ DOMAIN m_topic_map' = {} /\ Len(topics') = 0
    BY <1>1
  <1>3. TypeOK'
    <2>1. topics' \in Seq(Topics)
      BY <1>1
    <2>2. m_notice_cb' \in BOOLEAN
      BY <1>1, Zenon
    <2>3. crashes' \in Nat
      BY <1>1 DEF Inv, TypeOK
    <2> QED BY <1>1, <1>2, <2>1, <2>2, <2>3 DEF Inv, TypeOK, Topics
  <1>4. (OneTopic /\ MapNames /\ Started)'
    BY <1>1, <1>2 DEF OneTopic, MapNames, Started
  <1>5. (CallHolds /\ Exclusive)'
    BY <1>1 DEF CallHolds, Exclusive
  <1> QED BY <1>1, <1>2, <1>3, <1>4, <1>5
          DEF Inv, Agree, JournalNumbered, DeliveredIsDurable

\* A new topic is the one of a name that had none, and tells what the journal
\* tells of that name.
LEMMA NewTopicStep ==
    ASSUME Inv, NEW n \in Names, n \notin DOMAIN m_topic_map, main # "callback",
           NEW r \in Topics, r.name = n, r.notify = TRUE,
           r.m_buffer = Newest(journal[n], Cap), r.m_seq_no = Len(journal[n]),
           topics' = Append(topics, r), Assign(n, Len(topics')),
           UNCHANGED <<journal, seen, main, m_notice_cb, crashes, published, name>>
    PROVE  /\ Len(topics') = Len(topics) + 1 /\ DOMAIN topics' = 1 .. Len(topics) + 1
           /\ Len(topics) \in Nat
           /\ DOMAIN m_topic_map' = DOMAIN m_topic_map \cup {n}
           /\ m_topic_map'[n] = Len(topics')
           /\ \A k \in DOMAIN m_topic_map : m_topic_map'[k] = m_topic_map[k]
           /\ \A t \in DOMAIN topics : topics'[t] = topics[t]
           /\ topics'[Len(topics')] = r
           /\ topics' \in Seq(Topics)
           /\ MapNames'
           /\ \A t \in DOMAIN topics' : /\ topics'[t].name \in DOMAIN m_topic_map'
                                        /\ t = m_topic_map'[topics'[t].name]
                                        /\ topics'[t].notify = TRUE
                                        /\ Len(topics'[t].m_buffer) <= Cap
           /\ \A k \in DOMAIN m_topic_map' : k \in Names /\ m_topic_map'[k] \in DOMAIN topics'
  <1>0. topics \in Seq(Topics)
    BY DEF Inv, TypeOK, Topics
  <1>1. /\ Len(topics') = Len(topics) + 1 /\ DOMAIN topics' = 1 .. Len(topics) + 1
        /\ Len(topics) \in Nat /\ topics' \in Seq(Topics)
        /\ \A t \in DOMAIN topics : t \in DOMAIN topics' /\ t # Len(topics') /\ topics'[t] = topics[t]
        /\ topics'[Len(topics')] = r
        /\ \A t \in DOMAIN topics' : t \in DOMAIN topics \/ t = Len(topics')
    BY <1>0
  <1>2. /\ DOMAIN m_topic_map' = DOMAIN m_topic_map \cup {n}
        /\ m_topic_map'[n] = Len(topics')
        /\ \A k \in DOMAIN m_topic_map : m_topic_map'[k] = m_topic_map[k]
    BY DEF Assign
  <1>3. /\ \A k \in DOMAIN m_topic_map : /\ k \in Names /\ m_topic_map[k] \in DOMAIN topics
                                         /\ topics[m_topic_map[k]].name = k
        /\ \A t \in DOMAIN topics : /\ topics[t].name \in DOMAIN m_topic_map
                                    /\ t = m_topic_map[topics[t].name]
                                    /\ topics[t].notify = TRUE /\ Len(topics[t].m_buffer) <= Cap
    BY DEF Inv, TypeOK, Agree, MapNames, OneTopic, Started
  <1>4. MapNames'
    BY <1>1, <1>2, <1>3 DEF MapNames
  <1>5. Len(r.m_buffer) <= Cap
    BY NewestFacts, ServiceAssumption DEF Inv, TypeOK
  <1>6. \A t \in DOMAIN topics' : /\ topics'[t].name \in DOMAIN m_topic_map'
                                  /\ t = m_topic_map'[topics'[t].name]
                                  /\ topics'[t].notify = TRUE
                                  /\ Len(topics'[t].m_buffer) <= Cap
    BY <1>1, <1>2, <1>3, <1>5
  <1>7. Len(topics') \in DOMAIN topics'
    BY <1>1
  <1>8. \A k \in DOMAIN m_topic_map' : k \in Names /\ m_topic_map'[k] \in DOMAIN topics'
    BY <1>1, <1>2, <1>3, <1>7
  <1> QED BY <1>1, <1>2, <1>4, <1>6, <1>8

\* The topics that were there go on telling what the journal tells, and so does
\* the new one, on which nobody publishes yet.
LEMMA NewTopicTail ==
    ASSUME Inv, NEW r \in Topics, r.name \in Names,
           r.m_buffer = Newest(journal[r.name], Cap), r.m_seq_no = Len(journal[r.name]),
           topics' = Append(topics, r), UNCHANGED journal,
           \A c \in Callers : /\ pc'[c] = "notice" => /\ pc[c] = "notice"
                                                      /\ topic_ptr'[c] = topic_ptr[c]
                              /\ pc[c] = "notice" => /\ pc'[c] = "notice"
                                                     /\ topic_ptr'[c] = topic_ptr[c]
    PROVE  \A t \in DOMAIN topics' : IsTail(t)'
  <1>0. topics \in Seq(Topics) /\ topic_ptr \in [Callers -> 0 .. Len(topics)]
    BY DEF Inv, TypeOK, Topics
  <1>1. /\ Len(topics') = Len(topics) + 1 /\ Len(topics) \in Nat
        /\ \A t \in DOMAIN topics : t # Len(topics') /\ topics'[t] = topics[t]
        /\ topics'[Len(topics')] = r
        /\ \A t \in DOMAIN topics' : t \in DOMAIN topics \/ t = Len(topics')
    BY <1>0
  <1>2. ASSUME NEW t \in DOMAIN topics PROVE IsTail(t)'
    <2>1. Underway(t)' <=> Underway(t)
      BY DEF Underway
    <2>2. Log(t)' = Log(t)
      BY <1>1, <2>1 DEF Log
    <2>3. IsTail(t)
      BY DEF Inv
    <2> QED BY <1>1, <2>2, <2>3 DEF IsTail
  <1>3. ASSUME NEW t, t = Len(topics') PROVE IsTail(t)'
    <2>1. ~Underway(t)'
      <3>1. \A c \in Callers : topic_ptr[c] # t
        BY <1>0, <1>1, <1>3
      <3> QED BY <3>1 DEF Underway
    <2>2. Log(t)' = journal[r.name]
      BY <1>1, <1>3, <2>1 DEF Log
    <2>3. \A i \in DOMAIN journal[r.name] : journal[r.name][i].no = i - 1
      BY DEF Inv, JournalNumbered
    <2> QED BY <1>1, <1>3, <2>2, <2>3 DEF IsTail
  <1> QED BY <1>1, <1>2, <1>3

\* recover() makes the topic of a name of the journal.
LEMMA RecoverStep ==
    ASSUME Inv, NEW n \in Names, Recover(n) PROVE Inv'
  <1> DEFINE r == Restored(n)
             log == journal[n]
  <1>1. /\ main = "recover" /\ n \in toRecover /\ toRecover' = toRecover \ {n}
        /\ topics' = Append(topics, r) /\ Assign(n, Len(topics'))
        /\ UNCHANGED <<m_notice_cb, main, pc, name, topic_ptr, journal, seen, crashes, published>>
    BY DEF Recover, callVars, durableVars
  <1>2. /\ log # << >> /\ log \in Seq(Messages) /\ n \notin DOMAIN m_topic_map
        /\ m_notice_cb = TRUE
    BY <1>1 DEF Inv, Agree, Started, TypeOK
  <1>3. Last(log).no + 1 = Len(log) /\ Len(log) \in Nat
    <2>1. Len(log) \in DOMAIN log /\ Len(log) \in Nat
      BY <1>2
    <2>2. log[Len(log)].no = Len(log) - 1
      BY <2>1 DEF Inv, JournalNumbered
    <2> QED BY <2>1, <2>2 DEF Last
  <1>4. /\ r.name = n /\ r.notify = TRUE /\ r.sig = {}
        /\ r.m_buffer = Newest(log, Cap) /\ r.m_seq_no = Len(log)
    BY <1>2, <1>3 DEF Restored, NewTopic
  <1>5. r \in Topics
    <2>1. Newest(log, Cap) \in Seq(Messages)
      BY <1>2, NewestFacts, ServiceAssumption
    <2> DEFINE made == [name |-> n, m_buffer |-> << >>, m_seq_no |-> 0, notify |-> TRUE, sig |-> {}]
    <2>2. \A b \in Seq(Messages), k \in Nat :
              [made EXCEPT !.m_buffer = b, !.m_seq_no = k] \in Topics
      BY DEF Topics
    <2>3. NewTopic(n) = made
      BY <1>2 DEF NewTopic
    <2> HIDE DEF made
    <2>4. r = [made EXCEPT !.m_buffer = Newest(log, Cap), !.m_seq_no = Len(log)]
      BY <1>3, <2>3, Zenon DEF Restored
    <2> HIDE DEF r, log
    <2> QED BY <1>3, <2>1, <2>2, <2>4
  <1> HIDE DEF r
  <1>6. /\ DOMAIN m_topic_map' = DOMAIN m_topic_map \cup {n}
        /\ topics' \in Seq(Topics) /\ MapNames'
        /\ Len(topics') = Len(topics) + 1 /\ Len(topics) \in Nat
        /\ \A t \in DOMAIN topics' : /\ topics'[t].name \in DOMAIN m_topic_map'
                                     /\ t = m_topic_map'[topics'[t].name]
                                     /\ topics'[t].notify = TRUE
                                     /\ Len(topics'[t].m_buffer) <= Cap
        /\ \A k \in DOMAIN m_topic_map' : k \in Names /\ m_topic_map'[k] \in DOMAIN topics'
    BY <1>1, <1>2, <1>4, <1>5, NewTopicStep
  <1>7. \A c \in Callers : pc[c] = "idle" /\ topic_ptr[c] = 0
    BY <1>1 DEF Inv, Agree, CallHolds
  <1>8. \A t \in DOMAIN topics' : IsTail(t)'
    BY <1>1, <1>4, <1>5, <1>7, NewTopicTail
  <1>9. TypeOK'
    <2>1. topic_ptr' \in [Callers -> 0 .. Len(topics')]
      BY <1>1, <1>6 DEF Inv, TypeOK
    <2>2. toRecover' \subseteq Names
      BY <1>1 DEF Inv, TypeOK
    <2> QED BY <1>1, <1>6, <2>1, <2>2 DEF Inv, TypeOK, Topics
  <1>10. (OneTopic /\ Started)'
    BY <1>1, <1>6, <1>7 DEF Inv, Agree, OneTopic, Started
  <1>11. (CallHolds /\ Exclusive)'
    BY <1>1, <1>7 DEF CallHolds, Exclusive
  <1> QED BY <1>1, <1>6, <1>8, <1>9, <1>10, <1>11
          DEF Inv, Agree, JournalNumbered, DeliveredIsDurable

-----------------------------------------------------------------------------
(* Calls that look for their topic.                                        *)

\* A caller that goes on leaves the others where they are.
LEMMA GoFacts ==
    ASSUME TypeOK, NEW c \in Callers, NEW from,
           NEW to \in {"idle", "find", "insert", "enter", "notice", "fanout"},
           Go(c, from, to)
    PROVE  /\ pc' \in [Callers -> {"idle", "find", "insert", "enter", "notice", "fanout"}]
           /\ pc[c] = from /\ pc'[c] = to
           /\ \A d \in Callers : d # c => pc'[d] = pc[d]
  BY DEF TypeOK, Go

\* A call that does not publish and changes no topic keeps what the topics
\* tell.
LEMMA TailsFrame ==
    ASSUME Inv, UNCHANGED <<topics, journal>>, NEW c \in Callers,
           pc[c] # "notice", pc'[c] # "notice",
           \A d \in Callers : d # c => pc'[d] = pc[d] /\ topic_ptr'[d] = topic_ptr[d]
    PROVE  \A t \in DOMAIN topics' : IsTail(t)'
  <1> TAKE t \in DOMAIN topics'
  <1>1. Underway(t)' <=> Underway(t)
    BY DEF Underway
  <1>2. Log(t)' = Log(t)
    BY <1>1 DEF Log
  <1> QED BY <1>2 DEF Inv, IsTail

LEMMA CallStep ==
    ASSUME Inv, NEW c \in Callers, NEW n \in Names, Call(c, n) PROVE Inv'
  <1>1. /\ main = "serving" /\ Go(c, "idle", "find") /\ name' = [name EXCEPT ![c] = n]
        /\ UNCHANGED <<m_topic_map, m_notice_cb, topics, main, toRecover, topic_ptr,
                       journal, seen, crashes, published>>
    BY DEF Call, processVars, durableVars
  <1>2. /\ pc' \in [Callers -> {"idle", "find", "insert", "enter", "notice", "fanout"}]
        /\ pc[c] = "idle" /\ pc'[c] = "find"
        /\ \A d \in Callers : d # c => pc'[d] = pc[d]
    BY <1>1, GoFacts DEF Inv
  <1>3. name' \in [Callers -> Names] /\ \A d \in Callers : d # c => name'[d] = name[d]
    BY <1>1 DEF Inv, TypeOK
  <1>4. topic_ptr[c] = 0
    BY <1>2 DEF Inv, Agree, CallHolds
  <1>5. TypeOK'
    BY <1>1, <1>2, <1>3 DEF Inv, TypeOK
  <1>6. (OneTopic /\ MapNames /\ Started)'
    BY <1>1, <1>3, <1>4 DEF Inv, Agree, OneTopic, MapNames, Started
  <1>7. (CallHolds /\ Exclusive)'
    BY <1>1, <1>2, <1>4 DEF Inv, Agree, CallHolds, Exclusive
  <1>8. \A t \in DOMAIN topics' : IsTail(t)'
    BY <1>1, <1>2, TailsFrame
  <1> QED BY <1>1, <1>5, <1>6, <1>7, <1>8
          DEF Inv, Agree, JournalNumbered, DeliveredIsDurable

\* A call that finds its topic in the map, at the first look or the second,
\* finds the one topic of its name.
LEMMA FoundStep ==
    ASSUME Inv, NEW c \in Callers, Mapped(c), Go(c, pc[c], "enter"),
           pc[c] \in {"find", "insert"}, Take(c, m_topic_map[name[c]]),
           UNCHANGED <<processVars, name, durableVars, published>>
    PROVE  Inv'
  <1>1. /\ pc' \in [Callers -> {"idle", "find", "insert", "enter", "notice", "fanout"}]
        /\ pc'[c] = "enter" /\ \A d \in Callers : d # c => pc'[d] = pc[d]
    BY GoFacts DEF Inv
  <1>2. /\ m_topic_map[name[c]] \in DOMAIN topics
        /\ m_topic_map[name[c]] \in 1 .. Len(topics) /\ name[c] \in DOMAIN m_topic_map
    BY TopicFacts DEF Inv, TypeOK, Mapped
  <1>3. /\ topic_ptr' \in [Callers -> 0 .. Len(topics)]
        /\ topic_ptr'[c] = m_topic_map[name[c]] /\ topic_ptr'[c] # 0
        /\ \A d \in Callers : d # c => topic_ptr'[d] = topic_ptr[d]
    BY <1>2 DEF Inv, TypeOK, Take
  <1>4. TypeOK'
    BY <1>1, <1>3 DEF Inv, TypeOK, processVars, durableVars
  <1>5. (OneTopic /\ MapNames /\ Started)'
    BY <1>2, <1>3 DEF Inv, Agree, OneTopic, MapNames, Started, processVars, durableVars
  <1>6. (CallHolds /\ Exclusive)'
    BY <1>1, <1>3 DEF Inv, Agree, CallHolds, Exclusive, processVars
  <1>7. \A t \in DOMAIN topics' : IsTail(t)'
    BY <1>1, <1>3, TailsFrame DEF processVars, durableVars
  <1> QED BY <1>4, <1>5, <1>6, <1>7
          DEF Inv, Agree, JournalNumbered, DeliveredIsDurable, durableVars

LEMMA FindSharedStep ==
    ASSUME Inv, NEW c \in Callers, FindShared(c) PROVE Inv'
  <1>1. CASE Mapped(c) /\ Go(c, "find", "enter") /\ Take(c, m_topic_map[name[c]])
    <2>1. pc[c] = "find"
      BY <1>1 DEF Go
    <2> QED BY <1>1, <2>1, FoundStep DEF FindShared
  <1>2. CASE ~Mapped(c) /\ Go(c, "find", "insert") /\ UNCHANGED topic_ptr
    <2>1. UNCHANGED <<m_topic_map, m_notice_cb, topics, main, toRecover, topic_ptr, name,
                       journal, seen, crashes, published>>
      BY <1>2 DEF FindShared, processVars, durableVars
    <2>2. /\ pc' \in [Callers -> {"idle", "find", "insert", "enter", "notice", "fanout"}]
          /\ pc[c] = "find" /\ pc'[c] = "insert"
          /\ \A d \in Callers : d # c => pc'[d] = pc[d]
      BY <1>2, GoFacts DEF Inv
    <2>3. TypeOK'
      BY <2>1, <2>2 DEF Inv, TypeOK
    <2>4. (OneTopic /\ MapNames /\ Started)'
      BY <2>1 DEF Inv, Agree, OneTopic, MapNames, Started
    <2>5. (CallHolds /\ Exclusive)'
      BY <2>1, <2>2 DEF Inv, Agree, CallHolds, Exclusive
    <2>6. \A t \in DOMAIN topics' : IsTail(t)'
      BY <2>1, <2>2, TailsFrame
    <2> QED BY <2>1, <2>3, <2>4, <2>5, <2>6
            DEF Inv, Agree, JournalNumbered, DeliveredIsDurable
  <1> QED BY <1>1, <1>2 DEF FindShared

\* The second look finds the topic that another call has made meanwhile, or
\* makes the first one of the name.
LEMMA FindOrInsertStep ==
    ASSUME Inv, NEW c \in Callers, FindOrInsert(c) PROVE Inv'
  <1>1. /\ Go(c, "insert", "enter") /\ pc[c] = "insert"
        /\ UNCHANGED <<m_notice_cb, main, toRecover, name, journal, seen, crashes, published>>
    BY DEF FindOrInsert, Go, durableVars
  <1>2. CASE Mapped(c) /\ Take(c, m_topic_map[name[c]]) /\ UNCHANGED <<topics, m_topic_map>>
    BY <1>1, <1>2, FoundStep DEF processVars, durableVars
  <1>3. CASE ~Mapped(c) /\ Insert(c)
    <2> DEFINE n == name[c]
               r == NewTopic(n)
    <2>1. /\ topics' = Append(topics, r) /\ Assign(n, Len(topics')) /\ Take(c, Len(topics'))
          /\ n \notin DOMAIN m_topic_map /\ n \in Names
      BY <1>3 DEF Insert, Mapped, Inv, TypeOK
    <2>2. main = "serving" /\ m_notice_cb = TRUE /\ journal[n] = << >>
      BY <1>1, <2>1 DEF Inv, Agree, CallHolds, Started
    <2>3. Newest(<< >>, Cap) = << >>
      BY ServiceAssumption DEF Newest
    <2>4. /\ r.name = n /\ r.notify = TRUE /\ r.m_buffer = Newest(journal[n], Cap)
          /\ r.m_seq_no = Len(journal[n])
      BY <2>2, <2>3 DEF NewTopic
    <2>5. r \in Topics
      <3>1. << >> \in Seq(Messages) /\ {} \in SUBSET Callers /\ TRUE \in BOOLEAN
        OBVIOUS
      <3>2. r = [name |-> n, m_buffer |-> << >>, m_seq_no |-> 0, notify |-> TRUE, sig |-> {}]
        BY <2>2 DEF NewTopic
      <3> HIDE DEF r
      <3> QED BY <2>1, <3>1, <3>2 DEF Topics
    <2> HIDE DEF r
    <2>6. /\ DOMAIN m_topic_map' = DOMAIN m_topic_map \cup {n}
          /\ m_topic_map'[n] = Len(topics')
          /\ \A k \in DOMAIN m_topic_map : m_topic_map'[k] = m_topic_map[k]
          /\ topics' \in Seq(Topics) /\ MapNames'
          /\ Len(topics') = Len(topics) + 1 /\ Len(topics) \in Nat
          /\ DOMAIN topics' = 1 .. Len(topics) + 1
          /\ \A t \in DOMAIN topics : topics'[t] = topics[t]
          /\ \A t \in DOMAIN topics' : /\ topics'[t].name \in DOMAIN m_topic_map'
                                       /\ t = m_topic_map'[topics'[t].name]
                                       /\ topics'[t].notify = TRUE
                                       /\ Len(topics'[t].m_buffer) <= Cap
          /\ \A k \in DOMAIN m_topic_map' : k \in Names /\ m_topic_map'[k] \in DOMAIN topics'
      BY <1>1, <2>1, <2>2, <2>4, <2>5, NewTopicStep
    <2>7. /\ pc' \in [Callers -> {"idle", "find", "insert", "enter", "notice", "fanout"}]
          /\ pc[c] = "insert" /\ pc'[c] = "enter"
          /\ \A d \in Callers : d # c => pc'[d] = pc[d]
      BY <1>1, GoFacts DEF Inv
    <2>8. /\ topic_ptr' \in [Callers -> 0 .. Len(topics')]
          /\ topic_ptr'[c] = Len(topics') /\ topic_ptr'[c] # 0
          /\ \A d \in Callers : d # c => topic_ptr'[d] = topic_ptr[d] /\ topic_ptr[d] # Len(topics')
      BY <2>1, <2>6 DEF Inv, TypeOK, Take
    <2>9. \A t \in DOMAIN topics' : IsTail(t)'
      BY <1>1, <2>1, <2>4, <2>5, <2>7, <2>8, NewTopicTail
    <2>10. TypeOK'
      BY <1>1, <2>6, <2>7, <2>8 DEF Inv, TypeOK, Topics
    <2>11. (OneTopic /\ Started)'
      <3>1. ASSUME NEW d \in Callers, topic_ptr'[d] # 0
            PROVE  /\ name'[d] \in DOMAIN m_topic_map'
                   /\ topic_ptr'[d] = m_topic_map'[name'[d]]
        <4>1. CASE d = c
          BY <1>1, <2>6, <2>8, <4>1
        <4>2. CASE d # c
          <5>1. topic_ptr[d] # 0 /\ topic_ptr'[d] = topic_ptr[d] /\ name' = name
            BY <1>1, <2>8, <3>1, <4>2
          <5>2. name[d] \in DOMAIN m_topic_map /\ topic_ptr[d] = m_topic_map[name[d]]
            BY <5>1 DEF Inv, Agree, OneTopic
          <5> QED BY <2>6, <5>1, <5>2
        <4> QED BY <4>1, <4>2
      <3>3. OneTopic'
        BY <2>6, <3>1 DEF OneTopic
      <3>2. Started'
        BY <1>1, <2>2, <2>6 DEF Inv, Agree, Started
      <3> QED BY <3>2, <3>3
    <2>12. CallHolds'
      <3>1. \A d \in Callers : pc[d] \in {"notice", "fanout"} => topic_ptr[d] \in DOMAIN topics
        BY CallerFacts
      <3> QED BY <1>1, <2>6, <2>7, <2>8, <3>1 DEF Inv, Agree, CallHolds
    <2>13. Exclusive'
      BY <2>7, <2>8 DEF Inv, Agree, Exclusive
    <2> QED BY <1>1, <2>6, <2>9, <2>10, <2>11, <2>12, <2>13
            DEF Inv, Agree, JournalNumbered, DeliveredIsDurable
  <1> QED BY <1>2, <1>3 DEF FindOrInsert

-----------------------------------------------------------------------------
(* Calls that have their topic.                                            *)

\* A sequence with one element replaced.
LEMMA ReplaceFacts ==
    ASSUME NEW S, NEW s \in Seq(S), NEW u \in DOMAIN s, NEW r \in S,
           NEW z, z = [s EXCEPT ![u] = r]
    PROVE  /\ z \in Seq(S) /\ DOMAIN z = DOMAIN s /\ Len(z) = Len(s) /\ z[u] = r
           /\ \A t \in DOMAIN s : t # u => z[t] = s[t]
  OBVIOUS

\* Changing only the subscribers of a topic changes nothing the topic tells.
LEMMA SigChange ==
    ASSUME Inv, NEW u \in DOMAIN topics, NEW S \in SUBSET Callers,
           topics' = [topics EXCEPT ![u].sig = S]
    PROVE  /\ topics' \in Seq(Topics) /\ DOMAIN topics' = DOMAIN topics
           /\ Len(topics') = Len(topics)
           /\ \A t \in DOMAIN topics : /\ topics'[t].name = topics[t].name
                                       /\ topics'[t].m_buffer = topics[t].m_buffer
                                       /\ topics'[t].m_seq_no = topics[t].m_seq_no
                                       /\ topics'[t].notify = topics[t].notify
  <1>1. topics \in Seq(Topics) /\ u \in 1 .. Len(topics)
    BY TopicFacts DEF Inv, TypeOK, Topics
  <1>2. \A r \in Topics :
            /\ [r EXCEPT !.sig = S] \in Topics
            /\ [r EXCEPT !.sig = S].name = r.name
            /\ [r EXCEPT !.sig = S].m_buffer = r.m_buffer
            /\ [r EXCEPT !.sig = S].m_seq_no = r.m_seq_no
            /\ [r EXCEPT !.sig = S].notify = r.notify
    BY DEF Topics
  <1>3. topics' = [topics EXCEPT ![u] = [topics[u] EXCEPT !.sig = S]]
    OBVIOUS
  <1>4. topics[u] \in Topics
    BY TopicFacts DEF Inv
  <1> DEFINE r == [topics[u] EXCEPT !.sig = S]
  <1>5. /\ r \in Topics /\ r.name = topics[u].name /\ r.m_buffer = topics[u].m_buffer
        /\ r.m_seq_no = topics[u].m_seq_no /\ r.notify = topics[u].notify
    BY <1>2, <1>4
  <1> HIDE DEF r
  <1>6. topics' = [topics EXCEPT ![u] = r]
    BY <1>3 DEF r
  <1>7. /\ topics' \in Seq(Topics) /\ DOMAIN topics' = DOMAIN topics
        /\ Len(topics') = Len(topics) /\ topics'[u] = r
        /\ \A t \in DOMAIN topics : t # u => topics'[t] = topics[t]
    BY <1>1, <1>5, <1>6
  <1> QED BY <1>5, <1>7

\* What keeps the names, the buffers, the numbers and the callbacks of the
\* topics, and the calls inside publish(), keeps what the topics tell.
LEMMA TailsKept ==
    ASSUME Inv, UNCHANGED journal, DOMAIN topics' = DOMAIN topics,
           \A t \in DOMAIN topics : /\ topics'[t].name = topics[t].name
                                    /\ topics'[t].m_buffer = topics[t].m_buffer
                                    /\ topics'[t].m_seq_no = topics[t].m_seq_no,
           \A t \in DOMAIN topics : Underway(t)' <=> Underway(t)
    PROVE  \A t \in DOMAIN topics' : IsTail(t)'
  <1> TAKE t \in DOMAIN topics'
  <1>1. Log(t)' = Log(t)
    BY DEF Log
  <1>2. IsTail(t)
    BY DEF Inv
  <1> QED BY <1>1, <1>2 DEF IsTail

LEMMA UnsubscribeStep ==
    ASSUME Inv, NEW c \in Callers, NEW u \in DOMAIN topics, Unsubscribe(c, u)
    PROVE  Inv'
  <1>1. /\ topics' = [topics EXCEPT ![u].sig = topics[u].sig \ {c}]
        /\ UNCHANGED <<m_topic_map, m_notice_cb, main, toRecover, pc, name, topic_ptr,
                       journal, seen, crashes, published>>
    BY DEF Unsubscribe, callVars, durableVars
  <1>2. topics[u].sig \ {c} \in SUBSET Callers
    BY TopicFacts DEF Inv
  <1>3. /\ topics' \in Seq(Topics) /\ DOMAIN topics' = DOMAIN topics
        /\ Len(topics') = Len(topics)
        /\ \A t \in DOMAIN topics : /\ topics'[t].name = topics[t].name
                                    /\ topics'[t].m_buffer = topics[t].m_buffer
                                    /\ topics'[t].m_seq_no = topics[t].m_seq_no
                                    /\ topics'[t].notify = topics[t].notify
    BY <1>1, <1>2, SigChange
  <1>4. TypeOK'
    BY <1>1, <1>3 DEF Inv, TypeOK, Topics
  <1>5. (OneTopic /\ MapNames /\ Exclusive)'
    <2>1. OneTopic'
      BY <1>1, <1>3 DEF Inv, Agree, OneTopic
    <2>2. MapNames'
      BY <1>1, <1>3 DEF Inv, Agree, MapNames, TypeOK
    <2>3. Exclusive'
      BY <1>1 DEF Inv, Agree, Exclusive
    <2> QED BY <2>1, <2>2, <2>3
  <1>6. Started'
    <2>1. topics = << >> => topics' = << >>
      BY <1>3
    <2> QED BY <1>1, <1>3, <2>1 DEF Inv, Agree, Started
  <1>7. CallHolds'
    <2>1. \A d \in Callers : pc[d] \in {"notice", "fanout"} => topic_ptr[d] \in DOMAIN topics
      BY CallerFacts
    <2> QED BY <1>1, <1>3, <2>1 DEF Inv, Agree, CallHolds
  <1>8. \A t \in DOMAIN topics' : IsTail(t)'
    <2>1. \A t \in DOMAIN topics : Underway(t)' <=> Underway(t)
      BY <1>1 DEF Underway
    <2> QED BY <1>1, <1>3, <2>1, TailsKept
  <1> QED BY <1>1, <1>4, <1>5, <1>6, <1>7, <1>8
          DEF Inv, Agree, JournalNumbered, DeliveredIsDurable

\* A call that has its topic goes on inside publish(), alone there, or ends.
LEMMA AgreeStep ==
    ASSUME Inv, NEW c \in Callers, pc[c] \in {"enter", "notice", "fanout"},
           UNCHANGED <<m_topic_map, m_notice_cb, main, toRecover, name>>,
           DOMAIN topics' = DOMAIN topics,
           \A t \in DOMAIN topics :
               /\ topics'[t].name = topics[t].name /\ topics'[t].notify = topics[t].notify
               /\ topics[t].m_buffer # << >> => topics'[t].m_buffer # << >>,
           \A d \in Callers : d # c => pc'[d] = pc[d] /\ topic_ptr'[d] = topic_ptr[d],
           \/ pc'[c] = "idle" /\ topic_ptr'[c] = 0
           \/ /\ pc'[c] \in {"notice", "fanout"} /\ topic_ptr'[c] = topic_ptr[c]
              /\ topics'[topic_ptr[c]].m_buffer # << >>
              /\ \A d \in Callers : d # c /\ topic_ptr[d] = topic_ptr[c]
                                    => pc[d] \notin {"notice", "fanout"},
           \A n \in Names : n # name[c] => journal'[n] = journal[n]
    PROVE  Agree'
  <1>1. main = "serving" /\ name[c] \in DOMAIN m_topic_map
    BY CallerFacts
  <1>2. OneTopic'
    <2>1. \A d \in Callers : topic_ptr'[d] # 0 => topic_ptr'[d] = topic_ptr[d]
      OBVIOUS
    <2> QED BY <2>1 DEF Inv, Agree, OneTopic
  <1>3. MapNames'
    BY DEF Inv, Agree, MapNames, TypeOK
  <1>4. Started'
    BY <1>1 DEF Inv, Agree, Started
  <1>5. CallHolds'
    <2>1. \A d \in Callers : pc[d] \in {"notice", "fanout"} => topic_ptr[d] \in DOMAIN topics
      BY CallerFacts
    <2>2. topic_ptr[c] # 0
      BY CallerFacts
    <2>3. ASSUME NEW d \in Callers
          PROVE /\ topic_ptr'[d] # 0 <=> pc'[d] \in {"enter", "notice", "fanout"}
                /\ pc'[d] # "idle" => main' = "serving"
                /\ pc'[d] \in {"notice", "fanout"} => topics'[topic_ptr'[d]].m_buffer # << >>
      <3>1. CASE d = c
        BY <1>1, <2>2, <3>1
      <3>2. CASE d # c
        <4>1. pc'[d] = pc[d] /\ topic_ptr'[d] = topic_ptr[d]
          BY <3>2
        <4>2. pc[d] \in {"notice", "fanout"} => topics[topic_ptr[d]].m_buffer # << >>
          BY DEF Inv, Agree, CallHolds
        <4>3. topic_ptr[d] # 0 <=> pc[d] \in {"enter", "notice", "fanout"}
          BY DEF Inv, Agree, CallHolds
        <4> QED BY <1>1, <2>1, <4>1, <4>2, <4>3
      <3> QED BY <3>1, <3>2
    <2> QED BY <2>3 DEF CallHolds
  <1>6. Exclusive'
    BY DEF Inv, Agree, Exclusive
  <1> QED BY <1>2, <1>3, <1>4, <1>5, <1>6 DEF Agree

\* A subscriber is handed part of a buffer that is part of the journal, as no
\* publish() is under way in the topic.
LEMMA SubscribeStep ==
    ASSUME Inv, NEW c \in Callers, Subscribe(c) PROVE Inv'
  <1> DEFINE u == topic_ptr[c]
             b == topics[u].m_buffer
             J == journal[name[c]]
  <1>1. /\ Free(u) /\ Go(c, "enter", "idle") /\ Take(c, 0) /\ pc[c] = "enter"
        /\ topics' = [topics EXCEPT ![u].sig = topics[u].sig \cup {c}]
        /\ UNCHANGED <<m_topic_map, m_notice_cb, main, toRecover, name, journal,
                       crashes, published>>
    BY DEF Subscribe, Topic, Go
  <1>2. PICK i \in 1 .. Len(b) + 1 :
            seen' = [seen EXCEPT ![name[c]] = @ \cup ToSet(SubSeq(b, i, Len(b)))]
    BY DEF Subscribe, Topic
  <1>3. u \in DOMAIN topics /\ topics[u].name = name[c] /\ name[c] \in Names
    BY <1>1, CallerFacts
  <1>4. b \in Seq(Messages) /\ J \in Seq(Messages) /\ topics[u].sig \subseteq Callers
    BY <1>3, TopicFacts DEF Inv
  <1>5. b = Newest(J, Cap) /\ ~Underway(u)
    BY <1>1, <1>3, FreeFacts
  <1>6. ToSet(SubSeq(b, i, Len(b))) \subseteq ToSet(J) /\ ToSet(J) \subseteq Messages
    BY <1>2, <1>4, <1>5, SuffixSet, NewestFacts, ToSetFacts, ServiceAssumption
  <1>7. /\ pc' \in [Callers -> {"idle", "find", "insert", "enter", "notice", "fanout"}]
        /\ pc'[c] = "idle" /\ \A d \in Callers : d # c => pc'[d] = pc[d]
    BY <1>1, GoFacts DEF Inv
  <1>8. /\ topic_ptr' \in [Callers -> 0 .. Len(topics)] /\ topic_ptr'[c] = 0
        /\ \A d \in Callers : d # c => topic_ptr'[d] = topic_ptr[d]
    <2>1. Len(topics) \in Nat
      BY DEF Inv, TypeOK
    <2> QED BY <1>1, <2>1 DEF Inv, TypeOK, Take
  <1>9. /\ topics' \in Seq(Topics) /\ DOMAIN topics' = DOMAIN topics
        /\ Len(topics') = Len(topics)
        /\ \A t \in DOMAIN topics : /\ topics'[t].name = topics[t].name
                                    /\ topics'[t].m_buffer = topics[t].m_buffer
                                    /\ topics'[t].m_seq_no = topics[t].m_seq_no
                                    /\ topics'[t].notify = topics[t].notify
    <2> DEFINE S == topics[u].sig \cup {c}
    <2>1. S \in SUBSET Callers /\ topics' = [topics EXCEPT ![u].sig = S]
      BY <1>1, <1>4
    <2> HIDE DEF S, u
    <2> QED BY <1>3, <2>1, SigChange, Zenon
  <1> HIDE DEF u, b, J
  <1>10. /\ seen' \in [Names -> SUBSET Messages]
         /\ \A n \in Names : seen'[n] \subseteq ToSet(journal[n])
    <2>1. seen \in [Names -> SUBSET Messages]
      BY DEF Inv, TypeOK
    <2>2. \A n \in Names : seen[n] \subseteq ToSet(journal[n])
      BY DEF Inv, DeliveredIsDurable
    <2>3. ToSet(J) = ToSet(journal[name[c]])
      BY DEF J
    <2> DEFINE new == ToSet(SubSeq(b, i, Len(b)))
    <2>4. new \subseteq ToSet(journal[name[c]]) /\ new \subseteq Messages
      BY <1>6, <2>3
    <2>5. seen' = [seen EXCEPT ![name[c]] = seen[name[c]] \cup new]
      BY <1>2
    <2> HIDE DEF new
    <2> QED BY <1>3, <2>1, <2>2, <2>4, <2>5
  <1>11. TypeOK'
    BY <1>1, <1>7, <1>8, <1>9, <1>10 DEF Inv, TypeOK, Topics
  <1>12. Agree'
    BY <1>1, <1>7, <1>8, <1>9, AgreeStep
  <1>13. \A t \in DOMAIN topics' : IsTail(t)'
    <2>1. \A t \in DOMAIN topics : Underway(t)' <=> Underway(t)
      BY <1>1, <1>7, <1>8 DEF Underway
    <2> QED BY <1>1, <1>9, <2>1, TailsKept
  <1> QED BY <1>1, <1>10, <1>11, <1>12, <1>13
          DEF Inv, JournalNumbered, DeliveredIsDurable

\* publish() numbers a message with the length of the journal, which is the log
\* until then, and pushes it.
LEMMA StoreStep ==
    ASSUME Inv, NEW c \in Callers, Store(c) PROVE Inv'
  <1> DEFINE u == topic_ptr[c]
             J == journal[name[c]]
             m == [no |-> topics[u].m_seq_no, msg |-> published]
             b == Newest(Append(topics[u].m_buffer, m), Cap)
  <1>1. /\ Free(u) /\ Go(c, "enter", "notice") /\ pc[c] = "enter"
        /\ published' = published + 1
        /\ topics' = [topics EXCEPT ![u].m_seq_no = topics[u].m_seq_no + 1, ![u].m_buffer = b]
        /\ UNCHANGED <<m_topic_map, m_notice_cb, main, toRecover, name, topic_ptr,
                       journal, seen, crashes>>
    BY DEF Store, Topic, Go, durableVars
  <1>2. u \in DOMAIN topics /\ topics[u].name = name[c] /\ name[c] \in Names
    BY <1>1, CallerFacts
  <1>3. /\ topics[u].m_buffer \in Seq(Messages) /\ J \in Seq(Messages)
        /\ topics[u].m_seq_no \in Nat
    BY <1>2, TopicFacts DEF Inv
  <1>4. m \in Messages /\ published' \in Nat
    BY <1>1, <1>3 DEF Inv, TypeOK, Messages
  <1>5. topics[u].m_buffer = Newest(J, Cap) /\ topics[u].m_seq_no = Len(J) /\ ~Underway(u)
    BY <1>1, <1>2, FreeFacts
  <1>6. b = Newest(Append(J, m), Cap)
    BY <1>3, <1>4, <1>5, NewestAppend, ServiceAssumption
  <1>7. m.no = Len(J)
    BY <1>5
  <1>8. /\ Append(J, m) \in Seq(Messages) /\ Append(J, m) # << >>
        /\ Len(Append(J, m)) = Len(J) + 1 /\ Last(Append(J, m)) = m
        /\ Append(J, m)[Len(J) + 1] = m /\ \A i \in 1 .. Len(J) : Append(J, m)[i] = J[i]
    BY <1>3, <1>4, AppendFacts
  <1>9. b \in Seq(Messages) /\ b # << >> /\ Last(b) = m /\ Len(b) <= Cap
    <2> DEFINE a == Append(J, m)
    <2> HIDE DEF a
    <2>1. a \in Seq(Messages) /\ a # << >> /\ Last(a) = m /\ b = Newest(a, Cap)
      BY <1>6, <1>8 DEF a
    <2> QED BY <2>1, NewestFacts, ServiceAssumption
  <1>10. /\ pc' \in [Callers -> {"idle", "find", "insert", "enter", "notice", "fanout"}]
         /\ pc'[c] = "notice" /\ \A d \in Callers : d # c => pc'[d] = pc[d]
    BY <1>1, GoFacts DEF Inv
  <1> HIDE DEF b, m, J
  <1>11. /\ topics' \in Seq(Topics) /\ DOMAIN topics' = DOMAIN topics
         /\ Len(topics') = Len(topics)
         /\ \A t \in DOMAIN topics : /\ topics'[t].name = topics[t].name
                                     /\ topics'[t].notify = topics[t].notify
                                     /\ t # u => topics'[t] = topics[t]
         /\ topics'[u].m_buffer = b /\ topics'[u].m_seq_no = Len(J) + 1
    <2> DEFINE k == topics[u].m_seq_no + 1
    <2>1. k \in Nat /\ k = Len(J) + 1
      BY <1>3, <1>5
    <2>2. topics \in Seq(Topics) /\ topics[u] \in Topics
      BY <1>2, TopicFacts DEF Inv, TypeOK, Topics
    <2> HIDE DEF k
    <2> DEFINE r == [topics[u] EXCEPT !.m_seq_no = k, !.m_buffer = b]
    <2>3. /\ r \in Topics /\ r.name = topics[u].name /\ r.notify = topics[u].notify
          /\ r.m_buffer = b /\ r.m_seq_no = k
      <3>1. \A q \in Topics : LET e == [q EXCEPT !.m_seq_no = k, !.m_buffer = b]
                              IN /\ e \in Topics /\ e.name = q.name /\ e.notify = q.notify
                                 /\ e.m_buffer = b /\ e.m_seq_no = k
        BY <1>9, <2>1 DEF Topics
      <3> QED BY <2>2, <3>1
    <2>4. topics' = [topics EXCEPT ![u] = r]
      BY <1>1, <1>2, <2>2 DEF k
    <2> HIDE DEF r, u
    <2>5. /\ topics' \in Seq(Topics) /\ DOMAIN topics' = DOMAIN topics
          /\ Len(topics') = Len(topics) /\ topics'[u] = r
          /\ \A t \in DOMAIN topics : t # u => topics'[t] = topics[t]
      BY ONLY <1>2, <2>2, <2>3, <2>4, ReplaceFacts
    <2> QED BY <1>2, <2>1, <2>3, <2>5
  <1>12. TypeOK'
    <2>1. \A t \in DOMAIN topics' : Len(topics'[t].m_buffer) <= Cap
      <3>1. \A t \in DOMAIN topics : Len(topics[t].m_buffer) <= Cap
        BY DEF Inv, TypeOK
      <3> QED BY <1>9, <1>11, <3>1
    <2> QED BY <1>1, <1>4, <1>10, <1>11, <2>1 DEF Inv, TypeOK, Topics
  <1>13. Agree'
    <2>1. \A t \in DOMAIN topics : topics[t].m_buffer # << >> => topics'[t].m_buffer # << >>
      BY <1>9, <1>11
    <2>2. \A d \in Callers : d # c /\ topic_ptr[d] = topic_ptr[c] => pc[d] \notin {"notice", "fanout"}
      BY <1>1 DEF Free
    <2>3. topic_ptr'[c] = topic_ptr[c] /\ topics'[topic_ptr[c]].m_buffer # << >>
      BY <1>1, <1>9, <1>11
    <2> QED BY <1>1, <1>10, <1>11, <2>1, <2>2, <2>3, AgreeStep
  <1>14. ASSUME NEW t \in DOMAIN topics PROVE IsTail(t)'
    <2>1. CASE t = u
      <3>1. Underway(t)'
        BY <1>1, <1>10, <2>1 DEF Underway
      <3>2. Log(t)' = Append(J, m)
        BY <1>1, <1>2, <1>9, <1>11, <2>1, <3>1 DEF Log, J
      <3>3. \A i \in DOMAIN Append(J, m) : Append(J, m)[i].no = i - 1
        <4>1. \A i \in 1 .. Len(J) : J[i].no = i - 1
          BY <1>2, <1>3 DEF Inv, JournalNumbered, J
        <4>2. Len(J) \in Nat
          BY <1>3
        <4>3. DOMAIN Append(J, m) = 1 .. Len(J) + 1
          BY <1>8
        <4> HIDE DEF u
        <4>4. ASSUME NEW i \in 1 .. Len(J) + 1 PROVE Append(J, m)[i].no = i - 1
          <5>1. CASE i = Len(J) + 1
            BY <1>7, <1>8, <4>2, <5>1
          <5>2. CASE i \in 1 .. Len(J)
            BY <1>8, <4>1, <5>2
          <5> QED BY <4>2, <5>1, <5>2
        <4> QED BY <4>3, <4>4
      <3> QED BY <1>6, <1>8, <1>11, <2>1, <3>2, <3>3 DEF IsTail
    <2>2. CASE t # u
      <3>1. Underway(t)' <=> Underway(t)
        BY <1>1, <1>10, <2>2 DEF Underway
      <3>2. Log(t)' = Log(t)
        BY <1>1, <1>11, <2>2, <3>1 DEF Log
      <3>3. IsTail(t)
        BY DEF Inv
      <3> QED BY <1>11, <2>2, <3>2, <3>3 DEF IsTail
    <2> QED BY <2>1, <2>2
  <1> QED BY <1>1, <1>11, <1>12, <1>13, <1>14
          DEF Inv, JournalNumbered, DeliveredIsDurable

\* The notice callback appends the message to the journal, which is the log
\* then; the journals of the other names are as before.
LEMMA NoticeStep ==
    ASSUME Inv, NEW c \in Callers, Notice(c) PROVE Inv'
  <1> DEFINE u == topic_ptr[c]
             J == journal[name[c]]
             m == Last(topics[u].m_buffer)
  <1>1. /\ Go(c, "notice", "fanout") /\ pc[c] = "notice"
        /\ UNCHANGED <<m_topic_map, m_notice_cb, topics, main, toRecover, name, topic_ptr,
                       seen, crashes, published>>
    BY DEF Notice, Go, processVars
  <1>2. /\ u \in DOMAIN topics /\ topics[u].name = name[c] /\ name[c] \in Names
        /\ topics[u].notify = TRUE
    BY <1>1, CallerFacts
  <1>3. journal' = [journal EXCEPT ![name[c]] = Append(J, m)]
    BY <1>2 DEF Notice, Topic
  <1>4. /\ topics[u].m_buffer \in Seq(Messages) /\ topics[u].m_buffer # << >>
        /\ J \in Seq(Messages)
    <2>1. topics[u].m_buffer # << >>
      BY <1>1 DEF Inv, Agree, CallHolds
    <2> QED BY <1>2, <2>1, TopicFacts DEF Inv
  <1>5. m \in Messages
    <2> DEFINE s == topics[u].m_buffer
    <2>1. s \in Seq(Messages) /\ s # << >>
      BY <1>4
    <2>2. m = s[Len(s)]
      BY DEF Last
    <2> HIDE DEF s, m
    <2> QED BY <2>1, <2>2
  <1>6. Append(J, m) \in Seq(Messages) /\ ToSet(Append(J, m)) = ToSet(J) \cup {m}
    BY <1>4, <1>5, AppendFacts
  <1>7. /\ pc' \in [Callers -> {"idle", "find", "insert", "enter", "notice", "fanout"}]
        /\ pc'[c] = "fanout" /\ \A d \in Callers : d # c => pc'[d] = pc[d]
    BY <1>1, GoFacts DEF Inv
  <1>8. /\ journal \in [Names -> Seq(Messages)]
        /\ journal' \in [Names -> Seq(Messages)] /\ journal'[name[c]] = Append(J, m)
        /\ \A n \in Names : n # name[c] => journal'[n] = journal[n]
    BY <1>2, <1>3, <1>6 DEF Inv, TypeOK
  <1>9. \A d \in Callers : d # c /\ topic_ptr[d] = u => pc[d] \notin {"notice", "fanout"}
    BY <1>1 DEF Inv, Agree, Exclusive
  <1>10. Underway(u) /\ Log(u) = Append(J, m) /\ IsTail(u)
    <2>1. Underway(u)
      BY <1>1 DEF Underway
    <2> QED BY <1>2, <2>1 DEF Log, Inv
  <1> HIDE DEF m, J
  <1>11. TypeOK'
    BY <1>1, <1>7, <1>8 DEF Inv, TypeOK
  <1>12. Agree'
    <2>1. /\ DOMAIN topics' = DOMAIN topics /\ topic_ptr'[c] = topic_ptr[c]
          /\ topics'[topic_ptr[c]].m_buffer # << >>
      BY <1>1, <1>4
    <2>2. \A t \in DOMAIN topics :
              /\ topics'[t].name = topics[t].name /\ topics'[t].notify = topics[t].notify
              /\ topics[t].m_buffer # << >> => topics'[t].m_buffer # << >>
      BY <1>1
    <2>3. \A d \in Callers : d # c => pc'[d] = pc[d] /\ topic_ptr'[d] = topic_ptr[d]
      BY <1>1, <1>7
    <2> QED BY <1>1, <1>7, <1>8, <1>9, <2>1, <2>2, <2>3, AgreeStep
  <1>13. ASSUME NEW t \in DOMAIN topics PROVE IsTail(t)'
    <2>1. CASE t = u
      <3>1. ~Underway(u)'
        BY <1>1, <1>7, <1>9 DEF Underway
      <3>2. Log(u)' = Log(u)
        BY <1>1, <1>2, <1>8, <1>10, <3>1 DEF Log
      <3>3. topics' = topics
        BY <1>1
      <3>4. IsTail(u)'
        BY <1>1, <1>10, <3>2, <3>3 DEF IsTail
      <3> QED BY <1>1, <2>1, <3>4
    <2>2. CASE t # u
      <3>1. topics[t].name # name[c] /\ topics[t].name \in Names
        BY <1>2, <2>2, NamesDiffer, TopicFacts DEF Inv
      <3>2. Underway(t)' <=> Underway(t)
        BY <1>1, <1>7, <2>2 DEF Underway
      <3>3. Log(t)' = Log(t)
        BY <1>1, <1>8, <3>1, <3>2 DEF Log
      <3>4. IsTail(t)
        BY DEF Inv
      <3> QED BY <1>1, <3>3, <3>4 DEF IsTail
    <2> QED BY <2>1, <2>2
  <1>14. JournalNumbered'
    <2>1. \A i \in DOMAIN Append(J, m) : Append(J, m)[i].no = i - 1
      BY <1>10 DEF IsTail
    <2>2. ASSUME NEW n \in Names PROVE \A i \in DOMAIN journal'[n] : journal'[n][i].no = i - 1
      <3>1. CASE n = name[c]
        BY <1>8, <2>1, <3>1
      <3>2. CASE n # name[c]
        BY <1>8, <3>2 DEF Inv, JournalNumbered
      <3> QED BY <3>1, <3>2
    <2> QED BY <2>2 DEF JournalNumbered
  <1>15. DeliveredIsDurable'
    <2>1. ASSUME NEW n \in Names PROVE seen'[n] \subseteq ToSet(journal'[n])
      <3>1. seen[n] \subseteq ToSet(journal[n]) /\ seen' = seen
        BY <1>1 DEF Inv, DeliveredIsDurable
      <3>2. CASE n = name[c]
        BY <1>6, <1>8, <3>1, <3>2 DEF J
      <3>3. CASE n # name[c]
        BY <1>8, <3>1, <3>3
      <3> QED BY <3>2, <3>3
    <2> QED BY <2>1 DEF DeliveredIsDurable
  <1> QED BY <1>1, <1>11, <1>12, <1>13, <1>14, <1>15 DEF Inv

\* The callbacks are handed the last message of the buffer, which is in the
\* journal by then.
LEMMA FanOutStep ==
    ASSUME Inv, NEW c \in Callers, FanOut(c) PROVE Inv'
  <1> DEFINE u == topic_ptr[c]
             J == journal[name[c]]
             m == Last(topics[u].m_buffer)
  <1>1. /\ Go(c, "fanout", "idle") /\ pc[c] = "fanout" /\ Take(c, 0)
        /\ seen' = IF topics[u].sig = {} THEN seen
                   ELSE [seen EXCEPT ![name[c]] = seen[name[c]] \cup {m}]
        /\ UNCHANGED <<m_topic_map, m_notice_cb, topics, main, toRecover, name,
                       journal, crashes, published>>
    BY DEF FanOut, Go, processVars, Topic
  <1>2. u \in DOMAIN topics /\ topics[u].name = name[c] /\ name[c] \in Names
    BY <1>1, CallerFacts
  <1>3. /\ topics[u].m_buffer # << >> /\ J \in Seq(Messages)
        /\ \A d \in Callers : d # c /\ topic_ptr[d] = u => pc[d] # "notice"
    <2>1. topics[u].m_buffer # << >> /\ J \in Seq(Messages)
      BY <1>1, <1>2, TopicFacts DEF Inv, Agree, CallHolds
    <2>2. \A d \in Callers : d # c /\ topic_ptr[d] = u => pc[d] # "notice"
      BY <1>1 DEF Inv, Agree, Exclusive
    <2> QED BY <2>1, <2>2
  <1>4. ~Underway(u)
    BY <1>1, <1>3 DEF Underway
  <1>5. topics[u].m_buffer = Newest(J, Cap)
    BY <1>2, <1>4 DEF Inv, IsTail, Log
  <1>6. m \in ToSet(J) /\ ToSet(J) \subseteq Messages
    <2> DEFINE s == Newest(J, Cap)
    <2>1. s \in Seq(Messages) /\ s # << >> /\ ToSet(s) \subseteq ToSet(J) /\ m = s[Len(s)]
      BY <1>3, <1>5, NewestFacts, ServiceAssumption DEF Last
    <2> HIDE DEF s, m
    <2>2. ToSet(s) = {s[i] : i \in 1 .. Len(s)}
      BY <2>1, ToSetFacts
    <2>3. Len(s) \in 1 .. Len(s)
      BY <2>1
    <2> QED BY <1>3, <2>1, <2>2, <2>3, ToSetFacts
  <1>7. /\ pc' \in [Callers -> {"idle", "find", "insert", "enter", "notice", "fanout"}]
        /\ pc'[c] = "idle" /\ \A d \in Callers : d # c => pc'[d] = pc[d]
    BY <1>1, GoFacts DEF Inv
  <1>8. /\ topic_ptr' \in [Callers -> 0 .. Len(topics)] /\ topic_ptr'[c] = 0
        /\ \A d \in Callers : d # c => topic_ptr'[d] = topic_ptr[d]
    <2>1. Len(topics) \in Nat
      BY DEF Inv, TypeOK
    <2> QED BY <1>1, <2>1 DEF Inv, TypeOK, Take
  <1> HIDE DEF m, J
  <1>9. /\ seen' \in [Names -> SUBSET Messages]
        /\ \A n \in Names : seen'[n] \subseteq ToSet(journal[n])
    <2>1. seen \in [Names -> SUBSET Messages]
      BY DEF Inv, TypeOK
    <2>2. \A n \in Names : seen[n] \subseteq ToSet(journal[n])
      BY DEF Inv, DeliveredIsDurable
    <2>3. m \in ToSet(journal[name[c]]) /\ m \in Messages
      BY <1>6 DEF J
    <2>4. CASE topics[u].sig = {}
      BY <1>1, <2>1, <2>2, <2>4
    <2>5. CASE topics[u].sig # {}
      BY <1>1, <1>2, <2>1, <2>2, <2>3, <2>5
    <2> QED BY <2>4, <2>5
  <1>10. TypeOK'
    BY <1>1, <1>7, <1>8, <1>9 DEF Inv, TypeOK
  <1>11. Agree'
    BY <1>1, <1>7, <1>8, AgreeStep
  <1>12. \A t \in DOMAIN topics' : IsTail(t)'
    BY <1>1, <1>7, <1>8, TailsFrame
  <1> QED BY <1>1, <1>9, <1>10, <1>11, <1>12
          DEF Inv, JournalNumbered, DeliveredIsDurable

-----------------------------------------------------------------------------
(* The theorems.                                                           *)

LEMMA NextInv == Inv /\ [Next]_vars => Inv'
  <1> SUFFICES ASSUME Inv, [Next]_vars PROVE Inv'
    OBVIOUS
  <1>1. CASE SetNoticeCallback
    BY <1>1, CallbackStep
  <1>2. CASE Serve
    BY <1>2, ServeStep
  <1>3. CASE \E n \in Names : Recover(n)
    BY <1>3, RecoverStep
  <1>4. CASE Crash
    BY <1>4, CrashStep
  <1>5. ASSUME NEW c \in Callers,
               \/ \E n \in Names : Call(c, n)
               \/ FindShared(c) \/ FindOrInsert(c)
               \/ Store(c) \/ Notice(c) \/ FanOut(c) \/ Subscribe(c)
               \/ \E t \in DOMAIN topics : Unsubscribe(c, t)
        PROVE  Inv'
    BY <1>5, CallStep, FindSharedStep, FindOrInsertStep, StoreStep, NoticeStep,
       FanOutStep, SubscribeStep, UnsubscribeStep
  <1>6. CASE UNCHANGED vars
    <2>1. UNCHANGED <<m_topic_map, m_notice_cb, topics, main, toRecover, pc, name,
                      topic_ptr, journal, seen, crashes, published>>
      BY <1>6 DEF vars, processVars, callVars, durableVars
    <2>2. TypeOK'
      BY <2>1 DEF Inv, TypeOK
    <2>3. Agree'
      BY <2>1 DEF Inv, Agree, OneTopic, MapNames, Started, CallHolds, Exclusive
    <2>4. \A t \in DOMAIN topics' : IsTail(t)'
      BY <2>1 DEF Inv, IsTail, Log, Underway
    <2> QED BY <2>1, <2>2, <2>3, <2>4 DEF Inv, JournalNumbered, DeliveredIsDurable
  <1> QED BY <1>1, <1>2, <1>3, <1>4, <1>5, <1>6 DEF Next

\* Every state a behaviour reaches satisfies the invariant.
THEOREM Invariance == Spec => []Inv
  BY InitInv, NextInv, PTL DEF Spec

\* Every variable keeps its type, whatever crashes.
THEOREM TypeCorrect == Spec => []TypeOK
  <1>1. Inv => TypeOK
    BY DEF Inv
  <1> QED BY <1>1, Invariance, PTL

\* However many calls race in getTopicPtr, a name has one topic, and every call
\* and every later one is given that topic.
THEOREM OneTopicTheorem == Spec => []OneTopic
  <1>1. Inv => OneTopic
    BY DEF Inv, Agree
  <1> QED BY <1>1, Invariance, PTL

\* Whatever a subscriber has been handed is in the journal, so that a crash
\* cannot take it back.
THEOREM DurableTheorem == Spec => []DeliveredIsDurable
  <1>1. Inv => DeliveredIsDurable
    BY DEF Inv
  <1> QED BY <1>1, Invariance, PTL

\* After any number of crashes a topic holds the newest messages of the journal,
\* and its next number is the one the journal lacks.
THEOREM TailTheorem == Spec => []BufferIsJournalTail
  <1>1. Inv => BufferIsJournalTail
    BY TailMeans DEF Inv
  <1> QED BY <1>1, Invariance, PTL

\* No number is given to two messages that anybody, in the process or after its
\* restarts, has seen: both would be in the journal, where a message's number
\* is its position.
THEOREM NumberTheorem == Spec => []NumberNamesOneMessage
  <1>1. Inv => NumberNamesOneMessage
    <2> SUFFICES ASSUME Inv, NEW n \in Names,
                        NEW x \in seen[n] \cup ToSet(journal[n]),
                        NEW y \in seen[n] \cup ToSet(journal[n]), x.no = y.no
                 PROVE  x = y
      BY DEF NumberNamesOneMessage
    <2> DEFINE J == journal[n]
    <2>1. x \in ToSet(J) /\ y \in ToSet(J) /\ J \in Seq(Messages)
      BY DEF Inv, DeliveredIsDurable, TypeOK
    <2>2. \A k \in 1 .. Len(J) : J[k].no = k - 1
      BY <2>1 DEF Inv, JournalNumbered
    <2> HIDE DEF J
    <2>3. ToSet(J) = {J[i] : i \in 1 .. Len(J)}
      BY <2>1, ToSetFacts
    <2>4. PICK i \in 1 .. Len(J) : x = J[i]
      BY <2>1, <2>3
    <2>5. PICK j \in 1 .. Len(J) : y = J[j]
      BY <2>1, <2>3
    <2>6. i = j
      BY <2>1, <2>2, <2>4, <2>5
    <2> QED BY <2>4, <2>5, <2>6
  <1> QED BY <1>1, Invariance, PTL

=============================================================================
