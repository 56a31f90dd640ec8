---------------------------- MODULE TopicProofs -----------------------------
(***************************************************************************)
(* Theorems of Topic.tla, for every capacity and every bound.  The type    *)
(* invariant is inductive on its own; the invariants about what            *)
(* subscribers are handed are inductive together with it.                  *)
(***************************************************************************)
EXTENDS Topic, TLAPS

-----------------------------------------------------------------------------
(* Stretches of the log.                                                   *)

\* What a search may return: a suffix.
LEMMA SuffixFacts ==
    ASSUME NEW s \in Seq(Nat), NEW k \in 1 .. Len(s) + 1
    PROVE  /\ SubSeq(s, k, Len(s)) \in Seq(Nat)
           /\ Len(SubSeq(s, k, Len(s))) = Len(s) - k + 1
           /\ \A i \in 1 .. Len(s) - k + 1 :
                 SubSeq(s, k, Len(s))[i] = s[k + i - 1]
  OBVIOUS

\* Any suffix of a stretch of the log ends where the stretch ends.
LEMMA SuffixEndsAt ==
    ASSUME NEW s \in Seq(Nat), NEW hi \in Nat, EndsAt(s, hi),
           NEW k \in 1 .. Len(s) + 1
    PROVE  /\ SubSeq(s, k, Len(s)) \in Seq(Nat)
           /\ Len(SubSeq(s, k, Len(s))) = Len(s) - k + 1
           /\ EndsAt(SubSeq(s, k, Len(s)), hi)
  <1> DEFINE t == SubSeq(s, k, Len(s))
             n == Len(s)
  <1>1. /\ t \in Seq(Nat) /\ Len(t) = n - k + 1 /\ n \in Nat
        /\ \A i \in 1 .. n - k + 1 : t[i] = s[k + i - 1]
    BY SuffixFacts
  <1>2. n <= hi /\ \A i \in 1 .. n : s[i] = hi - n + i - 1
    BY DEF EndsAt
  <1> HIDE DEF t, n
  <1>3. k \in 1 .. n + 1
    BY DEF n
  <1>4. ASSUME NEW i \in 1 .. Len(t) PROVE t[i] = hi - Len(t) + i - 1
    <2>1. i \in 1 .. n - k + 1 /\ k + i - 1 \in 1 .. n
      BY <1>1, <1>3
    <2>2. t[i] = hi - n + (k + i - 1) - 1
      BY <1>1, <1>2, <2>1
    <2> QED BY <1>1, <1>3, <2>1, <2>2
  <1>5. Len(t) <= hi
    BY <1>1, <1>2, <1>3
  <1> QED BY <1>1, <1>4, <1>5 DEF EndsAt, t, n

\* One more message extends a stretch of the log by one.
LEMMA AppendEndsAt ==
    ASSUME NEW s \in Seq(Nat), NEW hi \in Nat, EndsAt(s, hi)
    PROVE  /\ Append(s, hi) \in Seq(Nat) /\ Len(Append(s, hi)) = Len(s) + 1
           /\ EndsAt(Append(s, hi), hi + 1)
           /\ Last(Append(s, hi)) = hi
  <1> DEFINE t == Append(s, hi)
             n == Len(s)
  <1>1. /\ t \in Seq(Nat) /\ Len(t) = n + 1 /\ n \in Nat
        /\ t[n + 1] = hi /\ \A i \in 1 .. n : t[i] = s[i]
    OBVIOUS
  <1>2. n <= hi /\ \A i \in 1 .. n : s[i] = hi - n + i - 1
    BY DEF EndsAt
  <1> HIDE DEF t, n
  <1>3. ASSUME NEW i \in 1 .. n + 1 PROVE t[i] = (hi + 1) - (n + 1) + i - 1
    <2>1. CASE i = n + 1
      BY <1>1, <2>1
    <2>2. CASE i \in 1 .. n
      BY <1>1, <1>2, <2>2
    <2> QED BY <1>1, <2>1, <2>2
  <1>4. Len(t) <= hi + 1 /\ Last(t) = hi
    BY <1>1, <1>2 DEF Last
  <1> QED BY <1>1, <1>3, <1>4 DEF EndsAt, t, n

\* push_back on the circular buffer keeps it a stretch of the log within its
\* capacity, whether or not it drops the oldest message.
LEMMA PushBackEndsAt ==
    ASSUME NEW s \in Seq(Nat), Len(s) <= Cap, NEW hi \in Nat, EndsAt(s, hi)
    PROVE  /\ PushBack(s, hi) \in Seq(Nat)
           /\ Len(PushBack(s, hi)) = IF Len(s) < Cap THEN Len(s) + 1 ELSE Cap
           /\ EndsAt(PushBack(s, hi), hi + 1)
           /\ Last(PushBack(s, hi)) = hi
  <1> USE CapAssumption
  <1>1. CASE Len(s) < Cap
    BY <1>1, AppendEndsAt DEF PushBack
  <1>2. CASE Len(s) = Cap
    <2>1. /\ Tail(s) \in Seq(Nat) /\ Len(Tail(s)) = Cap - 1
          /\ \A i \in 1 .. Cap - 1 : Tail(s)[i] = s[i + 1]
      BY <1>2
    <2>2. EndsAt(Tail(s), hi)
      <3>1. ASSUME NEW i \in 1 .. Cap - 1
            PROVE  Tail(s)[i] = hi - (Cap - 1) + i - 1
        <4>1. i + 1 \in 1 .. Len(s) /\ Len(s) = Cap
          BY <1>2
        <4>2. s[i + 1] = hi - Cap + (i + 1) - 1
          BY <4>1 DEF EndsAt
        <4> QED BY <2>1, <4>2
      <3>2. Cap - 1 <= hi
        BY <1>2 DEF EndsAt
      <3> QED BY <2>1, <3>1, <3>2 DEF EndsAt
    <2>3. PushBack(s, hi) = Append(Tail(s), hi)
      BY <1>2 DEF PushBack
    <2>4. /\ Append(Tail(s), hi) \in Seq(Nat)
          /\ Len(Append(Tail(s), hi)) = (Cap - 1) + 1
          /\ EndsAt(Append(Tail(s), hi), hi + 1)
          /\ Last(Append(Tail(s), hi)) = hi
      BY <2>1, <2>2, AppendEndsAt
    <2>5. Len(PushBack(s, hi)) = Cap
      BY <2>3, <2>4
    <2> QED BY <1>2, <2>3, <2>4, <2>5
  <1> QED BY <1>1, <1>2

-----------------------------------------------------------------------------
(* The search of findAndSubscribe.                                         *)

\* On a contiguous buffer lower_bound exists: every message before it is
\* below the number searched for and every message from it on is not.
LEMMA LowerBoundFacts ==
    ASSUME m_buffer \in Seq(Nat), m_seq_no \in Nat, BufferIsTail,
           NEW no \in Nat
    PROVE  /\ LowerBound(no) \in 1 .. Len(m_buffer) + 1
           /\ \A j \in 1 .. LowerBound(no) - 1 : m_buffer[j] < no
           /\ \A j \in LowerBound(no) .. Len(m_buffer) : m_buffer[j] >= no
  <1> DEFINE P(i) == /\ \A j \in 1 .. i - 1 : m_buffer[j] < no
                     /\ \A j \in i .. Len(m_buffer) : m_buffer[j] >= no
             base == m_seq_no - Len(m_buffer)
             pos == IF no <= base THEN 1
                    ELSE IF no >= m_seq_no THEN Len(m_buffer) + 1
                    ELSE no - base + 1
  <1>1. base \in Nat /\ \A j \in 1 .. Len(m_buffer) : m_buffer[j] = base + j - 1
    BY DEF BufferIsTail, EndsAt
  <1>2. pos \in 1 .. Len(m_buffer) + 1 /\ P(pos)
    BY <1>1
  <1>3. \E i \in 1 .. Len(m_buffer) + 1 : P(i)
    BY <1>2
  <1> HIDE DEF P
  <1>4. LowerBound(no) = CHOOSE i \in 1 .. Len(m_buffer) + 1 : P(i)
    BY DEF LowerBound, P
  <1>5. LowerBound(no) \in 1 .. Len(m_buffer) + 1 /\ P(LowerBound(no))
    BY <1>3, <1>4
  <1> QED BY <1>5 DEF P

\* A snapshot is the newest part of the log, as far as the buffer reaches.
LEMMA SnapshotFacts ==
    ASSUME m_buffer \in Seq(Nat), m_seq_no \in Nat, BufferIsTail,
           NEW no \in Nat, NEW snap \in {Find(no), Filter(no)}
    PROVE  snap \in Seq(Nat) /\ EndsAt(snap, m_seq_no)
  <1>1. LowerBound(no) \in 1 .. Len(m_buffer) + 1
    BY LowerBoundFacts, Zenon
  <1>2. Find(no) \in Seq(Nat) /\ EndsAt(Find(no), m_seq_no)
    BY <1>1, SuffixEndsAt DEF Find, BufferIsTail
  <1>3. << >> \in Seq(Nat) /\ EndsAt(<< >>, m_seq_no)
    BY DEF EndsAt
  <1> QED BY <1>2, <1>3 DEF Filter

\* findAndSubscribe leaves out no retained message that was asked for.
LEMMA FindIsComplete ==
    ASSUME m_buffer \in Seq(Nat), m_seq_no \in Nat, BufferIsTail,
           NEW no \in Nat, NEW i \in 1 .. Len(m_buffer), m_buffer[i] >= no
    PROVE  m_buffer[i] >= m_seq_no - Len(Find(no))
  <1> DEFINE k == LowerBound(no)
             n == Len(m_buffer)
  <1>1. /\ k \in 1 .. n + 1 /\ n \in Nat
        /\ \A j \in 1 .. k - 1 : m_buffer[j] < no
    <2>1. n \in Nat
      OBVIOUS
    <2> QED BY ONLY <2>1, LowerBoundFacts, m_buffer \in Seq(Nat),
                    m_seq_no \in Nat, BufferIsTail, no \in Nat
  <1>2. Len(Find(no)) = n - k + 1
    BY <1>1, SuffixFacts DEF Find
  <1>3. n <= m_seq_no /\ m_buffer[i] = m_seq_no - n + i - 1 /\ i \in 1 .. n
    BY DEF BufferIsTail, EndsAt
  <1> HIDE DEF k, n
  <1>4. ~(i \in 1 .. k - 1)
    BY <1>1, <1>3
  <1>5. i >= k
    BY <1>1, <1>3, <1>4
  <1> QED BY <1>1, <1>2, <1>3, <1>5

-----------------------------------------------------------------------------
(* The inductive invariant.                                                *)

Inv == TypeOK /\ BufferIsTail /\ ExactFeed /\ NothingWithheld /\ CallbackOwned

\* A subscription without callbacks yet to come starts at or below the next
\* number.
LEMMA FirstFacts ==
    ASSUME TypeOK, ExactFeed, NEW id \in DOMAIN got
    PROVE  /\ got[id] \in Seq(Nat)
           /\ request[id] \in Requests
           /\ request[id].first \in Nat /\ request[id].asked \in Nat
           /\ id \in m_sig => request[id].first + Len(got[id]) = m_seq_no
           /\ id \in m_sig => request[id].first <= m_seq_no
  <1>1. got[id] \in Seq(Nat) /\ request[id] \in Requests
    BY DEF TypeOK
  <1>2. request[id].first \in Nat /\ request[id].asked \in Nat
    BY <1>1 DEF Requests
  <1>3. id \in m_sig => request[id].first + Len(got[id]) = m_seq_no
    BY DEF ExactFeed
  <1>4. Len(got[id]) \in Nat
    BY <1>1
  <1> QED BY <1>1, <1>2, <1>3, <1>4

LEMMA InitInv == Init => Inv
  <1> SUFFICES ASSUME Init PROVE Inv
    OBVIOUS
  <1> USE CapAssumption DEF Init
  <1>1. 0 .. 0 - 1 = {}
    OBVIOUS
  <1>2. DOMAIN request = {} /\ DOMAIN got = {}
    OBVIOUS
  <1>3. TypeOK
    BY <1>1 DEF TypeOK
  <1>4. BufferIsTail
    BY DEF BufferIsTail, EndsAt
  <1>5. ExactFeed /\ NothingWithheld /\ CallbackOwned
    BY <1>2 DEF ExactFeed, NothingWithheld, CallbackOwned
  <1> QED BY <1>3, <1>4, <1>5 DEF Inv

\* Restoring a copy of the log fills the buffer with its newest part.
LEMMA RecoverStep ==
    ASSUME Inv, NEW lo \in Nat, NEW n \in Nat, Recover(lo, n) PROVE Inv'
  <1> USE CapAssumption
  <1> DEFINE vec == [i \in 1 .. n |-> lo + i - 1]
  <1>0. /\ TypeOK /\ BufferIsTail /\ ExactFeed /\ NothingWithheld
        /\ CallbackOwned
    BY DEF Inv
  <1>1. /\ n > 0 /\ m_seq_no = 0 /\ m_call_id = 0
        /\ UNCHANGED <<m_sig, m_call_id, alive, held, request, got>>
        /\ m_buffer' = Newest(m_buffer \o vec, Cap) /\ m_seq_no' = Last(vec) + 1
    BY DEF Recover
  <1>2. vec \in Seq(Nat) /\ Len(vec) = n /\ \A i \in 1 .. n : vec[i] = lo + i - 1
    OBVIOUS
  <1>3. Last(vec) + 1 = lo + n
    BY <1>1, <1>2 DEF Last
  <1>4. EndsAt(vec, lo + n)
    BY <1>2 DEF EndsAt
  <1>5. m_buffer = << >>
    BY <1>0, <1>1 DEF TypeOK, BufferIsTail, EndsAt
  <1>6. m_buffer \o vec = vec
    BY <1>2, <1>5
  <1> HIDE DEF vec
  <1>7. /\ m_buffer' \in Seq(Nat) /\ Len(m_buffer') <= Cap
        /\ EndsAt(m_buffer', lo + n)
    <2>1. CASE n <= Cap
      BY <1>1, <1>2, <1>4, <1>6, <2>1 DEF Newest
    <2>2. CASE n > Cap
      <3>1. n - Cap + 1 \in 1 .. n + 1
        BY <2>2
      <3>2. Newest(vec, Cap) = SubSeq(vec, Len(vec) - Cap + 1, Len(vec))
        BY <1>2, <2>2 DEF Newest
      <3>3. m_buffer' = SubSeq(vec, n - Cap + 1, Len(vec))
        BY <1>1, <1>2, <1>6, <3>2
      <3> QED BY <1>2, <1>4, <3>1, <3>3, SuffixEndsAt
    <2> QED BY <2>1, <2>2
  <1>8. DOMAIN got = {} /\ m_sig = {}
    BY <1>0, <1>1 DEF TypeOK
  <1>9. TypeOK'
    BY <1>0, <1>1, <1>3, <1>7 DEF TypeOK
  <1>10. BufferIsTail'
    BY <1>1, <1>3, <1>7 DEF BufferIsTail
  <1>11. (ExactFeed /\ NothingWithheld /\ CallbackOwned)'
    BY <1>0, <1>1, <1>8 DEF ExactFeed, NothingWithheld, CallbackOwned
  <1> QED BY <1>9, <1>10, <1>11 DEF Inv

\* Registering a callback with a snapshot that ends where the log ends, in
\* place of one that its owner has reset, or of none, keeps the invariant.
LEMMA RegisterStep ==
    ASSUME Inv, NEW old \in SUBSET held, NEW no \in Nat,
           NEW filtered \in BOOLEAN, NEW snap \in Seq(Nat),
           EndsAt(snap, m_seq_no),
           ~filtered => \A i \in 1 .. Len(m_buffer) :
                m_buffer[i] >= no => m_buffer[i] >= m_seq_no - Len(snap),
           Register(old, no, filtered, snap)
    PROVE  Inv'
  <1> USE CapAssumption
  <1> DEFINE first == IF snap = << >> THEN m_seq_no ELSE Head(snap)
  <1>0. /\ TypeOK /\ BufferIsTail /\ ExactFeed /\ NothingWithheld
        /\ CallbackOwned
    BY DEF Inv
  <1>1. /\ m_buffer \in Seq(Nat) /\ Len(m_buffer) <= Cap /\ m_seq_no \in Nat
        /\ request \in [0 .. m_call_id - 1 -> Requests] /\ m_call_id \in Nat
        /\ got \in [0 .. m_call_id - 1 -> Seq(Nat)]
        /\ m_sig \subseteq 0 .. m_call_id - 1 /\ held \subseteq 0 .. m_call_id - 1
        /\ alive \in BOOLEAN
    BY <1>0 DEF TypeOK
  <1>2. /\ alive
        /\ m_sig' = (m_sig \ old) \cup {m_call_id}
        /\ held' = (held \ old) \cup {m_call_id}
        /\ m_call_id' = m_call_id + 1
        /\ UNCHANGED <<m_buffer, m_seq_no, alive>>
    BY DEF Register
  <1>3. 0 .. m_call_id' - 1 = (0 .. m_call_id - 1) \cup {m_call_id}
    BY <1>1, <1>2
  <1>4. first = m_seq_no - Len(snap) /\ first \in Nat /\ Len(snap) \in Nat
    <2>1. CASE snap = << >>
      BY <1>1, <2>1
    <2>2. CASE snap # << >>
      <3>1. 1 \in 1 .. Len(snap) /\ Head(snap) = snap[1]
        BY <2>2
      <3>2. snap[1] = m_seq_no - Len(snap) + 1 - 1 /\ Len(snap) <= m_seq_no
        BY <3>1 DEF EndsAt
      <3> QED BY <1>1, <2>2, <3>1, <3>2
    <2> QED BY <2>1, <2>2
  <1>5. /\ request' = [id \in 0 .. m_call_id' - 1 |->
                         IF id = m_call_id
                         THEN [asked |-> no, filtered |-> filtered, first |-> first]
                         ELSE request[id]]
        /\ got' = [id \in 0 .. m_call_id' - 1 |->
                     IF id = m_call_id THEN snap ELSE got[id]]
    BY <1>1, <1>3 DEF Register
  <1> HIDE DEF first
  <1>6. TypeOK'
    <2>1. request' \in [0 .. m_call_id' - 1 -> Requests]
      BY <1>1, <1>3, <1>4, <1>5 DEF Requests
    <2>2. got' \in [0 .. m_call_id' - 1 -> Seq(Nat)]
      BY <1>1, <1>3, <1>5
    <2>3. m_sig' \subseteq 0 .. m_call_id' - 1 /\ held' \subseteq 0 .. m_call_id' - 1
      BY <1>1, <1>2, <1>3
    <2> QED BY <1>1, <1>2, <2>1, <2>2, <2>3 DEF TypeOK
  <1>7. BufferIsTail'
    BY <1>0, <1>2 DEF BufferIsTail
  <1>8. m_call_id \notin 0 .. m_call_id - 1
    BY <1>1
  <1>9. /\ request'[m_call_id].first = first /\ request'[m_call_id].asked = no
        /\ request'[m_call_id].filtered = filtered /\ got'[m_call_id] = snap
        /\ \A id \in 0 .. m_call_id - 1 :
              request'[id] = request[id] /\ got'[id] = got[id]
    BY <1>3, <1>5, <1>8
  <1>10. ExactFeed'
    <2> DEFINE Exact(id) ==
                 /\ EndsAt(got'[id], request'[id].first + Len(got'[id]))
                 /\ id \in m_sig' =>
                       request'[id].first + Len(got'[id]) = m_seq_no'
    <2>1. Exact(m_call_id)
      BY <1>1, <1>2, <1>4, <1>9
    <2>2. ASSUME NEW id \in 0 .. m_call_id - 1 PROVE Exact(id)
      BY <1>0, <1>1, <1>2, <1>8, <1>9 DEF ExactFeed
    <2>3. DOMAIN got' = (0 .. m_call_id - 1) \cup {m_call_id}
      BY <1>3, <1>5
    <2>4. \A id \in DOMAIN got' : Exact(id)
      BY <2>1, <2>2, <2>3
    <2> QED BY <2>4 DEF ExactFeed
  <1>11. NothingWithheld'
    <2> SUFFICES ASSUME NEW id \in m_sig', NEW i \in 1 .. Len(m_buffer),
                        ~request'[id].filtered, m_buffer[i] >= request'[id].asked
                 PROVE  m_buffer[i] >= request'[id].first
      BY <1>2 DEF NothingWithheld
    <2>1. CASE id = m_call_id
      BY <1>4, <1>9, <2>1
    <2>2. CASE id \in m_sig
      BY <1>0, <1>1, <1>9, <2>2 DEF NothingWithheld
    <2> QED BY <1>2, <2>1, <2>2
  <1>12. CallbackOwned'
    BY <1>0, <1>2 DEF CallbackOwned
  <1> QED BY <1>6, <1>7, <1>10, <1>11, <1>12 DEF Inv

\* Numbering, storing and handing out a message keeps the invariant.
LEMMA PublishStep == ASSUME Inv, Publish PROVE Inv'
  <1> USE CapAssumption
  <1>0. /\ TypeOK /\ BufferIsTail /\ ExactFeed /\ NothingWithheld
        /\ CallbackOwned
    BY DEF Inv
  <1>1. /\ m_buffer \in Seq(Nat) /\ Len(m_buffer) <= Cap /\ m_seq_no \in Nat
        /\ request \in [0 .. m_call_id - 1 -> Requests] /\ m_call_id \in Nat
        /\ got \in [0 .. m_call_id - 1 -> Seq(Nat)]
        /\ m_sig \subseteq DOMAIN got /\ held \subseteq DOMAIN got
        /\ alive \in BOOLEAN
    BY <1>0 DEF TypeOK
  <1>2. /\ m_buffer' = PushBack(m_buffer, m_seq_no) /\ m_seq_no' = m_seq_no + 1
        /\ UNCHANGED <<m_sig, m_call_id, alive, held, request>>
    BY DEF Publish
  <1>3. EndsAt(m_buffer, m_seq_no)
    BY <1>0 DEF BufferIsTail
  <1>4. /\ m_buffer' \in Seq(Nat)
        /\ Len(m_buffer') = IF Len(m_buffer) < Cap THEN Len(m_buffer) + 1
                            ELSE Cap
        /\ EndsAt(m_buffer', m_seq_no + 1)
        /\ Last(m_buffer') = m_seq_no
    BY <1>1, <1>2, <1>3, PushBackEndsAt
  <1>5. got' = [id \in DOMAIN got |->
                  IF id \in m_sig THEN Append(got[id], m_seq_no) ELSE got[id]]
    BY <1>4 DEF Publish
  <1>6. TypeOK'
    <2>1. got' \in [0 .. m_call_id - 1 -> Seq(Nat)]
      BY <1>1, <1>5
    <2>2. Len(m_buffer') <= Cap
      BY <1>1, <1>4
    <2> QED BY <1>1, <1>2, <1>4, <2>1, <2>2 DEF TypeOK
  <1>7. BufferIsTail'
    BY <1>2, <1>4 DEF BufferIsTail
  <1>8. ExactFeed'
    <2> SUFFICES ASSUME NEW id \in DOMAIN got
                 PROVE  /\ EndsAt(got'[id], request[id].first + Len(got'[id]))
                        /\ id \in m_sig =>
                              request[id].first + Len(got'[id]) = m_seq_no + 1
      BY <1>2, <1>5 DEF ExactFeed, EndsAt
    <2>1. CASE id \in m_sig
      <3>1. /\ got[id] \in Seq(Nat) /\ EndsAt(got[id], m_seq_no)
            /\ request[id].first \in Nat
            /\ request[id].first + Len(got[id]) = m_seq_no
        BY <1>0, <2>1, FirstFacts DEF ExactFeed
      <3>2. got'[id] = Append(got[id], m_seq_no)
        BY <1>5, <2>1
      <3>3. /\ Len(got'[id]) = Len(got[id]) + 1 /\ Len(got[id]) \in Nat
            /\ EndsAt(got'[id], m_seq_no + 1)
        BY <1>1, <3>1, <3>2, AppendEndsAt
      <3>4. request[id].first + Len(got'[id]) = m_seq_no + 1
        BY <1>1, <3>1, <3>3
      <3> QED BY <3>3, <3>4
    <2>2. CASE id \notin m_sig
      BY <1>0, <1>5, <2>2 DEF ExactFeed
    <2> QED BY <2>1, <2>2
  <1>9. NothingWithheld'
    <2> SUFFICES ASSUME NEW id \in m_sig, NEW i \in 1 .. Len(m_buffer'),
                        ~request[id].filtered, m_buffer'[i] >= request[id].asked
                 PROVE  m_buffer'[i] >= request[id].first
      BY <1>2 DEF NothingWithheld
    <2> DEFINE n == Len(m_buffer)
               n2 == Len(m_buffer')
               j == i + n + 1 - n2
    <2>1. request[id].first \in Nat /\ request[id].first <= m_seq_no
      BY <1>0, <1>1, FirstFacts
    <2>2. /\ n \in Nat /\ n2 \in {n, n + 1} /\ n <= m_seq_no
          /\ \A k \in 1 .. n : m_buffer[k] = m_seq_no - n + k - 1
      BY <1>1, <1>3, <1>4 DEF EndsAt
    <2>3. m_buffer'[i] = (m_seq_no + 1) - Len(m_buffer') + i - 1
      BY <1>1, <1>4 DEF EndsAt
    <2>4. m_buffer'[i] = (m_seq_no + 1) - n2 + i - 1
      BY <2>3
    <2> HIDE DEF n, n2
    <2>5. CASE i = n2
      BY <1>1, <2>1, <2>2, <2>4, <2>5
    <2>6. CASE i # n2
      <3>1. i \in 1 .. n2
        BY DEF n2
      <3>2. j \in 1 .. n
        BY <2>2, <2>6, <3>1
      <3>3. m_buffer'[i] = m_buffer[j]
        BY <1>1, <2>2, <2>4, <3>1, <3>2
      <3> HIDE DEF j
      <3> QED BY <1>0, <3>2, <3>3 DEF NothingWithheld, n
    <2> QED BY <2>5, <2>6
  <1>10. CallbackOwned'
    BY <1>0, <1>2 DEF CallbackOwned
  <1> QED BY <1>6, <1>7, <1>8, <1>9, <1>10 DEF Inv

\* A ScopedConn that is destroyed takes its callback with it.
LEMMA DropConnStep == ASSUME Inv, NEW id, DropConn(id) PROVE Inv'
  <1>0. /\ TypeOK /\ BufferIsTail /\ ExactFeed /\ NothingWithheld
        /\ CallbackOwned
    BY DEF Inv
  <1>1. /\ held' = held \ {id} /\ m_sig' = IF alive THEN m_sig \ {id} ELSE m_sig
        /\ UNCHANGED <<m_buffer, m_seq_no, m_call_id, alive, request, got>>
    BY DEF DropConn
  <1>2. m_sig' \subseteq m_sig
    BY <1>1
  <1>3. TypeOK'
    BY <1>0, <1>1, <1>2 DEF TypeOK
  <1>4. BufferIsTail' /\ NothingWithheld'
    BY <1>0, <1>1, <1>2 DEF BufferIsTail, NothingWithheld
  <1>5. ExactFeed'
    BY <1>0, <1>1, <1>2 DEF ExactFeed
  <1>6. CallbackOwned'
    BY <1>0, <1>1 DEF CallbackOwned
  <1> QED BY <1>3, <1>4, <1>5, <1>6 DEF Inv

\* ~Topic empties the table and the buffer.
LEMMA DestructStep == ASSUME Inv, Destruct PROVE Inv'
  <1> USE CapAssumption
  <1>0. /\ TypeOK /\ BufferIsTail /\ ExactFeed /\ NothingWithheld
        /\ CallbackOwned
    BY DEF Inv
  <1>1. /\ alive' = FALSE /\ m_sig' = {} /\ m_buffer' = << >>
        /\ UNCHANGED <<m_seq_no, m_call_id, held, request, got>>
    BY DEF Destruct
  <1>2. TypeOK'
    <2>1. m_buffer' \in Seq(Nat) /\ Len(m_buffer') = 0
      BY <1>1
    <2>2. Len(m_buffer') <= Cap
      BY <2>1
    <2>3. m_sig' \subseteq DOMAIN got'
      BY <1>1
    <2> QED BY <1>0, <1>1, <2>1, <2>2, <2>3 DEF TypeOK
  <1>3. BufferIsTail'
    BY <1>0, <1>1 DEF BufferIsTail, EndsAt, TypeOK
  <1>4. ExactFeed' /\ NothingWithheld' /\ CallbackOwned'
    BY <1>0, <1>1 DEF ExactFeed, NothingWithheld, CallbackOwned
  <1> QED BY <1>2, <1>3, <1>4 DEF Inv

LEMMA StutterStep == ASSUME Inv, UNCHANGED vars PROVE Inv'
  BY DEF Inv, vars, TypeOK, BufferIsTail, ExactFeed, NothingWithheld,
         CallbackOwned, EndsAt

LEMMA NextInv == ASSUME Inv, Next PROVE Inv'
  <1> USE BoundAssumption
  <1>0. TypeOK /\ BufferIsTail /\ m_buffer \in Seq(Nat) /\ m_seq_no \in Nat
    BY DEF Inv, TypeOK
  <1>1. Numbers \subseteq Nat
    BY DEF Numbers
  <1>2. ASSUME NEW lo \in Numbers, NEW n \in Numbers, Recover(lo, n) PROVE Inv'
    BY <1>1, <1>2, RecoverStep
  <1>3. ASSUME NEW old \in SUBSET held, NEW no \in Numbers,
               Register(old, no, FALSE, Find(no))
        PROVE  Inv'
    <2>1. Find(no) \in Seq(Nat) /\ EndsAt(Find(no), m_seq_no)
      BY <1>0, <1>1, SnapshotFacts
    <2>2. \A i \in 1 .. Len(m_buffer) :
             m_buffer[i] >= no => m_buffer[i] >= m_seq_no - Len(Find(no))
      BY <1>0, <1>1, FindIsComplete
    <2> QED BY <1>1, <1>3, <2>1, <2>2, RegisterStep
  <1>4. ASSUME NEW old \in SUBSET held, NEW no \in Numbers,
               Register(old, no, TRUE, Filter(no))
        PROVE  Inv'
    <2>1. Filter(no) \in Seq(Nat) /\ EndsAt(Filter(no), m_seq_no)
      BY <1>0, <1>1, SnapshotFacts
    <2> QED BY <1>1, <1>4, <2>1, RegisterStep
  <1>5. ASSUME NEW no \in Numbers, Subscribe(no) PROVE Inv'
    BY <1>3, <1>5 DEF Subscribe
  <1>6. ASSUME NEW id \in Ids, NEW no \in Numbers, Resubscribe(id, no) PROVE Inv'
    BY <1>3, <1>6 DEF Resubscribe
  <1>7. ASSUME NEW no \in Numbers, SubscribeFiltered(no) PROVE Inv'
    BY <1>4, <1>7 DEF SubscribeFiltered
  <1>8. ASSUME NEW id \in Ids, NEW no \in Numbers, ResubscribeFiltered(id, no)
        PROVE  Inv'
    BY <1>4, <1>8 DEF ResubscribeFiltered
  <1> QED BY <1>2, <1>5, <1>6, <1>7, <1>8, PublishStep, DropConnStep,
             DestructStep DEF Next

\* The conjunction of the invariants below is inductive: each needs others.
\* The type of a snapshot rests on the buffer being contiguous, completeness
\* of a snapshot on both, and an owner's callbacks on the bookkeeping of ids.
THEOREM Invariance == Spec => []Inv
  <1>1. Inv /\ [Next]_vars => Inv'
    BY NextInv, StutterStep
  <1> QED BY InitInv, <1>1, PTL DEF Spec

\* Every variable stays in its range, for every capacity and bound.
THEOREM TypeCorrect == Spec => []TypeOK
  BY Invariance, PTL DEF Inv

\* The buffer is always the contiguous newest stretch of the log, so that the
\* binary search of findAndSubscribe is defined.
THEOREM BufferTheorem == Spec => []BufferIsTail
  BY Invariance, PTL DEF Inv

\* No subscriber is handed a gap, a repetition or a swap, and a registered
\* one has everything from its first number to the last published.
THEOREM FeedTheorem == Spec => []ExactFeed
  BY Invariance, PTL DEF Inv

\* No subscriber by number misses a message it asked for that is retained.
THEOREM CompletenessTheorem == Spec => []NothingWithheld
  BY Invariance, PTL DEF Inv

\* Callbacks and live ScopedConns correspond while the topic lives.
THEOREM OwnershipTheorem == Spec => []CallbackOwned
  BY Invariance, PTL DEF Inv

-----------------------------------------------------------------------------
(* Steps.                                                                  *)

LEMMA RetentionStep ==
    ASSUME Inv, [Next]_vars, alive', NEW m \in ToSet(m_buffer),
           ~(m < m_seq_no' - Cap)
    PROVE  m \in ToSet(m_buffer')
  <1> USE CapAssumption
  <1>1. /\ m_buffer \in Seq(Nat) /\ Len(m_buffer) <= Cap /\ m_seq_no \in Nat
        /\ EndsAt(m_buffer, m_seq_no)
    BY DEF Inv, TypeOK, BufferIsTail
  <1>2. CASE m_buffer' = m_buffer
    BY <1>2
  <1>3. CASE \E lo, n \in Numbers : Recover(lo, n)
    <2>1. m_seq_no = 0
      BY <1>3 DEF Recover
    <2>2. Len(m_buffer) = 0
      BY <1>1, <2>1 DEF EndsAt
    <2>3. ToSet(m_buffer) = {}
      BY <1>1, <2>2 DEF ToSet
    <2> QED BY <2>3
  <1>4. CASE Publish
    <2> DEFINE n == Len(m_buffer)
               n2 == Len(m_buffer')
    <2>1. m_seq_no' = m_seq_no + 1 /\ m_buffer' = PushBack(m_buffer, m_seq_no)
      BY <1>4 DEF Publish
    <2>2. /\ m_buffer' \in Seq(Nat) /\ EndsAt(m_buffer', m_seq_no + 1)
          /\ n2 = IF n < Cap THEN n + 1 ELSE Cap
      BY <1>1, <2>1, PushBackEndsAt
    <2>3. PICK i \in 1 .. n : m = m_buffer[i]
      BY <1>1 DEF ToSet
    <2>4. m = m_seq_no - n + i - 1 /\ n \in Nat /\ n <= Cap
      BY <1>1, <2>3 DEF EndsAt
    <2>5. \A k \in 1 .. n2 : m_buffer'[k] = (m_seq_no + 1) - n2 + k - 1
      BY <2>2 DEF EndsAt
    <2> DEFINE j == i + n2 - n - 1
    <2>6. j \in 1 .. n2
      <3> HIDE DEF n, n2
      <3>1. CASE n < Cap
        BY <1>1, <2>2, <2>3, <2>4, <3>1
      <3>2. CASE n = Cap
        <4>1. i # 1
          BY <1>1, <2>1, <2>4, <3>2
        <4> QED BY <1>1, <2>2, <2>3, <2>4, <3>2, <4>1
      <3> QED BY <2>4, <3>1, <3>2
    <2>7. m_buffer'[j] = m
      <3>1. n2 \in Nat
        BY <2>2
      <3> HIDE DEF n, n2
      <3> QED BY <1>1, <2>3, <2>4, <2>5, <2>6, <3>1
    <2> HIDE DEF j
    <2> QED BY <2>2, <2>6, <2>7 DEF ToSet
  <1>5. CASE Next /\ m_buffer' # m_buffer
    <2>1. ~Destruct
      BY DEF Destruct
    <2>2. /\ \A no \in Numbers : ~Subscribe(no) /\ ~SubscribeFiltered(no)
          /\ \A id \in Ids, no \in Numbers :
                ~Resubscribe(id, no) /\ ~ResubscribeFiltered(id, no)
          /\ \A id \in Ids : ~DropConn(id)
      BY <1>5 DEF Subscribe, SubscribeFiltered, Resubscribe,
                  ResubscribeFiltered, Register, DropConn
    <2> QED BY <1>3, <1>4, <1>5, <2>1, <2>2 DEF Next
  <1> QED BY <1>2, <1>5 DEF vars

\* A message leaves a living topic's buffer only for Cap newer ones.
THEOREM RetentionTheorem == Spec => Retention
  <1>1. Inv /\ [Next]_vars =>
           [alive' => \A m \in ToSet(m_buffer) :
                         m \in ToSet(m_buffer') \/ m < m_seq_no' - Cap]_vars
    BY RetentionStep
  <1> QED BY Invariance, <1>1, PTL DEF Spec, Retention
=============================================================================
