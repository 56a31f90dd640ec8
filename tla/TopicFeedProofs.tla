-------------------------- MODULE TopicFeedProofs ---------------------------
(***************************************************************************)
(* The topic of Topic.tla implements the subscription log of Feed.tla, for *)
(* every capacity and every bound.                                         *)
(***************************************************************************)
EXTENDS TopicProofs

\* What an owner has been handed is a slice of the log.
LEMMA GotIsSlice ==
    ASSUME NEW s \in Seq(Nat), NEW f \in Nat, EndsAt(s, f + Len(s))
    PROVE  s = Promise!Slice(f, f + Len(s))
  <1> DEFINE n == Len(s)
  <1>1. s = [i \in 1 .. n |-> s[i]] /\ n \in Nat
    OBVIOUS
  <1>2. \A i \in 1 .. n : s[i] = (f + n) - n + i - 1
    BY DEF EndsAt
  <1> HIDE DEF n
  <1>3. \A i \in 1 .. n : s[i] = f + i - 1
    BY <1>1, <1>2
  <1>4. (f + n) - f = n
    BY <1>1
  <1>5. Promise!Slice(f, f + n) = [i \in 1 .. n |-> f + i - 1]
    BY <1>4 DEF Promise!Slice
  <1> QED BY <1>1, <1>3, <1>5 DEF n

LEMMA InitRefines == Init => Promise!Init
  <1> SUFFICES ASSUME Init PROVE Promise!Init
    OBVIOUS
  <1>1. DOMAIN got = {} /\ m_seq_no = 0 /\ m_sig = {}
    BY DEF Init
  <1>2. [id \in DOMAIN got |-> request[id].first] = << >>
    BY <1>1
  <1>3. got = << >>
    BY DEF Init
  <1> QED BY <1>1, <1>2, <1>3 DEF Promise!Init

\* Restoring a copy is Restore: nobody has subscribed.
LEMMA RecoverRefines ==
    ASSUME Inv, Inv', NEW lo, NEW n, Recover(lo, n) PROVE Promise!Restore
  <1>1. /\ m_call_id = 0 /\ m_seq_no = 0
        /\ UNCHANGED <<m_sig, request, got>>
    BY DEF Recover
  <1>2. DOMAIN got = {} /\ m_seq_no' \in Nat
    BY <1>1 DEF Inv, TypeOK
  <1> QED BY <1>1, <1>2 DEF Promise!Restore, Promise!Opened

\* A publication extends the slice of every open subscription.
LEMMA PublishRefines == ASSUME Inv, Inv', Publish PROVE Promise!Extend
  <1> DEFINE F == [id \in DOMAIN got |-> request[id].first]
  <1>0. TypeOK /\ ExactFeed /\ m_seq_no \in Nat /\ TypeOK' /\ ExactFeed'
    BY DEF Inv, TypeOK
  <1>1. /\ m_seq_no' = m_seq_no + 1 /\ UNCHANGED <<m_sig, request>>
        /\ got' = [id \in DOMAIN got |->
                     IF id \in m_sig THEN Append(got[id], Last(m_buffer'))
                     ELSE got[id]]
    BY DEF Publish
  <1>2. ASSUME NEW id \in DOMAIN got, id \in m_sig
        PROVE  got'[id] = Promise!Slice(F[id], m_seq_no + 1)
    <2>1. /\ got'[id] \in Seq(Nat) /\ request[id].first \in Nat
          /\ request[id].first + Len(got'[id]) = m_seq_no + 1
          /\ EndsAt(got'[id], request[id].first + Len(got'[id]))
      BY <1>0, <1>1, <1>2, FirstFacts DEF TypeOK, ExactFeed
    <2> QED BY <2>1, GotIsSlice
  <1>3. DOMAIN got' = DOMAIN got /\ F' = F
    BY <1>1
  <1>4. got' = [id \in DOMAIN got |->
                  IF id \in m_sig THEN Promise!Slice(F[id], m_seq_no + 1)
                  ELSE got[id]]
    <2> HIDE DEF F
    <2> QED BY <1>1, <1>2
  <1> QED BY <1>1, <1>3, <1>4 DEF Promise!Extend, Promise!Opened

\* Every way to (re)subscribe turns one subscription, or none, into a new one.
LEMMA RegisterRefines ==
    ASSUME Inv, Inv', NEW old \in SUBSET held, NEW no \in Nat,
           NEW filtered \in BOOLEAN, NEW snap \in Seq(Nat),
           EndsAt(snap, m_seq_no), Register(old, no, filtered, snap)
    PROVE  old \in SUBSET m_sig /\ Promise!Turn(old, {m_call_id})
  <1> DEFINE F == [id \in DOMAIN got |-> request[id].first]
             c == m_call_id
  <1>0. /\ TypeOK /\ ExactFeed /\ CallbackOwned /\ TypeOK' /\ ExactFeed'
    BY DEF Inv
  <1>1. /\ alive /\ m_sig' = (m_sig \ old) \cup {c} /\ m_seq_no' = m_seq_no
        /\ request' = [id \in DOMAIN request \cup {c} |->
                         IF id = c
                         THEN [asked |-> no, filtered |-> filtered,
                               first |-> IF snap = << >> THEN m_seq_no
                                         ELSE Head(snap)]
                         ELSE request[id]]
        /\ got' = [id \in DOMAIN got \cup {c} |-> IF id = c THEN snap ELSE got[id]]
    BY DEF Register
  <1>2. /\ DOMAIN got = 0 .. c - 1 /\ DOMAIN request = 0 .. c - 1 /\ c \in Nat
        /\ c \notin DOMAIN got /\ m_seq_no \in Nat
    BY <1>0 DEF TypeOK
  <1>3. old \subseteq m_sig
    BY <1>0, <1>1 DEF CallbackOwned
  <1>4. /\ DOMAIN got' = DOMAIN got \cup {c} /\ DOMAIN F' = DOMAIN got \cup {c}
    BY <1>1
  <1>5. ASSUME NEW s \in DOMAIN got PROVE F'[s] = F[s] /\ got'[s] = got[s]
    BY <1>1, <1>2
  <1>6. F'[c] \in 0 .. m_seq_no /\ got'[c] = Promise!Slice(F'[c], m_seq_no)
    <2>1. /\ got'[c] \in Seq(Nat) /\ request'[c].first \in Nat
          /\ request'[c].first + Len(got'[c]) = m_seq_no
          /\ EndsAt(got'[c], request'[c].first + Len(got'[c]))
      <3>1. c \in DOMAIN got' /\ c \in m_sig'
        BY <1>1, <1>4
      <3>2. got'[c] \in Seq(Nat) /\ request'[c] \in Requests
        BY <1>0, <3>1 DEF TypeOK
      <3>3. request'[c].first \in Nat
        BY <3>2 DEF Requests
      <3> QED BY <1>0, <1>1, <3>1, <3>2, <3>3 DEF ExactFeed
    <2>2. F'[c] = request'[c].first
      BY <1>4
    <2>3. got'[c] = Promise!Slice(request'[c].first, m_seq_no)
      BY <2>1, GotIsSlice
    <2>4. Len(got'[c]) \in Nat
      BY <2>1
    <2>5. request'[c].first <= m_seq_no
      BY <1>2, <2>1, <2>4
    <2> QED BY <1>2, <2>1, <2>2, <2>3, <2>5
  <1> HIDE DEF F
  <1>7. {c} \cap DOMAIN got = {}
    BY <1>2
  <1> QED BY <1>1, <1>3, <1>4, <1>5, <1>6, <1>7
          DEF Promise!Turn, Promise!Opened, F

\* A step that only closes subscriptions.
LEMMA CloseRefines ==
    ASSUME NEW closing, UNCHANGED <<m_seq_no, request, got>>,
           m_sig' = m_sig \ closing
    PROVE  Promise!Turn(closing, {})
  BY DEF Promise!Turn, Promise!Opened

LEMMA NextRefines ==
    ASSUME Inv, Inv', Next PROVE Promise!Next \/ UNCHANGED Promise!vars
  <1> USE BoundAssumption
  <1>0. /\ TypeOK /\ BufferIsTail /\ CallbackOwned /\ m_buffer \in Seq(Nat)
        /\ m_seq_no \in Nat
    BY DEF Inv, TypeOK
  <1>1. Numbers \subseteq Nat
    BY DEF Numbers
  <1>2. ASSUME NEW closing \in SUBSET m_sig, NEW opening \in SUBSET DOMAIN got',
               Promise!Turn(closing, opening)
        PROVE  Promise!Next
    BY <1>2 DEF Promise!Next
  <1>3. ASSUME NEW old \in SUBSET held, NEW no \in Numbers,
               NEW filtered \in BOOLEAN, NEW snap \in {Find(no), Filter(no)},
               Register(old, no, filtered, snap)
        PROVE  Promise!Next
    <2>1. snap \in Seq(Nat) /\ EndsAt(snap, m_seq_no)
      BY <1>0, <1>1, SnapshotFacts
    <2>2. old \in SUBSET m_sig /\ Promise!Turn(old, {m_call_id})
      BY <1>1, <1>3, <2>1, RegisterRefines
    <2>3. {m_call_id} \in SUBSET DOMAIN got'
      BY <1>3 DEF Register
    <2>4. PICK c : c = m_call_id
      OBVIOUS
    <2>5. {c} \in SUBSET DOMAIN got' /\ Promise!Turn(old, {c})
      BY <2>2, <2>3, <2>4 DEF Promise!Turn
    <2> QED BY <1>2, <2>2, <2>5
  <1>4. ASSUME NEW lo, NEW n, Recover(lo, n) PROVE Promise!Next
    BY <1>4, RecoverRefines DEF Promise!Next
  <1>5. CASE Publish
    BY <1>5, PublishRefines DEF Promise!Next
  <1>6. ASSUME NEW no \in Numbers, Subscribe(no) \/ SubscribeFiltered(no)
        PROVE  Promise!Next
    BY <1>3, <1>6 DEF Subscribe, SubscribeFiltered
  <1>7. ASSUME NEW id \in Ids, NEW no \in Numbers,
               Resubscribe(id, no) \/ ResubscribeFiltered(id, no)
        PROVE  Promise!Next
    BY <1>3, <1>7 DEF Resubscribe, ResubscribeFiltered
  <1>8. ASSUME NEW id \in Ids, DropConn(id)
        PROVE  Promise!Next \/ UNCHANGED Promise!vars
    <2>1. /\ UNCHANGED <<m_seq_no, request, got>> /\ id \in held
          /\ m_sig' = IF alive THEN m_sig \ {id} ELSE m_sig
      BY <1>8 DEF DropConn
    <2>2. CASE alive
      <3>1. {id} \in SUBSET m_sig
        BY <1>0, <2>1, <2>2 DEF CallbackOwned
      <3>2. Promise!Turn({id}, {})
        BY <2>1, <2>2, CloseRefines
      <3> QED BY <1>2, <3>1, <3>2
    <2>3. CASE ~alive
      BY <2>1, <2>3 DEF Promise!vars
    <2> QED BY <1>0, <2>2, <2>3 DEF TypeOK
  <1>9. CASE Destruct
    <2>1. UNCHANGED <<m_seq_no, request, got>> /\ m_sig' = m_sig \ m_sig
      BY <1>9 DEF Destruct
    <2>2. Promise!Turn(m_sig, {})
      BY <2>1, CloseRefines
    <2> QED BY <1>2, <2>2
  <1> QED BY <1>4, <1>5, <1>6, <1>7, <1>8, <1>9 DEF Next

\* The topic implements the subscription log: every initial state maps to an
\* initial state and every step to a step or a stutter, with the invariant of
\* TopicProofs as the only assumption on the states in between.
THEOREM FeedRefinement == Spec => FeedSpec
  <1>1. UNCHANGED vars => UNCHANGED Promise!vars
    BY DEF vars, Promise!vars
  <1>2. Inv /\ Inv' /\ [Next]_vars => [Promise!Next]_(Promise!vars)
    BY <1>1, NextRefines
  <1> QED BY InitRefines, Invariance, <1>2, PTL DEF Spec, FeedSpec, Promise!Spec
=============================================================================
