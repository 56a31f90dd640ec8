-------------------------- MODULE NoticeStreamProofs ---------------------------
(***************************************************************************)
(* Theorems of NoticeStream.tla, for every set of streams, every bound and *)
(* every capacity: the type invariant, the order and the completeness of   *)
(* what a client sees, that no callback outlives its stream, and what      *)
(* stop() can rely on.                                                     *)
(*                                                                         *)
(* The topic is the one of Topic.tla, and so are its facts: the inductive  *)
(* invariant of TopicProofs is part of the one here, its lemmas say what a *)
(* call of the topic does to it, and TopicFeedProofs what it promises.     *)
(***************************************************************************)
EXTENDS NoticeStream, TLAPS

TP == INSTANCE TopicFeedProofs

-----------------------------------------------------------------------------
(* Sequences.                                                              *)

LEMMA ToSetFacts ==
    ASSUME NEW S, NEW q \in Seq(S)
    PROVE  ToSet(q) = {q[i] : i \in 1 .. Len(q)} /\ ToSet(q) \subseteq S
  BY DEF ToSet

\* Taking the first element.
LEMMA HeadFacts ==
    ASSUME NEW S, NEW q \in Seq(S), q # << >>
    PROVE  /\ Len(q) \in Nat /\ Len(q) > 0 /\ Head(q) = q[1] /\ Head(q) \in S
           /\ Tail(q) \in Seq(S) /\ Len(Tail(q)) = Len(q) - 1
           /\ \A i \in 1 .. Len(q) - 1 : Tail(q)[i] = q[i + 1]
           /\ ToSet(q) = {Head(q)} \cup ToSet(Tail(q))
  <1> DEFINE n == Len(q)
             t == Tail(q)
  <1>1. /\ n \in Nat /\ n > 0 /\ Head(q) = q[1] /\ Head(q) \in S
        /\ t \in Seq(S) /\ Len(t) = n - 1
    OBVIOUS
  <1>2. \A i \in 1 .. n - 1 : t[i] = q[i + 1]
    OBVIOUS
  <1>3. ToSet(q) = {q[i] : i \in 1 .. n} /\ ToSet(t) = {t[i] : i \in 1 .. n - 1}
    BY <1>1, ToSetFacts
  <1> HIDE DEF n, t
  <1>4. \A j \in 1 .. n : q[j] \in {Head(q)} \cup ToSet(t)
    <2>1. ASSUME NEW j \in 1 .. n, j # 1 PROVE q[j] \in ToSet(t)
      <3>1. j - 1 \in 1 .. n - 1 /\ (j - 1) + 1 = j
        BY <1>1, <2>1
      <3>2. t[j - 1] = q[j]
        BY <1>2, <3>1
      <3> QED BY <1>3, <3>1, <3>2
    <2> QED BY <1>1, <2>1
  <1>5. ToSet(q) = {Head(q)} \cup ToSet(t)
    <2>1. 1 \in 1 .. n /\ \A i \in 1 .. n - 1 : i + 1 \in 1 .. n
      BY <1>1
    <2>2. Head(q) \in ToSet(q) /\ \A i \in 1 .. n - 1 : t[i] \in ToSet(q)
      BY <1>1, <1>2, <1>3, <2>1
    <2> QED BY <1>3, <1>4, <2>2
  <1> QED BY <1>1, <1>2, <1>5 DEF n, t

\* What a channel keeps when a receive takes its first element.
LEMMA RestFacts ==
    ASSUME NEW S, NEW q \in Seq(S)
    PROVE  IF q = << >> THEN SubSeq(q, 2, Len(q)) = << >> ELSE SubSeq(q, 2, Len(q)) = Tail(q)
  OBVIOUS

LEMMA AppendFacts ==
    ASSUME NEW S, NEW q \in Seq(S), NEW m \in S
    PROVE  /\ Append(q, m) \in Seq(S) /\ Len(Append(q, m)) = Len(q) + 1
           /\ Append(q, m)[Len(q) + 1] = m /\ Len(q) \in Nat
           /\ \A i \in 1 .. Len(q) : Append(q, m)[i] = q[i]
           /\ ToSet(Append(q, m)) = ToSet(q) \cup {m}
  <1> DEFINE n == Len(q)
             t == Append(q, m)
  <1>1. /\ t \in Seq(S) /\ Len(t) = n + 1 /\ t[n + 1] = m /\ n \in Nat
        /\ \A i \in 1 .. n : t[i] = q[i]
    OBVIOUS
  <1>2. ToSet(t) = {t[i] : i \in 1 .. n + 1} /\ ToSet(q) = {q[i] : i \in 1 .. n}
    BY <1>1, ToSetFacts
  <1> HIDE DEF n, t
  <1>3. 1 .. n + 1 = (1 .. n) \cup {n + 1}
    BY <1>1
  <1>4. ToSet(t) = ToSet(q) \cup {m}
    BY <1>1, <1>2, <1>3
  <1> QED BY <1>1, <1>4 DEF n, t

LEMMA SingleFacts ==
    ASSUME NEW S, NEW m \in S
    PROVE  /\ <<m>> \in Option(S) /\ << >> \in Option(S) /\ <<m>> # << >>
           /\ Len(<<m>>) = 1 /\ <<m>>[1] = m /\ Head(<<m>>) = m /\ ToSet(<<m>>) = {m}
           /\ ToSet(<< >>) = {}
  BY DEF Option, ToSet

LEMMA EmptyFacts ==
    ASSUME NEW S
    PROVE  << >> \in Option(S) /\ << >> \in Seq(S) /\ ToSet(<< >>) = {}
  BY DEF Option, ToSet

LEMMA OptionFacts ==
    ASSUME NEW S, NEW q \in Option(S)
    PROVE  /\ q \in Seq(S) /\ Len(q) \in {0, 1}
           /\ q # << >> => /\ Len(q) = 1 /\ Head(q) = q[1] /\ Head(q) \in S
                           /\ ToSet(q) = {Head(q)} /\ q = <<Head(q)>>
  <1>1. q \in Seq(S) /\ Len(q) \in {0, 1}
    <2> DEFINE k == Len(q)
    <2>1. q \in Seq(S) /\ k \in Nat /\ k <= 1
      BY DEF Option
    <2> HIDE DEF k
    <2>2. k \in {0, 1}
      BY <2>1
    <2> QED BY <2>1, <2>2 DEF k
  <1>2. ASSUME q # << >>
        PROVE  /\ Len(q) = 1 /\ Head(q) = q[1] /\ Head(q) \in S
               /\ ToSet(q) = {Head(q)} /\ q = <<Head(q)>>
    <2>1. Len(q) = 1
      BY <1>1, <1>2
    <2>2. DOMAIN q = {1} /\ Head(q) = q[1] /\ q[1] \in S
      BY <1>1, <2>1
    <2>3. ToSet(q) = {q[1]}
      BY <2>2 DEF ToSet
    <2>4. q = <<q[1]>>
      BY <1>1, <2>1
    <2> QED BY <2>1, <2>2, <2>3, <2>4
  <1> QED BY <1>1, <1>2

\* Two sequences put together.
LEMMA ConcatFacts ==
    ASSUME NEW S, NEW p \in Seq(S), NEW q \in Seq(S)
    PROVE  /\ p \o q \in Seq(S) /\ Len(p \o q) = Len(p) + Len(q)
           /\ DOMAIN (p \o q) = 1 .. Len(p) + Len(q)
           /\ \A i \in 1 .. Len(p) + Len(q) :
                 (p \o q)[i] = IF i <= Len(p) THEN p[i] ELSE q[i - Len(p)]
  OBVIOUS

\* A function updated at one argument.
LEMMA ExceptFacts ==
    ASSUME NEW A, NEW S, NEW f \in [A -> S], NEW a \in A, NEW v \in S
    PROVE  LET g == [f EXCEPT ![a] = v]
           IN g \in [A -> S] /\ g[a] = v /\ \A b \in A : b # a => g[b] = f[b]
  OBVIOUS

-----------------------------------------------------------------------------
(* The line of notices to one client: w is on the wire, q the rest of a    *)
(* snapshot, g what a group has taken and h the channel; ep counts what    *)
(* the client has asked for, n is the next number.                         *)

Wires == [m : Nat, of : Nat]

Increasing(q) == \A i, j \in DOMAIN q : i < j => q[i] < q[j]

OnWire(w) == {w[i].m : i \in 1 .. Len(w)}

Line(w, q, g, h) == OnWire(w) \cup ToSet(q) \cup ToSet(g) \cup ToSet(h)

\* What is on the wire is in the order promised, and e may follow it.
Rising(w, ep) ==
    \A i, j \in 1 .. Len(w) :
       i < j /\ (ep <= 1 \/ w[i].of = w[j].of) => w[i].m < w[j].m

Behind(w, e, ep) ==
    \A i \in 1 .. Len(w) : ep <= 1 \/ w[i].of = e.of => w[i].m < e.m

Ordered(w, q, g, h, ep, n) ==
    /\ \A x \in Line(w, q, g, h) : x < n
    /\ Rising(w, ep)
    /\ \A i \in 1 .. Len(w) : \A y \in ToSet(g) \cup ToSet(h) :
          ep <= 1 \/ w[i].of = 0 => w[i].m < y
    /\ \A i \in 1 .. Len(w) : \A x \in ToSet(q) :
          ep <= 1 \/ w[i].of = ep => w[i].m < x
    /\ \A i \in 1 .. Len(w) : w[i].of <= ep
    /\ ep <= 1 => \A x \in ToSet(q), y \in ToSet(g) \cup ToSet(h) : x < y
    /\ \A x \in ToSet(g), y \in ToSet(h) : x < y
    /\ Increasing(q) /\ Increasing(h)

\* The pieces of a line have their types.
IsLine(w, q, g, h) ==
    /\ w \in Seq(Wires) /\ q \in Seq(Nat) /\ g \in Option(Nat) /\ h \in Seq(Nat)

LEMMA LineFacts ==
    ASSUME NEW w, NEW q, NEW g, NEW h, IsLine(w, q, g, h)
    PROVE  /\ w \in Seq(Wires) /\ q \in Seq(Nat) /\ g \in Seq(Nat) /\ h \in Seq(Nat)
           /\ Len(w) \in Nat /\ \A i \in 1 .. Len(w) : w[i].m \in Nat /\ w[i].of \in Nat
           /\ ToSet(q) \subseteq Nat /\ ToSet(g) \subseteq Nat /\ ToSet(h) \subseteq Nat
           /\ Line(w, q, g, h) \subseteq Nat
  <1>1. w \in Seq(Wires) /\ q \in Seq(Nat) /\ g \in Seq(Nat) /\ h \in Seq(Nat)
    BY OptionFacts DEF IsLine
  <1>2. Len(w) \in Nat /\ \A i \in 1 .. Len(w) : w[i].m \in Nat /\ w[i].of \in Nat
    <2>1. Len(w) \in Nat /\ \A i \in 1 .. Len(w) : w[i] \in Wires
      BY <1>1
    <2> QED BY <2>1 DEF Wires
  <1>3. ToSet(q) \subseteq Nat /\ ToSet(g) \subseteq Nat /\ ToSet(h) \subseteq Nat
    BY <1>1, ToSetFacts
  <1>4. OnWire(w) \subseteq Nat
    BY <1>2 DEF OnWire
  <1> QED BY <1>1, <1>2, <1>3, <1>4 DEF Line

LEMMA IncreasingTail ==
    ASSUME NEW q \in Seq(Nat), q # << >>, Increasing(q)
    PROVE  Increasing(Tail(q)) /\ \A x \in ToSet(Tail(q)) : Head(q) < x
  <1> DEFINE n == Len(q)
             t == Tail(q)
  <1>1. /\ n \in Nat /\ n > 0 /\ Head(q) = q[1] /\ t \in Seq(Nat) /\ Len(t) = n - 1
        /\ \A i \in 1 .. n - 1 : t[i] = q[i + 1]
    BY HeadFacts
  <1>2. DOMAIN t = 1 .. n - 1 /\ DOMAIN q = 1 .. n
    BY <1>1
  <1>3. ToSet(t) = {t[i] : i \in 1 .. n - 1}
    BY <1>1, ToSetFacts
  <1> HIDE DEF n, t
  <1>4. \A i, j \in 1 .. n : i < j => q[i] < q[j]
    BY <1>2 DEF Increasing
  <1>5. \A i \in 1 .. n - 1 : i + 1 \in 1 .. n /\ 1 < i + 1 /\ 1 \in 1 .. n
    BY <1>1
  <1>6. \A x \in ToSet(t) : Head(q) < x
    BY <1>1, <1>3, <1>4, <1>5
  <1>7. \A i, j \in 1 .. n - 1 : i < j => t[i] < t[j]
    BY <1>1, <1>4, <1>5
  <1> QED BY <1>2, <1>6, <1>7 DEF Increasing, t

LEMMA IncreasingAppend ==
    ASSUME NEW q \in Seq(Nat), NEW n \in Nat, Increasing(q), \A x \in ToSet(q) : x < n
    PROVE  Increasing(Append(q, n))
  <1> DEFINE k == Len(q)
             t == Append(q, n)
  <1>1. /\ t \in Seq(Nat) /\ Len(t) = k + 1 /\ t[k + 1] = n /\ k \in Nat
        /\ \A i \in 1 .. k : t[i] = q[i]
    BY AppendFacts
  <1>2. DOMAIN q = 1 .. k /\ DOMAIN t = 1 .. k + 1 /\ ToSet(q) = {q[i] : i \in 1 .. k}
    BY <1>1, ToSetFacts
  <1> HIDE DEF k, t
  <1>3. \A i, j \in 1 .. k : i < j => q[i] < q[j]
    BY <1>2 DEF Increasing
  <1>4. \A i \in 1 .. k : q[i] < n
    BY <1>2
  <1>5. ASSUME NEW i \in 1 .. k + 1, NEW j \in 1 .. k + 1, i < j PROVE t[i] < t[j]
    <2>1. i \in 1 .. k
      BY <1>1, <1>5
    <2>2. CASE j = k + 1
      BY <1>1, <1>4, <2>1, <2>2
    <2>3. CASE j # k + 1
      BY <1>1, <1>3, <1>5, <2>1, <2>3
    <2> QED BY <2>2, <2>3
  <1> QED BY <1>2, <1>5 DEF Increasing, t

\* A write puts its message behind those on the wire.
LEMMA WireAppend ==
    ASSUME NEW w \in Seq(Wires), NEW e \in Wires, NEW ep \in Nat,
           Rising(w, ep), Behind(w, e, ep),
           NEW v, v = Append(w, e)
    PROVE  /\ v \in Seq(Wires) /\ Len(v) = Len(w) + 1 /\ Len(w) \in Nat
           /\ Rising(v, ep)
           /\ \A x : x \in OnWire(v) <=> x \in OnWire(w) \/ x = e.m
           /\ \A i \in 1 .. Len(w) : v[i] = w[i]
           /\ v[Len(w) + 1] = e
  <1> DEFINE k == Len(w)
  <1>1. /\ v \in Seq(Wires) /\ Len(v) = k + 1 /\ v[k + 1] = e /\ k \in Nat
        /\ \A i \in 1 .. k : v[i] = w[i]
    OBVIOUS
  <1> HIDE DEF k
  <1>2. ASSUME NEW i \in 1 .. k + 1, NEW j \in 1 .. k + 1, i < j,
               ep <= 1 \/ v[i].of = v[j].of
        PROVE  v[i].m < v[j].m
    <2>1. i \in 1 .. k
      BY <1>1, <1>2
    <2>2. CASE j = k + 1
      BY <1>1, <1>2, <2>1, <2>2 DEF k, Behind
    <2>3. CASE j # k + 1
      <3>1. j \in 1 .. k
        BY <1>1, <2>3
      <3> QED BY <1>1, <1>2, <2>1, <3>1 DEF k, Rising
    <2> QED BY <2>2, <2>3
  <1>3. OnWire(v) = OnWire(w) \cup {e.m}
    <2>1. 1 .. k + 1 = (1 .. k) \cup {k + 1}
      BY <1>1
    <2>2. OnWire(v) = {v[i].m : i \in 1 .. k + 1} /\ OnWire(w) = {w[i].m : i \in 1 .. k}
      BY <1>1 DEF OnWire, k
    <2> QED BY <1>1, <2>1, <2>2
  <1>4. \A x : x \in OnWire(v) <=> x \in OnWire(w) \/ x = e.m
    BY <1>3
  <1> QED BY <1>1, <1>2, <1>4 DEF k, Rising

\* The first message of the snapshot is written.
LEMMA LineReplay ==
    ASSUME NEW w, NEW q, NEW g, NEW h, IsLine(w, q, g, h), q # << >>,
           NEW ep \in Nat, NEW n \in Nat, Ordered(w, q, g, h, ep, n)
    PROVE  LET v == Append(w, [m |-> Head(q), of |-> ep])
           IN /\ IsLine(v, Tail(q), g, h) /\ Line(v, Tail(q), g, h) = Line(w, q, g, h)
              /\ Ordered(v, Tail(q), g, h, ep, n)
  <1> DEFINE t == Tail(q)
  <1>1. /\ w \in Seq(Wires) /\ q \in Seq(Nat) /\ Head(q) \in Nat /\ t \in Seq(Nat)
        /\ ToSet(q) = {Head(q)} \cup ToSet(t) /\ Head(q) \in ToSet(q)
    BY LineFacts, HeadFacts
  <1>2. Increasing(t) /\ \A x \in ToSet(t) : Head(q) < x
    BY <1>1, IncreasingTail DEF Ordered
  <1>a. PICK e \in Wires : e.m = Head(q) /\ e.of = ep /\ e = [m |-> Head(q), of |-> ep]
    BY <1>1 DEF Wires
  <1>b. PICK v : v = Append(w, e)
    OBVIOUS
  <1>3. Behind(w, e, ep) /\ Rising(w, ep)
    BY <1>a, <1>1 DEF Ordered, Behind
  <1>4. /\ v \in Seq(Wires) /\ Len(v) = Len(w) + 1 /\ Len(w) \in Nat
        /\ Rising(v, ep) /\ OnWire(v) = OnWire(w) \cup {Head(q)}
        /\ \A i \in 1 .. Len(w) : v[i] = w[i]
        /\ v[Len(w) + 1].m = Head(q) /\ v[Len(w) + 1].of = ep
    <2>3. /\ v \in Seq(Wires) /\ Len(v) = Len(w) + 1 /\ Len(w) \in Nat
          /\ Rising(v, ep) /\ OnWire(v) = OnWire(w) \cup {e.m}
          /\ \A i \in 1 .. Len(w) : v[i] = w[i]
          /\ v[Len(w) + 1] = e
      <3>1. \A x : x \in OnWire(v) <=> x \in OnWire(w) \/ x = e.m
        BY <1>1, <1>b, <1>3, WireAppend, Zenon
      <3>2. /\ v \in Seq(Wires) /\ Len(v) = Len(w) + 1 /\ Len(w) \in Nat
            /\ Rising(v, ep) /\ v[Len(w) + 1] = e
        BY <1>1, <1>b, <1>3, WireAppend
      <3>3. \A i \in 1 .. Len(w) : v[i] = w[i]
        BY <1>1, <1>b, <1>3, WireAppend
      <3> QED BY <3>1, <3>2, <3>3
    <2> QED BY <1>a, <2>3
  <1> HIDE DEF t
  <1>5. Line(v, t, g, h) = Line(w, q, g, h)
    BY <1>1, <1>4 DEF Line
  <1>6. \A i \in 1 .. Len(v) : i \in 1 .. Len(w) \/ i = Len(w) + 1
    BY <1>4
  <1>7. ASSUME NEW i \in 1 .. Len(v), NEW y \in ToSet(g) \cup ToSet(h),
               ep <= 1 \/ v[i].of = 0
        PROVE  v[i].m < y
    <2>1. CASE i \in 1 .. Len(w)
      BY <1>4, <1>7, <2>1 DEF Ordered
    <2>2. CASE i = Len(w) + 1
      <3>1. v[i].m = Head(q) /\ ep <= 1
        BY <1>4, <1>7, <2>2
      <3> QED BY <1>1, <3>1 DEF Ordered
    <2> QED BY <1>6, <2>1, <2>2
  <1>8. \A i \in 1 .. Len(v) : \A x \in ToSet(t) : ep <= 1 \/ v[i].of = ep => v[i].m < x
    BY <1>1, <1>2, <1>4, <1>6 DEF Ordered
  <1>c. \A i \in 1 .. Len(v) : v[i].of <= ep
    BY <1>4, <1>6 DEF Ordered
  <1>9. Ordered(v, t, g, h, ep, n)
    BY <1>1, <1>2, <1>4, <1>5, <1>7, <1>8, <1>c DEF Ordered
  <1>10. IsLine(v, t, g, h)
    BY <1>1, <1>4 DEF IsLine
  <1> QED BY <1>5, <1>9, <1>10, <1>a, <1>b DEF t

\* A notice that a group has handed over is written; the snapshot is done.
LEMMA LineWrite ==
    ASSUME NEW w, NEW g, NEW h, IsLine(w, << >>, g, h), g # << >>,
           NEW ep \in Nat, NEW n \in Nat, Ordered(w, << >>, g, h, ep, n)
    PROVE  LET v == Append(w, [m |-> Head(g), of |-> 0])
           IN /\ IsLine(v, << >>, << >>, h)
              /\ Line(v, << >>, << >>, h) = Line(w, << >>, g, h)
              /\ Ordered(v, << >>, << >>, h, ep, n)
  <1>1. /\ w \in Seq(Wires) /\ Head(g) \in Nat /\ ToSet(g) = {Head(g)}
        /\ ToSet(<< >>) = {} /\ << >> \in Seq(Nat) /\ << >> \in Option(Nat)
    <2>1. ToSet(<< >>) = {} /\ << >> \in Option(Nat)
      BY SingleFacts
    <2> QED BY <2>1, OptionFacts DEF IsLine
  <1>a. PICK e \in Wires : e.m = Head(g) /\ e.of = 0 /\ e = [m |-> Head(g), of |-> 0]
    BY <1>1 DEF Wires
  <1>b. PICK v : v = Append(w, e)
    OBVIOUS
  <1>2. Behind(w, e, ep) /\ Rising(w, ep)
    BY <1>a, <1>1 DEF Ordered, Behind
  <1>3. /\ v \in Seq(Wires) /\ Len(v) = Len(w) + 1 /\ Len(w) \in Nat
        /\ Rising(v, ep) /\ OnWire(v) = OnWire(w) \cup {Head(g)}
        /\ \A i \in 1 .. Len(w) : v[i] = w[i]
        /\ v[Len(w) + 1].m = Head(g) /\ v[Len(w) + 1].of = 0
    <2>3. /\ v \in Seq(Wires) /\ Len(v) = Len(w) + 1 /\ Len(w) \in Nat
          /\ Rising(v, ep) /\ OnWire(v) = OnWire(w) \cup {e.m}
          /\ \A i \in 1 .. Len(w) : v[i] = w[i]
          /\ v[Len(w) + 1] = e
      <3>1. \A x : x \in OnWire(v) <=> x \in OnWire(w) \/ x = e.m
        BY <1>1, <1>b, <1>2, WireAppend, Zenon
      <3>2. /\ v \in Seq(Wires) /\ Len(v) = Len(w) + 1 /\ Len(w) \in Nat
            /\ Rising(v, ep) /\ v[Len(w) + 1] = e
        BY <1>1, <1>b, <1>2, WireAppend
      <3>3. \A i \in 1 .. Len(w) : v[i] = w[i]
        BY <1>1, <1>b, <1>2, WireAppend
      <3> QED BY <3>1, <3>2, <3>3
    <2> QED BY <1>a, <2>3
  <1>4. Line(v, << >>, << >>, h) = Line(w, << >>, g, h)
    BY <1>1, <1>3 DEF Line
  <1>5. \A i \in 1 .. Len(v) : i \in 1 .. Len(w) \/ i = Len(w) + 1
    BY <1>3
  <1>6. \A i \in 1 .. Len(v) : \A y \in ToSet(h) : ep <= 1 \/ v[i].of = 0 => v[i].m < y
    BY <1>1, <1>3, <1>5 DEF Ordered
  <1>c. \A i \in 1 .. Len(v) : v[i].of <= ep
    BY <1>3, <1>5 DEF Ordered
  <1>7. Ordered(v, << >>, << >>, h, ep, n)
    BY <1>1, <1>3, <1>4, <1>6, <1>c DEF Ordered
  <1>8. IsLine(v, << >>, << >>, h)
    BY <1>1, <1>3 DEF IsLine
  <1> QED BY <1>4, <1>7, <1>8, <1>a, <1>b

\* A group takes the first notice of the channel, if there is one.
LEMMA LineTake ==
    ASSUME NEW w, NEW q, NEW h, IsLine(w, q, << >>, h),
           NEW ep \in Nat, NEW n \in Nat, Ordered(w, q, << >>, h, ep, n),
           NEW g, g = IF h = << >> THEN << >> ELSE <<Head(h)>>
    PROVE  /\ IsLine(w, q, g, SubSeq(h, 2, Len(h)))
           /\ Line(w, q, g, SubSeq(h, 2, Len(h))) = Line(w, q, << >>, h)
           /\ Ordered(w, q, g, SubSeq(h, 2, Len(h)), ep, n)
           /\ g = << >> => SubSeq(h, 2, Len(h)) = << >>
  <1>1. h \in Seq(Nat) /\ ToSet(<< >>) = {}
    BY SingleFacts DEF IsLine
  <1>2. CASE h = << >>
    BY <1>1, <1>2, RestFacts
  <1>3. CASE h # << >>
    <2>1. SubSeq(h, 2, Len(h)) = Tail(h)
      BY <1>1, <1>3, RestFacts
    <2>2. /\ Head(h) \in Nat /\ Tail(h) \in Seq(Nat)
          /\ ToSet(h) = {Head(h)} \cup ToSet(Tail(h))
      BY <1>1, <1>3, HeadFacts
    <2>3. g \in Option(Nat) /\ ToSet(g) = {Head(h)} /\ g # << >>
      BY <1>3, <2>2, SingleFacts
    <2>4. Increasing(Tail(h)) /\ \A x \in ToSet(Tail(h)) : Head(h) < x
      BY <1>1, <1>3, IncreasingTail DEF Ordered
    <2>5. Line(w, q, g, Tail(h)) = Line(w, q, << >>, h)
      BY <1>1, <2>2, <2>3 DEF Line
    <2>6. ToSet(g) \cup ToSet(Tail(h)) = ToSet(<< >>) \cup ToSet(h)
      BY <1>1, <2>2, <2>3
    <2>7. Ordered(w, q, g, Tail(h), ep, n)
      BY <2>3, <2>4, <2>5, <2>6 DEF Ordered
    <2> QED BY <2>1, <2>2, <2>3, <2>5, <2>7 DEF IsLine
  <1> QED BY <1>2, <1>3

\* What a group has taken, or what is in the channel, too, is dropped.
LEMMA LineLose ==
    ASSUME NEW w, NEW q, NEW g, NEW h, IsLine(w, q, g, h),
           NEW ep \in Nat, NEW n \in Nat, Ordered(w, q, g, h, ep, n)
    PROVE  /\ IsLine(w, q, << >>, h) /\ Ordered(w, q, << >>, h, ep, n)
           /\ IsLine(w, q, g, << >>) /\ Ordered(w, q, g, << >>, ep, n)
           /\ \A x \in Line(w, q, g, h) : x \in Line(w, q, << >>, h) \/ x \in ToSet(g)
  <1>1. << >> \in Option(Nat) /\ << >> \in Seq(Nat) /\ ToSet(<< >>) = {}
    BY EmptyFacts
  <1>2. Increasing(<< >>)
    BY DEF Increasing
  <1>3. /\ Line(w, q, << >>, h) \subseteq Line(w, q, g, h)
        /\ Line(w, q, g, << >>) \subseteq Line(w, q, g, h)
    BY <1>1 DEF Line
  <1>4. Ordered(w, q, << >>, h, ep, n)
    BY <1>1, <1>3 DEF Ordered
  <1>5. Ordered(w, q, g, << >>, ep, n)
    BY <1>1, <1>2, <1>3 DEF Ordered
  <1>6. \A x \in Line(w, q, g, h) : x \in Line(w, q, << >>, h) \/ x \in ToSet(g)
    BY <1>1 DEF Line
  <1> QED BY <1>1, <1>4, <1>5, <1>6 DEF IsLine

\* A new message goes to a waiting receive, to the channel, or nowhere.
LEMMA LinePut ==
    ASSUME NEW w, NEW q, NEW g, NEW h, IsLine(w, q, g, h),
           NEW ep \in Nat, NEW n \in Nat, Ordered(w, q, g, h, ep, n)
    PROVE  /\ Ordered(w, q, g, h, ep, n + 1)
           /\ IsLine(w, q, g, Append(h, n)) /\ Ordered(w, q, g, Append(h, n), ep, n + 1)
           /\ \A x : x \in Line(w, q, g, Append(h, n)) <=> x \in Line(w, q, g, h) \/ x = n
           /\ g = << >> /\ h = << >> =>
                /\ IsLine(w, q, <<n>>, h) /\ Ordered(w, q, <<n>>, h, ep, n + 1)
                /\ \A x : x \in Line(w, q, <<n>>, h) <=> x \in Line(w, q, g, h) \/ x = n
  <1>1. /\ h \in Seq(Nat) /\ \A i \in 1 .. Len(w) : w[i].m \in OnWire(w)
        /\ Line(w, q, g, h) \subseteq Nat
    BY LineFacts DEF OnWire
  <1>2. \A x \in Line(w, q, g, h) : x < n /\ x < n + 1
    BY <1>1 DEF Ordered
  <1>3. Ordered(w, q, g, h, ep, n + 1)
    BY <1>2 DEF Ordered
  <1>4. /\ Append(h, n) \in Seq(Nat) /\ ToSet(Append(h, n)) = ToSet(h) \cup {n}
        /\ Increasing(Append(h, n))
    <2>1. \A x \in ToSet(h) : x < n
      BY <1>2 DEF Line
    <2> QED BY <1>1, <2>1, AppendFacts, IncreasingAppend DEF Ordered
  <1>5. \A x : x \in Line(w, q, g, Append(h, n)) <=> x \in Line(w, q, g, h) \/ x = n
    BY <1>4 DEF Line
  <1>6. /\ \A i \in 1 .. Len(w) : w[i].m < n
        /\ \A x \in ToSet(q) \cup ToSet(g) : x < n
    BY <1>1, <1>2 DEF Line
  <1>7. Ordered(w, q, g, Append(h, n), ep, n + 1)
    <2>1. \A x \in Line(w, q, g, Append(h, n)) : x < n + 1
      BY <1>2, <1>5
    <2>2. \A i \in 1 .. Len(w) : \A y \in ToSet(g) \cup ToSet(Append(h, n)) :
              ep <= 1 \/ w[i].of = 0 => w[i].m < y
      BY <1>4, <1>6 DEF Ordered
    <2>3. ep <= 1 => \A x \in ToSet(q), y \in ToSet(g) \cup ToSet(Append(h, n)) : x < y
      BY <1>4, <1>6 DEF Ordered
    <2>4. \A x \in ToSet(g), y \in ToSet(Append(h, n)) : x < y
      BY <1>4, <1>6 DEF Ordered
    <2> QED BY <1>4, <2>1, <2>2, <2>3, <2>4 DEF Ordered
  <1>8. ASSUME g = << >>, h = << >>
        PROVE  /\ IsLine(w, q, <<n>>, h) /\ Ordered(w, q, <<n>>, h, ep, n + 1)
               /\ \A x : x \in Line(w, q, <<n>>, h) <=> x \in Line(w, q, g, h) \/ x = n
    <2>1. <<n>> \in Option(Nat) /\ ToSet(<<n>>) = {n} /\ ToSet(<< >>) = {}
      BY SingleFacts
    <2>2. \A x : x \in Line(w, q, <<n>>, h) <=> x \in Line(w, q, g, h) \/ x = n
      BY <1>8, <2>1 DEF Line
    <2>3. Ordered(w, q, <<n>>, h, ep, n + 1)
      <3>1. \A x \in Line(w, q, <<n>>, h) : x < n + 1
        BY <1>2, <2>2
      <3>2. ToSet(<<n>>) \cup ToSet(h) = {n} /\ ToSet(h) = {}
        BY <1>8, <2>1
      <3> QED BY <1>6, <2>1, <3>1, <3>2 DEF Ordered
    <2> QED BY <2>1, <2>2, <2>3 DEF IsLine
  <1> QED BY <1>3, <1>4, <1>5, <1>7, <1>8 DEF IsLine

\* A request brings the part of the log before number n that it asks for; only
\* on the first one the order spans snapshot and channel.
LEMMA LineSubscribe ==
    ASSUME NEW w, NEW g, NEW h, IsLine(w, << >>, g, h),
           NEW ep \in Nat, NEW n \in Nat, Ordered(w, << >>, g, h, ep, n),
           ep = 0 => w = << >> /\ g = << >> /\ h = << >>,
           NEW q \in Seq(Nat), T!EndsAt(q, n)
    PROVE  /\ IsLine(w, q, g, h) /\ Ordered(w, q, g, h, ep + 1, n)
           /\ ToSet(q) \subseteq Line(w, q, g, h)
  <1>1. /\ Len(q) \in Nat /\ Len(q) <= n /\ \A i \in 1 .. Len(q) : q[i] = n - Len(q) + i - 1
        /\ ToSet(q) = {q[i] : i \in 1 .. Len(q)} /\ DOMAIN q = 1 .. Len(q)
    <2>1. ToSet(q) = {q[i] : i \in 1 .. Len(q)}
      BY ToSetFacts
    <2>2. Len(q) <= n /\ \A i \in 1 .. Len(q) : q[i] = n - Len(q) + i - 1
      BY DEF T!EndsAt
    <2> QED BY <2>1, <2>2
  <1>2. Increasing(q) /\ \A x \in ToSet(q) : x < n
    <2> DEFINE k == Len(q)
    <2>1. /\ k \in Nat /\ k <= n /\ \A i \in 1 .. k : q[i] = n - k + i - 1
          /\ ToSet(q) = {q[i] : i \in 1 .. k} /\ DOMAIN q = 1 .. k
      BY <1>1
    <2> HIDE DEF k
    <2>2. \A i, j \in 1 .. k : i < j => q[i] < q[j]
      BY <2>1
    <2>3. \A i \in 1 .. k : q[i] < n
      BY <2>1
    <2> QED BY <2>1, <2>2, <2>3 DEF Increasing
  <1>3. ToSet(<< >>) = {}
    BY SingleFacts
  <1>4. \A x \in Line(w, q, g, h) : x < n
    BY <1>2, <1>3 DEF Ordered, Line
  <1>5. IsLine(w, q, g, h)
    BY DEF IsLine
  <1>6. CASE ep = 0
    <2>1. Len(w) = 0 /\ w = << >> /\ g = << >> /\ h = << >> /\ Increasing(h)
      BY <1>6 DEF Increasing
    <2> QED BY <1>2, <1>3, <1>4, <1>5, <2>1 DEF Ordered, Line, Rising
  <1>7. CASE ep # 0
    <2>1. ~(ep + 1 <= 1)
      BY <1>7
    <2>2. Rising(w, ep + 1)
      BY <2>1 DEF Ordered, Rising
    <2>3. \A i \in 1 .. Len(w) : \A y \in ToSet(g) \cup ToSet(h) : w[i].of = 0 => w[i].m < y
      BY DEF Ordered
    <2>4. \A i \in 1 .. Len(w) : w[i].of <= ep + 1 /\ ~(w[i].of = ep + 1)
      <3>1. \A i \in 1 .. Len(w) : w[i].of \in Nat
        BY LineFacts
      <3>2. \A i \in 1 .. Len(w) : w[i].of <= ep
        BY DEF Ordered
      <3> QED BY <3>1, <3>2
    <2> QED BY <1>2, <1>4, <1>5, <2>1, <2>2, <2>3, <2>4 DEF Ordered, Line
  <1> QED BY <1>6, <1>7

\* Three sequences put together.
LEMMA ThreePieces ==
    ASSUME NEW p \in Seq(Wires), NEW q \in Seq(Wires), NEW r \in Seq(Wires),
           NEW y, y = p \o q \o r
    PROVE  /\ DOMAIN y = 1 .. Len(p) + Len(q) + Len(r)
           /\ Len(p) \in Nat /\ Len(q) \in Nat /\ Len(r) \in Nat
           /\ \A i \in 1 .. Len(p) : y[i] = p[i]
           /\ \A i \in 1 .. Len(q) : y[Len(p) + i] = q[i]
           /\ \A i \in 1 .. Len(r) : y[Len(p) + Len(q) + i] = r[i]
  <1>1. PICK x \in Seq(Wires) : x = p \o q
    BY ConcatFacts
  <1>2. y = x \o r
    BY <1>1
  <1>3. /\ Len(x) = Len(p) + Len(q) /\ Len(p) \in Nat /\ Len(q) \in Nat /\ Len(r) \in Nat
        /\ \A i \in 1 .. Len(p) + Len(q) : x[i] = IF i <= Len(p) THEN p[i] ELSE q[i - Len(p)]
    BY <1>1, ConcatFacts
  <1>4. /\ DOMAIN y = 1 .. Len(x) + Len(r)
        /\ \A i \in 1 .. Len(x) + Len(r) : y[i] = IF i <= Len(x) THEN x[i] ELSE r[i - Len(x)]
    BY <1>1, <1>2, ConcatFacts
  <1> DEFINE a == Len(p)
             b == Len(q)
             c == Len(r)
  <1>5. /\ a \in Nat /\ b \in Nat /\ c \in Nat /\ DOMAIN y = 1 .. a + b + c
        /\ \A i \in 1 .. a + b : x[i] = IF i <= a THEN p[i] ELSE q[i - a]
        /\ \A i \in 1 .. a + b + c : y[i] = IF i <= a + b THEN x[i] ELSE r[i - (a + b)]
    BY <1>3, <1>4
  <1> HIDE DEF a, b, c
  <1>6. \A i \in 1 .. a : y[i] = p[i]
    <2>1. \A i \in 1 .. a : i \in 1 .. a + b + c /\ i \in 1 .. a + b /\ i <= a /\ i <= a + b
      BY <1>5
    <2> QED BY <1>5, <2>1
  <1>7. \A i \in 1 .. b : y[a + i] = q[i]
    <2>1. \A i \in 1 .. b : /\ a + i \in 1 .. a + b + c /\ a + i \in 1 .. a + b
                            /\ ~(a + i <= a) /\ a + i <= a + b /\ (a + i) - a = i
      BY <1>5
    <2> QED BY <1>5, <2>1
  <1>8. \A i \in 1 .. c : y[a + b + i] = r[i]
    <2>1. \A i \in 1 .. c : /\ a + b + i \in 1 .. a + b + c /\ ~(a + b + i <= a + b)
                            /\ (a + b + i) - (a + b) = i
      BY <1>5
    <2> QED BY <1>5, <2>1
  <1> QED BY <1>1, <1>2, <1>5, <1>6, <1>7, <1>8 DEF a, b, c

\* All has a messages of w, then the b numbers of q, then the c numbers of d.
Pieces(all, w, q, d, a, b, c, ep) ==
    /\ \A i \in 1 .. a : all[i] = w[i]
    /\ \A i \in 1 .. b : all[a + i].m = q[i] /\ all[a + i].of = ep
    /\ \A i \in 1 .. c : all[a + b + i].m = d[i] /\ all[a + b + i].of = 0

\* The pieces are in order, and so is each with the next ones.
PiecesSorted(w, q, d, a, b, c, ep) ==
    /\ \A i, j \in 1 .. a :
          i < j /\ (ep <= 1 \/ w[i].of = w[j].of) => w[i].m < w[j].m
    /\ \A i \in 1 .. a, j \in 1 .. b : ep <= 1 \/ w[i].of = ep => w[i].m < q[j]
    /\ \A i \in 1 .. a, j \in 1 .. c : ep <= 1 \/ w[i].of = 0 => w[i].m < d[j]
    /\ \A i, j \in 1 .. b : i < j => q[i] < q[j]
    /\ \A i \in 1 .. b, j \in 1 .. c : ep <= 1 => q[i] < d[j]
    /\ \A i, j \in 1 .. c : i < j => d[i] < d[j]

LEMMA PiecesInOrder ==
    ASSUME NEW a \in Nat, NEW b \in Nat, NEW c \in Nat, NEW ep \in Nat,
           NEW w, NEW q, NEW d, NEW all,
           Pieces(all, w, q, d, a, b, c, ep), PiecesSorted(w, q, d, a, b, c, ep),
           NEW i \in 1 .. a + b + c, NEW j \in 1 .. a + b + c, i < j,
           ep <= 1 \/ all[i].of = all[j].of
    PROVE  all[i].m < all[j].m
  <1> USE DEF Pieces, PiecesSorted
  <1>1. \A k \in 1 .. a + b + c : /\ ~(k <= a) /\ k <= a + b => k - a \in 1 .. b /\ a + (k - a) = k
                                  /\ k <= a => k \in 1 .. a
                                  /\ ~(k <= a + b) => /\ k - (a + b) \in 1 .. c
                                                      /\ a + b + (k - (a + b)) = k
    OBVIOUS
  <1>2. CASE j <= a
    <2>1. i \in 1 .. a /\ j \in 1 .. a
      BY <1>2
    <2> QED BY <2>1
  <1>3. CASE ~(j <= a) /\ j <= a + b
    <2>1. PICK y \in 1 .. b : j = a + y
      BY <1>1, <1>3
    <2>2. all[j].m = q[y] /\ all[j].of = ep
      BY <2>1
    <2>3. CASE i <= a
      <3>1. i \in 1 .. a
        BY <2>3
      <3> QED BY <2>2, <3>1
    <2>4. CASE ~(i <= a)
      <3>1. i <= a + b
        BY <1>3
      <3>2. PICK x \in 1 .. b : i = a + x
        BY <1>1, <2>4, <3>1
      <3>3. x < y
        BY <2>1, <3>2
      <3> QED BY <2>2, <3>2, <3>3
    <2> QED BY <2>3, <2>4
  <1>4. CASE ~(j <= a + b)
    <2>1. PICK y \in 1 .. c : j = a + b + y
      BY <1>1, <1>4
    <2>2. all[j].m = d[y] /\ all[j].of = 0
      BY <2>1
    <2>3. CASE i <= a
      <3>1. i \in 1 .. a
        BY <2>3
      <3> QED BY <2>2, <3>1
    <2>4. CASE ~(i <= a) /\ i <= a + b
      <3>1. PICK x \in 1 .. b : i = a + x
        BY <1>1, <2>4
      <3>2. all[i].m = q[x] /\ all[i].of = ep
        BY <3>1
      <3>3. ep <= 1
        BY <2>2, <3>2
      <3> QED BY <2>2, <3>2, <3>3
    <2>5. CASE ~(i <= a + b)
      <3>1. PICK x \in 1 .. c : i = a + b + x
        BY <1>1, <2>5
      <3>2. x < y
        BY <2>1, <3>1
      <3> QED BY <2>2, <3>1, <3>2
    <2> QED BY <2>3, <2>4, <2>5
  <1> QED BY <1>2, <1>3, <1>4

\* A sequence given by its elements.
LEMMA SeqByDef ==
    ASSUME NEW S, NEW k \in Nat, NEW f \in [1 .. k -> S]
    PROVE  f \in Seq(S) /\ Len(f) = k
  OBVIOUS

\* Marking the numbers of a sequence.
LEMMA MarkFacts ==
    ASSUME NEW q \in Seq(Nat), NEW of \in Nat
    PROVE  /\ Marked(q, of) \in Seq(Wires) /\ Len(Marked(q, of)) = Len(q)
           /\ Len(q) \in Nat
           /\ \A i \in 1 .. Len(q) : Marked(q, of)[i].m = q[i] /\ Marked(q, of)[i].of = of
  <1>1. Len(q) \in Nat /\ DOMAIN q = 1 .. Len(q) /\ \A i \in 1 .. Len(q) : q[i] \in Nat
    OBVIOUS
  <1>2. PICK k \in Nat : k = Len(q)
    BY <1>1
  <1>3. \A i \in 1 .. k : [m |-> q[i], of |-> of] \in Wires
    BY <1>1, <1>2 DEF Wires
  <1>4. PICK b : b = [i \in 1 .. k |-> [m |-> q[i], of |-> of]]
    OBVIOUS
  <1>5. b \in [1 .. k -> Wires] /\ \A i \in 1 .. k : b[i] = [m |-> q[i], of |-> of]
    BY ONLY <1>3, <1>4
  <1>6. b \in Seq(Wires) /\ Len(b) = k
    BY <1>5, SeqByDef
  <1>7. Marked(q, of) = b
    BY <1>1, <1>2, <1>4 DEF Marked
  <1> QED BY <1>1, <1>2, <1>5, <1>6, <1>7

\* What a group and the channel hold, in order.
LEMMA ComingFacts ==
    ASSUME NEW g \in Option(Nat), NEW h \in Seq(Nat), Increasing(h),
           \A x \in ToSet(g), y \in ToSet(h) : x < y
    PROVE  /\ g \o h \in Seq(Nat) /\ Len(g \o h) \in Nat
           /\ \A i \in 1 .. Len(g \o h) : (g \o h)[i] \in ToSet(g) \cup ToSet(h)
           /\ \A i, j \in 1 .. Len(g \o h) : i < j => (g \o h)[i] < (g \o h)[j]
  <1>1. g \in Seq(Nat) /\ Len(g) \in {0, 1}
    BY OptionFacts
  <1>2. PICK d : d = g \o h
    OBVIOUS
  <1> DEFINE a == Len(g)
             c == Len(h)
  <1>3. /\ d \in Seq(Nat) /\ Len(d) = a + c /\ a \in {0, 1} /\ c \in Nat
        /\ \A i \in 1 .. a + c : d[i] = IF i <= a THEN g[i] ELSE h[i - a]
    BY <1>1, <1>2, ConcatFacts
  <1>4. /\ \A i \in 1 .. a : g[i] \in ToSet(g)
        /\ \A i \in 1 .. c : h[i] \in ToSet(h)
        /\ \A i, j \in 1 .. c : i < j => h[i] < h[j]
    <2>1. ToSet(g) = {g[i] : i \in 1 .. a} /\ ToSet(h) = {h[i] : i \in 1 .. c}
      BY <1>1, ToSetFacts
    <2>2. DOMAIN h = 1 .. c
      OBVIOUS
    <2> QED BY <2>1, <2>2 DEF Increasing
  <1> HIDE DEF a, c
  <1>5. \A i \in 1 .. a + c : /\ i <= a => i \in 1 .. a /\ d[i] = g[i]
                              /\ ~(i <= a) => i - a \in 1 .. c /\ d[i] = h[i - a]
    <2>1. \A i \in 1 .. a + c : (i <= a => i \in 1 .. a) /\ (~(i <= a) => i - a \in 1 .. c)
      BY <1>3
    <2> QED BY <1>3, <2>1
  <1>6. \A i \in 1 .. a + c : d[i] \in ToSet(g) \cup ToSet(h)
    BY <1>4, <1>5
  <1>7. ASSUME NEW i \in 1 .. a + c, NEW j \in 1 .. a + c, i < j PROVE d[i] < d[j]
    <2>1. ~(j <= a)
      BY <1>3, <1>7
    <2>2. CASE i <= a
      BY <1>4, <1>5, <2>1, <2>2
    <2>3. CASE ~(i <= a)
      <3>1. i - a < j - a
        BY <1>3, <1>7
      <3> QED BY <1>4, <1>5, <2>1, <2>3, <3>1
    <2> QED BY <2>2, <2>3
  <1>8. Len(d) \in Nat
    BY <1>3
  <1> QED BY <1>2, <1>3, <1>6, <1>7, <1>8

\* The pieces of a line put together are in order.
LEMMA LineSent ==
    ASSUME NEW w, NEW q, NEW g, NEW h, IsLine(w, q, g, h),
           NEW ep \in Nat, NEW n \in Nat, Ordered(w, q, g, h, ep, n)
    PROVE  LET all == w \o Marked(q, ep) \o Marked(g \o h, 0)
           IN \A i, j \in DOMAIN all :
                 i < j /\ (ep <= 1 \/ all[i].of = all[j].of) => all[i].m < all[j].m
  <1>1. w \in Seq(Wires) /\ q \in Seq(Nat) /\ g \in Option(Nat) /\ h \in Seq(Nat)
    BY DEF IsLine
  <1>2. PICK d : d = g \o h
    OBVIOUS
  <1>3. /\ d \in Seq(Nat) /\ Len(d) \in Nat
        /\ \A i \in 1 .. Len(d) : d[i] \in ToSet(g) \cup ToSet(h)
        /\ \A i, j \in 1 .. Len(d) : i < j => d[i] < d[j]
    BY <1>1, <1>2, ComingFacts DEF Ordered
  <1>a. PICK b : b = Marked(q, ep)
    OBVIOUS
  <1>b. PICK c : c = Marked(d, 0)
    OBVIOUS
  <1>4. /\ b \in Seq(Wires) /\ Len(b) = Len(q)
        /\ \A i \in 1 .. Len(q) : b[i].m = q[i] /\ b[i].of = ep
    BY <1>1, <1>a, MarkFacts, Zenon
  <1>5. /\ c \in Seq(Wires) /\ Len(c) = Len(d)
        /\ \A i \in 1 .. Len(d) : c[i].m = d[i] /\ c[i].of = 0
    <2>1. 0 \in Nat
      OBVIOUS
    <2> QED BY <1>3, <1>b, <2>1, MarkFacts, Zenon
  <1>6. PICK all : all = w \o b \o c
    OBVIOUS
  <1>7. /\ DOMAIN all = 1 .. Len(w) + Len(q) + Len(d)
        /\ Len(w) \in Nat /\ Len(q) \in Nat /\ Len(d) \in Nat
        /\ \A i \in 1 .. Len(w) : all[i] = w[i]
        /\ \A i \in 1 .. Len(q) : all[Len(w) + i] = b[i]
        /\ \A i \in 1 .. Len(d) : all[Len(w) + Len(q) + i] = c[i]
    <2>1. w \in Seq(Wires) /\ b \in Seq(Wires) /\ c \in Seq(Wires)
      BY <1>1, <1>4, <1>5
    <2>2. /\ DOMAIN all = 1 .. Len(w) + Len(b) + Len(c)
          /\ Len(w) \in Nat /\ Len(b) \in Nat /\ Len(c) \in Nat
          /\ \A i \in 1 .. Len(w) : all[i] = w[i]
          /\ \A i \in 1 .. Len(b) : all[Len(w) + i] = b[i]
          /\ \A i \in 1 .. Len(c) : all[Len(w) + Len(b) + i] = c[i]
      BY ONLY <1>6, <2>1, ThreePieces
    <2>3. Len(b) = Len(q) /\ Len(c) = Len(d)
      BY <1>4, <1>5
    <2> QED BY ONLY <1>6, <2>2, <2>3
  <1>8. PICK x \in Nat, y \in Nat, z \in Nat : x = Len(w) /\ y = Len(q) /\ z = Len(d)
    BY <1>7
  <1>9. /\ \A i \in 1 .. y : q[i] \in ToSet(q)
        /\ \A i, j \in 1 .. y : i < j => q[i] < q[j]
    <2>1. ToSet(q) = {q[i] : i \in 1 .. y} /\ DOMAIN q = 1 .. y
      BY <1>1, <1>8, ToSetFacts
    <2> QED BY <2>1 DEF Ordered, Increasing
  <1>10. Pieces(all, w, q, d, x, y, z, ep)
    <2>1. \A i \in 1 .. x : all[i] = w[i]
      BY <1>7, <1>8
    <2>2. \A i \in 1 .. y : all[x + i].m = q[i] /\ all[x + i].of = ep
      BY ONLY <1>4, <1>7, <1>8
    <2>3. \A i \in 1 .. z : all[x + y + i].m = d[i] /\ all[x + y + i].of = 0
      BY ONLY <1>5, <1>7, <1>8
    <2> QED BY <2>1, <2>2, <2>3 DEF Pieces
  <1>11. \A i, j \in 1 .. x :
            i < j /\ (ep <= 1 \/ w[i].of = w[j].of) => w[i].m < w[j].m
    BY <1>8 DEF Ordered, Rising
  <1>12. /\ \A i \in 1 .. x, j \in 1 .. y : ep <= 1 \/ w[i].of = ep => w[i].m < q[j]
         /\ \A i \in 1 .. x, j \in 1 .. z : ep <= 1 \/ w[i].of = 0 => w[i].m < d[j]
         /\ \A i \in 1 .. y, j \in 1 .. z : ep <= 1 => q[i] < d[j]
    BY <1>3, <1>8, <1>9 DEF Ordered
  <1>13. ASSUME NEW i \in 1 .. x + y + z, NEW j \in 1 .. x + y + z, i < j,
                ep <= 1 \/ all[i].of = all[j].of
         PROVE  all[i].m < all[j].m
    <2>1. \A k, l \in 1 .. z : k < l => d[k] < d[l]
      BY <1>3, <1>8
    <2>2. PiecesSorted(w, q, d, x, y, z, ep)
      BY <1>9, <1>11, <1>12, <2>1 DEF PiecesSorted
    <2> QED BY <1>10, <1>13, <2>2, PiecesInOrder
  <1>14. DOMAIN all = 1 .. x + y + z
    BY <1>7, <1>8
  <1> QED BY <1>2, <1>a, <1>b, <1>6, <1>13, <1>14

-----------------------------------------------------------------------------
(* The inductive invariant.                                                *)

Reads == [st : {"pending", "ok", "bad", "fail"}, no : Nat]
Groups == [first : {"none", "read", "alarm", "notice", "stop"},
           notice : Option(Nat), stop : BOOLEAN]

TopicOK == TP!Inv /\ alive

\* The types of everything but the topic.
Types ==
    /\ pc \in [Streams -> Places]
    /\ waiter \in [Streams -> Reads]
    /\ group \in [Streams -> Groups]
    /\ chan \in [Streams -> Seq(Nat)]
    /\ \A s \in Streams : Len(chan[s]) <= ChanCap
    /\ token \in [Streams -> BOOLEAN]
    /\ conn \in [Streams -> Option(Nat)]
    /\ store \in [Streams -> Seq(Nat)]
    /\ wire \in [Streams -> Seq(Wires)]
    /\ missed \in [Streams -> SUBSET Nat] /\ epoch \in [Streams -> Nat]

MainTypes ==
    /\ main \in {"run", "sending", "drain", "down"} /\ m_stop \in BOOLEAN
    /\ m_exit_chan \subseteq Streams /\ toStop \subseteq m_exit_chan
    /\ tokenLost \subseteq Streams

\* A callback belongs to one stream, and every stream's callback is there.
Owned ==
    /\ \A x : x \in m_sig <=> \E s \in Streams : x \in ToSet(conn[s])
    /\ \A s, t \in Streams : s # t => ToSet(conn[s]) \cap ToSet(conn[t]) = {}

\* A group exists while the coroutine waits or writes the notice it was handed;
\* a waiting one that holds no notice has found its channel empty; a snapshot
\* is being written in "replay" only.
Fits(p, g, h, q, cn) ==
    /\ p \notin {"wait", "write"} => g.notice = << >> /\ ~g.stop /\ g.first = "none"
    /\ p = "write" => g.notice # << >> /\ ~g.stop
    /\ p = "wait" => (g.first = "notice" => g.notice # << >>) /\ (g.notice = << >> => h = << >>)
    /\ p # "replay" => q = << >>
    /\ p \in {"idle", "opened", "release", "done"} => cn = << >>

\* Nothing is on its way to a stream that has not asked.
Fresh(ep, cn, w, q, g, h) ==
    ep = 0 => cn = << >> /\ w = << >> /\ q = << >> /\ g = << >> /\ h = << >>

\* What the topic has handed out is on the line or missed.
Kept(r, w, q, g, h, ms) == \A x \in ToSet(r) : x \in Line(w, q, g, h) \/ x \in ms

Handed(s) == IF conn[s] = << >> THEN << >> ELSE got[Head(conn[s])]

StreamOK(s) ==
    /\ Fits(pc[s], group[s], chan[s], store[s], conn[s])
    /\ Fresh(epoch[s], conn[s], wire[s], store[s], group[s].notice, chan[s])
    /\ Ordered(wire[s], store[s], group[s].notice, chan[s], epoch[s], m_seq_no)
    /\ Kept(Handed(s), wire[s], store[s], group[s].notice, chan[s], missed[s])

Past == {"launch", "wait", "subscribe", "replay", "write",
         "close", "closed", "unwind", "release"}

Reached(s) ==
    \/ token[s] \/ group[s].stop \/ s \in tokenLost
    \/ pc[s] \in {"close", "closed", "unwind", "release", "done"}

Stops ==
    /\ main = "run" => ~m_stop
    /\ main # "run" => m_stop
    /\ main # "sending" => toStop = {}
    /\ \A s \in Streams : pc[s] \in Past => s \in m_exit_chan
    /\ main = "down" => m_exit_chan = {}
    /\ main # "run" => \A s \in m_exit_chan : s \in toStop \/ Reached(s)

Inv == TopicOK /\ Types /\ MainTypes /\ Owned /\ (\A s \in Streams : StreamOK(s)) /\ Stops

-----------------------------------------------------------------------------
(* The topic.                                                              *)

\* The topic's facts hold of this topic.
LEMMA TopicAssumptions == TP!CapAssumption /\ TP!BoundAssumption
  BY TopicAssumption DEF TP!CapAssumption, TP!BoundAssumption

LEMMA TopicFacts ==
    ASSUME TopicOK
    PROVE  /\ T!TypeOK /\ m_buffer \in Seq(Nat) /\ Len(m_buffer) <= Cap /\ T!EndsAt(m_buffer, m_seq_no)
           /\ m_seq_no \in Nat /\ m_call_id \in Nat
           /\ got \in [0 .. m_call_id - 1 -> Seq(Nat)]
           /\ m_sig \subseteq 0 .. m_call_id - 1 /\ held = m_sig
           /\ m_call_id \notin m_sig
  <1>1. TP!TypeOK /\ TP!BufferIsTail /\ TP!CallbackOwned
    BY DEF TopicOK, TP!Inv
  <1>2. T!TypeOK
    BY <1>1 DEF T!TypeOK, TP!TypeOK, T!Requests, TP!Requests
  <1>3. T!EndsAt(m_buffer, m_seq_no)
    BY <1>1 DEF TP!BufferIsTail, TP!EndsAt, T!EndsAt
  <1>4. /\ m_buffer \in Seq(Nat) /\ Len(m_buffer) <= Cap /\ m_seq_no \in Nat /\ m_call_id \in Nat
        /\ got \in [0 .. m_call_id - 1 -> Seq(Nat)] /\ m_sig \subseteq 0 .. m_call_id - 1
    BY <1>1 DEF TP!TypeOK
  <1>5. held = m_sig
    BY <1>1 DEF TopicOK, TP!CallbackOwned
  <1> QED BY <1>2, <1>3, <1>4, <1>5

\* A step that leaves the topic alone.
LEMMA TopicSame ==
    ASSUME TopicOK, UNCHANGED topicVars PROVE TopicOK'
  <1>1. UNCHANGED TP!vars
    BY DEF topicVars, TP!vars
  <1>2. TP!Inv'
    BY <1>1, TopicAssumptions, TP!StutterStep DEF TopicOK
  <1> QED BY <1>2 DEF TopicOK, topicVars

\* What publish() does: every callback is handed the next number.
LEMMA TopicPublish ==
    ASSUME TopicOK, T!Publish
    PROVE  /\ TopicOK' /\ m_seq_no' = m_seq_no + 1 /\ UNCHANGED <<m_sig, m_call_id>>
           /\ \A x \in m_sig : got'[x] = Append(got[x], m_seq_no)
  <1>0. TP!CapAssumption /\ TP!BoundAssumption
    BY TopicAssumptions
  <1>1. TP!Publish
    BY DEF T!Publish, TP!Publish, T!PushBack, TP!PushBack, T!Last, TP!Last
  <1>2. TP!Inv'
    BY <1>0, <1>1, TP!PublishStep DEF TopicOK
  <1>3. TP!Last(m_buffer') = m_seq_no
    <2>1. /\ m_buffer \in Seq(Nat) /\ Len(m_buffer) <= Cap /\ m_seq_no \in Nat
          /\ TP!EndsAt(m_buffer, m_seq_no)
      BY TopicFacts DEF T!EndsAt, TP!EndsAt
    <2>2. TP!Last(TP!PushBack(m_buffer, m_seq_no)) = m_seq_no
      BY <1>0, <2>1, TP!PushBackEndsAt
    <2> QED BY <1>1, <2>2 DEF TP!Publish
  <1>4. \A x \in m_sig : got'[x] = Append(got[x], m_seq_no)
    <2>1. \A x \in m_sig : x \in DOMAIN got
      BY TopicFacts
    <2> QED BY <1>1, <1>3, <2>1 DEF TP!Publish
  <1> QED BY <1>1, <1>2, <1>4 DEF TopicOK, TP!Publish

\* What a subscription does, with the id of the callback it replaces or none.
LEMMA TopicSubscribe ==
    ASSUME TopicOK, NEW no \in Nat, NEW old \in SUBSET held,
           T!Register(old, no, FALSE, T!Find(no))
    PROVE  /\ TopicOK' /\ m_seq_no' = m_seq_no
           /\ \A x : x \in m_sig' <=> (x \in m_sig /\ x \notin old) \/ x = m_call_id
           /\ T!Find(no) \in Seq(Nat) /\ T!EndsAt(T!Find(no), m_seq_no)
           /\ got'[m_call_id] = T!Find(no)
           /\ \A x \in m_sig : got'[x] = got[x]
  <1>0. TP!CapAssumption /\ TP!BoundAssumption
    BY TopicAssumptions
  <1>1. T!Find(no) = TP!Find(no)
    BY DEF T!Find, TP!Find, T!LowerBound, TP!LowerBound
  <1>2. TP!Register(old, no, FALSE, TP!Find(no))
    BY <1>1 DEF T!Register, TP!Register
  <1>3. /\ m_buffer \in Seq(Nat) /\ m_seq_no \in Nat /\ TP!BufferIsTail
    BY TopicFacts DEF TopicOK, TP!Inv
  <1>4. TP!Find(no) \in Seq(Nat) /\ TP!EndsAt(TP!Find(no), m_seq_no)
    BY <1>0, <1>3, TP!SnapshotFacts
  <1>5. \A i \in 1 .. Len(m_buffer) :
            m_buffer[i] >= no => m_buffer[i] >= m_seq_no - Len(TP!Find(no))
    BY <1>0, <1>3, TP!FindIsComplete
  <1>6. TP!Inv'
    <2>1. FALSE \in BOOLEAN
      OBVIOUS
    <2> QED BY <1>0, <1>2, <1>4, <1>5, <2>1, TP!RegisterStep DEF TopicOK
  <1>7. /\ m_sig' = (m_sig \ old) \cup {m_call_id} /\ UNCHANGED <<m_buffer, m_seq_no, alive>>
        /\ got' = [id \in DOMAIN got \cup {m_call_id} |->
                      IF id = m_call_id THEN TP!Find(no) ELSE got[id]]
    BY <1>2 DEF TP!Register
  <1>8. \A x \in m_sig : x \in DOMAIN got /\ x # m_call_id
    BY TopicFacts
  <1>9. T!EndsAt(T!Find(no), m_seq_no)
    BY <1>1, <1>4 DEF T!EndsAt, TP!EndsAt
  <1> QED BY <1>1, <1>4, <1>6, <1>7, <1>8, <1>9 DEF TopicOK

\* What the destructor of a connection does.
LEMMA TopicDrop ==
    ASSUME TopicOK, NEW id, T!DropConn(id)
    PROVE  /\ TopicOK' /\ UNCHANGED <<m_seq_no, got>> /\ m_sig' = m_sig \ {id}
  <1>1. TP!DropConn(id)
    BY DEF T!DropConn, TP!DropConn
  <1>2. TP!Inv'
    BY <1>1, TopicAssumptions, TP!DropConnStep DEF TopicOK
  <1> QED BY <1>1, <1>2 DEF TopicOK, TP!DropConn

-----------------------------------------------------------------------------
(* Steps of one stream.                                                    *)

\* What a step leaves of stream t.
Same(t) ==
    /\ pc'[t] = pc[t] /\ group'[t] = group[t] /\ chan'[t] = chan[t] /\ token'[t] = token[t]
    /\ conn'[t] = conn[t] /\ store'[t] = store[t] /\ wire'[t] = wire[t]
    /\ missed'[t] = missed[t] /\ epoch'[t] = epoch[t]

LEMMA SameStream ==
    ASSUME NEW t \in Streams, StreamOK(t), Same(t), m_seq_no' = m_seq_no, Handed(t)' = Handed(t)
    PROVE  StreamOK(t)'
  BY DEF StreamOK, Same

LEMMA SameReached ==
    ASSUME NEW t \in Streams, Reached(t), Same(t), tokenLost \subseteq tokenLost'
    PROVE  Reached(t)'
  BY DEF Reached, Same

\* A step of stream s that concerns neither the topic nor the main thread.
LEMMA LocalStep ==
    ASSUME Inv, NEW s \in Streams, UNCHANGED <<topicVars, mainVars, conn>>,
           Types', tokenLost' \in SUBSET Streams, tokenLost \subseteq tokenLost',
           \A t \in Streams : t # s => Same(t),
           StreamOK(s)',
           pc'[s] \in Past => pc[s] \in Past,
           Reached(s) => Reached(s)'
    PROVE  Inv'
  <1>1. TopicOK'
    BY TopicSame DEF Inv
  <1>2. MainTypes'
    BY DEF Inv, MainTypes, mainVars
  <1>3. Owned'
    BY DEF Inv, Owned, topicVars
  <1>4. \A t \in Streams : StreamOK(t)'
    <2>1. \A t \in Streams : Handed(t)' = Handed(t)
      BY DEF Handed, topicVars
    <2>2. \A t \in Streams : t # s => StreamOK(t)'
      BY <2>1, SameStream DEF Inv, topicVars
    <2> QED BY <2>2
  <1>5. Stops'
    <2>1. UNCHANGED <<main, m_stop, m_exit_chan, toStop>>
      BY DEF mainVars
    <2>2. \A t \in Streams : pc'[t] \in Past => t \in m_exit_chan
      BY DEF Inv, Stops, Same
    <2>3. \A t \in Streams : Reached(t) => Reached(t)'
      BY SameReached
    <2>4. m_exit_chan \subseteq Streams
      BY DEF Inv, MainTypes
    <2>5. main # "run" => \A t \in m_exit_chan : t \in toStop \/ Reached(t)'
      BY <2>3, <2>4 DEF Inv, Stops
    <2> QED BY <2>1, <2>2, <2>5 DEF Inv, Stops
  <1> QED BY <1>1, <1>2, <1>3, <1>4, <1>5 DEF Inv

\* The types of one stream.
LEMMA StreamTypes ==
    ASSUME Types, NEW s \in Streams
    PROVE  /\ pc[s] \in Places /\ waiter[s] \in Reads /\ group[s] \in Groups
           /\ group[s].notice \in Option(Nat) /\ chan[s] \in Seq(Nat) /\ Len(chan[s]) <= ChanCap
           /\ conn[s] \in Option(Nat) /\ store[s] \in Seq(Nat) /\ wire[s] \in Seq(Wires)
           /\ missed[s] \in SUBSET Nat /\ epoch[s] \in Nat
           /\ IsLine(wire[s], store[s], group[s].notice, chan[s])
  <1>1. /\ pc[s] \in Places /\ waiter[s] \in Reads /\ group[s] \in Groups
        /\ chan[s] \in Seq(Nat) /\ Len(chan[s]) <= ChanCap
        /\ conn[s] \in Option(Nat) /\ store[s] \in Seq(Nat) /\ wire[s] \in Seq(Wires)
        /\ missed[s] \in SUBSET Nat /\ epoch[s] \in Nat
    BY DEF Types
  <1>2. group[s].notice \in Option(Nat)
    BY <1>1 DEF Groups
  <1> QED BY <1>1, <1>2 DEF IsLine

LEMMA NoGroupFacts ==
    /\ NoGroup \in Groups /\ NoGroup.notice = << >> /\ NoGroup.stop = FALSE
    /\ NoGroup.first = "none"
  <1>1. << >> \in Option(Nat)
    BY EmptyFacts
  <1> QED BY <1>1 DEF NoGroup, Groups

LEMMA ArriveFacts ==
    ASSUME Types, NEW s \in Streams, NEW what \in {"read", "alarm", "stop"}
    PROVE  /\ Arrive(s, what) \in [Streams -> Groups]
           /\ \A t \in Streams : t # s => Arrive(s, what)[t] = group[t]
           /\ Arrive(s, what)[s].notice = group[s].notice
           /\ Arrive(s, what)[s].stop = group[s].stop
           /\ \/ Arrive(s, what)[s].first = group[s].first
              \/ pc[s] = "wait" /\ Arrive(s, what)[s].first = what
  <1>1. group \in [Streams -> Groups]
    BY DEF Types
  <1>2. CASE ~(pc[s] = "wait" /\ group[s].first = "none")
    BY <1>1, <1>2 DEF Arrive
  <1>3. CASE pc[s] = "wait" /\ group[s].first = "none"
    <2>1. PICK e : e = [group[s] EXCEPT !.first = what]
      OBVIOUS
    <2>2. /\ e \in Groups /\ e.notice = group[s].notice /\ e.stop = group[s].stop
          /\ e.first = what
      <3>1. group[s] \in Groups
        BY <1>1
      <3>2. \A g \in Groups : LET r == [g EXCEPT !.first = what]
                              IN r \in Groups /\ r.notice = g.notice /\ r.stop = g.stop
                                 /\ r.first = what
        BY DEF Groups
      <3> QED BY <2>1, <3>1, <3>2
    <2>3. Arrive(s, what) = [group EXCEPT ![s] = e]
      BY <1>3, <2>1 DEF Arrive
    <2> QED BY <1>1, <1>3, <2>2, <2>3
  <1> QED BY <1>2, <1>3

\* Something completes: only what came first in the group of s may change.
LEMMA ArriveStep ==
    ASSUME Inv, NEW s \in Streams, NEW what \in {"read", "alarm"},
           UNCHANGED <<topicVars, mainVars, pc, chan, token, subVars, historyVars>>,
           group' = Arrive(s, what), waiter' \in [Streams -> Reads]
    PROVE  Inv'
  <1>1. Types /\ StreamOK(s)
    BY DEF Inv
  <1>2. /\ group' \in [Streams -> Groups]
        /\ \A t \in Streams : t # s => group'[t] = group[t]
        /\ group'[s].notice = group[s].notice /\ group'[s].stop = group[s].stop
        /\ group'[s].first = group[s].first \/ (pc[s] = "wait" /\ group'[s].first = what)
    BY <1>1, ArriveFacts
  <1>3. Types'
    BY <1>1, <1>2 DEF Types, subVars, historyVars
  <1>4. \A t \in Streams : t # s => Same(t)
    BY <1>2 DEF Same, subVars, historyVars
  <1>5. StreamOK(s)'
    <2>1. UNCHANGED <<pc, chan, store, conn, epoch, wire, missed, m_seq_no, got>>
      BY DEF subVars, historyVars, topicVars
    <2>2. Fits(pc[s], group[s], chan[s], store[s], conn[s])'
      BY <1>1, <1>2, <2>1 DEF StreamOK, Fits
    <2> QED BY <1>1, <1>2, <2>1, <2>2 DEF StreamOK, Handed
  <1>6. Reached(s) => Reached(s)'
    BY <1>2 DEF Reached, historyVars
  <1>7. UNCHANGED <<tokenLost, conn>> /\ tokenLost \in SUBSET Streams
    BY DEF historyVars, subVars, Inv, MainTypes
  <1> QED BY <1>3, <1>4, <1>5, <1>6, <1>7, LocalStep

LEMMA CompleteStep ==
    ASSUME Inv, NEW s \in Streams, NEW read \in Reads, Complete(s, read) PROVE Inv'
  <1>1. waiter' \in [Streams -> Reads]
    BY DEF Inv, Types, Complete
  <1> QED BY <1>1, ArriveStep DEF Complete

LEMMA AlarmStep == ASSUME Inv, NEW s \in Streams, AlarmExpires(s) PROVE Inv'
  <1>1. waiter' \in [Streams -> Reads]
    BY DEF Inv, Types, AlarmExpires
  <1> QED BY <1>1, ArriveStep DEF AlarmExpires

\* The coroutine moves and nothing else does.
LEMMA MoveStep ==
    ASSUME Inv, NEW s \in Streams, UNCHANGED <<topicVars, dataVars, historyVars, mainVars>>,
           \/ Go(s, "idle", "opened") \/ Go(s, "close", "closed")
    PROVE  Inv'
  <1>1. Types /\ StreamOK(s)
    BY DEF Inv
  <1>2. UNCHANGED <<waiter, group, chan, token, conn, store, wire, missed, epoch, tokenLost,
                    m_seq_no, got>>
    BY DEF dataVars, subVars, historyVars, topicVars
  <1>3. /\ pc' \in [Streams -> Places] /\ \A t \in Streams : t # s => pc'[t] = pc[t]
        /\ \/ pc[s] = "idle" /\ pc'[s] = "opened"
           \/ pc[s] = "close" /\ pc'[s] = "closed"
    BY <1>1 DEF Types, Go, Places
  <1>4. Types'
    BY <1>1, <1>2, <1>3 DEF Types
  <1>5. \A t \in Streams : t # s => Same(t)
    BY <1>2, <1>3 DEF Same
  <1>6. StreamOK(s)'
    <2>1. Fits(pc[s], group[s], chan[s], store[s], conn[s])'
      BY <1>1, <1>2, <1>3 DEF StreamOK, Fits
    <2> QED BY <1>1, <1>2, <2>1 DEF StreamOK, Handed
  <1>7. Reached(s) => Reached(s)'
    BY <1>2, <1>3 DEF Reached
  <1>8. tokenLost \in SUBSET Streams /\ (pc'[s] \in Past => pc[s] \in Past)
    BY <1>3 DEF Inv, MainTypes, Past
  <1> QED BY <1>2, <1>4, <1>5, <1>6, <1>7, <1>8, LocalStep

LEMMA LaunchStep == ASSUME Inv, NEW s \in Streams, Launch(s) PROVE Inv'
  <1>1. Types /\ StreamOK(s) /\ pc[s] = "launch"
    BY DEF Inv, Launch, Go
  <1>a. IsLine(wire[s], store[s], group[s].notice, chan[s])
    BY <1>1, StreamTypes
  <1>2. UNCHANGED <<topicVars, mainVars, waiter, conn, store, wire, missed, epoch, tokenLost>>
    BY DEF Launch, subVars, historyVars
  <1>3. PICK g : g = IF chan[s] = << >> THEN << >> ELSE <<Head(chan[s])>>
    OBVIOUS
  <1>4. PICK first : first = IF waiter[s].st # "pending" THEN "read"
                             ELSE IF g # << >> THEN "notice"
                             ELSE IF token[s] THEN "stop" ELSE "none"
    OBVIOUS
  <1>5. PICK h : h = SubSeq(chan[s], 2, Len(chan[s]))
    OBVIOUS
  <1>6. PICK e : e = [first |-> first, notice |-> g, stop |-> token[s]]
    OBVIOUS
  <1>7. /\ pc' = [pc EXCEPT ![s] = "wait"] /\ group' = [group EXCEPT ![s] = e]
        /\ chan' = [chan EXCEPT ![s] = h] /\ token' = [token EXCEPT ![s] = FALSE]
    BY <1>3, <1>4, <1>5, <1>6 DEF Launch, Go
  <1>8. group[s].notice = << >>
    BY <1>1 DEF StreamOK, Fits
  <1>9. /\ IsLine(wire[s], store[s], g, h)
        /\ Line(wire[s], store[s], g, h) = Line(wire[s], store[s], << >>, chan[s])
        /\ Ordered(wire[s], store[s], g, h, epoch[s], m_seq_no)
        /\ g = << >> => h = << >>
    <2>1. epoch[s] \in Nat /\ m_seq_no \in Nat
      BY <1>1, StreamTypes, TopicFacts DEF Inv
    <2>2. Ordered(wire[s], store[s], << >>, chan[s], epoch[s], m_seq_no)
      BY <1>1, <1>8 DEF StreamOK
    <2>3. IsLine(wire[s], store[s], << >>, chan[s])
      BY <1>8, <1>a
    <2> QED BY <1>3, <1>5, <2>1, <2>2, <2>3, LineTake
  <1>10. g \in Option(Nat) /\ h \in Seq(Nat) /\ Len(h) <= ChanCap
    <2>1. g \in Option(Nat) /\ h \in Seq(Nat)
      BY <1>9 DEF IsLine
    <2>2. chan[s] \in Seq(Nat) /\ Len(chan[s]) <= ChanCap
      BY <1>1, StreamTypes
    <2>3. CASE chan[s] = << >>
      <3>1. h = chan[s]
        BY <1>5, <2>2, <2>3, RestFacts
      <3> QED BY <2>1, <2>2, <3>1
    <2>4. CASE chan[s] # << >>
      <3>1. h = Tail(chan[s]) /\ Len(h) = Len(chan[s]) - 1 /\ Len(chan[s]) \in Nat
        BY <1>5, <2>2, <2>4, RestFacts, HeadFacts
      <3> QED BY <2>1, <2>2, <3>1, StreamAssumption
    <2> QED BY <2>1, <2>3, <2>4
  <1>11. e \in Groups
    <2>1. token[s] \in BOOLEAN
      BY <1>1, Zenon DEF Types
    <2> QED BY <1>4, <1>6, <1>10, <2>1 DEF Groups
  <1>12. /\ pc'[s] = "wait" /\ group'[s] = e /\ chan'[s] = h /\ token'[s] = FALSE
         /\ \A t \in Streams : t # s => /\ pc'[t] = pc[t] /\ group'[t] = group[t]
                                        /\ chan'[t] = chan[t] /\ token'[t] = token[t]
    BY <1>1, <1>7 DEF Types
  <1>13. Types'
    <2>1. pc' \in [Streams -> Places] /\ group' \in [Streams -> Groups]
      BY <1>1, <1>7, <1>11 DEF Types, Places
    <2>2. chan' \in [Streams -> Seq(Nat)] /\ token' \in [Streams -> BOOLEAN]
      BY <1>1, <1>7, <1>10 DEF Types
    <2>3. \A t \in Streams : Len(chan'[t]) <= ChanCap
      BY <1>1, <1>10, <1>12 DEF Types
    <2> QED BY <1>1, <1>2, <2>1, <2>2, <2>3 DEF Types
  <1>14. \A t \in Streams : t # s => Same(t)
    BY <1>2, <1>12 DEF Same
  <1>15. StreamOK(s)'
    <2>1. e.notice = g /\ e.first = first
      BY <1>6
    <2>2. Fits("wait", e, h, store[s], conn[s])
      BY <1>1, <1>4, <1>9, <2>1 DEF Fits, StreamOK
    <2>3. Fresh(epoch[s], conn[s], wire[s], store[s], g, h)
      <3>1. CASE epoch[s] # 0
        BY <3>1 DEF Fresh
      <3>2. CASE epoch[s] = 0
        <4>1. conn[s] = << >> /\ wire[s] = << >> /\ store[s] = << >> /\ chan[s] = << >>
          BY <1>1, <3>2 DEF Fresh, StreamOK
        <4> QED BY <1>3, <1>9, <4>1 DEF Fresh
      <3> QED BY <3>1, <3>2
    <2>4. Kept(Handed(s), wire[s], store[s], g, h, missed[s])
      BY <1>1, <1>8, <1>9 DEF Kept, StreamOK
    <2>5. Handed(s)' = Handed(s) /\ m_seq_no' = m_seq_no
      BY <1>2 DEF Handed, topicVars
    <2> QED BY <1>2, <1>9, <1>12, <2>1, <2>2, <2>3, <2>4, <2>5 DEF StreamOK
  <1>16. Reached(s) => Reached(s)'
    <2>1. e.stop = token[s]
      BY <1>6
    <2>2. group[s].stop = FALSE
      BY <1>1 DEF StreamOK, Fits
    <2> QED BY <1>1, <1>2, <1>12, <2>1, <2>2 DEF Reached
  <1>17. tokenLost \in SUBSET Streams /\ pc[s] \in Past
    BY <1>1 DEF Inv, MainTypes, Past
  <1> QED BY <1>2, <1>13, <1>14, <1>15, <1>16, <1>17, LocalStep

\* The coroutine leaves its group: with the notice if that came first, else
\* what the group has taken is missed.
LEMMA ResumeStep ==
    ASSUME Inv, NEW s \in Streams, NEW first \in {"read", "alarm", "notice", "stop"},
           NEW next \in {"subscribe", "unwind", "launch", "close", "write"},
           first = "notice" <=> next = "write", first = "stop" => next = "close",
           Resume(s, first, next)
    PROVE  Inv'
  <1>1. Types /\ StreamOK(s) /\ pc[s] = "wait" /\ group[s].first = first
    BY DEF Inv, Resume, Go
  <1>2. UNCHANGED <<topicVars, mainVars, waiter, chan, token, conn, store, wire, epoch>>
    BY DEF Resume, subVars
  <1>3. PICK g : g = group[s].notice
    OBVIOUS
  <1>4. PICK e : e = IF first = "notice" THEN [NoGroup EXCEPT !.notice = g] ELSE NoGroup
    OBVIOUS
  <1>5. PICK ms : ms = IF first = "notice" THEN missed[s] ELSE missed[s] \cup ToSet(g)
    OBVIOUS
  <1>6. /\ pc' = [pc EXCEPT ![s] = next] /\ group' = [group EXCEPT ![s] = e]
        /\ missed' = [missed EXCEPT ![s] = ms]
        /\ tokenLost' = IF group[s].stop /\ first # "stop" THEN tokenLost \cup {s} ELSE tokenLost
    BY <1>3, <1>4, <1>5 DEF Resume, Go
  <1>7. /\ g \in Option(Nat) /\ IsLine(wire[s], store[s], g, chan[s])
        /\ missed[s] \in SUBSET Nat /\ epoch[s] \in Nat /\ m_seq_no \in Nat
    BY <1>1, <1>3, StreamTypes, TopicFacts DEF Inv
  <1>8. /\ e \in Groups /\ e.stop = FALSE /\ e.first = "none"
        /\ e.notice = IF first = "notice" THEN g ELSE << >>
    BY <1>4, <1>7, NoGroupFacts DEF NoGroup, Groups
  <1>9. ms \in SUBSET Nat
    <2>1. ToSet(g) \subseteq Nat
      BY <1>7, LineFacts
    <2> QED BY <1>5, <1>7, <2>1
  <1>10. /\ pc'[s] = next /\ group'[s] = e /\ missed'[s] = ms
         /\ \A t \in Streams : t # s => /\ pc'[t] = pc[t] /\ group'[t] = group[t]
                                        /\ missed'[t] = missed[t]
    BY <1>1, <1>6 DEF Types
  <1>11. Types'
    <2>1. pc' \in [Streams -> Places] /\ group' \in [Streams -> Groups]
      BY <1>1, <1>6, <1>8 DEF Types, Places
    <2>2. missed' \in [Streams -> SUBSET Nat]
      BY <1>1, <1>6, <1>9 DEF Types
    <2> QED BY <1>1, <1>2, <2>1, <2>2 DEF Types
  <1>12. \A t \in Streams : t # s => Same(t)
    BY <1>2, <1>10 DEF Same
  <1>13. StreamOK(s)'
    <2>1. Ordered(wire[s], store[s], g, chan[s], epoch[s], m_seq_no)
      BY <1>1, <1>3 DEF StreamOK
    <2>2. Kept(Handed(s), wire[s], store[s], g, chan[s], missed[s])
      BY <1>1, <1>3 DEF StreamOK
    <2>3. Fits(next, e, chan[s], store[s], conn[s])
      BY <1>1, <1>3, <1>8 DEF StreamOK, Fits
    <2>4. Fresh(epoch[s], conn[s], wire[s], store[s], e.notice, chan[s])
      BY <1>1, <1>3, <1>8 DEF StreamOK, Fresh
    <2>5. /\ Ordered(wire[s], store[s], e.notice, chan[s], epoch[s], m_seq_no)
          /\ Kept(Handed(s), wire[s], store[s], e.notice, chan[s], ms)
      <3>1. CASE first = "notice"
        BY <1>5, <1>8, <2>1, <2>2, <3>1
      <3>2. CASE first # "notice"
        <4>1. e.notice = << >> /\ ms = missed[s] \cup ToSet(g)
          BY <1>5, <1>8, <3>2
        <4>2. /\ Ordered(wire[s], store[s], << >>, chan[s], epoch[s], m_seq_no)
              /\ \A x \in Line(wire[s], store[s], g, chan[s]) :
                    x \in Line(wire[s], store[s], << >>, chan[s]) \/ x \in ToSet(g)
          BY <1>7, <2>1, LineLose
        <4> QED BY <2>2, <4>1, <4>2 DEF Kept
      <3> QED BY <3>1, <3>2
    <2>6. Handed(s)' = Handed(s) /\ m_seq_no' = m_seq_no
      BY <1>2 DEF Handed, topicVars
    <2> QED BY <1>2, <1>10, <2>3, <2>4, <2>5, <2>6 DEF StreamOK
  <1>14. Reached(s) => Reached(s)'
    <2>1. CASE first = "stop"
      BY <1>10, <2>1 DEF Reached
    <2>2. CASE first # "stop"
      BY <1>1, <1>2, <1>6, <2>2 DEF Reached
    <2> QED BY <2>1, <2>2
  <1>15. /\ tokenLost' \in SUBSET Streams /\ tokenLost \subseteq tokenLost'
         /\ pc[s] \in Past
    BY <1>1, <1>6 DEF Inv, MainTypes, Past
  <1> QED BY <1>2, <1>11, <1>12, <1>13, <1>14, <1>15, LocalStep

\* A message leaves for the client: what changes but the line.
LEMMA WriteFacts ==
    ASSUME Types, NEW s \in Streams, NEW m \in Nat, NEW of \in Nat, Write(s, m, of)
    PROVE  /\ UNCHANGED <<missed, epoch, tokenLost>>
           /\ wire'[s] = Append(wire[s], [m |-> m, of |-> of])
           /\ \A t \in Streams : t # s => wire'[t] = wire[t]
           /\ wire' \in [Streams -> Seq(Wires)]
  <1>1. PICK v : v = Append(wire[s], [m |-> m, of |-> of])
    OBVIOUS
  <1>2. wire' = [wire EXCEPT ![s] = v] /\ UNCHANGED <<missed, epoch, tokenLost>>
    BY <1>1 DEF Write
  <1>3. wire \in [Streams -> Seq(Wires)]
    BY DEF Types
  <1>4. [m |-> m, of |-> of] \in Wires
    BY DEF Wires
  <1>5. v \in Seq(Wires)
    BY <1>1, <1>3, <1>4
  <1> QED BY <1>1, <1>2, <1>3, <1>5

LEMMA ReplayStep == ASSUME Inv, NEW s \in Streams, Replay(s) PROVE Inv'
  <1>1. Types /\ StreamOK(s) /\ pc[s] = "replay" /\ store[s] # << >>
    BY DEF Inv, Replay
  <1>2. UNCHANGED <<topicVars, mainVars, pc, waiter, group, chan, token, conn>>
    BY DEF Replay
  <1>3. store' = [store EXCEPT ![s] = Tail(store[s])] /\ Write(s, Head(store[s]), epoch[s])
    BY DEF Replay
  <1>4. /\ store[s] \in Seq(Nat) /\ wire[s] \in Seq(Wires) /\ epoch[s] \in Nat
        /\ IsLine(wire[s], store[s], group[s].notice, chan[s]) /\ m_seq_no \in Nat
    BY <1>1, StreamTypes, TopicFacts DEF Inv
  <1>5. Head(store[s]) \in Nat /\ Tail(store[s]) \in Seq(Nat)
    BY <1>1, <1>4, HeadFacts
  <1>6. PICK v : v = Append(wire[s], [m |-> Head(store[s]), of |-> epoch[s]])
    OBVIOUS
  <1>7. /\ wire'[s] = v /\ \A t \in Streams : t # s => wire'[t] = wire[t]
        /\ wire' \in [Streams -> Seq(Wires)] /\ UNCHANGED <<missed, epoch, tokenLost>>
    BY <1>1, <1>3, <1>4, <1>5, <1>6, WriteFacts, Zenon
  <1>8. /\ store' \in [Streams -> Seq(Nat)] /\ store'[s] = Tail(store[s])
        /\ \A t \in Streams : t # s => store'[t] = store[t]
    BY <1>1, <1>3, <1>5 DEF Types
  <1>9. Types'
    BY <1>1, <1>2, <1>7, <1>8 DEF Types
  <1>10. \A t \in Streams : t # s => Same(t)
    BY <1>2, <1>7, <1>8 DEF Same
  <1>11. StreamOK(s)'
    <2> DEFINE q == Tail(store[s])
               g == group[s].notice
    <2>1. /\ Line(v, q, g, chan[s]) = Line(wire[s], store[s], g, chan[s])
          /\ Ordered(v, q, g, chan[s], epoch[s], m_seq_no)
      BY <1>1, <1>4, <1>6, LineReplay DEF StreamOK
    <2> HIDE DEF q
    <2>2. Fits("replay", group[s], chan[s], q, conn[s])
      BY <1>1 DEF StreamOK, Fits
    <2>3. Fresh(epoch[s], conn[s], v, q, g, chan[s])
      BY <1>1 DEF StreamOK, Fresh
    <2>4. Kept(Handed(s), v, q, g, chan[s], missed[s])
      BY <1>1, <2>1 DEF StreamOK, Kept
    <2>5. Handed(s)' = Handed(s) /\ m_seq_no' = m_seq_no
      BY <1>2 DEF Handed, topicVars
    <2>6. store'[s] = q
      BY <1>8 DEF q
    <2> QED BY <1>1, <1>2, <1>7, <2>1, <2>2, <2>3, <2>4, <2>5, <2>6 DEF StreamOK
  <1>12. Reached(s) => Reached(s)'
    BY <1>2, <1>7 DEF Reached
  <1>13. tokenLost \in SUBSET Streams /\ tokenLost' = tokenLost /\ pc[s] \in Past
    BY <1>1, <1>7 DEF Inv, MainTypes, Past
  <1> QED BY <1>2, <1>9, <1>10, <1>11, <1>12, <1>13, LocalStep

LEMMA ReadAgainStep == ASSUME Inv, NEW s \in Streams, ReadAgain(s) PROVE Inv'
  <1>1. Types /\ StreamOK(s) /\ pc[s] = "replay" /\ store[s] = << >>
    BY DEF Inv, ReadAgain, Go
  <1>2. UNCHANGED <<topicVars, mainVars, group, chan, token, conn, store, wire, missed,
                    epoch, tokenLost>>
    BY DEF ReadAgain, subVars, historyVars
  <1>3. pc' = [pc EXCEPT ![s] = "launch"] /\ waiter' = [waiter EXCEPT ![s] = NoRead]
    BY DEF ReadAgain, Go
  <1>4. /\ pc' \in [Streams -> Places] /\ pc'[s] = "launch"
        /\ \A t \in Streams : t # s => pc'[t] = pc[t]
    BY <1>1, <1>3 DEF Types, Places
  <1>5. waiter' \in [Streams -> Reads]
    <2>1. NoRead \in Reads
      BY DEF NoRead, Reads
    <2> QED BY <1>1, <1>3, <2>1 DEF Types
  <1>6. Types'
    BY <1>1, <1>2, <1>4, <1>5 DEF Types
  <1>7. \A t \in Streams : t # s => Same(t)
    BY <1>2, <1>4 DEF Same
  <1>8. StreamOK(s)'
    <2>1. Fits("launch", group[s], chan[s], store[s], conn[s])
      BY <1>1 DEF StreamOK, Fits
    <2>2. Handed(s)' = Handed(s) /\ m_seq_no' = m_seq_no
      BY <1>2 DEF Handed, topicVars
    <2> QED BY <1>1, <1>2, <1>4, <2>1, <2>2 DEF StreamOK
  <1>9. Reached(s) => Reached(s)'
    BY <1>1, <1>2 DEF Reached
  <1>10. tokenLost \in SUBSET Streams /\ tokenLost' = tokenLost /\ pc[s] \in Past
    BY <1>1, <1>2 DEF Inv, MainTypes, Past
  <1> QED BY <1>2, <1>6, <1>7, <1>8, <1>9, <1>10, LocalStep

LEMMA WriteNoticeStep == ASSUME Inv, NEW s \in Streams, WriteNotice(s) PROVE Inv'
  <1>1. /\ Types /\ StreamOK(s) /\ pc[s] = "write" /\ store[s] = << >>
        /\ group[s].notice # << >> /\ ~group[s].stop
    <2>1. Types /\ StreamOK(s) /\ pc[s] = "write"
      BY DEF Inv, WriteNotice, Go
    <2> QED BY <2>1 DEF StreamOK, Fits
  <1>2. UNCHANGED <<topicVars, mainVars, waiter, chan, token, conn, store>>
    BY DEF WriteNotice, subVars
  <1>3. /\ pc' = [pc EXCEPT ![s] = "launch"] /\ group' = [group EXCEPT ![s] = NoGroup]
        /\ Write(s, Head(group[s].notice), 0)
    BY DEF WriteNotice, Go
  <1>4. /\ group[s].notice \in Option(Nat) /\ wire[s] \in Seq(Wires) /\ epoch[s] \in Nat
        /\ IsLine(wire[s], << >>, group[s].notice, chan[s]) /\ m_seq_no \in Nat
    BY <1>1, StreamTypes, TopicFacts DEF Inv
  <1>5. Head(group[s].notice) \in Nat
    BY <1>1, <1>4, OptionFacts
  <1>6. PICK v : v = Append(wire[s], [m |-> Head(group[s].notice), of |-> 0])
    OBVIOUS
  <1>7. /\ wire'[s] = v /\ \A t \in Streams : t # s => wire'[t] = wire[t]
        /\ wire' \in [Streams -> Seq(Wires)] /\ UNCHANGED <<missed, epoch, tokenLost>>
    <2>1. 0 \in Nat
      OBVIOUS
    <2> QED BY <1>1, <1>3, <1>5, <1>6, <2>1, WriteFacts, Zenon
  <1>8. /\ pc' \in [Streams -> Places] /\ group' \in [Streams -> Groups]
        /\ pc'[s] = "launch" /\ group'[s] = NoGroup
        /\ \A t \in Streams : t # s => pc'[t] = pc[t] /\ group'[t] = group[t]
    BY <1>1, <1>3, NoGroupFacts DEF Types, Places
  <1>9. Types'
    BY <1>1, <1>2, <1>7, <1>8 DEF Types
  <1>10. \A t \in Streams : t # s => Same(t)
    BY <1>2, <1>7, <1>8 DEF Same
  <1>11. StreamOK(s)'
    <2> DEFINE g == group[s].notice
    <2>1. /\ Line(v, << >>, << >>, chan[s]) = Line(wire[s], << >>, g, chan[s])
          /\ Ordered(v, << >>, << >>, chan[s], epoch[s], m_seq_no)
      BY <1>1, <1>4, <1>6, LineWrite DEF StreamOK
    <2>2. Fits("launch", NoGroup, chan[s], << >>, conn[s])
      BY <1>1, NoGroupFacts DEF StreamOK, Fits
    <2>3. Fresh(epoch[s], conn[s], v, << >>, << >>, chan[s])
      <3>1. epoch[s] # 0
        BY <1>1 DEF StreamOK, Fresh
      <3> QED BY <3>1 DEF Fresh
    <2>4. Kept(Handed(s), v, << >>, << >>, chan[s], missed[s])
      BY <1>1, <2>1 DEF StreamOK, Kept
    <2>5. Handed(s)' = Handed(s) /\ m_seq_no' = m_seq_no
      BY <1>2 DEF Handed, topicVars
    <2> QED BY <1>1, <1>2, <1>7, <1>8, <2>1, <2>2, <2>3, <2>4, <2>5, NoGroupFacts DEF StreamOK
  <1>12. Reached(s) => Reached(s)'
    BY <1>1, <1>2, <1>7 DEF Reached
  <1>13. tokenLost \in SUBSET Streams /\ tokenLost' = tokenLost /\ pc[s] \in Past
    BY <1>1, <1>7 DEF Inv, MainTypes, Past
  <1> QED BY <1>2, <1>9, <1>10, <1>11, <1>12, <1>13, LocalStep

LEMMA ReleaseStep == ASSUME Inv, NEW s \in Streams, Release(s) PROVE Inv'
  <1>1. Types /\ StreamOK(s) /\ pc[s] = "release" /\ conn[s] = << >>
    <2>1. Types /\ StreamOK(s) /\ pc[s] = "release"
      BY DEF Inv, Release, Go
    <2> QED BY <2>1 DEF StreamOK, Fits
  <1>2. UNCHANGED <<topicVars, mainVars, waiter, group, conn, store, wire, missed, epoch, tokenLost>>
    BY DEF Release, subVars, historyVars
  <1>3. /\ pc' = [pc EXCEPT ![s] = "done"] /\ chan' = [chan EXCEPT ![s] = << >>]
        /\ token' = [token EXCEPT ![s] = FALSE]
    BY DEF Release, Go
  <1>4. /\ pc'[s] = "done" /\ chan'[s] = << >> /\ token'[s] = FALSE
        /\ \A t \in Streams : t # s => /\ pc'[t] = pc[t] /\ chan'[t] = chan[t]
                                       /\ token'[t] = token[t]
    BY <1>1, <1>3 DEF Types
  <1>5. Types'
    <2>1. pc' \in [Streams -> Places] /\ token' \in [Streams -> BOOLEAN]
      BY <1>1, <1>3 DEF Types, Places
    <2>2. chan' \in [Streams -> Seq(Nat)] /\ \A t \in Streams : Len(chan'[t]) <= ChanCap
      <3>1. << >> \in Seq(Nat) /\ Len(<< >>) = 0
        OBVIOUS
      <3> QED BY <1>1, <1>3, <1>4, <3>1, StreamAssumption DEF Types
    <2> QED BY <1>1, <1>2, <2>1, <2>2 DEF Types
  <1>6. \A t \in Streams : t # s => Same(t)
    BY <1>2, <1>4 DEF Same
  <1>7. StreamOK(s)'
    <2>1. /\ IsLine(wire[s], store[s], group[s].notice, chan[s]) /\ epoch[s] \in Nat
          /\ m_seq_no \in Nat
      BY <1>1, StreamTypes, TopicFacts DEF Inv
    <2>2. Ordered(wire[s], store[s], group[s].notice, << >>, epoch[s], m_seq_no)
      BY <1>1, <2>1, LineLose DEF StreamOK
    <2>3. /\ Fits("done", group[s], << >>, store[s], conn[s])
          /\ Fresh(epoch[s], conn[s], wire[s], store[s], group[s].notice, << >>)
      BY <1>1 DEF StreamOK, Fits, Fresh
    <2>4. Kept(Handed(s)', wire[s], store[s], group[s].notice, << >>, missed[s])
      <3>1. Handed(s)' = << >>
        BY <1>1, <1>2 DEF Handed
      <3> QED BY <3>1, EmptyFacts DEF Kept
    <2> QED BY <1>2, <1>4, <2>2, <2>3, <2>4 DEF StreamOK, topicVars
  <1>8. Reached(s)'
    BY <1>4 DEF Reached
  <1>9. tokenLost \in SUBSET Streams /\ tokenLost' = tokenLost /\ pc[s] \in Past
    BY <1>1, <1>2 DEF Inv, MainTypes, Past
  <1> QED BY <1>2, <1>5, <1>6, <1>7, <1>8, <1>9, LocalStep

-----------------------------------------------------------------------------
(* Steps of the main thread, and of the coroutines with it or the topic.   *)

\* A step that changes nothing of a stream but its token and who came first.
LEMMA MainStep ==
    ASSUME Inv, UNCHANGED <<topicVars, pc, waiter, chan, subVars, historyVars>>,
           group' \in [Streams -> Groups], token' \in [Streams -> BOOLEAN],
           \A t \in Streams : /\ group'[t].notice = group[t].notice
                              /\ group'[t] = group[t] \/ pc[t] = "wait",
           \A t \in Streams : group'[t].first = group[t].first \/ group'[t].first # "notice",
           MainTypes', Stops'
    PROVE  Inv'
  <1>1. UNCHANGED <<conn, store, wire, missed, epoch, tokenLost, m_seq_no, got, m_sig>>
    BY DEF subVars, historyVars, topicVars
  <1>2. TopicOK' /\ Types'
    BY <1>1, TopicSame DEF Inv, Types
  <1>3. Owned'
    BY <1>1 DEF Inv, Owned
  <1>4. ASSUME NEW t \in Streams PROVE StreamOK(t)'
    <2>1. StreamOK(t)
      BY DEF Inv
    <2>2. Fits(pc[t], group'[t], chan[t], store[t], conn[t])
      BY <2>1 DEF StreamOK, Fits
    <2>3. Handed(t)' = Handed(t)
      BY <1>1 DEF Handed
    <2> QED BY <1>1, <2>1, <2>2, <2>3 DEF StreamOK
  <1> QED BY <1>2, <1>3, <1>4 DEF Inv

LEMMA StopStep == ASSUME Inv, Stop PROVE Inv'
  <1>1. /\ main = "run" /\ main' = "sending" /\ m_stop' = TRUE /\ toStop' = m_exit_chan
        /\ UNCHANGED <<topicVars, pc, dataVars, historyVars, m_exit_chan>>
    BY DEF Stop
  <1>2. UNCHANGED <<waiter, group, chan, token, subVars, tokenLost>>
    BY <1>1 DEF dataVars, historyVars
  <1>3. MainTypes'
    BY <1>1, <1>2 DEF Inv, MainTypes
  <1>4. Stops'
    BY <1>1, <1>2 DEF Inv, Stops
  <1>5. group \in [Streams -> Groups] /\ token \in [Streams -> BOOLEAN]
    BY DEF Inv, Types
  <1> QED BY <1>1, <1>2, <1>3, <1>4, <1>5, MainStep

LEMMA UnlockStep == ASSUME Inv, Unlock PROVE Inv'
  <1>1. /\ main = "sending" /\ toStop = {} /\ main' = "drain"
        /\ UNCHANGED <<topicVars, pc, dataVars, historyVars, m_stop, m_exit_chan, toStop>>
    BY DEF Unlock
  <1>2. UNCHANGED <<waiter, group, chan, token, subVars, tokenLost>>
    BY <1>1 DEF dataVars, historyVars
  <1>3. MainTypes'
    BY <1>1, <1>2 DEF Inv, MainTypes
  <1>4. Stops'
    <2>1. \A s : Reached(s) => Reached(s)'
      BY <1>1, <1>2 DEF Reached
    <2> QED BY <1>1, <2>1 DEF Inv, Stops
  <1>5. group \in [Streams -> Groups] /\ token \in [Streams -> BOOLEAN]
    BY DEF Inv, Types
  <1> QED BY <1>1, <1>2, <1>3, <1>4, <1>5, MainStep

LEMMA PollStep == ASSUME Inv, Poll PROVE Inv'
  <1>1. /\ main = "drain" /\ m_exit_chan' = {s \in m_exit_chan : pc[s] # "done"}
        /\ main' = IF m_exit_chan' = {} THEN "down" ELSE "drain"
        /\ UNCHANGED <<topicVars, pc, dataVars, historyVars, m_stop, toStop>>
    BY DEF Poll
  <1>2. UNCHANGED <<waiter, group, chan, token, subVars, tokenLost>>
    BY <1>1 DEF dataVars, historyVars
  <1>3. toStop = {} /\ m_stop /\ \A s \in m_exit_chan : Reached(s)
    BY <1>1 DEF Inv, Stops
  <1>4. MainTypes'
    BY <1>1, <1>2, <1>3 DEF Inv, MainTypes
  <1>5. Stops'
    <2>1. \A s : Reached(s) => Reached(s)'
      BY <1>1, <1>2 DEF Reached
    <2>2. \A s \in Streams : pc'[s] \in Past => s \in m_exit_chan'
      BY <1>1 DEF Inv, Stops, Past
    <2> QED BY <1>1, <1>3, <2>1, <2>2 DEF Stops
  <1>6. group \in [Streams -> Groups] /\ token \in [Streams -> BOOLEAN]
    BY DEF Inv, Types
  <1> QED BY <1>1, <1>2, <1>4, <1>5, <1>6, MainStep

LEMMA SendStopStep == ASSUME Inv, NEW s \in Streams, SendStop(s) PROVE Inv'
  <1>1. /\ main = "sending" /\ s \in toStop /\ toStop' = toStop \ {s}
        /\ UNCHANGED <<topicVars, pc, waiter, chan, subVars, historyVars, main, m_stop, m_exit_chan>>
    BY DEF SendStop
  <1>2. Types
    BY DEF Inv
  <1>3. UNCHANGED tokenLost
    BY <1>1 DEF historyVars
  <1>4. /\ group' \in [Streams -> Groups] /\ token' \in [Streams -> BOOLEAN]
        /\ \A t \in Streams : t # s => group'[t] = group[t] /\ token'[t] = token[t]
        /\ group'[s].notice = group[s].notice
        /\ group'[s] = group[s] \/ pc[s] = "wait"
        /\ group'[s].first = group[s].first \/ group'[s].first # "notice"
        /\ Reached(s)'
    <2>1. CASE pc[s] = "wait"
      <3>1. PICK f : f = Arrive(s, "stop")
        OBVIOUS
      <3>2. /\ f \in [Streams -> Groups] /\ \A t \in Streams : t # s => f[t] = group[t]
            /\ f[s].notice = group[s].notice
            /\ f[s].first = group[s].first \/ f[s].first = "stop"
        BY <1>2, <3>1, ArriveFacts
      <3>3. PICK e : e = [f[s] EXCEPT !.stop = TRUE]
        OBVIOUS
      <3>4. e \in Groups /\ e.stop = TRUE /\ e.notice = f[s].notice /\ e.first = f[s].first
        BY <3>2, <3>3 DEF Groups
      <3>5. group' = [f EXCEPT ![s] = e] /\ token' = token
        BY <2>1, <3>1, <3>3 DEF SendStop
      <3>6. /\ group' \in [Streams -> Groups] /\ group'[s] = e
            /\ \A t \in Streams : t # s => group'[t] = f[t]
        BY <3>2, <3>4, <3>5
      <3>7. Reached(s)'
        BY <3>4, <3>6 DEF Reached
      <3>8. token \in [Streams -> BOOLEAN]
        BY <1>2 DEF Types
      <3> QED BY <2>1, <3>2, <3>4, <3>5, <3>6, <3>7, <3>8
    <2>2. CASE pc[s] # "wait"
      <3>1. PICK b \in BOOLEAN : b = (pc[s] \notin {"closed", "release", "done"})
        BY Zenon
      <3>2. token' = [token EXCEPT ![s] = b] /\ group' = group
        BY <2>2, <3>1 DEF SendStop
      <3>3. /\ token' \in [Streams -> BOOLEAN] /\ token'[s] = b
            /\ \A t \in Streams : t # s => token'[t] = token[t]
        <4>1. token \in [Streams -> BOOLEAN]
          BY <1>2 DEF Types
        <4> QED BY <3>2, <4>1
      <3>4. Reached(s)'
        BY <1>1, <3>1, <3>3 DEF Reached
      <3>5. group \in [Streams -> Groups]
        BY <1>2 DEF Types
      <3> QED BY <3>2, <3>3, <3>4, <3>5
    <2> QED BY <2>1, <2>2
  <1>5. MainTypes'
    BY <1>1, <1>3 DEF Inv, MainTypes
  <1>6. Stops'
    <2>1. \A t \in Streams : t # s /\ Reached(t) => Reached(t)'
      BY <1>1, <1>3, <1>4 DEF Reached
    <2>2. m_exit_chan \subseteq Streams /\ \A t \in m_exit_chan : t \in toStop \/ Reached(t)
      BY <1>1 DEF Inv, MainTypes, Stops
    <2>3. \A t \in m_exit_chan : t \in toStop' \/ Reached(t)'
      BY <1>1, <1>4, <2>1, <2>2
    <2> QED BY <1>1, <2>3 DEF Inv, Stops
  <1>7. \A t \in Streams : /\ group'[t].notice = group[t].notice
                           /\ group'[t] = group[t] \/ pc[t] = "wait"
                           /\ group'[t].first = group[t].first \/ group'[t].first # "notice"
    BY <1>4
  <1> QED BY <1>1, <1>4, <1>5, <1>6, <1>7, MainStep

LEMMA CheckStopStep == ASSUME Inv, NEW s \in Streams, CheckStop(s) PROVE Inv'
  <1>1. /\ main # "sending" /\ UNCHANGED <<topicVars, dataVars, historyVars, main, m_stop, toStop>>
        /\ pc[s] = "opened"
        /\ \/ m_stop /\ pc' = [pc EXCEPT ![s] = "done"] /\ m_exit_chan' = m_exit_chan
           \/ ~m_stop /\ pc' = [pc EXCEPT ![s] = "launch"] /\ m_exit_chan' = m_exit_chan \cup {s}
    BY DEF CheckStop, Go
  <1>2. Types /\ StreamOK(s)
    BY DEF Inv
  <1>3. UNCHANGED <<waiter, group, chan, token, conn, store, wire, missed, epoch, tokenLost,
                    m_seq_no, got, m_sig>>
    BY <1>1 DEF dataVars, subVars, historyVars, topicVars
  <1>4. /\ pc' \in [Streams -> Places] /\ \A t \in Streams : t # s => pc'[t] = pc[t]
        /\ \/ m_stop /\ pc'[s] = "done" /\ m_exit_chan' = m_exit_chan
           \/ ~m_stop /\ pc'[s] = "launch" /\ m_exit_chan' = m_exit_chan \cup {s}
    BY <1>1, <1>2 DEF Types, Places
  <1>5. TopicOK' /\ Types'
    BY <1>1, <1>2, <1>3, <1>4, TopicSame DEF Inv, Types
  <1>6. MainTypes'
    BY <1>1, <1>3, <1>4 DEF Inv, MainTypes
  <1>7. Owned'
    BY <1>3 DEF Inv, Owned
  <1>8. \A t \in Streams : t # s => Same(t)
    BY <1>3, <1>4 DEF Same
  <1>9. ASSUME NEW t \in Streams PROVE StreamOK(t)'
    <2>1. Handed(t)' = Handed(t)
      BY <1>3 DEF Handed
    <2>2. CASE t = s
      <3>1. Fits(pc[s], group[s], chan[s], store[s], conn[s])'
        BY <1>1, <1>2, <1>3, <1>4 DEF StreamOK, Fits
      <3> QED BY <1>2, <1>3, <2>1, <2>2, <3>1 DEF StreamOK
    <2>3. CASE t # s
      BY <1>3, <1>8, <2>1, <2>3, SameStream DEF Inv
    <2> QED BY <2>2, <2>3
  <1>10. Stops'
    <2>1. \A t \in Streams : pc'[t] \in Past => t \in m_exit_chan'
      BY <1>4 DEF Inv, Stops, Past
    <2>2. main = "run" => ~m_stop
      BY DEF Inv, Stops
    <2>3. main # "run" => m_stop /\ m_exit_chan' = m_exit_chan
      BY <1>4 DEF Inv, Stops
    <2>4. \A t \in Streams : Reached(t) => Reached(t)'
      BY <1>1, <1>3, <1>4 DEF Reached
    <2>5. m_exit_chan \subseteq Streams
      BY DEF Inv, MainTypes
    <2>6. main # "run" => \A t \in m_exit_chan' : t \in toStop \/ Reached(t)'
      BY <2>3, <2>4, <2>5 DEF Inv, Stops
    <2>7. main = "down" => m_exit_chan' = {}
      BY <2>3 DEF Inv, Stops
    <2> QED BY <1>1, <2>1, <2>2, <2>3, <2>6, <2>7 DEF Inv, Stops
  <1> QED BY <1>5, <1>6, <1>7, <1>9, <1>10 DEF Inv

\* A request: the callback of the previous one gives way to a new one, and the
\* snapshot goes into the line.
LEMMA SubscribeStep == ASSUME Inv, NEW s \in Streams, Subscribe(s) PROVE Inv'
  <1>1. Types /\ StreamOK(s) /\ Owned /\ TopicOK /\ pc[s] = "subscribe"
    BY DEF Inv, Subscribe, Go
  <1>2. PICK no \in Nat : no = waiter[s].no
    <2>1. waiter[s] \in Reads
      BY <1>1, StreamTypes
    <2> QED BY <2>1 DEF Reads
  <1>3. PICK old : old = ToSet(conn[s])
    OBVIOUS
  <1>4. /\ conn[s] \in Option(Nat) /\ epoch[s] \in Nat
        /\ IsLine(wire[s], store[s], group[s].notice, chan[s])
    BY <1>1, StreamTypes
  <1>5. T!Register(old, no, FALSE, T!Find(no)) /\ old \in SUBSET held
    <2>1. old \in SUBSET held
      <3>1. \A x \in old : x \in m_sig
        BY <1>1, <1>3 DEF Owned
      <3> QED BY <1>1, <3>1, TopicFacts
    <2>2. CASE conn[s] = << >>
      <3>1. old = {}
        BY <1>3, <2>2, EmptyFacts
      <3> QED BY <1>2, <2>1, <2>2, <3>1 DEF Subscribe, T!Subscribe
    <2>3. CASE conn[s] # << >>
      <3>1. old = {Head(conn[s])}
        BY <1>3, <1>4, <2>3, OptionFacts
      <3> QED BY <1>2, <2>1, <2>3, <3>1 DEF Subscribe, T!Resubscribe
    <2> QED BY <2>2, <2>3
  <1>6. PICK q : q = T!Find(no)
    OBVIOUS
  <1>7. /\ TopicOK' /\ m_seq_no' = m_seq_no
        /\ \A x : x \in m_sig' <=> (x \in m_sig /\ x \notin old) \/ x = m_call_id
        /\ q \in Seq(Nat) /\ T!EndsAt(q, m_seq_no) /\ got'[m_call_id] = q
        /\ \A x \in m_sig : got'[x] = got[x]
    BY <1>1, <1>5, <1>6, TopicSubscribe
  <1>8. m_call_id \in Nat /\ m_call_id \notin m_sig /\ m_seq_no \in Nat
    BY <1>1, TopicFacts
  <1>9. PICK c \in Option(Nat) : c = <<m_call_id>> /\ c # << >> /\ Head(c) = m_call_id
                                 /\ ToSet(c) = {m_call_id}
    BY <1>8, SingleFacts
  <1>10. PICK k \in Nat : k = epoch[s] + 1 /\ k # 0
    BY <1>4
  <1>11. /\ pc' = [pc EXCEPT ![s] = "replay"] /\ conn' = [conn EXCEPT ![s] = c]
         /\ store' = [store EXCEPT ![s] = q] /\ epoch' = [epoch EXCEPT ![s] = k]
         /\ UNCHANGED <<waiter, group, chan, token, wire, missed, tokenLost, mainVars>>
    BY <1>2, <1>6, <1>9, <1>10 DEF Subscribe, Go
  <1>12. /\ pc'[s] = "replay" /\ conn'[s] = c /\ store'[s] = q /\ epoch'[s] = k
         /\ \A t \in Streams : t # s => /\ pc'[t] = pc[t] /\ conn'[t] = conn[t]
                                        /\ store'[t] = store[t] /\ epoch'[t] = epoch[t]
    BY <1>1, <1>11 DEF Types
  <1>13. Types'
    <2>1. pc' \in [Streams -> Places] /\ store' \in [Streams -> Seq(Nat)]
      BY <1>1, <1>7, <1>11 DEF Types, Places
    <2>2. conn' \in [Streams -> Option(Nat)] /\ epoch' \in [Streams -> Nat]
      BY <1>1, <1>11 DEF Types
    <2> QED BY <1>1, <1>11, <2>1, <2>2 DEF Types
  <1>14. MainTypes'
    BY <1>11 DEF Inv, MainTypes, mainVars
  <1>15. Owned'
    <2>1. \A x : x \in m_sig <=> \E t \in Streams : x \in ToSet(conn[t])
      BY <1>1 DEF Owned
    <2>2. \A t \in Streams : t # s => ToSet(conn[t]) \cap old = {}
      BY <1>1, <1>3 DEF Owned
    <2>3. /\ ToSet(conn'[s]) = {m_call_id}
          /\ \A t \in Streams : t # s => ToSet(conn'[t]) = ToSet(conn[t])
      BY <1>9, <1>12
    <2>4. \A t \in Streams : m_call_id \notin ToSet(conn[t])
      BY <1>8, <2>1
    <2>5. \A x : x \in m_sig' <=> \E t \in Streams : x \in ToSet(conn'[t])
      <3>1. ASSUME NEW x, x \in m_sig' PROVE \E t \in Streams : x \in ToSet(conn'[t])
        <4>1. CASE x = m_call_id
          BY <2>3, <4>1
        <4>2. CASE x # m_call_id
          <5>1. PICK t \in Streams : x \in ToSet(conn[t])
            BY <1>7, <2>1, <3>1, <4>2
          <5>2. t # s
            BY <1>3, <1>7, <3>1, <4>2, <5>1
          <5> QED BY <2>3, <5>1, <5>2
        <4> QED BY <4>1, <4>2
      <3>2. ASSUME NEW x, NEW t \in Streams, x \in ToSet(conn'[t]) PROVE x \in m_sig'
        <4>1. CASE t = s
          BY <1>7, <2>3, <3>2, <4>1
        <4>2. CASE t # s
          <5>1. x \in ToSet(conn[t])
            BY <2>3, <3>2, <4>2
          <5>2. x \in m_sig /\ x \notin old
            BY <2>1, <2>2, <4>2, <5>1
          <5> QED BY <1>7, <5>2
        <4> QED BY <4>1, <4>2
      <3> QED BY <3>1, <3>2
    <2>6. \A t, u \in Streams : t # u => ToSet(conn'[t]) \cap ToSet(conn'[u]) = {}
      BY <1>1, <2>3, <2>4 DEF Owned
    <2> QED BY <2>5, <2>6 DEF Owned
  <1>16. ASSUME NEW t \in Streams, t # s PROVE StreamOK(t)'
    <2>1. Handed(t)' = Handed(t)
      <3>1. CASE conn[t] = << >>
        BY <1>12, <1>16, <3>1 DEF Handed
      <3>2. CASE conn[t] # << >>
        <4>1. conn[t] \in Option(Nat)
          BY <1>1, StreamTypes
        <4>2. Head(conn[t]) \in ToSet(conn[t])
          BY <3>2, <4>1, OptionFacts
        <4>3. Head(conn[t]) \in m_sig
          BY <1>1, <4>2 DEF Owned
        <4> QED BY <1>7, <1>12, <1>16, <3>2, <4>3 DEF Handed
      <3> QED BY <3>1, <3>2
    <2>2. Same(t)
      BY <1>11, <1>12, <1>16 DEF Same
    <2> QED BY <1>7, <2>1, <2>2, SameStream DEF Inv
  <1>17. StreamOK(s)'
    <2>1. /\ store[s] = << >> /\ group[s].notice = << >>
          /\ Ordered(wire[s], << >>, << >>, chan[s], epoch[s], m_seq_no)
          /\ Fresh(epoch[s], conn[s], wire[s], << >>, << >>, chan[s])
      <3>1. store[s] = << >> /\ group[s].notice = << >>
        BY <1>1 DEF StreamOK, Fits
      <3> QED BY <1>1, <3>1 DEF StreamOK
    <2>2. IsLine(wire[s], << >>, << >>, chan[s])
      BY <1>4, <2>1
    <2>3. epoch[s] = 0 => wire[s] = << >> /\ chan[s] = << >>
      BY <2>1 DEF Fresh
    <2>4. /\ Ordered(wire[s], q, << >>, chan[s], k, m_seq_no)
          /\ ToSet(q) \subseteq Line(wire[s], q, << >>, chan[s])
      BY <1>4, <1>7, <1>8, <1>10, <2>1, <2>2, <2>3, LineSubscribe
    <2>5. Handed(s)' = q
      BY <1>7, <1>9, <1>12 DEF Handed
    <2>6. Fits("replay", group[s], chan[s], q, c)
      BY <1>1 DEF StreamOK, Fits
    <2>7. Fresh(k, c, wire[s], q, << >>, chan[s])
      BY <1>10 DEF Fresh
    <2>8. Kept(q, wire[s], q, << >>, chan[s], missed[s])
      BY <2>4 DEF Kept
    <2> QED BY <1>7, <1>11, <1>12, <2>1, <2>4, <2>5, <2>6, <2>7, <2>8 DEF StreamOK
  <1>18. Stops'
    <2>1. UNCHANGED <<main, m_stop, m_exit_chan, toStop>>
      BY <1>11 DEF mainVars
    <2>2. \A t \in Streams : pc'[t] \in Past => pc[t] \in Past
      BY <1>1, <1>12 DEF Past
    <2>3. \A t \in Streams : Reached(t) => Reached(t)'
      BY <1>1, <1>11, <1>12 DEF Reached
    <2>4. m_exit_chan \subseteq Streams
      BY DEF Inv, MainTypes
    <2>5. main # "run" => \A t \in m_exit_chan : t \in toStop \/ Reached(t)'
      BY <2>3, <2>4 DEF Inv, Stops
    <2> QED BY <2>1, <2>2, <2>5 DEF Inv, Stops
  <1> QED BY <1>7, <1>13, <1>14, <1>15, <1>16, <1>17, <1>18 DEF Inv

LEMMA DropConnStep == ASSUME Inv, NEW s \in Streams, DropConn(s) PROVE Inv'
  <1>1. /\ Types /\ StreamOK(s) /\ Owned /\ TopicOK /\ pc[s] \in {"closed", "unwind"}
        /\ pc' = [pc EXCEPT ![s] = "release"] /\ conn' = [conn EXCEPT ![s] = << >>]
        /\ UNCHANGED <<waiter, group, chan, token, store, historyVars, mainVars>>
    BY DEF Inv, DropConn, Go
  <1>2. UNCHANGED <<wire, missed, epoch, tokenLost>>
    BY <1>1 DEF historyVars
  <1>3. /\ TopicOK' /\ UNCHANGED <<m_seq_no, got>>
        /\ \A x : x \in m_sig' <=> x \in m_sig /\ x \notin ToSet(conn[s])
    <2>1. CASE conn[s] = << >>
      <3>1. UNCHANGED topicVars
        BY <2>1 DEF DropConn
      <3> QED BY <1>1, <2>1, <3>1, TopicSame, EmptyFacts DEF topicVars
    <2>2. CASE conn[s] # << >>
      <3>1. T!DropConn(Head(conn[s]))
        BY <2>2 DEF DropConn
      <3>2. conn[s] \in Option(Nat)
        BY <1>1, StreamTypes
      <3>3. ToSet(conn[s]) = {Head(conn[s])}
        BY <2>2, <3>2, OptionFacts
      <3>4. TopicOK' /\ UNCHANGED <<m_seq_no, got>> /\ m_sig' = m_sig \ {Head(conn[s])}
        BY <1>1, <3>1, TopicDrop
      <3> QED BY <3>3, <3>4
    <2> QED BY <2>1, <2>2
  <1>4. << >> \in Option(Nat) /\ ToSet(<< >>) = {}
    BY EmptyFacts
  <1>5. /\ pc'[s] = "release" /\ conn'[s] = << >>
        /\ \A t \in Streams : t # s => pc'[t] = pc[t] /\ conn'[t] = conn[t]
    BY <1>1 DEF Types
  <1>6. Types'
    <2>1. pc' \in [Streams -> Places] /\ conn' \in [Streams -> Option(Nat)]
      BY <1>1, <1>4 DEF Types, Places
    <2> QED BY <1>1, <1>2, <2>1 DEF Types
  <1>7. MainTypes'
    BY <1>1, <1>2 DEF Inv, MainTypes, mainVars
  <1>8. Owned'
    <2>1. \A x : x \in m_sig <=> \E t \in Streams : x \in ToSet(conn[t])
      BY <1>1 DEF Owned
    <2>2. \A t \in Streams : t # s => ToSet(conn[t]) \cap ToSet(conn[s]) = {}
      BY <1>1 DEF Owned
    <2>3. \A t \in Streams : t # s => ToSet(conn'[t]) = ToSet(conn[t])
      BY <1>5
    <2>4. ToSet(conn'[s]) = {}
      BY <1>4, <1>5
    <2>5. \A x : x \in m_sig' <=> \E t \in Streams : x \in ToSet(conn'[t])
      BY <1>3, <2>1, <2>2, <2>3, <2>4
    <2>6. \A t, u \in Streams : t # u => ToSet(conn'[t]) \cap ToSet(conn'[u]) = {}
      BY <1>1, <2>3, <2>4 DEF Owned
    <2> QED BY <2>5, <2>6 DEF Owned
  <1>9. \A t \in Streams : t # s => StreamOK(t)'
    <2>1. \A t \in Streams : t # s => Same(t) /\ Handed(t)' = Handed(t)
      BY <1>1, <1>2, <1>3, <1>5 DEF Same, Handed
    <2> QED BY <1>3, <2>1, SameStream DEF Inv
  <1>10. StreamOK(s)'
    <2>1. Handed(s)' = << >>
      BY <1>5 DEF Handed
    <2>2. /\ Fits("release", group[s], chan[s], store[s], << >>)
          /\ Fresh(epoch[s], << >>, wire[s], store[s], group[s].notice, chan[s])
      BY <1>1 DEF StreamOK, Fits, Fresh
    <2>3. Kept(<< >>, wire[s], store[s], group[s].notice, chan[s], missed[s])
      BY <1>4 DEF Kept
    <2> QED BY <1>1, <1>2, <1>3, <1>5, <2>1, <2>2, <2>3 DEF StreamOK
  <1>11. Stops'
    <2>1. UNCHANGED <<main, m_stop, m_exit_chan, toStop>>
      BY <1>1 DEF mainVars
    <2>2. \A t \in Streams : pc'[t] \in Past => pc[t] \in Past
      BY <1>1, <1>5 DEF Past
    <2>3. \A t \in Streams : Reached(t) => Reached(t)'
      BY <1>1, <1>2, <1>5 DEF Reached
    <2>4. m_exit_chan \subseteq Streams
      BY DEF Inv, MainTypes
    <2>5. main # "run" => \A t \in m_exit_chan : t \in toStop \/ Reached(t)'
      BY <2>3, <2>4 DEF Inv, Stops
    <2> QED BY <2>1, <2>2, <2>5 DEF Inv, Stops
  <1> QED BY <1>3, <1>6, <1>7, <1>8, <1>9, <1>10, <1>11 DEF Inv

\* A connection's callback is registered.
LEMMA CalledFacts ==
    ASSUME Inv, NEW t \in Streams
    PROVE  /\ Called(t) <=> conn[t] # << >>
           /\ conn[t] # << >> => Head(conn[t]) \in m_sig
  <1>1. conn[t] \in Option(Nat)
    BY StreamTypes DEF Inv
  <1>2. ASSUME conn[t] # << >> PROVE Head(conn[t]) \in m_sig
    <2>1. Head(conn[t]) \in ToSet(conn[t])
      BY <1>1, <1>2, OptionFacts
    <2> QED BY <2>1 DEF Inv, Owned
  <1> QED BY <1>2 DEF Called

\* What a publication puts into one stream, if its callback is called: a
\* waiting receive has it, or the channel, or it is missed.
LEMMA PublishStream ==
    ASSUME Inv, Publish, NEW t \in Streams
    PROVE  /\ StreamOK(t)' /\ group'[t] \in Groups /\ group'[t].stop = group[t].stop
           /\ chan'[t] \in Seq(Nat) /\ Len(chan'[t]) <= ChanCap /\ missed'[t] \in SUBSET Nat
  <1>1. /\ Types /\ StreamOK(t) /\ TopicOK /\ T!Publish
        /\ UNCHANGED <<pc, waiter, token, conn, store, wire, epoch, tokenLost, mainVars>>
    BY DEF Inv, Publish, subVars
  <1>2. PICK n \in Nat : n = m_seq_no
    BY <1>1, TopicFacts
  <1>3. /\ m_seq_no' = n + 1 /\ \A x \in m_sig : got'[x] = Append(got[x], n)
        /\ \A x \in m_sig : got[x] \in Seq(Nat)
    <2>1. \A x \in m_sig : x \in 0 .. m_call_id - 1
      BY <1>1, TopicFacts
    <2>2. \A x \in m_sig : got[x] \in Seq(Nat)
      BY <1>1, <2>1, TopicFacts
    <2> QED BY <1>1, <1>2, <2>2, TopicPublish
  <1>4. PICK r : r = Handed(t)
    OBVIOUS
  <1>5. /\ group'[t] = IF Called(t) /\ Receiving(t)
                       THEN [group[t] EXCEPT !.notice = <<n>>,
                                !.first = IF @ = "none" THEN "notice" ELSE @]
                       ELSE group[t]
        /\ chan'[t] = IF Called(t) /\ ~Receiving(t) /\ Room(t)
                      THEN Append(chan[t], n) ELSE chan[t]
        /\ missed'[t] = IF Called(t) /\ ~Receiving(t) /\ ~Room(t)
                        THEN missed[t] \cup {n} ELSE missed[t]
    BY <1>2 DEF Publish
  <1>6. /\ IsLine(wire[t], store[t], group[t].notice, chan[t]) /\ epoch[t] \in Nat
        /\ group[t] \in Groups /\ chan[t] \in Seq(Nat) /\ Len(chan[t]) <= ChanCap
        /\ missed[t] \in SUBSET Nat /\ group[t].notice \in Option(Nat)
    BY <1>1, StreamTypes
  <1>7. PICK w \in Seq(Wires), q \in Seq(Nat), g \in Option(Nat), h \in Seq(Nat), k \in Nat :
           w = wire[t] /\ q = store[t] /\ g = group[t].notice /\ h = chan[t] /\ k = epoch[t]
    BY <1>6 DEF IsLine
  <1>8. /\ Fits(pc[t], group[t], h, q, conn[t]) /\ Fresh(k, conn[t], w, q, g, h)
        /\ Ordered(w, q, g, h, k, n) /\ Kept(r, w, q, g, h, missed[t])
    BY <1>1, <1>2, <1>4, <1>7 DEF StreamOK
  <1>9. /\ Ordered(w, q, g, h, k, n + 1)
        /\ Ordered(w, q, g, Append(h, n), k, n + 1)
        /\ \A x : x \in Line(w, q, g, Append(h, n)) <=> x \in Line(w, q, g, h) \/ x = n
        /\ g = << >> /\ h = << >> =>
             /\ Ordered(w, q, <<n>>, h, k, n + 1)
             /\ \A x : x \in Line(w, q, <<n>>, h) <=> x \in Line(w, q, g, h) \/ x = n
    BY <1>6, <1>7, <1>8, LinePut
  <1>10. UNCHANGED <<pc, conn, store, wire, epoch>>
    BY <1>1
  <1>11. CASE ~Called(t)
    <2>1. conn[t] = << >> /\ Handed(t)' = << >> /\ r = << >>
      BY <1>4, <1>10, <1>11, CalledFacts DEF Handed
    <2>2. group'[t] = group[t] /\ chan'[t] = chan[t] /\ missed'[t] = missed[t]
      BY <1>5, <1>11
    <2> QED BY <1>3, <1>6, <1>7, <1>8, <1>9, <1>10, <2>1, <2>2 DEF StreamOK
  <1>12. CASE Called(t)
    <2>1. conn[t] # << >> /\ Head(conn[t]) \in m_sig
      BY <1>12, CalledFacts
    <2>2. k # 0
      BY <1>8, <2>1 DEF Fresh
    <2>3. PICK v : v = Handed(t)'
      OBVIOUS
    <2>4. ToSet(v) = ToSet(r) \cup {n}
      <3>1. r \in Seq(Nat) /\ v = Append(r, n)
        BY <1>3, <1>4, <1>10, <2>1, <2>3 DEF Handed
      <3> QED BY <3>1, AppendFacts
    <2>5. CASE Receiving(t)
      <3>1. pc[t] = "wait" /\ g = << >> /\ h = << >>
        BY <1>7, <1>8, <2>5 DEF Receiving, Fits
      <3>2. PICK f : f = IF group[t].first = "none" THEN "notice" ELSE group[t].first
        OBVIOUS
      <3>3. PICK e : e = [group[t] EXCEPT !.notice = <<n>>, !.first = f]
        OBVIOUS
      <3>4. group'[t] = e /\ chan'[t] = chan[t] /\ missed'[t] = missed[t]
        BY <1>5, <1>12, <2>5, <3>2, <3>3
      <3>5. <<n>> \in Option(Nat) /\ <<n>> # << >>
        BY SingleFacts
      <3>6. e \in Groups /\ e.notice = <<n>> /\ e.stop = group[t].stop /\ e.first = f
        BY <1>6, <3>2, <3>3, <3>5 DEF Groups
      <3>7. Fits(pc[t], e, h, q, conn[t])
        BY <1>8, <3>1, <3>5, <3>6 DEF Fits
      <3>8. Fresh(k, conn[t], w, q, <<n>>, h)
        BY <2>2 DEF Fresh
      <3>9. Kept(v, w, q, <<n>>, h, missed[t])
        BY <1>8, <1>9, <2>4, <3>1 DEF Kept
      <3>10. StreamOK(t)'
        <4>1. /\ pc'[t] = pc[t] /\ conn'[t] = conn[t] /\ store'[t] = q /\ wire'[t] = w
              /\ epoch'[t] = k /\ chan'[t] = h
          BY <1>7, <1>10, <3>4
        <4> QED BY <1>3, <1>9, <2>3, <3>1, <3>4, <3>6, <3>7, <3>8, <3>9, <4>1 DEF StreamOK
      <3> QED BY <1>6, <3>4, <3>6, <3>10
    <2>6. CASE ~Receiving(t) /\ Room(t)
      <3>1. group'[t] = group[t] /\ chan'[t] = Append(h, n) /\ missed'[t] = missed[t]
        BY <1>5, <1>7, <1>12, <2>6
      <3>2. Fits(pc[t], group[t], Append(h, n), q, conn[t])
        <4>1. pc[t] = "wait" => group[t].notice # << >>
          BY <2>6 DEF Receiving
        <4> QED BY <1>8, <4>1 DEF Fits
      <3>3. Fresh(k, conn[t], w, q, g, Append(h, n))
        BY <2>2 DEF Fresh
      <3>4. Kept(v, w, q, g, Append(h, n), missed[t])
        BY <1>8, <1>9, <2>4 DEF Kept
      <3>5. StreamOK(t)'
        BY <1>3, <1>7, <1>9, <1>10, <2>3, <3>1, <3>2, <3>3, <3>4 DEF StreamOK
      <3>6. Append(h, n) \in Seq(Nat) /\ Len(Append(h, n)) <= ChanCap
        <4>1. Len(h) < ChanCap /\ Len(Append(h, n)) = Len(h) + 1 /\ Len(h) \in Nat
          BY <1>7, <2>6, AppendFacts DEF Room
        <4> QED BY <4>1, StreamAssumption
      <3> QED BY <1>6, <3>1, <3>5, <3>6
    <2>7. CASE ~Receiving(t) /\ ~Room(t)
      <3>1. group'[t] = group[t] /\ chan'[t] = chan[t] /\ missed'[t] = missed[t] \cup {n}
        BY <1>5, <1>12, <2>7
      <3>2. Kept(v, w, q, g, h, missed[t] \cup {n})
        BY <1>8, <2>4 DEF Kept
      <3>3. StreamOK(t)'
        BY <1>3, <1>7, <1>8, <1>9, <1>10, <2>3, <3>1, <3>2 DEF StreamOK
      <3> QED BY <1>6, <3>1, <3>3
    <2> QED BY <2>5, <2>6, <2>7
  <1> QED BY <1>11, <1>12

LEMMA PublishStep == ASSUME Inv, Publish PROVE Inv'
  <1>1. /\ Types /\ Owned /\ TopicOK /\ T!Publish
        /\ UNCHANGED <<pc, waiter, token, conn, store, wire, epoch, tokenLost, mainVars>>
    BY DEF Inv, Publish, subVars
  <1>2. TopicOK' /\ m_sig' = m_sig
    BY <1>1, TopicPublish
  <1>3. \A t \in Streams : /\ StreamOK(t)' /\ group'[t] \in Groups /\ group'[t].stop = group[t].stop
                           /\ chan'[t] \in Seq(Nat) /\ Len(chan'[t]) <= ChanCap
                           /\ missed'[t] \in SUBSET Nat
    BY PublishStream
  <1>4. PICK gf, hf, mf :
           /\ group' = [t \in Streams |-> gf[t]] /\ chan' = [t \in Streams |-> hf[t]]
           /\ missed' = [t \in Streams |-> mf[t]]
    <2>1. /\ group' = [t \in Streams |-> group'[t]] /\ chan' = [t \in Streams |-> chan'[t]]
          /\ missed' = [t \in Streams |-> missed'[t]]
      BY DEF Publish
    <2> QED BY <2>1
  <1>5. Types'
    <2>1. /\ group' \in [Streams -> Groups] /\ chan' \in [Streams -> Seq(Nat)]
          /\ missed' \in [Streams -> SUBSET Nat]
      BY <1>3, <1>4
    <2> QED BY <1>1, <1>3, <2>1 DEF Types
  <1>6. MainTypes' /\ Owned'
    BY <1>1, <1>2 DEF Inv, MainTypes, Owned, mainVars
  <1>7. Stops'
    <2>1. UNCHANGED <<main, m_stop, m_exit_chan, toStop, pc>>
      BY <1>1 DEF mainVars
    <2>2. \A t \in Streams : Reached(t) => Reached(t)'
      BY <1>1, <1>3 DEF Reached
    <2>3. m_exit_chan \subseteq Streams
      BY DEF Inv, MainTypes
    <2>4. main # "run" => \A t \in m_exit_chan : t \in toStop \/ Reached(t)'
      BY <2>2, <2>3 DEF Inv, Stops
    <2> QED BY <2>1, <2>4 DEF Inv, Stops
  <1> QED BY <1>2, <1>3, <1>5, <1>6, <1>7 DEF Inv

-----------------------------------------------------------------------------
(* The invariant.                                                          *)

LEMMA InitInv == Init => Inv
  <1> SUFFICES ASSUME Init PROVE Inv
    OBVIOUS
  <1>1. TopicOK
    <2>1. TP!Init
      BY DEF Init, T!Init, TP!Init
    <2> QED BY <2>1, TopicAssumptions, TP!InitInv DEF TopicOK, TP!Init
  <1>2. /\ pc = [s \in Streams |-> "idle"] /\ waiter = [s \in Streams |-> NoRead]
        /\ group = [s \in Streams |-> NoGroup]
        /\ chan = [s \in Streams |-> << >>] /\ token = [s \in Streams |-> FALSE]
        /\ conn = [s \in Streams |-> << >>] /\ store = [s \in Streams |-> << >>]
        /\ wire = [s \in Streams |-> << >>] /\ missed = [s \in Streams |-> {}]
        /\ epoch = [s \in Streams |-> 0] /\ tokenLost = {}
        /\ main = "run" /\ m_stop = FALSE /\ m_exit_chan = {} /\ toStop = {}
        /\ m_sig = {} /\ m_seq_no = 0
    BY DEF Init, Everywhere, T!Init
  <1>3. << >> \in Option(Nat) /\ << >> \in Seq(Nat) /\ ToSet(<< >>) = {}
        /\ << >> \in Seq(Wires) /\ Len(<< >>) = 0
    BY EmptyFacts
  <1>4. Types
    <2>1. NoRead \in Reads /\ NoGroup \in Groups
      BY NoGroupFacts DEF NoRead, Reads
    <2>2. /\ pc \in [Streams -> Places] /\ waiter \in [Streams -> Reads]
          /\ group \in [Streams -> Groups]
      BY <1>2, <2>1 DEF Places
    <2>3. /\ chan \in [Streams -> Seq(Nat)] /\ \A s \in Streams : Len(chan[s]) <= ChanCap
          /\ token \in [Streams -> BOOLEAN]
      BY <1>2, <1>3, StreamAssumption
    <2>4. /\ conn \in [Streams -> Option(Nat)] /\ store \in [Streams -> Seq(Nat)]
          /\ wire \in [Streams -> Seq(Wires)]
      BY <1>2, <1>3
    <2>5. missed \in [Streams -> SUBSET Nat] /\ epoch \in [Streams -> Nat]
      BY <1>2
    <2> QED BY <2>2, <2>3, <2>4, <2>5 DEF Types
  <1>5. MainTypes
    BY <1>2 DEF MainTypes
  <1>6. Owned
    BY <1>2, <1>3 DEF Owned
  <1>7. ASSUME NEW s \in Streams PROVE StreamOK(s)
    <2>1. /\ pc[s] = "idle" /\ group[s] = NoGroup /\ chan[s] = << >> /\ conn[s] = << >>
          /\ store[s] = << >> /\ wire[s] = << >> /\ missed[s] = {} /\ epoch[s] = 0
      BY <1>2
    <2>2. Fits("idle", NoGroup, << >>, << >>, << >>)
      BY NoGroupFacts DEF Fits
    <2>3. Fresh(0, << >>, << >>, << >>, << >>, << >>)
      BY DEF Fresh
    <2>4. Ordered(<< >>, << >>, << >>, << >>, 0, 0)
      <3>1. 1 .. Len(<< >>) = {} /\ DOMAIN << >> = {}
        OBVIOUS
      <3>2. Line(<< >>, << >>, << >>, << >>) = {}
        BY <1>3, <3>1 DEF Line, OnWire
      <3> QED BY <1>3, <3>1, <3>2 DEF Ordered, Rising, Increasing
    <2>5. Kept(Handed(s), << >>, << >>, << >>, << >>, {})
      BY <1>3, <2>1 DEF Kept, Handed
    <2> QED BY <1>2, <2>1, <2>2, <2>3, <2>4, <2>5, NoGroupFacts DEF StreamOK
  <1>8. Stops
    BY <1>2 DEF Stops, Past
  <1> QED BY <1>1, <1>4, <1>5, <1>6, <1>7, <1>8 DEF Inv

LEMMA StutterStep == ASSUME Inv, UNCHANGED vars PROVE Inv'
  <1>1. UNCHANGED <<topicVars, pc, dataVars, historyVars, mainVars>>
    BY DEF vars
  <1>2. /\ UNCHANGED <<waiter, group, chan, token, subVars, tokenLost>>
        /\ UNCHANGED <<main, m_stop, m_exit_chan, toStop>>
    BY <1>1 DEF dataVars, historyVars, mainVars
  <1>3. MainTypes'
    BY <1>2 DEF Inv, MainTypes
  <1>4. Stops'
    BY <1>1, <1>2 DEF Inv, Stops, Reached
  <1>5. group \in [Streams -> Groups] /\ token \in [Streams -> BOOLEAN]
    BY DEF Inv, Types
  <1> QED BY <1>1, <1>2, <1>3, <1>4, <1>5, MainStep

LEMMA HandlerStep == ASSUME Inv, NEW s \in Streams, Handler(s) PROVE Inv'
  <1>1. CASE CheckStop(s)
    BY <1>1, CheckStopStep
  <1>2. CASE Launch(s)
    BY <1>2, LaunchStep
  <1>3. CASE OnRead(s)
    BY <1>3, ResumeStep DEF OnRead
  <1>4. CASE OnAlarm(s)
    BY <1>4, ResumeStep DEF OnAlarm
  <1>5. CASE OnNotice(s)
    BY <1>5, ResumeStep DEF OnNotice
  <1>6. CASE OnStop(s)
    BY <1>6, ResumeStep DEF OnStop
  <1>7. CASE Subscribe(s)
    BY <1>7, SubscribeStep
  <1>8. CASE Replay(s)
    BY <1>8, ReplayStep
  <1>9. CASE ReadAgain(s)
    BY <1>9, ReadAgainStep
  <1>10. CASE WriteNotice(s)
    BY <1>10, WriteNoticeStep
  <1>11. CASE Close(s)
    BY <1>11, MoveStep DEF Close
  <1>12. CASE DropConn(s)
    BY <1>12, DropConnStep
  <1>13. CASE Release(s)
    BY <1>13, ReleaseStep
  <1> QED BY <1>1, <1>2, <1>3, <1>4, <1>5, <1>6, <1>7, <1>8, <1>9, <1>10, <1>11, <1>12,
             <1>13 DEF Handler

LEMMA ClientStep == ASSUME Inv, NEW s \in Streams, Client(s) PROVE Inv'
  <1>1. CASE OpenStream(s)
    BY <1>1, MoveStep DEF OpenStream
  <1>2. ASSUME NEW st \in {"ok", "bad", "fail"}, NEW no \in Nat,
               Complete(s, [st |-> st, no |-> no])
        PROVE  Inv'
    <2>1. [st |-> st, no |-> no] \in Reads
      BY DEF Reads
    <2> QED BY <1>2, <2>1, CompleteStep
  <1>3. CASE \E no \in T!Numbers : ClientRequest(s, "ok", no)
    <2>1. T!Numbers \subseteq Nat
      BY TopicAssumption DEF T!Numbers
    <2> QED BY <1>2, <1>3, <2>1 DEF ClientRequest
  <1>4. CASE ClientRequest(s, "bad", 0)
    BY <1>2, <1>4 DEF ClientRequest
  <1>5. CASE ClientGone(s)
    BY <1>2, <1>5 DEF ClientGone
  <1> QED BY <1>1, <1>3, <1>4, <1>5 DEF Client

LEMMA NextInv == ASSUME Inv, Next PROVE Inv'
  <1>1. CASE \E s \in Streams : Client(s) \/ Handler(s) \/ AlarmExpires(s)
    BY <1>1, ClientStep, HandlerStep, AlarmStep
  <1>2. CASE Publish
    BY <1>2, PublishStep
  <1>3. CASE Main
    BY <1>3, StopStep, SendStopStep, UnlockStep, PollStep DEF Main
  <1> QED BY <1>1, <1>2, <1>3 DEF Next

\* The invariant of every behaviour, whatever the fairness.
THEOREM Invariance == Spec => []Inv
  <1>1. Inv /\ [Next]_vars => Inv'
    BY NextInv, StutterStep
  <1> QED BY InitInv, <1>1, PTL DEF Spec

\* Every variable stays in its range, for every set of streams and every bound
\* of the channels, the topic and the requests.
THEOREM TypeCorrect == Spec => []TypeOK
  <1>1. ASSUME Inv PROVE TypeOK
    <2>1. Types /\ MainTypes
      BY <1>1 DEF Inv
    <2>2. T!TypeOK
      BY <1>1, TopicFacts DEF Inv
    <2>3. /\ pc \in [Streams -> Places]
          /\ waiter \in [Streams -> [st : {"pending", "ok", "bad", "fail"}, no : Nat]]
          /\ group \in [Streams -> [first : {"none", "read", "alarm", "notice", "stop"},
                                    notice : Option(Nat), stop : BOOLEAN]]
          /\ chan \in [Streams -> Seq(Nat)]
          /\ \A s \in Streams : Len(chan[s]) <= ChanCap
      BY <2>1 DEF Types, Reads, Groups
    <2>4. /\ token \in [Streams -> BOOLEAN]
          /\ conn \in [Streams -> Option(Nat)]
          /\ store \in [Streams -> Seq(Nat)]
          /\ wire \in [Streams -> Seq([m : Nat, of : Nat])]
          /\ missed \in [Streams -> SUBSET Nat] /\ epoch \in [Streams -> Nat]
      BY <2>1 DEF Types, Wires
    <2> QED BY <2>1, <2>2, <2>3, <2>4 DEF TypeOK, MainTypes
  <1> QED BY Invariance, <1>1, PTL

\* However publications, writes and resubscriptions interleave, the client sees
\* what the channel brings once and in the order of the numbers, and so the
\* snapshot of each request; before its second request, everything together.
THEOREM OrderTheorem == Spec => []InOrder
  <1>1. ASSUME Inv PROVE InOrder
    <2>1. ASSUME NEW s \in Streams, NEW i \in DOMAIN Sent(s), NEW j \in DOMAIN Sent(s), i < j,
                 epoch[s] <= 1 \/ Sent(s)[i].of = Sent(s)[j].of
          PROVE  Sent(s)[i].m < Sent(s)[j].m
      <3>1. /\ IsLine(wire[s], store[s], group[s].notice, chan[s]) /\ epoch[s] \in Nat
            /\ m_seq_no \in Nat
            /\ Ordered(wire[s], store[s], group[s].notice, chan[s], epoch[s], m_seq_no)
        BY <1>1, StreamTypes, TopicFacts DEF Inv, StreamOK
      <3>2. PICK all : /\ all = wire[s] \o Marked(store[s], epoch[s])
                                 \o Marked(group[s].notice \o chan[s], 0)
                       /\ all = Sent(s)
        BY DEF Sent, Coming
      <3>3. \A k, l \in DOMAIN all :
               k < l /\ (epoch[s] <= 1 \/ all[k].of = all[l].of) => all[k].m < all[l].m
        BY <3>1, <3>2, LineSent
      <3> QED BY <2>1, <3>2, <3>3
    <2> QED BY <2>1 DEF InOrder
  <1> QED BY Invariance, <1>1, PTL

LEMMA ConcatSet ==
    ASSUME NEW S, NEW p \in Seq(S), NEW q \in Seq(S)
    PROVE  \A x : x \in ToSet(p) \/ x \in ToSet(q) => x \in ToSet(p \o q)
  <1>1. PICK r : r = p \o q
    OBVIOUS
  <1> DEFINE a == Len(p)
             b == Len(q)
  <1>2. /\ r \in Seq(S) /\ Len(r) = a + b /\ a \in Nat /\ b \in Nat
        /\ \A i \in 1 .. a + b : r[i] = IF i <= a THEN p[i] ELSE q[i - a]
    BY <1>1, ConcatFacts
  <1>3. /\ ToSet(r) = {r[i] : i \in 1 .. a + b} /\ ToSet(p) = {p[i] : i \in 1 .. a}
        /\ ToSet(q) = {q[i] : i \in 1 .. b}
    BY <1>2, ToSetFacts
  <1> HIDE DEF a, b
  <1>4. \A i \in 1 .. a : i \in 1 .. a + b /\ i <= a
    BY <1>2
  <1>5. \A i \in 1 .. b : a + i \in 1 .. a + b /\ ~(a + i <= a) /\ (a + i) - a = i
    BY <1>2
  <1>6. /\ \A i \in 1 .. a : p[i] \in ToSet(r)
        /\ \A i \in 1 .. b : q[i] \in ToSet(r)
    <2>1. \A k \in 1 .. a + b : r[k] \in ToSet(r)
      BY <1>3
    <2>2. \A i \in 1 .. a : r[i] = p[i]
      BY <1>2, <1>4
    <2>3. \A i \in 1 .. b : r[a + i] = q[i]
      BY <1>2, <1>5
    <2>4. \A i \in 1 .. a : p[i] \in ToSet(r)
      BY <1>4, <2>1, <2>2
    <2>5. \A i \in 1 .. b : q[i] \in ToSet(r)
      BY <1>5, <2>1, <2>3
    <2> QED BY <2>4, <2>5
  <1> QED BY <1>1, <1>3, <1>6

\* A notice handed to a stream is written, on its way or accounted for as
\* missed.
THEOREM NothingVanishesTheorem == Spec => []NothingVanishes
  <1>1. ASSUME Inv PROVE NothingVanishes
    <2>1. ASSUME NEW s \in Streams,
                 NEW m \in ToSet(IF conn[s] = << >> THEN << >> ELSE got[Head(conn[s])])
          PROVE  \/ m \in ToSet(Numbers(wire[s])) \/ m \in missed[s]
                 \/ m \in ToSet(store[s]) \/ m \in ToSet(Coming(s))
      <3>1. IsLine(wire[s], store[s], group[s].notice, chan[s])
        BY <1>1, StreamTypes DEF Inv
      <3>2. m \in Line(wire[s], store[s], group[s].notice, chan[s]) \/ m \in missed[s]
        BY <1>1, <2>1 DEF Inv, StreamOK, Kept, Handed
      <3>3. /\ wire[s] \in Seq(Wires) /\ group[s].notice \in Seq(Nat) /\ chan[s] \in Seq(Nat)
        BY <3>1, LineFacts
      <3>4. \A x \in OnWire(wire[s]) : x \in ToSet(Numbers(wire[s]))
        <4>1. DOMAIN wire[s] = 1 .. Len(wire[s])
          BY <3>3
        <4> QED BY <4>1 DEF OnWire, ToSet, Numbers
      <3>5. \A x : x \in ToSet(group[s].notice) \/ x \in ToSet(chan[s]) => x \in ToSet(Coming(s))
        BY <3>3, ConcatSet DEF Coming
      <3> QED BY <3>2, <3>4, <3>5 DEF Line
    <2> QED BY <2>1 DEF NothingVanishes
  <1> QED BY Invariance, <1>1, PTL

\* No callback outlives its stream or its request.
THEOREM OrphanTheorem == Spec => []NoOrphanCallback
  <1>1. ASSUME Inv PROVE NoOrphanCallback
    <2>1. m_sig = UNION {ToSet(conn[s]) : s \in Streams}
      BY <1>1 DEF Inv, Owned
    <2>2. \A s, t \in Streams : s # t => ToSet(conn[s]) \cap ToSet(conn[t]) = {}
      BY <1>1 DEF Inv, Owned
    <2>3. \A s \in Streams :
             pc[s] \in {"idle", "opened", "release", "done"} => conn[s] = << >>
      BY <1>1 DEF Inv, StreamOK, Fits
    <2> QED BY <2>1, <2>2, <2>3 DEF NoOrphanCallback
  <1> QED BY Invariance, <1>1, PTL

\* When the loop of stop() has ended, so have the calls past the check.
LEMMA DownFacts ==
    ASSUME Inv, main = "down" \/ m_exit_chan = {}
    PROVE  \A s \in Streams : pc[s] \in {"idle", "opened", "done"}
  <1>1. m_exit_chan = {}
    BY DEF Inv, Stops
  <1>2. \A s \in Streams : pc[s] \in Places
    BY DEF Inv, Types
  <1> QED BY <1>1, <1>2 DEF Inv, Stops, Places, Past

\* Past the loop of stop() no callback can put anything into a channel any more,
\* and no coroutine is, or will be, past the check of m_stop.
THEOREM SilenceTheorem == Spec => []DrainedMeansSilent
  <1>1. ASSUME Inv, main = "down"
        PROVE  m_sig = {} /\ \A s \in Streams : pc[s] \in {"idle", "opened", "done"}
    <2>1. \A s \in Streams : pc[s] \in {"idle", "opened", "done"}
      BY <1>1, DownFacts
    <2>2. \A s \in Streams : conn[s] = << >>
      BY <1>1, <2>1 DEF Inv, StreamOK, Fits
    <2>3. m_sig = {}
      BY <1>1, <2>2, EmptyFacts DEF Inv, Owned
    <2> QED BY <2>1, <2>3
  <1>2. Inv => DrainedMeansSilent
    BY <1>1 DEF DrainedMeansSilent
  <1> QED BY Invariance, <1>2, PTL

\* No entry of m_exit_chan is forgotten by the loop that sends the tokens.
THEOREM ReachTheorem == Spec => []StopReachesEveryone
  <1>1. Inv => StopReachesEveryone
    BY DEF Inv, Stops, StopReachesEveryone, Reached
  <1> QED BY Invariance, <1>1, PTL

-----------------------------------------------------------------------------
(* stop() implements Drain.                                                *)

ServedPhase == CASE main = "run" -> "on" [] main \in {"sending", "drain"} -> "closing"
                 [] main = "down" -> "off"
Active == {s \in Streams : pc[s] \notin {"idle", "opened", "done"}}

LEMMA PhaseFacts ==
    /\ main = "run" => ServedPhase = "on"
    /\ main = "sending" \/ main = "drain" => ServedPhase = "closing"
    /\ main = "down" => ServedPhase = "off"
  BY DEF ServedPhase

LEMMA InitRefines == Init => Served!Init
  <1> SUFFICES ASSUME Init PROVE Served!Init
    OBVIOUS
  <1>1. ServedPhase = "on"
    BY PhaseFacts DEF Init
  <1>2. Active = {}
    BY DEF Init, Everywhere, Active
  <1> QED BY <1>1, <1>2 DEF Served!Init, ServedPhase, Active

\* A coroutine that moves begins an activity, ends one, or neither.
LEMMA MoveRefines ==
    ASSUME Inv, NEW s \in Streams, main' = main, \A t \in Streams : t # s => pc'[t] = pc[t],
           pc[s] \in {"idle", "opened", "done"} /\ pc'[s] \notin {"idle", "opened", "done"}
              => main # "down"
    PROVE  Served!Next \/ UNCHANGED Served!vars
  <1>1. ServedPhase' = ServedPhase
    BY DEF ServedPhase
  <1>2. main \in {"run", "sending", "drain", "down"}
    BY DEF Inv, MainTypes
  <1>3. CASE s \in Active /\ s \in Active'
    <2>1. Active' = Active
      BY <1>3 DEF Active
    <2> QED BY <1>1, <2>1 DEF Served!vars, ServedPhase, Active
  <1>4. CASE s \notin Active /\ s \notin Active'
    <2>1. Active' = Active
      BY <1>4 DEF Active
    <2> QED BY <1>1, <2>1 DEF Served!vars, ServedPhase, Active
  <1>5. CASE s \notin Active /\ s \in Active'
    <2>1. Active' = Active \cup {s}
      BY <1>5 DEF Active
    <2>2. ServedPhase # "off"
      BY <1>2, <1>5, PhaseFacts DEF Active
    <2>3. Served!Begin(s)
      BY <1>1, <1>5, <2>1, <2>2 DEF Served!Begin, ServedPhase, Active
    <2> QED BY <1>5, <2>3 DEF Served!Next, Active
  <1>6. CASE s \in Active /\ s \notin Active'
    <2>1. Active' = Active \ {s}
      BY <1>6 DEF Active
    <2>2. Served!End(s)
      BY <1>1, <1>6, <2>1 DEF Served!End, ServedPhase, Active
    <2> QED BY <1>6, <2>2 DEF Served!Next, Active
  <1> QED BY <1>3, <1>4, <1>5, <1>6

\* What a step of a coroutine or its client does to the coroutine's place.
LEMMA PlaceFacts ==
    ASSUME Inv, NEW s \in Streams, Client(s) \/ Handler(s) \/ AlarmExpires(s)
    PROVE  /\ main' = main /\ \A t \in Streams : t # s => pc'[t] = pc[t]
           /\ pc[s] \in {"idle", "opened", "done"} /\ pc'[s] \notin {"idle", "opened", "done"}
                 => main # "down"
  <1>1. pc \in [Streams -> Places] /\ (main # "run" => m_stop)
    BY DEF Inv, Types, Stops
  <1>2. ASSUME NEW from, NEW to, Go(s, from, to)
        PROVE  /\ pc[s] = from /\ pc'[s] = to
               /\ \A t \in Streams : t # s => pc'[t] = pc[t]
    BY <1>1, <1>2 DEF Go
  <1>3. CASE CheckStop(s)
    BY <1>1, <1>2, <1>3 DEF CheckStop
  <1>4. CASE OpenStream(s)
    BY <1>2, <1>4 DEF OpenStream, mainVars
  <1>5. CASE pc' = pc /\ main' = main
    BY <1>5
  <1>6. CASE /\ main' = main
             /\ \/ Go(s, "launch", "wait") \/ Go(s, "subscribe", "replay")
                \/ Go(s, "replay", "launch") \/ Go(s, "write", "launch")
                \/ Go(s, "close", "closed") \/ Go(s, "closed", "release")
                \/ Go(s, "unwind", "release") \/ Go(s, "release", "done")
                \/ \E next : Go(s, "wait", next)
    BY <1>2, <1>6
  <1>7. CASE AlarmExpires(s) \/ Replay(s) \/ (\E read : Complete(s, read))
    BY <1>5, <1>7 DEF AlarmExpires, Replay, Complete, mainVars
  <1>8. CASE OnRead(s) \/ OnAlarm(s) \/ OnNotice(s) \/ OnStop(s)
    <2>1. \A first, next : Resume(s, first, next) => main' = main /\ Go(s, "wait", next)
      BY DEF Resume, mainVars
    <2> QED BY <1>6, <1>8, <2>1 DEF OnRead, OnAlarm, OnNotice, OnStop
  <1>9. CASE \/ Launch(s) \/ Subscribe(s) \/ ReadAgain(s) \/ WriteNotice(s)
             \/ Close(s) \/ DropConn(s) \/ Release(s)
    BY <1>6, <1>9 DEF Launch, Subscribe, ReadAgain, WriteNotice, Close, DropConn, Release, mainVars
  <1> QED BY <1>3, <1>4, <1>7, <1>8, <1>9 DEF Client, Handler, ClientRequest, ClientGone

LEMMA NextRefines == ASSUME Inv, Next PROVE Served!Next \/ UNCHANGED Served!vars
  <1>1. CASE \E s \in Streams : Client(s) \/ Handler(s) \/ AlarmExpires(s)
    BY <1>1, PlaceFacts, MoveRefines
  <1>2. ASSUME pc' = pc, ServedPhase' = ServedPhase PROVE UNCHANGED Served!vars
    BY <1>2 DEF Served!vars, ServedPhase
  <1>3. CASE Publish \/ \E s \in Streams : SendStop(s)
    <2>1. pc' = pc /\ main' = main
      BY <1>3 DEF Publish, SendStop, mainVars
    <2> QED BY <1>2, <2>1 DEF ServedPhase
  <1>4. CASE Stop
    <2>1. main = "run" /\ main' = "sending" /\ pc' = pc
      BY <1>4 DEF Stop
    <2>2. ServedPhase = "on" /\ ServedPhase' = "closing" /\ Active' = Active
      BY <2>1 DEF ServedPhase, Active
    <2> QED BY <2>2 DEF Served!Next, Served!Close, ServedPhase, Active
  <1>5. CASE Unlock
    <2>1. main = "sending" /\ main' = "drain" /\ pc' = pc
      BY <1>5 DEF Unlock
    <2> QED BY <1>2, <2>1 DEF ServedPhase
  <1>6. CASE Poll
    <2>1. /\ main = "drain" /\ pc' = pc /\ m_exit_chan' = {s \in m_exit_chan : pc[s] # "done"}
          /\ main' = IF m_exit_chan' = {} THEN "down" ELSE "drain"
      BY <1>6 DEF Poll
    <2>2. CASE m_exit_chan' = {}
      <3>1. \A s \in Streams : pc[s] \notin Past
        BY <2>1, <2>2 DEF Inv, Stops, Past
      <3>2. Active = {}
        BY <3>1 DEF Active, Past, Inv, Types, Places
      <3>3. ServedPhase = "closing" /\ ServedPhase' = "off" /\ Active' = Active
        BY <2>1, <2>2 DEF ServedPhase, Active
      <3> QED BY <3>2, <3>3 DEF Served!Next, Served!Finish, ServedPhase, Active
    <2>3. CASE m_exit_chan' # {}
      BY <1>2, <2>1, <2>3 DEF ServedPhase
    <2> QED BY <2>2, <2>3
  <1> QED BY <1>1, <1>3, <1>4, <1>5, <1>6 DEF Next, Main

\* stop() goes on to the server when no coroutine is past the check of m_stop,
\* and none gets past it any more: the Notice calls implement Drain.
THEOREM DrainRefinement == Spec => NoticeIsDrain
  <1>1. UNCHANGED vars => UNCHANGED Served!vars
    BY DEF vars, mainVars, Served!vars
  <1>2. Inv /\ [Next]_vars => [Served!Next]_(Served!vars)
    BY <1>1, NextRefines
  <1> QED BY InitRefines, Invariance, <1>2, PTL DEF Spec, NoticeIsDrain, Served!Spec

-----------------------------------------------------------------------------
(* The topic under the Notice calls is the one of Topic.tla: coroutines,   *)
(* publisher and main thread call it only as it expects to be called.      *)

Asked == m_call_id <= MaxCall /\ \A s \in Streams : waiter[s].no \in T!Numbers

LEMMA NumbersFacts == T!Numbers \subseteq Nat /\ 0 \in T!Numbers /\ NoRead.no = 0
  BY TopicAssumption DEF T!Numbers, NoRead

LEMMA InitAsked == Init => Asked
  BY NumbersFacts, TopicAssumption DEF Init, T!Init, Everywhere, Asked

\* A step that keeps away from the topic.
LEMMA TopicAlone ==
    ASSUME Asked, UNCHANGED topicVars, \A s \in Streams : waiter'[s].no \in T!Numbers
    PROVE  Asked' /\ UNCHANGED T!vars
  BY DEF Asked, topicVars, T!vars

LEMMA CompleteAsks ==
    ASSUME Inv, Asked, NEW s \in Streams, NEW st \in {"ok", "bad", "fail"}, NEW no \in T!Numbers,
           Complete(s, [st |-> st, no |-> no])
    PROVE  Asked' /\ UNCHANGED T!vars
  <1>1. PICK read : read = [st |-> st, no |-> no]
    OBVIOUS
  <1>2. waiter' = [waiter EXCEPT ![s] = read] /\ UNCHANGED topicVars /\ read.no = no
    BY <1>1 DEF Complete
  <1>3. waiter \in [Streams -> Reads]
    BY DEF Inv, Types
  <1>4. \A t \in Streams : waiter'[t].no \in T!Numbers
    BY <1>2, <1>3 DEF Asked
  <1> QED BY <1>2, <1>4, TopicAlone

LEMMA SubscribeAsks ==
    ASSUME Inv, Asked, NEW s \in Streams, Subscribe(s) PROVE Asked' /\ T!Next
  <1>1. PICK no \in T!Numbers : no = waiter[s].no
    BY DEF Asked
  <1>2. UNCHANGED waiter /\ m_call_id \in Nat /\ held \subseteq 0 .. m_call_id - 1
    BY TopicFacts DEF Subscribe, Inv
  <1>3. T!Next /\ m_call_id < MaxCall /\ m_call_id' = m_call_id + 1
    <2>1. CASE conn[s] = << >>
      <3>1. T!Subscribe(no)
        BY <1>1, <2>1 DEF Subscribe
      <3> QED BY <3>1 DEF T!Next, T!Subscribe, T!Register
    <2>2. CASE conn[s] # << >>
      <3>1. T!Resubscribe(Head(conn[s]), no)
        BY <1>1, <2>2 DEF Subscribe
      <3>2. PICK id \in held : id = Head(conn[s])
        BY <3>1 DEF T!Resubscribe
      <3>3. id \in T!Ids
        BY <1>2, TopicAssumption DEF Asked, T!Ids
      <3>4. T!Resubscribe(id, no)
        BY <3>1, <3>2
      <3>5. T!Next
        BY <3>3, <3>4 DEF T!Next
      <3> QED BY <3>1, <3>5 DEF T!Resubscribe, T!Register
    <2> QED BY <2>1, <2>2
  <1>4. m_call_id' <= MaxCall
    BY <1>2, <1>3, TopicAssumption
  <1> QED BY <1>2, <1>3, <1>4 DEF Asked

LEMMA DropAsks ==
    ASSUME Inv, Asked, NEW s \in Streams, DropConn(s)
    PROVE  Asked' /\ (T!Next \/ UNCHANGED T!vars)
  <1>1. UNCHANGED waiter
    BY DEF DropConn
  <1>2. CASE conn[s] = << >>
    BY <1>1, <1>2, TopicAlone DEF DropConn, Asked
  <1>3. CASE conn[s] # << >>
    <2>1. PICK id : id = Head(conn[s]) /\ T!DropConn(id)
      BY <1>3 DEF DropConn
    <2>2. id \in held /\ m_call_id' = m_call_id
      BY <2>1 DEF T!DropConn
    <2>3. m_call_id \in Nat /\ held \subseteq 0 .. m_call_id - 1
      BY TopicFacts DEF Inv
    <2>4. id \in T!Ids
      BY <2>2, <2>3, TopicAssumption DEF Asked, T!Ids
    <2>5. T!Next
      BY <2>1, <2>4 DEF T!Next
    <2> QED BY <1>1, <2>2, <2>5 DEF Asked
  <1> QED BY <1>2, <1>3

LEMMA ReadAgainAsks ==
    ASSUME Inv, Asked, NEW s \in Streams, ReadAgain(s) PROVE Asked' /\ UNCHANGED T!vars
  <1>1. waiter' = [waiter EXCEPT ![s] = NoRead] /\ UNCHANGED topicVars
    BY DEF ReadAgain
  <1>2. waiter \in [Streams -> Reads]
    BY DEF Inv, Types
  <1>3. \A t \in Streams : waiter'[t].no \in T!Numbers
    BY <1>1, <1>2, NumbersFacts DEF Asked
  <1> QED BY <1>1, <1>3, TopicAlone

LEMMA NextAsks == ASSUME Inv, Asked, Next PROVE Asked' /\ (T!Next \/ UNCHANGED T!vars)
  <1>1. ASSUME UNCHANGED <<topicVars, waiter>> PROVE Asked' /\ UNCHANGED T!vars
    BY <1>1, TopicAlone DEF Asked
  <1>2. ASSUME NEW s \in Streams, Client(s) PROVE Asked' /\ UNCHANGED T!vars
    <2>1. CASE OpenStream(s)
      BY <1>1, <2>1 DEF OpenStream, dataVars
    <2>2. CASE \E no \in T!Numbers : ClientRequest(s, "ok", no)
      BY <2>2, CompleteAsks DEF ClientRequest
    <2>3. CASE ClientRequest(s, "bad", 0) \/ ClientGone(s)
      BY <2>3, CompleteAsks, NumbersFacts DEF ClientRequest, ClientGone
    <2> QED BY <1>2, <2>1, <2>2, <2>3 DEF Client
  <1>3. ASSUME NEW s \in Streams, Handler(s) PROVE Asked' /\ (T!Next \/ UNCHANGED T!vars)
    <2>1. CASE Subscribe(s) \/ DropConn(s) \/ ReadAgain(s)
      BY <2>1, SubscribeAsks, DropAsks, ReadAgainAsks
    <2>2. CASE CheckStop(s) \/ Close(s)
      BY <1>1, <2>2 DEF CheckStop, Close, dataVars
    <2>3. CASE Launch(s) \/ Replay(s) \/ WriteNotice(s) \/ Release(s)
      BY <1>1, <2>3 DEF Launch, Replay, WriteNotice, Release
    <2>4. CASE OnRead(s) \/ OnAlarm(s) \/ OnNotice(s) \/ OnStop(s)
      <3>1. \A first, next : Resume(s, first, next) => UNCHANGED <<topicVars, waiter>>
        BY DEF Resume
      <3> QED BY <1>1, <2>4, <3>1 DEF OnRead, OnAlarm, OnNotice, OnStop
    <2> QED BY <1>3, <2>1, <2>2, <2>3, <2>4 DEF Handler
  <1>4. CASE \E s \in Streams : AlarmExpires(s)
    BY <1>1, <1>4 DEF AlarmExpires
  <1>5. CASE Publish
    <2>1. T!Publish /\ UNCHANGED waiter
      BY <1>5 DEF Publish
    <2>2. T!Next /\ m_call_id' = m_call_id
      BY <2>1 DEF T!Next, T!Publish
    <2> QED BY <2>1, <2>2 DEF Asked
  <1>6. CASE Main
    BY <1>1, <1>6 DEF Main, Stop, SendStop, Unlock, Poll, dataVars
  <1> QED BY <1>2, <1>3, <1>4, <1>5, <1>6 DEF Next

\* Every behaviour of the Notice calls is one of the topic, as far as the topic
\* is concerned.
THEOREM TopicRefinement == Spec => T!Spec
  <1>1. Init => T!Init
    BY DEF Init
  <1>2. UNCHANGED vars => UNCHANGED T!vars /\ (Asked => Asked')
    BY DEF vars, topicVars, dataVars, T!vars, Asked
  <1>3. Inv /\ Asked /\ [Next]_vars => Asked' /\ [T!Next]_(T!vars)
    BY <1>2, NextAsks
  <1> QED BY InitAsked, Invariance, <1>1, <1>3, PTL DEF Spec, T!Spec

\* Topic.tla is the same topic here and in its proofs.
LEMMA SameTopic == T!Next = TP!Next /\ T!vars = TP!vars
  <1> DEFINE I == T!Ids
             N == T!Numbers
  <1>1. TP!Ids = I /\ TP!Numbers = N
    BY DEF T!Ids, TP!Ids, T!Numbers, TP!Numbers
  <1>2. \A lo, n : T!Recover(lo, n) = TP!Recover(lo, n)
    BY DEF T!Recover, TP!Recover, T!Newest, TP!Newest, T!Last, TP!Last
  <1>3. T!Publish = TP!Publish
    BY DEF T!Publish, TP!Publish, T!PushBack, TP!PushBack, T!Last, TP!Last
  <1>4. \A no : T!Subscribe(no) = TP!Subscribe(no)
    BY DEF T!Subscribe, TP!Subscribe, T!Register, TP!Register,
           T!Find, TP!Find, T!LowerBound, TP!LowerBound
  <1>5. \A id, no : T!Resubscribe(id, no) = TP!Resubscribe(id, no)
    BY DEF T!Resubscribe, TP!Resubscribe, T!Register, TP!Register,
           T!Find, TP!Find, T!LowerBound, TP!LowerBound
  <1>6. \A no : T!SubscribeFiltered(no) = TP!SubscribeFiltered(no)
    BY DEF T!SubscribeFiltered, TP!SubscribeFiltered, T!Register, TP!Register,
           T!Filter, TP!Filter, T!Find, TP!Find, T!LowerBound, TP!LowerBound
  <1>7. \A id, no : T!ResubscribeFiltered(id, no) = TP!ResubscribeFiltered(id, no)
    BY DEF T!ResubscribeFiltered, TP!ResubscribeFiltered, T!Register, TP!Register,
           T!Filter, TP!Filter, T!Find, TP!Find, T!LowerBound, TP!LowerBound
  <1>8. /\ \A id : T!DropConn(id) = TP!DropConn(id)
        /\ T!Destruct = TP!Destruct /\ T!vars = TP!vars
    BY DEF T!DropConn, TP!DropConn, T!Destruct, TP!Destruct, T!vars, TP!vars
  <1> HIDE DEF I, N
  <1>9. T!Next = TP!Next
    BY <1>1, <1>2, <1>3, <1>4, <1>5, <1>6, <1>7, <1>8 DEF T!Next, TP!Next, I, N
  <1> QED BY <1>8, <1>9

LEMMA SamePromise ==
    /\ T!Promise!Init = TP!Promise!Init /\ T!Promise!Next = TP!Promise!Next
    /\ T!Promise!vars = TP!Promise!vars
  <1>1. T!Promise!Init = TP!Promise!Init /\ T!Promise!vars = TP!Promise!vars
    BY DEF T!Promise!Init, TP!Promise!Init, T!Promise!vars, TP!Promise!vars
  <1>2. T!Promise!Restore = TP!Promise!Restore
    BY DEF T!Promise!Restore, TP!Promise!Restore, T!Promise!Opened, TP!Promise!Opened
  <1>3. T!Promise!Extend = TP!Promise!Extend
    BY DEF T!Promise!Extend, TP!Promise!Extend, T!Promise!Opened, TP!Promise!Opened,
           T!Promise!Slice, TP!Promise!Slice
  <1>4. \A closing, opening :
           T!Promise!Turn(closing, opening) = TP!Promise!Turn(closing, opening)
    BY DEF T!Promise!Turn, TP!Promise!Turn, T!Promise!Opened, TP!Promise!Opened,
           T!Promise!Slice, TP!Promise!Slice
  <1>5. T!Promise!Next = TP!Promise!Next
    BY <1>2, <1>3, <1>4 DEF T!Promise!Next, TP!Promise!Next
  <1> QED BY <1>1, <1>5

\* A step of the topic is one of its promise.
LEMMA PromiseStep ==
    ASSUME Inv, Inv', [T!Next]_(T!vars) PROVE [T!Promise!Next]_(T!Promise!vars)
  <1>1. TP!Inv /\ TP!Inv'
    BY DEF Inv, TopicOK
  <1>2. TP!vars' = TP!vars => TP!Promise!vars' = TP!Promise!vars
    BY DEF TP!vars, TP!Promise!vars
  <1>3. TP!Next => TP!Promise!Next \/ TP!Promise!vars' = TP!Promise!vars
    BY <1>1, TP!NextRefines, TopicAssumptions
  <1>4. T!vars' = TP!vars' /\ T!Promise!vars' = TP!Promise!vars'
    BY DEF T!vars, TP!vars, T!Promise!vars, TP!Promise!vars
  <1> QED BY <1>2, <1>3, <1>4, SameTopic, SamePromise

\* The composition keeps the topic's promise: whatever streams, publisher and
\* stop() do, each callback of a Notice call has received one unbroken slice
\* of the log, up to the last notice while it is registered.
THEOREM FeedRefinement == Spec => T!FeedSpec
  <1>1. Init => T!Promise!Init
    <2>1. Init => TP!Init
      BY DEF Init, T!Init, TP!Init
    <2>2. TP!Init => TP!Promise!Init
      BY TP!InitRefines, TopicAssumptions
    <2> QED BY <2>1, <2>2, SamePromise
  <1>2. Inv /\ Inv' /\ [T!Next]_(T!vars) => [T!Promise!Next]_(T!Promise!vars)
    BY PromiseStep
  <1> QED BY Invariance, TopicRefinement, <1>1, <1>2, PTL
          DEF Spec, T!Spec, T!FeedSpec, T!Promise!Spec

=============================================================================
