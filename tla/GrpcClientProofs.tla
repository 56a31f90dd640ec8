--------------------------- MODULE GrpcClientProofs ---------------------------
(***************************************************************************)
(* Theorems of GrpcClient.tla, for every number of contexts and every      *)
(* width of the counter: the type invariant, what stop() leaves behind,    *)
(* how even the round robin is, and that the client implements Drain.      *)
(***************************************************************************)
EXTENDS GrpcClient, FiniteSetTheorems, TLAPS

-----------------------------------------------------------------------------
(* The inductive invariant.                                                *)

\* Until stop() is called every context is guarded and therefore run; the loop
\* of stop() is entered only if there are contexts.
OpenRuns ==
    /\ main = "up" => guard = Contexts /\ \A c \in Contexts : Runs(c)
    /\ main = "resetting" => thread_count # 0

\* A handler is left behind only on a context that is not run, where it was
\* spawned late; one that has begun is on a context that is.
LeftOnlyLate ==
    \A x \in DOMAIN call :
        /\ call[x].st = "running" => Runs(call[x].at)
        /\ call[x].st = "queued" => Runs(call[x].at) \/ x \in late

\* After stop() the threads are gone, unless it has been called again.
StoppedIsEmpty == main = "stopped" => m_threads = << >>

Inv == TypeOK /\ OpenRuns /\ LeftOnlyLate /\ StoppedIsEmpty

Calls == [st : {"picked", "queued", "running", "done"}, at : Contexts]

-----------------------------------------------------------------------------
(* Arithmetic of the counter.                                              *)

\* Quotient and remainder are unique.
LEMMA DivModUnique ==
    ASSUME NEW t \in Nat \ {0}, NEW q \in Nat, NEW p \in Nat,
           NEW r \in 0 .. t - 1, NEW s \in 0 .. t - 1, t * q + r = t * p + s
    PROVE  p = q /\ r = s
  OBVIOUS

\* The division that % and \div define.
LEMMA DivMod ==
    ASSUME NEW t \in Nat \ {0}, NEW n \in Nat
    PROVE  n % t \in 0 .. t - 1 /\ n \div t \in Nat /\ n = t * (n \div t) + (n % t)
  OBVIOUS

\* Counting on by one either stays within a round or starts the next.
LEMMA DivModNext ==
    ASSUME NEW t \in Nat \ {0}, NEW n \in Nat
    PROVE  \/ /\ n % t < t - 1
              /\ (n + 1) % t = (n % t) + 1 /\ (n + 1) \div t = n \div t
           \/ /\ n % t = t - 1
              /\ (n + 1) % t = 0 /\ (n + 1) \div t = n \div t + 1
  <1> DEFINE q == n \div t
             r == n % t
             p == (n + 1) \div t
             s == (n + 1) % t
  <1>1. q \in Nat /\ r \in 0 .. t - 1 /\ n = t * q + r
    BY DivMod
  <1>2. p \in Nat /\ s \in 0 .. t - 1 /\ n + 1 = t * p + s
    BY n + 1 \in Nat, DivMod
  <1> HIDE DEF p, q, r, s
  <1>3. CASE r < t - 1
    <2>1. r + 1 \in 0 .. t - 1 /\ t * q + (r + 1) = t * p + s
      BY <1>1, <1>2, <1>3
    <2>2. p = q /\ s = r + 1
      BY <1>1, <1>2, <2>1, DivModUnique
    <2> QED BY <1>3, <2>2 DEF p, q, r, s
  <1>4. CASE r = t - 1
    <2>1. t * (q + 1) = t * q + t
      BY <1>1
    <2>2. q + 1 \in Nat /\ 0 \in 0 .. t - 1 /\ t * (q + 1) + 0 = t * p + s
      BY <1>1, <1>2, <1>4, <2>1
    <2>3. p = q + 1 /\ s = 0
      BY <1>2, <2>2, DivModUnique
    <2> QED BY <1>4, <2>3 DEF p, q, r, s
  <1> QED BY <1>1, <1>3, <1>4

\* Counting on by one from a number within the range t either stays in it or
\* overflows to 0.
LEMMA Overflow ==
    ASSUME NEW t \in Nat \ {0}, NEW n \in 0 .. t - 1
    PROVE  \/ (n + 1) % t = n + 1 /\ (n + 1) \div t = 0
           \/ n + 1 = t /\ (n + 1) % t = 0 /\ (n + 1) \div t = 1
  <1>1. n % t = n /\ n \div t = 0
    <2> DEFINE q == n \div t
               r == n % t
    <2>1. q \in Nat /\ r \in 0 .. t - 1 /\ n = t * q + r
      BY n \in Nat, DivMod
    <2> HIDE DEF q, r
    <2>2. t * 0 + n = t * q + r /\ 0 \in Nat
      BY <2>1
    <2>3. q = 0 /\ r = n
      BY <2>1, <2>2, DivModUnique
    <2> QED BY <2>3 DEF q, r
  <1>2. n \in Nat
    OBVIOUS
  <1>3. \/ (n + 1) % t = (n % t) + 1 /\ (n + 1) \div t = n \div t
        \/ /\ n % t = t - 1
           /\ (n + 1) % t = 0 /\ (n + 1) \div t = n \div t + 1
    BY <1>2, DivModNext, Zenon
  <1> QED BY <1>1, <1>3

\* How many of the first n numbers a fetch_add hands out fall on context c.
Turns(t, c, n) == n \div t + IF c - 1 < n % t THEN 1 ELSE 0

LEMMA TurnsFacts ==
    ASSUME NEW t \in Nat \ {0}, NEW c \in 1 .. t, NEW n \in Nat
    PROVE  /\ Turns(t, c, n) \in Nat /\ Turns(t, c, 0) = 0
           /\ Turns(t, c, n + 1) = Turns(t, c, n) + IF c = (n % t) + 1 THEN 1 ELSE 0
           /\ \A d \in 1 .. t :
                 Turns(t, c, n) - Turns(t, d, n) <= IF n % t = 0 THEN 0 ELSE 1
  <1>1. n % t \in 0 .. t - 1 /\ n \div t \in Nat
    BY DivMod
  <1>2. 0 % t = 0 /\ 0 \div t = 0
    OBVIOUS
  <1>3. \/ /\ n % t < t - 1
           /\ (n + 1) % t = (n % t) + 1
           /\ (n + 1) \div t = n \div t
        \/ /\ n % t = t - 1
           /\ (n + 1) % t = 0
           /\ (n + 1) \div t = n \div t + 1
    BY DivModNext
  <1>4. Turns(t, c, n) \in Nat /\ Turns(t, c, 0) = 0
    BY <1>1, <1>2 DEF Turns
  <1>5. Turns(t, c, n + 1) = Turns(t, c, n) + IF c = (n % t) + 1 THEN 1 ELSE 0
    BY <1>1, <1>3 DEF Turns
  <1>6. ASSUME NEW d \in 1 .. t
        PROVE  Turns(t, c, n) - Turns(t, d, n) <= IF n % t = 0 THEN 0 ELSE 1
    BY <1>1 DEF Turns
  <1> QED BY <1>4, <1>5, <1>6

-----------------------------------------------------------------------------
(* Every step preserves the invariant.                                     *)

LEMMA InitInv == Init => Inv
  <1> SUFFICES ASSUME Init PROVE Inv
    OBVIOUS
  <1> USE ClientAssumption DEF Init, Contexts
  <1>1. /\ m_threads \in Seq({"running", "returned"})
        /\ thread_count \in Nat /\ Len(m_threads) = thread_count
    OBVIOUS
  <1>2. TypeOK
    <2>1. crashed \in BOOLEAN /\ (crashed => thread_count = 0)
      BY Zenon
    <2> QED BY <1>1, <2>1 DEF TypeOK
  <1>3. OpenRuns /\ LeftOnlyLate /\ StoppedIsEmpty
    BY DEF OpenRuns, Runs, LeftOnlyLate, StoppedIsEmpty
  <1> QED BY <1>2, <1>3 DEF Inv

\* A client has the contexts it was made with.
LEMMA ContextsKept ==
    ASSUME [Next]_vars PROVE thread_count' = thread_count /\ Contexts' = Contexts
  <1>1. thread_count' = thread_count
    BY DEF Next, Pick, PickNone, Spawn, Begin, End, Turn, Stop, ResetGuard, Joined,
           RunReturns, vars, fixed
  <1> QED BY <1>1 DEF Contexts

\* next() hands out a context.
LEMMA PickStep ==
    ASSUME Inv, Pick PROVE Inv'
  <1> USE ClientAssumption DEF Calls
  <1>1. TypeOK /\ OpenRuns /\ LeftOnlyLate /\ StoppedIsEmpty
    BY DEF Inv
  <1>2. /\ call \in Seq(Calls) /\ Len(call) < MaxCalls /\ current \in Nat
        /\ call' = Append(call, [st |-> "picked", at |-> Pos])
        /\ current' = (current + 1) % 2^Width
        /\ wraps' = wraps + (current + 1) \div 2^Width /\ wraps \in Nat
        /\ UNCHANGED <<guard, m_threads, main, i, late, thread_count, crashed>>
        /\ thread_count \in Nat \ {0}
    BY <1>1 DEF TypeOK, Pick, stopVars, fixed
  <1>3. Pos \in Contexts
    BY <1>2, DivMod DEF Pos, Contexts
  <1>4. [st |-> "picked", at |-> Pos] \in Calls
    BY <1>3
  <1>5. /\ call' \in Seq(Calls) /\ Len(call') = Len(call) + 1
        /\ DOMAIN call \subseteq DOMAIN call'
        /\ call'[Len(call) + 1].st = "picked"
        /\ \A x \in DOMAIN call' : x # Len(call) + 1 => x \in DOMAIN call /\ call'[x] = call[x]
    BY <1>2, <1>4
  <1>6. current' \in 0 .. 2^Width - 1 /\ wraps' \in Nat
    <2>1. current + 1 \in Nat /\ 2^Width \in Nat \ {0}
      BY <1>2
    <2>2. /\ (current + 1) % 2^Width \in 0 .. 2^Width - 1
          /\ (current + 1) \div 2^Width \in Nat
      BY <2>1, DivMod, Zenon
    <2> QED BY <1>2, <2>2
  <1>7. TypeOK'
    BY <1>1, <1>2, <1>5, <1>6 DEF TypeOK, Contexts
  <1>8. (OpenRuns /\ StoppedIsEmpty)'
    BY <1>1, <1>2 DEF OpenRuns, StoppedIsEmpty, Runs, Contexts
  <1>9. LeftOnlyLate'
    BY <1>1, <1>2, <1>5 DEF LeftOnlyLate, Runs
  <1> QED BY <1>7, <1>8, <1>9 DEF Inv

\* What is known of a call.
LEMMA CallFacts ==
    ASSUME TypeOK, NEW x \in DOMAIN call
    PROVE  /\ call[x] \in Calls /\ call[x].at \in Contexts
           /\ x \in 1 .. Len(call)
  <1>1. call \in Seq(Calls)
    BY DEF TypeOK, Calls
  <1>2. x \in 1 .. Len(call) /\ call[x] \in Calls
    BY <1>1
  <1> QED BY <1>2 DEF Calls

\* A handler that goes from one state to another leaves the rest alone.
LEMMA TurnFacts ==
    ASSUME TypeOK, NEW x \in DOMAIN call, NEW from,
           NEW to \in {"queued", "running", "done"}, Turn(x, from, to)
    PROVE  /\ call' \in Seq(Calls) /\ Len(call') = Len(call)
           /\ DOMAIN call' = DOMAIN call
           /\ call'[x].st = to
           /\ \A y \in DOMAIN call : /\ call'[y].at = call[y].at
                                     /\ y # x => call'[y] = call[y]
           /\ UNCHANGED <<current, guard, m_threads, main, i, wraps, thread_count, crashed>>
  <1>1. call \in Seq(Calls) /\ call' = [call EXCEPT ![x].st = to]
    BY DEF TypeOK, Turn, Calls
  <1>2. /\ [call[x] EXCEPT !.st = to] \in Calls
        /\ [call[x] EXCEPT !.st = to].st = to
        /\ [call[x] EXCEPT !.st = to].at = call[x].at
    BY CallFacts DEF Calls
  <1>3. call' \in Seq(Calls) /\ Len(call') = Len(call) /\ DOMAIN call' = DOMAIN call
    BY <1>1, <1>2
  <1>4. call'[x].st = to /\ call'[x].at = call[x].at
    BY <1>1, <1>2
  <1>5. \A y \in DOMAIN call : y # x => call'[y] = call[y]
    BY <1>1
  <1> QED BY <1>3, <1>4, <1>5 DEF Turn, stopVars, fixed

LEMMA CallStep ==
    ASSUME Inv, NEW x \in DOMAIN call, Spawn(x) \/ Begin(x) \/ End(x)
    PROVE  Inv'
  <1>1. TypeOK /\ OpenRuns /\ LeftOnlyLate /\ StoppedIsEmpty
    BY DEF Inv
  <1>2. \E from : \E to \in {"queued", "running", "done"} : Turn(x, from, to)
    BY Zenon DEF Spawn, Begin, End
  <1>3. /\ call' \in Seq(Calls) /\ Len(call') = Len(call)
        /\ DOMAIN call' = DOMAIN call
        /\ \A y \in DOMAIN call : /\ call'[y].at = call[y].at
                                  /\ y # x => call'[y] = call[y]
        /\ UNCHANGED <<current, guard, m_threads, main, i, wraps, thread_count, crashed>>
    BY <1>1, <1>2, TurnFacts
  <1>4. /\ late \subseteq late' /\ late' \subseteq DOMAIN call
        /\ call'[x].st = "running" => Runs(call[x].at)
        /\ call'[x].st = "queued" => main = "up" \/ x \in late'
    <2>1. CASE Spawn(x)
      BY <1>1, <2>1, TurnFacts DEF Spawn, TypeOK
    <2>2. CASE Begin(x)
      BY <1>1, <2>2, TurnFacts DEF Begin, TypeOK
    <2>3. CASE End(x)
      BY <1>1, <2>3, TurnFacts DEF End, TypeOK
    <2> QED BY <2>1, <2>2, <2>3
  <1>5. TypeOK'
    BY <1>1, <1>3, <1>4 DEF TypeOK, Calls, Contexts
  <1>6. (OpenRuns /\ StoppedIsEmpty)'
    BY <1>1, <1>3 DEF OpenRuns, StoppedIsEmpty, Runs, Contexts
  <1>7. call[x].at \in Contexts
    BY <1>1, CallFacts
  <1>8. LeftOnlyLate'
    BY <1>1, <1>3, <1>4, <1>7 DEF LeftOnlyLate, OpenRuns, Runs
  <1> QED BY <1>5, <1>6, <1>8 DEF Inv

\* stop() and its loop: the contexts lose their guards and run on.
LEMMA StopStep ==
    ASSUME Inv, Stop \/ ResetGuard PROVE Inv'
  <1> USE ClientAssumption
  <1>1. TypeOK /\ OpenRuns /\ LeftOnlyLate /\ StoppedIsEmpty
    BY DEF Inv
  <1>2. /\ UNCHANGED <<current, call, m_threads, wraps, late, thread_count, crashed>>
        /\ guard' \subseteq guard /\ i' \in Contexts \cup {1}
        /\ main' \in {"resetting", "joining"}
        /\ main' = "resetting" => thread_count # 0
    <2>1. CASE Stop
      BY <2>1 DEF Stop, fixed
    <2>2. CASE ResetGuard
      <3>1. /\ thread_count \in Nat \ {0} /\ i \in 1 .. thread_count
            /\ i' = IF i = thread_count THEN 1 ELSE i + 1
        BY <1>1, <2>2 DEF ResetGuard, TypeOK, OpenRuns, Contexts
      <3>2. i' \in Contexts
        BY <3>1 DEF Contexts
      <3> QED BY <2>2, <3>1, <3>2 DEF ResetGuard, fixed
    <2> QED BY <2>1, <2>2
  <1>3. TypeOK'
    BY <1>1, <1>2 DEF TypeOK, Contexts
  <1> QED BY <1>1, <1>2, <1>3 DEF Inv, OpenRuns, LeftOnlyLate, StoppedIsEmpty, Runs

\* What is left when every thread has returned was spawned late.
LEMMA JoinedStep ==
    ASSUME Inv, Joined PROVE Inv'
  <1>1. TypeOK /\ OpenRuns /\ LeftOnlyLate /\ StoppedIsEmpty
    BY DEF Inv
  <1>2. /\ UNCHANGED <<current, call, guard, i, wraps, late, thread_count, crashed>>
        /\ main' = "stopped" /\ m_threads' = << >>
        /\ \A c \in DOMAIN m_threads : m_threads[c] = "returned"
    BY DEF Joined, ToSet, fixed
  <1>3. TypeOK'
    BY <1>1, <1>2 DEF TypeOK, Contexts
  <1>4. LeftOnlyLate'
    BY <1>1, <1>2 DEF LeftOnlyLate, Runs
  <1> QED BY <1>2, <1>3, <1>4 DEF Inv, OpenRuns, StoppedIsEmpty

\* A context that returns has nothing left to run.
LEMMA RunReturnsStep ==
    ASSUME Inv, NEW c \in Contexts, RunReturns(c) PROVE Inv'
  <1>1. TypeOK /\ OpenRuns /\ LeftOnlyLate /\ StoppedIsEmpty
    BY DEF Inv
  <1>2. /\ c \in DOMAIN m_threads /\ c \notin guard
        /\ m_threads' = [m_threads EXCEPT ![c] = "returned"]
        /\ \A x \in DOMAIN call : call[x].at = c => call[x].st \notin {"queued", "running"}
        /\ UNCHANGED <<current, call, guard, main, i, wraps, late, thread_count, crashed>>
    BY DEF RunReturns, Runs, OnContext, fixed
  <1>3. /\ m_threads' \in Seq({"running", "returned"}) /\ Len(m_threads') = Len(m_threads)
        /\ \A d \in Contexts : d # c => (Runs(d) <=> Runs(d)')
    BY <1>1, <1>2 DEF TypeOK, Runs
  <1>4. TypeOK'
    BY <1>1, <1>2, <1>3 DEF TypeOK, Contexts
  <1>5. main # "up"
    BY <1>1, <1>2 DEF OpenRuns
  <1>6. LeftOnlyLate'
    <2> SUFFICES ASSUME NEW x \in DOMAIN call
                 PROVE  /\ call[x].st = "running" => Runs(call[x].at)'
                        /\ call[x].st = "queued" => Runs(call[x].at)' \/ x \in late
      BY <1>2 DEF LeftOnlyLate, Runs
    <2>1. call[x].at \in Contexts
      BY <1>1, CallFacts
    <2> QED BY <1>1, <1>2, <1>3, <2>1 DEF LeftOnlyLate
  <1>7. StoppedIsEmpty'
    BY <1>1, <1>2, <1>3 DEF StoppedIsEmpty
  <1> QED BY <1>2, <1>4, <1>5, <1>6, <1>7 DEF Inv, OpenRuns

\* A process that dies changes nothing else.
LEMMA PickNoneStep ==
    ASSUME Inv, PickNone PROVE Inv'
  <1>1. TypeOK /\ OpenRuns /\ LeftOnlyLate /\ StoppedIsEmpty
    BY DEF Inv
  <1>2. /\ UNCHANGED <<current, call, guard, m_threads, main, i, wraps, late, thread_count>>
        /\ thread_count = 0 /\ crashed' = TRUE
    BY DEF PickNone, stopVars
  <1>3. TypeOK'
    <2>1. crashed' \in BOOLEAN /\ (crashed' => thread_count' = 0)
      BY <1>2
    <2> QED BY <1>1, <1>2, <2>1 DEF TypeOK, Contexts
  <1> QED BY <1>1, <1>2, <1>3
          DEF Inv, OpenRuns, LeftOnlyLate, StoppedIsEmpty, Runs, Contexts

LEMMA NextInv == Inv /\ [Next]_vars => Inv'
  <1> SUFFICES ASSUME Inv, [Next]_vars PROVE Inv'
    OBVIOUS
  <1>1. CASE Pick
    BY <1>1, PickStep
  <1>2. CASE \E x \in DOMAIN call : Spawn(x) \/ Begin(x) \/ End(x)
    BY <1>2, CallStep
  <1>3. CASE Stop \/ ResetGuard
    BY <1>3, StopStep
  <1>4. CASE Joined
    BY <1>4, JoinedStep
  <1>5. CASE \E c \in Contexts : RunReturns(c)
    BY <1>5, RunReturnsStep
  <1>6. CASE UNCHANGED vars
    BY <1>6 DEF Inv, TypeOK, OpenRuns, LeftOnlyLate, StoppedIsEmpty, Runs, Contexts,
                vars, stopVars, fixed
  <1>7. CASE PickNone
    BY <1>7, PickNoneStep
  <1> QED BY <1>1, <1>2, <1>3, <1>4, <1>5, <1>6, <1>7 DEF Next

\* Every state a behaviour reaches satisfies the inductive invariant.
THEOREM Invariance == Spec => []Inv
  BY InitInv, NextInv, PTL DEF Spec

\* Every variable stays in its range: next() indexes a context that exists.
THEOREM TypeCorrect == Spec => []TypeOK
  BY Invariance, PTL DEF Inv

\* stop() runs every handler spawned before it to its end, and leaves behind
\* none but those that were spawned during or after it.
THEOREM NothingDroppedTheorem == Spec => []NothingDropped
  <1>1. Inv => NothingDropped
    <2> SUFFICES ASSUME Inv, m_threads = << >>, NEW x \in DOMAIN call,
                        call[x].st \in {"queued", "running"}
                 PROVE  x \in late
      BY DEF NothingDropped
    <2>1. ~Runs(call[x].at)
      BY DEF Runs
    <2> QED BY <2>1 DEF Inv, LeftOnlyLate
  <1> QED BY <1>1, Invariance, PTL

-----------------------------------------------------------------------------
(* The round robin.                                                        *)

\* What the first n numbers of the counter deal to a context of the client.
Dealt(c, n) == Turns(thread_count, c, n)

LEMMA DealtFacts ==
    ASSUME thread_count \in Nat \ {0}, NEW c \in Contexts, NEW n \in Nat
    PROVE  /\ Dealt(c, n) \in Nat /\ Dealt(c, 0) = 0
           /\ Dealt(c, n + 1) = Dealt(c, n) + IF c = (n % thread_count) + 1 THEN 1 ELSE 0
           /\ \A d \in Contexts :
                 Dealt(c, n) - Dealt(d, n) <= IF n % thread_count = 0 THEN 0 ELSE 1
  BY TurnsFacts DEF Dealt, Contexts

\* A context exists only if there are some.
LEMMA SomeContexts ==
    ASSUME thread_count \in 0 .. MaxThreads, NEW c \in Contexts
    PROVE  thread_count \in Nat \ {0}
  BY ClientAssumption DEF Contexts

\* The calls that a counter which started at 0 and overflowed wraps times has
\* dealt to context c.
CountedAt(c) ==
    /\ IsFiniteSet({x \in DOMAIN call : call[x].at = c})
    /\ Picks(c) = wraps * Dealt(c, 2^Width) + Dealt(c, current)

Counted == \A c \in Contexts : CountedAt(c)

LEMMA CountedInit == Init => Counted
  <1> SUFFICES ASSUME Init, NEW c \in Contexts PROVE CountedAt(c)
    BY DEF Counted
  <1>0. thread_count \in Nat \ {0}
    BY SomeContexts DEF Init
  <1>1. {x \in DOMAIN call : call[x].at = c} = {} /\ wraps = 0 /\ current = 0
    BY DEF Init
  <1>2. Dealt(c, 2^Width) \in Nat /\ Dealt(c, 0) = 0
    BY ClientAssumption, <1>0, DealtFacts
  <1>3. wraps * Dealt(c, 2^Width) + Dealt(c, current) = 0
    BY <1>1, <1>2
  <1>4. IsFiniteSet({}) /\ Cardinality({}) = 0
    BY FS_EmptySet
  <1> QED BY <1>1, <1>3, <1>4 DEF Picks, CountedAt

\* fetch_add deals the call to the next context in turn, also when it
\* overflows.
LEMMA CountedPick ==
    ASSUME Inv, Counted, Pick, NEW c \in Contexts
    PROVE  CountedAt(c)'
  <1> USE ClientAssumption
  <1> DEFINE On == {x \in DOMAIN call : call[x].at = c}
             N == 2^Width
  <1>1. /\ call \in Seq(Calls) /\ current \in 0 .. N - 1 /\ N \in Nat \ {0}
        /\ call' = Append(call, [st |-> "picked", at |-> Pos])
        /\ current' = (current + 1) % N
        /\ wraps' = wraps + (current + 1) \div N /\ wraps \in Nat
        /\ thread_count' = thread_count /\ thread_count \in Nat \ {0}
    BY DEF Inv, TypeOK, Pick, Calls, fixed
  <1>2. IsFiniteSet(On) /\ Cardinality(On) = wraps * Dealt(c, N) + Dealt(c, current)
    BY DEF Counted, CountedAt, Picks
  <1> DEFINE new == Len(call) + 1
             On2 == {x \in DOMAIN call' : call'[x].at = c}
  <1>3. /\ new \notin On /\ DOMAIN call' = DOMAIN call \cup {new}
        /\ call'[new].at = Pos /\ \A x \in DOMAIN call : call'[x] = call[x]
    BY <1>1
  <1>4. On2 = IF c = Pos THEN On \cup {new} ELSE On
    BY <1>3
  <1> HIDE DEF On, On2, new
  <1>5. /\ IsFiniteSet(On2)
        /\ Cardinality(On2) = Cardinality(On) + IF c = Pos THEN 1 ELSE 0
    <2>1. Cardinality(On) \in Nat
      BY <1>2, FS_CardinalityType
    <2>2. IsFiniteSet(On \cup {new}) /\ Cardinality(On \cup {new}) = Cardinality(On) + 1
      BY <1>2, <1>3, FS_AddElement
    <2> QED BY <1>2, <1>4, <2>1, <2>2
  <1>6. /\ Dealt(c, N) \in Nat /\ Dealt(c, current) \in Nat /\ Dealt(c, 0) = 0
        /\ Dealt(c, current + 1) = Dealt(c, current) + IF c = Pos THEN 1 ELSE 0
    <2>1. current \in Nat /\ N \in Nat
      BY <1>1
    <2>2. Dealt(c, N) \in Nat /\ Dealt(c, 0) = 0
      BY <1>1, <2>1, DealtFacts
    <2>3. /\ Dealt(c, current) \in Nat
          /\ Dealt(c, current + 1)
               = Dealt(c, current) + IF c = (current % thread_count) + 1 THEN 1 ELSE 0
      BY <1>1, <2>1, DealtFacts, Zenon
    <2> QED BY <2>2, <2>3 DEF Pos
  <1>7. \/ wraps' = wraps /\ current' = current + 1
        \/ wraps' = wraps + 1 /\ current' = 0 /\ current + 1 = N
    <2> HIDE DEF N
    <2>1. \/ (current + 1) % N = current + 1 /\ (current + 1) \div N = 0
          \/ current + 1 = N /\ (current + 1) % N = 0 /\ (current + 1) \div N = 1
      BY <1>1, Overflow
    <2> QED BY <1>1, <2>1
  <1>8. (wraps + 1) * Dealt(c, N) = wraps * Dealt(c, N) + Dealt(c, N)
    BY <1>1, <1>6
  <1>9. Cardinality(On2) = wraps' * Dealt(c, N) + Dealt(c, current')
    <2> DEFINE t == Dealt(c, N)
               a == wraps * t
    <2>1. t \in Nat /\ a \in Nat
      BY <1>1, <1>6
    <2>2. Cardinality(On2) = a + Dealt(c, current + 1)
      BY <1>2, <1>5, <1>6, <2>1
    <2>3. (wraps + 1) * t = a + t
      BY <1>8
    <2> HIDE DEF a
    <2>4. CASE wraps' = wraps /\ current' = current + 1
      BY <2>2, <2>4 DEF a
    <2>5. CASE wraps' = wraps + 1 /\ current' = 0 /\ current + 1 = N
      <3>1. wraps' * t + Dealt(c, current') = a + t
        BY <1>6, <2>1, <2>3, <2>5
      <3> QED BY <2>2, <2>5, <3>1
    <2> QED BY <1>7, <2>4, <2>5
  <1>10. Dealt(c, N)' = Dealt(c, N) /\ Dealt(c, current)' = Dealt(c, current')
    BY <1>1 DEF Dealt
  <1> QED BY <1>5, <1>9, <1>10 DEF Picks, On2, CountedAt

\* No other step deals a call or moves one to another context.
LEMMA CountedNext == Inv /\ Counted /\ [Next]_vars => Counted'
  <1> SUFFICES ASSUME Inv, Counted, [Next]_vars, NEW c \in Contexts PROVE CountedAt(c)'
    BY ContextsKept, Zenon DEF Counted
  <1>0. CountedAt(c) /\ thread_count' = thread_count
    BY ContextsKept DEF Counted
  <1>1. CASE Pick
    BY <1>1, CountedPick
  <1>2. ASSUME UNCHANGED <<current, wraps>>, DOMAIN call' = DOMAIN call,
               \A x \in DOMAIN call : call'[x].at = call[x].at
        PROVE  CountedAt(c)'
    <2>1. {x \in DOMAIN call' : call'[x].at = c} = {x \in DOMAIN call : call[x].at = c}
      BY <1>2
    <2>2. Picks(c)' = Picks(c)
      BY <2>1 DEF Picks
    <2>3. (Dealt(c, 2^Width) = Dealt(c, 2^Width)') /\ (Dealt(c, current) = Dealt(c, current)')
      BY <1>0, <1>2 DEF Dealt
    <2> QED BY <1>0, <1>2, <2>1, <2>2, <2>3 DEF CountedAt
  <1>3. CASE \E x \in DOMAIN call : Spawn(x) \/ Begin(x) \/ End(x)
    <2>1. PICK x \in DOMAIN call : Spawn(x) \/ Begin(x) \/ End(x)
      BY <1>3
    <2>2. \E from : \E to \in {"queued", "running", "done"} : Turn(x, from, to)
      BY <2>1, Zenon DEF Spawn, Begin, End
    <2>3. TypeOK
      BY DEF Inv
    <2>4. /\ DOMAIN call' = DOMAIN call /\ UNCHANGED <<current, wraps>>
          /\ \A y \in DOMAIN call : call'[y].at = call[y].at
      BY <2>2, <2>3, TurnFacts
    <2> QED BY <1>2, <2>4
  <1>4. CASE \/ PickNone \/ Stop \/ ResetGuard \/ Joined
             \/ (\E d \in Contexts : RunReturns(d)) \/ UNCHANGED vars
    <2>1. UNCHANGED <<current, call, wraps>>
      BY <1>4 DEF PickNone, Stop, ResetGuard, Joined, RunReturns, vars
    <2> QED BY <1>2, <2>1
  <1> QED BY <1>1, <1>3, <1>4 DEF Next

\* However callers interleave, no context is ahead of another by more than
\* one call and one for each overflow, and by no more than one call if
\* thread_count divides the range of the counter.
THEOREM BalancedTheorem == Spec => []Balanced
  <1>1. Inv /\ Counted => Balanced
    <2> SUFFICES ASSUME Inv, Counted, NEW c \in Contexts, NEW d \in Contexts
                 PROVE  Picks(c) - Picks(d)
                          <= 1 + IF (2^Width) % thread_count = 0 THEN 0 ELSE wraps
      BY DEF Balanced
    <2> DEFINE N == 2^Width
               tc == Dealt(c, N)
               td == Dealt(d, N)
               uc == Dealt(c, current)
               ud == Dealt(d, current)
    <2>1. current \in Nat /\ wraps \in Nat /\ N \in Nat
      BY ClientAssumption DEF Inv, TypeOK
    <2>0. thread_count \in Nat \ {0}
      BY SomeContexts DEF Inv, TypeOK
    <2>2. /\ tc \in Nat /\ td \in Nat /\ uc \in Nat /\ ud \in Nat /\ uc - ud <= 1
          /\ tc - td <= IF N % thread_count = 0 THEN 0 ELSE 1
      <3>1. tc \in Nat /\ td \in Nat /\ uc \in Nat /\ ud \in Nat
        BY <2>0, <2>1, DealtFacts, Zenon
      <3>2. uc - ud <= IF current % thread_count = 0 THEN 0 ELSE 1
        BY <2>0, <2>1, DealtFacts, Zenon
      <3>3. tc - td <= IF N % thread_count = 0 THEN 0 ELSE 1
        BY <2>0, <2>1, DealtFacts, Zenon
      <3> HIDE DEF tc, td, uc, ud, N
      <3>4. uc - ud <= 1
        BY <3>1, <3>2
      <3> QED BY <3>1, <3>3, <3>4
    <2>3. Picks(c) = wraps * tc + uc /\ Picks(d) = wraps * td + ud
      BY DEF Counted, CountedAt
    <2> HIDE DEF tc, td, uc, ud, N
    <2>4. wraps * tc - wraps * td = wraps * (tc - td)
      BY <2>1, <2>2
    <2>5. wraps * (tc - td) <= IF N % thread_count = 0 THEN 0 ELSE wraps
      BY <2>1, <2>2
    <2>6. wraps * tc \in Nat /\ wraps * td \in Nat
      BY <2>1, <2>2
    <2>7. Picks(c) - Picks(d) <= 1 + IF N % thread_count = 0 THEN 0 ELSE wraps
      BY <2>1, <2>2, <2>3, <2>4, <2>5, <2>6
    <2> QED BY <2>7 DEF N
  <1> QED BY <1>1, CountedInit, CountedNext, Invariance, PTL DEF Spec

-----------------------------------------------------------------------------
(* The client implements Drain.                                            *)

ServedPhase == IF m_threads = << >> THEN "off"
               ELSE IF main = "up" THEN "on" ELSE "closing"
ServedActive == {x \in DOMAIN call : call[x].st = "running"}

\* Nothing runs on a context whose thread has returned.
LEMMA RunningRuns ==
    ASSUME Inv, NEW x \in ServedActive
    PROVE  Runs(call[x].at) /\ m_threads # << >>
  BY DEF Inv, LeftOnlyLate, ServedActive, Runs

LEMMA InitRefines == Init => Served!Init
  <1> SUFFICES ASSUME Init PROVE Served!Init
    OBVIOUS
  <1>1. main = "up" /\ call = << >>
    BY DEF Init
  <1> QED BY <1>1 DEF Served!Init

\* A handler begins and ends only while the threads live.
LEMMA CallRefines ==
    ASSUME Inv, NEW x \in DOMAIN call, Spawn(x) \/ Begin(x) \/ End(x)
    PROVE  Served!Next \/ UNCHANGED Served!vars
  <1>0. TypeOK
    BY DEF Inv
  <1>1. ServedPhase' = ServedPhase
    BY DEF Spawn, Begin, End, Turn, stopVars, ServedPhase
  <1>2. CASE Spawn(x)
    <2>1. call[x].st = "picked" /\ Turn(x, "picked", "queued")
      BY <1>2 DEF Spawn, Turn
    <2>2. ServedActive' = ServedActive
      BY <1>0, <2>1, TurnFacts DEF ServedActive
    <2> QED BY <1>1, <2>2 DEF Served!vars, ServedActive, ServedPhase
  <1>3. CASE Begin(x)
    <2>1. call[x].st = "queued" /\ Turn(x, "queued", "running") /\ m_threads # << >>
      BY <1>3 DEF Begin, Turn, Runs
    <2>2. ServedActive' = ServedActive \cup {x} /\ x \notin ServedActive
      BY <1>0, <2>1, TurnFacts DEF ServedActive
    <2>3. ServedPhase # "off"
      BY <2>1 DEF ServedPhase
    <2>4. Served!Begin(x) /\ x \in ServedActive'
      BY <1>1, <2>2, <2>3 DEF Served!Begin, ServedActive, ServedPhase
    <2> QED BY <2>4 DEF Served!Next, ServedActive
  <1>4. CASE End(x)
    <2>1. call[x].st = "running" /\ Turn(x, "running", "done")
      BY <1>4 DEF End, Turn
    <2>2. ServedActive' = ServedActive \ {x} /\ x \in ServedActive
      BY <1>0, <2>1, TurnFacts DEF ServedActive
    <2>3. Served!End(x)
      BY <1>1, <2>2 DEF Served!End, ServedActive, ServedPhase
    <2> QED BY <2>2, <2>3 DEF Served!Next, ServedActive
  <1> QED BY <1>2, <1>3, <1>4

LEMMA NextRefines ==
    ASSUME Inv, Next PROVE Served!Next \/ UNCHANGED Served!vars
  <1>0. TypeOK /\ OpenRuns /\ LeftOnlyLate /\ StoppedIsEmpty
    BY DEF Inv
  <1>1. CASE Pick
    <2>1. UNCHANGED <<m_threads, main>> /\ ServedActive' = ServedActive
      <3>1. call \in Seq(Calls) /\ call' = Append(call, [st |-> "picked", at |-> Pos])
        BY <1>0, <1>1 DEF TypeOK, Pick, Calls
      <3>2. /\ DOMAIN call' = DOMAIN call \cup {Len(call) + 1}
            /\ call'[Len(call) + 1].st = "picked"
            /\ \A x \in DOMAIN call : call'[x] = call[x]
        BY <3>1
      <3> QED BY <1>1, <3>2 DEF ServedActive, Pick, stopVars
    <2> QED BY <2>1 DEF Served!vars, ServedActive
  <1>2. CASE \E x \in DOMAIN call : Spawn(x) \/ Begin(x) \/ End(x)
    BY <1>2, CallRefines
  <1>3. CASE Stop
    <2>1. /\ UNCHANGED <<call, m_threads>>
          /\ main \in {"up", "stopped"} /\ main' \in {"resetting", "joining"}
      BY <1>3 DEF Stop
    <2>2. CASE m_threads = << >>
      BY <2>1, <2>2 DEF Served!vars
    <2>3. CASE m_threads # << >>
      <3>1. main = "up"
        BY <1>0, <2>1, <2>3 DEF StoppedIsEmpty
      <3>2. Served!Close
        BY <2>1, <2>3, <3>1 DEF Served!Close
      <3> QED BY <3>2 DEF Served!Next
    <2> QED BY <2>2, <2>3
  <1>4. CASE ResetGuard
    BY <1>4 DEF ResetGuard, Served!vars
  <1>5. CASE Joined
    <2>1. /\ UNCHANGED call /\ main = "joining" /\ main' = "stopped" /\ m_threads' = << >>
          /\ \A c \in DOMAIN m_threads : m_threads[c] = "returned"
      BY <1>5 DEF Joined, ToSet
    <2>2. ServedActive = {}
      BY <2>1, RunningRuns DEF Runs
    <2>3. CASE m_threads = << >>
      BY <2>1, <2>3 DEF Served!vars
    <2>4. CASE m_threads # << >>
      BY <2>1, <2>2, <2>4 DEF Served!Next, Served!Finish, ServedActive
    <2> QED BY <2>3, <2>4
  <1>6. CASE \E c \in Contexts : RunReturns(c)
    <2>1. PICK c \in Contexts : RunReturns(c)
      BY <1>6
    <2>2. /\ m_threads' = [m_threads EXCEPT ![c] = "returned"] /\ c \in DOMAIN m_threads
          /\ UNCHANGED <<call, main>>
      BY <2>1 DEF RunReturns, Runs
    <2>3. m_threads # << >> /\ m_threads' # << >>
      BY <1>0, <2>2 DEF TypeOK
    <2> QED BY <2>2, <2>3 DEF Served!vars
  <1>7. CASE PickNone
    BY <1>7 DEF PickNone, stopVars, Served!vars
  <1> QED BY <1>1, <1>2, <1>3, <1>4, <1>5, <1>6, <1>7 DEF Next

\* stop() returns when no handler is running, and none begins afterwards: the
\* client implements Drain.
THEOREM DrainRefinement == Spec => ClientIsDrain
  <1>1. UNCHANGED vars => UNCHANGED Served!vars
    BY DEF vars, stopVars, Served!vars
  <1>2. Inv /\ [Next]_vars => [Served!Next]_(Served!vars)
    BY <1>1, NextRefines
  <1> QED BY InitRefines, Invariance, <1>2, PTL DEF Spec, ClientIsDrain, Served!Spec
=============================================================================
