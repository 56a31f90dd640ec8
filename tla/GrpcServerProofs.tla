--------------------------- MODULE GrpcServerProofs ---------------------------
(***************************************************************************)
(* Theorems of GrpcServer.tla, for every number of contexts, rpcs, calls   *)
(* and attempts: the type invariant, that a stopped server can be started  *)
(* again, that the server implements Drain, and when stop() hangs.         *)
(***************************************************************************)
EXTENDS GrpcServer, TLAPS

-----------------------------------------------------------------------------
(* The inductive invariant.                                                *)

\* What start() appends to: nothing after stop(), and the contexts of this
\* very attempt if it was the only one since.
FreshContexts ==
    /\ tries = 0 => m_grpc_contexts = << >>
    /\ tries = 1 => \A i \in DOMAIN m_grpc_contexts : m_grpc_contexts[i] = attempt

Active == {c \in Calls : call[c].st \in {"matched", "running"}}

\* A context that holds a call is still run, or blocked in Shutdown.
HeldIsRun ==
    \A c \in Active :
        /\ call[c].at \in DOMAIN m_threads
        /\ m_threads[call[c].at] \in {"running", "blocked"}

Inv == TypeOK /\ FreshContexts /\ CleanRestart /\ HeldIsRun

States == {"registering", "running", "blocked", "returned"}

Served_ == [st : {"matched", "running", "ended"}, at : 1 .. thread_count,
            kind : Kinds, gone : BOOLEAN]

LEMMA InitInv == Init => Inv
  <1> SUFFICES ASSUME Init PROVE Inv
    OBVIOUS
  <1> USE ServerAssumption DEF Init, NoCall
  <1>1. << >> \in Seq(1 .. attempt) /\ << >> \in Seq(States)
    OBVIOUS
  <1>2. Len(m_grpc_contexts) <= attempt * thread_count
    OBVIOUS
  <1>3. call \in [Calls -> {NoCall} \cup Served_]
    OBVIOUS
  <1>4. /\ Len(m_threads) \in {0, thread_count}
        /\ Len(m_threads) <= Len(m_grpc_contexts)
    OBVIOUS
  <1>5. /\ callbacks \subseteq Kinds /\ m_server_ptr \in {"null", "up", "shutting", "down"}
        /\ attempt \in 0 .. MaxStart /\ main \in {"out", "joining"}
        /\ posted \in BOOLEAN /\ tries \in 0 .. attempt /\ aborted \in BOOLEAN
    <2>1. attempt = 0 /\ tries = 0 /\ 0 \in 0 .. 0 /\ 0 \in 0 .. MaxStart
      OBVIOUS
    <2>2. posted \in BOOLEAN /\ aborted \in BOOLEAN
      BY Zenon
    <2> QED BY <2>1, <2>2
  <1>6. m_grpc_contexts \in Seq(1 .. attempt) /\ m_threads \in Seq(States)
    BY <1>1
  <1> HIDE DEF Init, NoCall
  <1>7. TypeOK
    BY <1>2, <1>3, <1>4, <1>5, <1>6 DEF TypeOK, States, Served_
  <1>8. FreshContexts /\ CleanRestart /\ HeldIsRun
    BY DEF Init, NoCall, FreshContexts, CleanRestart, HeldIsRun, Active
  <1> QED BY <1>7, <1>8 DEF Inv

-----------------------------------------------------------------------------
(* The program.                                                            *)

LEMMA ConcatFacts ==
    ASSUME NEW S, NEW s \in Seq(S), NEW t \in Seq(S)
    PROVE  s \o t \in Seq(S) /\ Len(s \o t) = Len(s) + Len(t)
  OBVIOUS

\* start() appends contexts of its own to those it finds.
LEMMA ContextsFacts ==
    ASSUME TypeOK
    PROVE  /\ MakeContexts \in Seq(1 .. attempt + 1)
           /\ Len(MakeContexts) = Len(m_grpc_contexts) + thread_count
           /\ m_grpc_contexts = << >> =>
                \A i \in DOMAIN MakeContexts : MakeContexts[i] = attempt + 1
  <1> USE ServerAssumption
  <1> DEFINE new == [i \in 1 .. thread_count |-> attempt + 1]
  <1>1. attempt \in Nat /\ m_grpc_contexts \in Seq(1 .. attempt)
    BY DEF TypeOK
  <1>2. m_grpc_contexts \in Seq(1 .. attempt + 1)
    BY <1>1
  <1>3. /\ new \in Seq(1 .. attempt + 1) /\ Len(new) = thread_count
        /\ \A i \in 1 .. thread_count : new[i] = attempt + 1
    BY <1>1
  <1>4. MakeContexts = m_grpc_contexts \o new
    BY DEF MakeContexts
  <1> HIDE DEF new
  <1>5. /\ MakeContexts \in Seq(1 .. attempt + 1)
        /\ Len(MakeContexts) = Len(m_grpc_contexts) + thread_count
    BY <1>1, <1>2, <1>3, <1>4, ConcatFacts
  <1>6. ASSUME m_grpc_contexts = << >>
        PROVE  MakeContexts = new
    BY <1>3, <1>4, <1>6
  <1> QED BY <1>3, <1>5, <1>6

LEMMA AttemptStep ==
    ASSUME Inv, Attempt,
           \/ m_server_ptr' = "null" /\ UNCHANGED m_threads
           \/ /\ m_server_ptr' = "up"
              /\ m_threads' = [i \in 1 .. thread_count |-> "registering"]
    PROVE  Inv'
  <1> USE ServerAssumption
  <1>1. TypeOK /\ FreshContexts /\ CleanRestart /\ HeldIsRun
    BY DEF Inv
  <1>2. /\ attempt < MaxStart /\ attempt \in Nat /\ attempt' = attempt + 1
        /\ tries' = tries + 1 /\ tries \in 0 .. attempt /\ m_threads = << >>
        /\ m_grpc_contexts' = MakeContexts
        /\ Len(m_grpc_contexts) <= attempt * thread_count
        /\ UNCHANGED <<callbacks, posted, main, call, aborted>>
    BY <1>1 DEF Attempt, TypeOK
  <1>3. /\ m_grpc_contexts' \in Seq(1 .. attempt')
        /\ Len(m_grpc_contexts') = Len(m_grpc_contexts) + thread_count
        /\ Len(m_grpc_contexts) \in Nat
        /\ m_grpc_contexts = << >> =>
             \A i \in DOMAIN m_grpc_contexts' : m_grpc_contexts'[i] = attempt'
    BY <1>1, <1>2, ContextsFacts DEF TypeOK
  <1>4. /\ m_threads' \in Seq(States) /\ Len(m_threads') \in {0, thread_count}
        /\ m_threads' = << >> \/ Len(m_threads') = thread_count
    <2>1. << >> \in Seq(States) /\ Len(<< >>) = 0
      OBVIOUS
    <2>2. /\ [i \in 1 .. thread_count |-> "registering"] \in Seq(States)
          /\ Len([i \in 1 .. thread_count |-> "registering"]) = thread_count
      BY DEF States
    <2> QED BY <1>2, <2>1, <2>2
  <1>5. (attempt + 1) * thread_count = attempt * thread_count + thread_count
    BY <1>2
  <1>6. Len(m_grpc_contexts') <= attempt' * thread_count
    <2> DEFINE a == attempt * thread_count
    <2>1. a \in Nat
      BY <1>2
    <2>2. attempt' * thread_count = a + thread_count
      BY <1>2, <1>5
    <2>3. Len(m_grpc_contexts) <= a
      BY <1>2
    <2> HIDE DEF a
    <2> QED BY <1>3, <2>1, <2>2, <2>3
  <1>7. Len(m_threads') <= Len(m_grpc_contexts')
    BY <1>3, <1>4
  <1>8. /\ attempt' \in 0 .. MaxStart /\ tries' \in 0 .. attempt'
        /\ m_server_ptr' \in {"null", "up"}
    BY <1>2
  <1>9. TypeOK'
    BY <1>1, <1>2, <1>3, <1>4, <1>6, <1>7, <1>8 DEF TypeOK, States
  <1>10. FreshContexts'
    BY <1>1, <1>2, <1>3 DEF FreshContexts
  <1>11. CleanRestart'
    BY <1>1, <1>2 DEF CleanRestart
  <1>12. HeldIsRun'
    <2>1. Active = {}
      BY <1>1, <1>2 DEF HeldIsRun
    <2> QED BY <1>2, <2>1 DEF HeldIsRun, Active
  <1> QED BY <1>9, <1>10, <1>11, <1>12 DEF Inv

\* setCallback, and stop() up to the joins.
LEMMA ProgramStep ==
    ASSUME Inv, Stop \/ \E k \in Kinds : SetCallback(k) PROVE Inv'
  <1>1. TypeOK /\ FreshContexts /\ CleanRestart /\ HeldIsRun
    BY DEF Inv
  <1>2. /\ UNCHANGED <<serverVars, call, tries, aborted>>
        /\ callbacks' \subseteq Kinds /\ posted' \in BOOLEAN
        /\ main' \in {"out", "joining"}
    BY <1>1 DEF Stop, SetCallback, TypeOK
  <1>3. TypeOK'
    BY <1>1, <1>2 DEF TypeOK, serverVars
  <1> QED BY <1>1, <1>2, <1>3
          DEF Inv, FreshContexts, CleanRestart, HeldIsRun, Active, serverVars

\* When every thread has returned no call is held.
LEMMA JoinedFacts ==
    ASSUME Inv, Joined PROVE Active = {}
  <1>1. HeldIsRun /\ \A i \in DOMAIN m_threads : m_threads[i] = "returned"
    BY DEF Inv, Joined, ToSet
  <1> QED BY <1>1 DEF HeldIsRun

LEMMA JoinedStep ==
    ASSUME Inv, ~aborted, Joined PROVE Inv'
  <1> USE ServerAssumption
  <1>1. TypeOK /\ CleanRestart /\ Active = {}
    BY JoinedFacts DEF Inv
  <1>2. /\ main' = "out" /\ posted' = FALSE /\ tries' = 0
        /\ m_grpc_contexts' = << >> /\ m_threads' = << >>
        /\ UNCHANGED <<callbacks, m_server_ptr, attempt, call, aborted>>
    BY DEF Joined
  <1>3. attempt * thread_count \in Nat /\ attempt \in Nat
    BY <1>1 DEF TypeOK
  <1>4. /\ << >> \in Seq(1 .. attempt) /\ << >> \in Seq(States) /\ Len(<< >>) = 0
        /\ 0 \in 0 .. attempt
    BY <1>3
  <1>5. TypeOK'
    <2>1. (/\ m_grpc_contexts \in Seq(1 .. attempt) /\ m_threads \in Seq(States)
           /\ Len(m_grpc_contexts) <= attempt * thread_count
           /\ Len(m_threads) \in {0, thread_count}
           /\ Len(m_threads) <= Len(m_grpc_contexts))'
      BY <1>2, <1>3, <1>4
    <2>2. (/\ callbacks \subseteq Kinds /\ m_server_ptr \in {"null", "up", "shutting", "down"}
           /\ attempt \in 0 .. MaxStart /\ main \in {"out", "joining"}
           /\ posted \in BOOLEAN /\ tries \in 0 .. attempt /\ aborted \in BOOLEAN
           /\ call \in [Calls -> {NoCall} \cup Served_])'
      BY <1>1, <1>2, <1>4 DEF TypeOK, Served_
    <2> QED BY <2>1, <2>2 DEF TypeOK, States, Served_
  <1>6. Active' = {}
    BY <1>1, <1>2 DEF Active
  <1>7. (FreshContexts /\ CleanRestart)'
    BY <1>1, <1>2 DEF FreshContexts, CleanRestart
  <1> QED BY <1>5, <1>6, <1>7 DEF Inv, HeldIsRun

-----------------------------------------------------------------------------
(* The threads.                                                            *)

\* A thread that goes from one state to another leaves the others alone.
LEMMA GoFacts ==
    ASSUME TypeOK, NEW i, NEW from, NEW to \in States, Go(i, from, to)
    PROVE  /\ i \in DOMAIN m_threads /\ m_threads[i] = from
           /\ m_threads' \in Seq(States) /\ Len(m_threads') = Len(m_threads)
           /\ DOMAIN m_threads' = DOMAIN m_threads /\ m_threads'[i] = to
           /\ \A j \in DOMAIN m_threads : j # i => m_threads'[j] = m_threads[j]
  <1>1. m_threads \in Seq(States)
    BY DEF TypeOK, States
  <1> QED BY <1>1 DEF Go

\* What a step of a thread keeps.
LEMMA ThreadFrame ==
    ASSUME Inv, NEW i, NEW from, NEW to \in States, Go(i, from, to),
           to \in {"registering", "returned"} => Held(i) = {},
           m_server_ptr' \in {"null", "up", "shutting", "down"},
           posted' \in BOOLEAN, aborted' \in BOOLEAN,
           UNCHANGED <<callbacks, m_grpc_contexts, attempt, main, call, tries>>
    PROVE  TypeOK' /\ FreshContexts' /\ HeldIsRun'
  <1>1. TypeOK /\ FreshContexts /\ HeldIsRun
    BY DEF Inv
  <1>2. /\ m_threads' \in Seq(States) /\ Len(m_threads') = Len(m_threads)
        /\ DOMAIN m_threads' = DOMAIN m_threads /\ m_threads'[i] = to
        /\ \A j \in DOMAIN m_threads : j # i => m_threads'[j] = m_threads[j]
    BY <1>1, GoFacts
  <1>3. TypeOK'
    BY <1>1, <1>2 DEF TypeOK, States
  <1>4. FreshContexts'
    BY <1>1 DEF FreshContexts
  <1>5. HeldIsRun'
    <2> SUFFICES ASSUME NEW c \in Active
                 PROVE  /\ call[c].at \in DOMAIN m_threads'
                        /\ m_threads'[call[c].at] \in {"running", "blocked"}
      BY DEF HeldIsRun, Active
    <2>1. c \in Held(call[c].at)
      BY DEF Active, Held
    <2> QED BY <1>1, <1>2, <2>1 DEF HeldIsRun, States
  <1> QED BY <1>3, <1>4, <1>5

\* A thread that registers has found a context of its own attempt unless
\* start() was called twice.
LEMMA RegisterStep ==
    ASSUME Inv, ~aborted, NEW i \in DOMAIN m_threads, Register(i) PROVE Inv'
  <1>1. TypeOK /\ FreshContexts /\ CleanRestart /\ HeldIsRun
    BY DEF Inv
  <1>2. /\ UNCHANGED <<callbacks, m_grpc_contexts, m_server_ptr, attempt, posted,
                       main, call, tries>>
        /\ m_threads[i] = "registering"
        /\ \/ aborted' = aborted /\ Go(i, "registering", "running")
           \/ /\ aborted' = TRUE /\ Go(i, "registering", "registering")
              /\ m_grpc_contexts[i] # attempt
    BY DEF Register, Go
  <1>3. Held(i) = {}
    BY <1>1, <1>2 DEF HeldIsRun, Held, Active
  <1>4. PICK to \in {"running", "registering"} : Go(i, "registering", to)
    BY <1>2
  <1>5. TypeOK' /\ FreshContexts' /\ HeldIsRun'
    BY <1>1, <1>2, <1>3, <1>4, ThreadFrame DEF TypeOK, States
  <1>6. i \in DOMAIN m_grpc_contexts
    BY <1>1 DEF TypeOK
  <1>7. CleanRestart'
    BY <1>1, <1>2, <1>6 DEF CleanRestart, FreshContexts, TypeOK
  <1> QED BY <1>5, <1>7 DEF Inv

LEMMA ThreadStep ==
    ASSUME Inv, Shutdown \/ ShutdownReturns \/ (\E i \in DOMAIN m_threads : RunReturns(i))
    PROVE  Inv'
  <1>1. TypeOK /\ FreshContexts /\ CleanRestart /\ HeldIsRun
    BY DEF Inv
  <1>2. /\ UNCHANGED <<callbacks, m_grpc_contexts, attempt, main, call, tries, aborted>>
        /\ m_server_ptr' \in {"null", "up", "shutting", "down"} /\ posted' \in BOOLEAN
    BY <1>1 DEF Shutdown, ShutdownReturns, RunReturns, TypeOK
  <1>3. TypeOK' /\ FreshContexts' /\ HeldIsRun'
    <2>1. CASE Shutdown
      BY <1>1, <1>2, <2>1, ThreadFrame DEF Shutdown, States, TypeOK
    <2>2. CASE ShutdownReturns
      BY <1>1, <1>2, <2>2, ThreadFrame DEF ShutdownReturns, States, TypeOK
    <2>3. CASE \E i \in DOMAIN m_threads : RunReturns(i)
      BY <1>1, <1>2, <2>3, ThreadFrame DEF RunReturns, States, TypeOK
    <2> QED BY <2>1, <2>2, <2>3
  <1>4. CleanRestart'
    BY <1>1, <1>2 DEF CleanRestart
  <1> QED BY <1>3, <1>4 DEF Inv

-----------------------------------------------------------------------------
(* The calls.                                                              *)

\* A call that changes stays where a thread runs it.
LEMMA TurnStep ==
    ASSUME Inv, NEW c \in Calls, NEW to \in Served_, Turn(c, to),
           to.st # "ended" => /\ to.at \in DOMAIN m_threads
                              /\ m_threads[to.at] \in {"running", "blocked"}
    PROVE  Inv'
  <1>1. TypeOK /\ FreshContexts /\ CleanRestart /\ HeldIsRun
    BY DEF Inv
  <1>2. /\ call' = [call EXCEPT ![c] = to]
        /\ UNCHANGED <<callbacks, serverVars, posted, main, tries, aborted>>
    BY DEF Turn
  <1>3. /\ call' \in [Calls -> {NoCall} \cup Served_]
        /\ call'[c] = to /\ \A d \in Calls : d # c => call'[d] = call[d]
    BY <1>1, <1>2 DEF TypeOK, Served_
  <1>4. TypeOK'
    BY <1>1, <1>2, <1>3 DEF TypeOK, Served_, serverVars
  <1>5. HeldIsRun'
    BY <1>1, <1>2, <1>3 DEF HeldIsRun, Active, serverVars, Served_
  <1> QED BY <1>1, <1>2, <1>4, <1>5 DEF Inv, FreshContexts, CleanRestart, serverVars

LEMMA CallStep ==
    ASSUME Inv, NEW c \in Calls,
           \/ \E k \in Kinds, i \in DOMAIN m_threads : Arrive(c, k, i)
           \/ Dispatch(c) \/ EndCall(c) \/ ClientGone(c)
    PROVE  Inv'
  <1>1. TypeOK /\ HeldIsRun /\ call[c] \in {NoCall} \cup Served_
    BY DEF Inv, TypeOK, Served_
  <1>2. ASSUME call[c].st \in {"matched", "running"}
        PROVE  /\ call[c] \in Served_ /\ call[c].at \in DOMAIN m_threads
               /\ m_threads[call[c].at] \in {"running", "blocked"}
    BY <1>1, <1>2 DEF NoCall, HeldIsRun, Active
  <1>3. CASE \E k \in Kinds, i \in DOMAIN m_threads : Arrive(c, k, i)
    <2>1. PICK k \in Kinds, i \in DOMAIN m_threads : Arrive(c, k, i)
      BY <1>3
    <2> DEFINE to == [st |-> "matched", at |-> i, kind |-> k, gone |-> FALSE]
    <2>2. i \in 1 .. thread_count
      BY <1>1, <2>1, ServerAssumption DEF TypeOK
    <2>3. to \in Served_ /\ Turn(c, to) /\ m_threads[to.at] = "running"
      BY <2>1, <2>2 DEF Arrive, Served_
    <2> QED BY <2>3, TurnStep
  <1>4. CASE Dispatch(c)
    <2> DEFINE to == [call[c] EXCEPT !.st = "running"]
    <2>1. call[c].st = "matched" /\ Turn(c, to)
      BY <1>4 DEF Dispatch
    <2>2. to \in Served_ /\ to.at = call[c].at
      BY <1>2, <2>1 DEF Served_
    <2> QED BY <1>2, <2>1, <2>2, TurnStep
  <1>5. CASE EndCall(c)
    <2> DEFINE to == [call[c] EXCEPT !.st = "ended"]
    <2>1. call[c].st = "running" /\ Turn(c, to)
      BY <1>5 DEF EndCall
    <2>2. to \in Served_ /\ to.st = "ended"
      BY <1>2, <2>1 DEF Served_
    <2> QED BY <2>1, <2>2, TurnStep
  <1>6. CASE ClientGone(c)
    <2> DEFINE to == [call[c] EXCEPT !.gone = TRUE]
    <2>1. call[c].st \in {"matched", "running"} /\ Turn(c, to)
      BY <1>6 DEF ClientGone
    <2>2. to \in Served_ /\ to.at = call[c].at
      BY <1>2, <2>1 DEF Served_
    <2> QED BY <1>2, <2>1, <2>2, TurnStep
  <1> QED BY <1>3, <1>4, <1>5, <1>6

LEMMA NextInv == Inv /\ [Next]_vars => Inv'
  <1> SUFFICES ASSUME Inv, [Next]_vars PROVE Inv'
    OBVIOUS
  <1>1. CASE UNCHANGED vars
    BY <1>1 DEF Inv, TypeOK, FreshContexts, CleanRestart, HeldIsRun, Active, vars, serverVars
  <1>2. CASE Next
    <2>1. ~aborted
      BY <1>2 DEF Next
    <2>2. CASE StartFails \/ Start
      BY <2>2, AttemptStep DEF StartFails, Start
    <2>3. CASE Stop \/ \E k \in Kinds : SetCallback(k)
      BY <2>3, ProgramStep
    <2>4. CASE Joined
      BY <2>1, <2>4, JoinedStep
    <2>5. CASE Shutdown \/ ShutdownReturns \/ \E i \in DOMAIN m_threads : RunReturns(i)
      BY <2>5, ThreadStep
    <2>6. CASE \E i \in DOMAIN m_threads : Register(i)
      BY <2>1, <2>6, RegisterStep
    <2>7. CASE \E c \in Calls :
                 \/ \E k \in Kinds, i \in DOMAIN m_threads : Arrive(c, k, i)
                 \/ Dispatch(c) \/ EndCall(c) \/ ClientGone(c)
      BY <2>7, CallStep
    <2> QED BY <1>2, <2>2, <2>3, <2>4, <2>5, <2>6, <2>7 DEF Next, Server
  <1> QED BY <1>1, <1>2

\* Every state a behaviour reaches satisfies the inductive invariant.
THEOREM Invariance == Spec => []Inv
  BY InitInv, NextInv, PTL DEF Spec

\* Every variable stays in its range; start() never has more threads than
\* contexts to run.
THEOREM TypeCorrect == Spec => []TypeOK
  BY Invariance, PTL DEF Inv

\* A stopped server can be started again, also after starts that failed: no
\* thread serves the queue of another attempt unless start() was called twice
\* without stop() in between.
THEOREM CleanRestartTheorem == Spec => []CleanRestart
  BY Invariance, PTL DEF Inv

-----------------------------------------------------------------------------
(* The server implements Drain.                                            *)

ServedPhase == IF m_threads = << >> THEN "off"
               ELSE IF main = "joining" THEN "closing" ELSE "on"

LEMMA InitRefines == Init => Served!Init
  BY DEF Init, NoCall, Served!Init

\* A call that is in Active before and after, or neither, is no step of Drain.
LEMMA TurnRefines ==
    ASSUME Inv, NEW c \in Calls, NEW to, Turn(c, to)
    PROVE  /\ ServedPhase' = ServedPhase
           /\ Active' = IF to.st \in {"matched", "running"}
                        THEN Active \cup {c} ELSE Active \ {c}
  <1>1. call \in [Calls -> {NoCall} \cup Served_]
    BY DEF Inv, TypeOK, Served_
  <1>2. /\ call' = [call EXCEPT ![c] = to] /\ UNCHANGED <<m_threads, main>>
    BY DEF Turn, serverVars
  <1>3. call'[c] = to /\ \A d \in Calls : d # c => call'[d] = call[d]
    BY <1>1, <1>2
  <1> QED BY <1>2, <1>3 DEF Active, ServedPhase

LEMMA CallRefines ==
    ASSUME Inv, NEW c \in Calls,
           \/ \E k \in Kinds, i \in DOMAIN m_threads : Arrive(c, k, i)
           \/ Dispatch(c) \/ EndCall(c) \/ ClientGone(c)
    PROVE  Served!Next \/ UNCHANGED Served!vars
  <1>0. call[c] \in {NoCall} \cup Served_
    BY DEF Inv, TypeOK, Served_
  <1>1. CASE \E k \in Kinds, i \in DOMAIN m_threads : Arrive(c, k, i)
    <2>1. PICK k \in Kinds, i \in DOMAIN m_threads : Arrive(c, k, i)
      BY <1>1
    <2> DEFINE to == [st |-> "matched", at |-> i, kind |-> k, gone |-> FALSE]
    <2>2. Turn(c, to) /\ to.st = "matched" /\ call[c].st = "none" /\ m_threads # << >>
      BY <2>1 DEF Arrive
    <2> HIDE DEF to
    <2>3. ServedPhase' = ServedPhase /\ Active' = Active \cup {c} /\ c \notin Active
      BY <2>2, TurnRefines DEF Active
    <2>4. Served!Begin(c) /\ c \in Active'
      BY <2>2, <2>3 DEF Served!Begin, Active, ServedPhase
    <2> QED BY <2>4 DEF Served!Next, Active
  <1>2. CASE EndCall(c)
    <2> DEFINE to == [call[c] EXCEPT !.st = "ended"]
    <2>1. call[c].st = "running" /\ Turn(c, to)
      BY <1>2 DEF EndCall
    <2>2. to.st = "ended"
      BY <1>0, <2>1 DEF Served_, NoCall
    <2> HIDE DEF to
    <2>3. ServedPhase' = ServedPhase /\ Active' = Active \ {c} /\ c \in Active
      BY <2>1, <2>2, TurnRefines DEF Active
    <2>4. Served!End(c)
      BY <2>3 DEF Served!End, Active, ServedPhase
    <2> QED BY <2>3, <2>4 DEF Served!Next, Active
  <1>3. CASE Dispatch(c) \/ ClientGone(c)
    <2>1. /\ call[c].st \in {"matched", "running"}
          /\ Turn(c, [call[c] EXCEPT !.st = "running"]) \/ Turn(c, [call[c] EXCEPT !.gone = TRUE])
      BY <1>3 DEF Dispatch, ClientGone
    <2>2. PICK to : Turn(c, to) /\ to.st \in {"matched", "running"}
      BY <1>0, <2>1 DEF Served_, NoCall
    <2>3. ServedPhase' = ServedPhase /\ Active' = Active
      BY <2>1, <2>2, TurnRefines DEF Active
    <2> QED BY <2>3 DEF Served!vars, Active, ServedPhase
  <1> QED BY <1>1, <1>2, <1>3

LEMMA ThreadRefines ==
    ASSUME Inv, NEW i, NEW from, NEW to \in States, Go(i, from, to), UNCHANGED <<main, call>>
    PROVE  UNCHANGED Served!vars
  <1>1. m_threads # << >> /\ m_threads' # << >>
    BY GoFacts DEF Inv
  <1> QED BY <1>1 DEF Served!vars

LEMMA NextRefines ==
    ASSUME Inv, Next PROVE Served!Next \/ UNCHANGED Served!vars
  <1>1. CASE \E k \in Kinds : SetCallback(k)
    BY <1>1 DEF SetCallback, serverVars, Served!vars
  <1>2. CASE StartFails
    BY <1>2 DEF StartFails, Attempt, Served!vars
  <1>3. CASE Start
    <2>1. /\ main = "out" /\ main' = "out" /\ UNCHANGED call /\ m_threads = << >>
          /\ m_threads' = [j \in 1 .. thread_count |-> "registering"]
      BY <1>3 DEF Start, Attempt
    <2>2. m_threads' # << >>
      BY <2>1, ServerAssumption
    <2>3. Served!Open
      BY <2>1, <2>2 DEF Served!Open
    <2> QED BY <2>3 DEF Served!Next
  <1>4. CASE Stop
    <2>1. main = "out" /\ main' = "joining" /\ UNCHANGED <<call, m_threads>>
      BY <1>4 DEF Stop, serverVars
    <2>2. CASE m_threads = << >>
      BY <2>1, <2>2 DEF Served!vars
    <2>3. CASE m_threads # << >>
      BY <2>1, <2>3 DEF Served!Next, Served!Close
    <2> QED BY <2>2, <2>3
  <1>5. CASE Joined
    <2>1. main = "joining" /\ m_threads' = << >> /\ UNCHANGED call /\ Active = {}
      BY <1>5, JoinedFacts DEF Joined
    <2>2. CASE m_threads = << >>
      BY <2>1, <2>2 DEF Served!vars
    <2>3. CASE m_threads # << >>
      BY <2>1, <2>3 DEF Served!Next, Served!Finish, Active
    <2> QED BY <2>2, <2>3
  <1>6. CASE Shutdown \/ ShutdownReturns \/ \E i \in DOMAIN m_threads : Register(i) \/ RunReturns(i)
    <2>1. UNCHANGED <<main, call>>
      BY <1>6 DEF Shutdown, ShutdownReturns, Register, RunReturns
    <2>2. \E i : \E from : \E to \in States : Go(i, from, to)
      BY <1>6 DEF Shutdown, ShutdownReturns, Register, RunReturns, States
    <2> QED BY <2>1, <2>2, ThreadRefines
  <1>7. CASE \E c \in Calls :
               \/ \E k \in Kinds, i \in DOMAIN m_threads : Arrive(c, k, i)
               \/ Dispatch(c) \/ EndCall(c) \/ ClientGone(c)
    BY <1>7, CallRefines
  <1> QED BY <1>1, <1>2, <1>3, <1>4, <1>5, <1>6, <1>7 DEF Next, Server

\* When stop() returns no handler is running, and none will be until the next
\* start(): the server implements Drain.
THEOREM DrainRefinement == Spec => StopIsDrain
  <1>1. UNCHANGED vars => UNCHANGED Served!vars
    BY DEF vars, serverVars, Served!vars
  <1>2. Inv /\ [Next]_vars => [Served!Next]_(Served!vars)
    BY <1>1, NextRefines
  <1> QED BY InitRefines, Invariance, <1>2, PTL DEF Spec, StopIsDrain, Served!Spec

-----------------------------------------------------------------------------
(* The deadlock of stop().                                                 *)

\* While Shutdown waits, the thread of the first context does nothing else.
ShuttingIsBlocked ==
    m_server_ptr = "shutting" =>
        ShutdownAt \in DOMAIN m_threads /\ m_threads[ShutdownAt] = "blocked"

LEMMA ShuttingStep ==
    ASSUME Inv, ShuttingIsBlocked, Next PROVE ShuttingIsBlocked'
  <1> USE DEF ShuttingIsBlocked
  <1>1. CASE StartFails \/ Start \/ ShutdownReturns
    <2>1. m_server_ptr' # "shutting"
      BY <1>1 DEF StartFails, Start, ShutdownReturns
    <2> QED BY <2>1
  <1>2. CASE Stop \/ \E k \in Kinds : SetCallback(k)
    BY <1>2 DEF Stop, SetCallback, serverVars
  <1>3. CASE Joined
    <2>1. \A i \in DOMAIN m_threads : m_threads[i] = "returned"
      BY <1>3 DEF Joined, ToSet
    <2>2. m_server_ptr' # "shutting"
      BY <1>3, <2>1 DEF Joined
    <2> QED BY <2>2
  <1>4. CASE Shutdown
    BY <1>4, GoFacts DEF Inv, Shutdown, States
  <1>5. CASE \E i \in DOMAIN m_threads : Register(i) \/ RunReturns(i)
    <2>1. /\ UNCHANGED m_server_ptr
          /\ \E i : \E from \in {"registering", "running"} : \E to \in States : Go(i, from, to)
      BY <1>5 DEF Register, RunReturns, States
    <2> QED BY <2>1, GoFacts DEF Inv
  <1>6. CASE \E c \in Calls :
               \/ \E k \in Kinds, i \in DOMAIN m_threads : Arrive(c, k, i)
               \/ Dispatch(c) \/ EndCall(c) \/ ClientGone(c)
    <2>1. UNCHANGED serverVars
      BY <1>6 DEF Arrive, Dispatch, EndCall, ClientGone, Turn
    <2> QED BY <2>1 DEF serverVars
  <1> QED BY <1>1, <1>2, <1>3, <1>4, <1>5, <1>6 DEF Next, Server

\* A call that is hung stays hung at every step but that of its client.
LEMMA HungStep ==
    ASSUME Inv, ShuttingIsBlocked, Next, NEW c \in Calls, Hung(c)
    PROVE  Hung(c)' \/ ClientGone(c)
  <1>1. /\ m_server_ptr = "shutting" /\ 1 \in DOMAIN m_threads /\ m_threads[1] = "blocked"
        /\ call[c].st \in {"matched", "running"} /\ call[c].at = 1 /\ ~call[c].gone
        /\ call \in [Calls -> {NoCall} \cup Served_]
    BY DEF Hung, InFlight, Held, ShuttingIsBlocked, ShutdownAt, Inv, TypeOK, Served_
  <1>2. CASE UNCHANGED <<m_server_ptr, call>>
    BY <1>2 DEF Hung, InFlight, Held
  <1>3. CASE Server
    <2>1. ~StartFails /\ ~Start
      BY <1>1 DEF StartFails, Start, Attempt
    <2>2. ~ShutdownReturns
      BY <1>1 DEF ShutdownReturns, InFlight, Held
    <2>3. ~Shutdown
      BY <1>1 DEF Shutdown, Go, ShutdownAt
    <2>4. UNCHANGED <<m_server_ptr, call>>
      BY <1>3, <2>1, <2>2, <2>3 DEF Server, SetCallback, Stop, Joined, Register, RunReturns, serverVars
    <2> QED BY <1>2, <2>4
  <1>4. ASSUME NEW d \in Calls, d # c, NEW to, Turn(d, to)
        PROVE  Hung(c)'
    BY <1>1, <1>4 DEF Turn, serverVars, Hung, InFlight, Held
  <1>5. CASE \E d \in Calls :
               \/ \E k \in Kinds, i \in DOMAIN m_threads : Arrive(d, k, i)
               \/ Dispatch(d) \/ EndCall(d) \/ ClientGone(d)
    <2>1. PICK d \in Calls :
               \/ \E k \in Kinds, i \in DOMAIN m_threads : Arrive(d, k, i)
               \/ Dispatch(d) \/ EndCall(d) \/ ClientGone(d)
      BY <1>5
    <2>2. \E to : Turn(d, to)
      BY <2>1 DEF Arrive, Dispatch, EndCall, ClientGone
    <2>3. d = c => ClientGone(c)
      BY <1>1, <2>1 DEF Arrive, Dispatch, EndCall, Runs
    <2> QED BY <1>4, <2>2, <2>3
  <1> QED BY <1>3, <1>5 DEF Next

\* stop() posts Shutdown to a context whose thread then waits for the calls on
\* that context, which only it could serve: once it waits for one, nothing that
\* the server, its handlers or the other threads do lets it return, until the
\* client of that call gives up.
THEOREM OnlyClientTheorem == Spec => OnlyClientFrees
  <1>1. Init => ShuttingIsBlocked
    BY DEF Init, ShuttingIsBlocked
  <1>2. Inv /\ ShuttingIsBlocked /\ [Next]_vars => ShuttingIsBlocked'
    BY ShuttingStep DEF vars, serverVars, ShuttingIsBlocked
  <1>3. Inv /\ ShuttingIsBlocked /\ [Next]_vars =>
            [\A c \in Calls : Hung(c) => Hung(c)' \/ ClientGone(c)]_vars
    BY HungStep
  <1> QED BY <1>1, <1>2, <1>3, Invariance, PTL DEF Spec, OnlyClientFrees
===============================================================================
