-------------------------- MODULE ExampleCallsProofs --------------------------
(***************************************************************************)
(* Theorems of ExampleCalls.tla, for every set of calls, every length of a *)
(* stream and every number of contexts and starts: the type invariant, and *)
(* which detached threads outlive the contexts.  What GrpcServerProofs     *)
(* shows of the server holds of the server here, whose every step is one   *)
(* of GrpcServer.                                                          *)
(***************************************************************************)
EXTENDS ExampleCalls, TLAPS

GP == INSTANCE GrpcServerProofs

-----------------------------------------------------------------------------
(* The inductive invariant.                                                *)

Records == [pc : {"none", "waiting", "finish"},
            thread : {"none", "posting", "sending", "done"},
            sent : 0 .. Messages, open : BOOLEAN,
            taken : 0 .. Messages, wrote : 0 .. Messages,
            status : {"none", "ok", "cancelled", "left"}]

\* Before its handler has started a call has no thread and no messages.
NewInv(c, r) == c.st \in {"none", "matched"} => r = NoJob

\* A thread that posts has its handler waiting for it; one that sends has the
\* channel open and its handler waiting too, unless the client has left.
ThreadInv(c, r) ==
    /\ r.thread = "posting" => c.kind = "seqno" /\ c.st = "running" /\ r.pc = "waiting"
    /\ r.thread = "sending" =>
         /\ c.kind = "stream" /\ r.open
         /\ (c.st = "running" /\ r.pc = "waiting") \/ (c.st = "ended" /\ c.gone)

\* A handler takes no more than was sent, and writes no more than it counts.
CountInv(c, r) ==
    /\ c.kind = "stream" => r.taken <= r.sent /\ r.pc # "finish"
    /\ c.kind = "counted" => r.wrote <= r.taken /\ (r.pc = "waiting" => r.taken < Messages)

JobInv(c, r) == NewInv(c, r) /\ ThreadInv(c, r) /\ CountInv(c, r)

Inv ==
    /\ GP!Inv /\ job \in [Calls -> Records]
    /\ \A x \in Calls : JobInv(call[x], job[x])

Served == [st : {"matched", "running", "ended"}, at : 1 .. thread_count,
           kind : Kinds, gone : BOOLEAN]

LEMMA ServerAssumptions == GP!ServerAssumption
  BY ExampleAssumption DEF GP!ServerAssumption

LEMMA InitInv == Init => Inv
  <1> SUFFICES ASSUME Init PROVE Inv
    OBVIOUS
  <1>1. GP!Inv
    <2>1. GP!Init
      BY DEF Init, G!Init, GP!Init, G!NoCall, GP!NoCall
    <2> QED BY <2>1, ServerAssumptions, GP!InitInv
  <1>2. NoJob \in Records
    BY ExampleAssumption DEF NoJob, Records
  <1>3. \A x \in Calls : JobInv(call[x], job[x])
    BY DEF Init, G!Init, G!NoCall, NoJob, JobInv, NewInv, ThreadInv, CountInv
  <1> QED BY <1>1, <1>2, <1>3 DEF Init, Inv

\* What the invariant of the server says of one call.
LEMMA CallFacts ==
    ASSUME Inv, NEW x \in Calls
    PROVE  /\ call \in [Calls -> {G!NoCall} \cup Served]
           /\ job[x] \in Records /\ JobInv(call[x], job[x])
           /\ call[x].st # "none" => call[x] \in Served
  <1>1. call \in [Calls -> {G!NoCall} \cup Served]
    BY DEF Inv, GP!Inv, GP!TypeOK, GP!NoCall, G!NoCall, Served
  <1>2. call[x] \in {G!NoCall} \cup Served
    BY <1>1
  <1> QED BY <1>1, <1>2 DEF Inv, G!NoCall

-----------------------------------------------------------------------------
(* The server keeps its invariant.                                         *)

LEMMA ServerIsServer ==
    ASSUME G!Server PROVE GP!Server
  <1>1. G!MakeContexts = GP!MakeContexts /\ (G!CheckCallback <=> GP!CheckCallback)
    BY DEF G!MakeContexts, GP!MakeContexts, G!CheckCallback, GP!CheckCallback
  <1>2. CASE G!StartFails
    BY <1>1, <1>2 DEF GP!Server, G!StartFails, GP!StartFails, G!Attempt, GP!Attempt
  <1>3. CASE G!Start
    BY <1>1, <1>3 DEF GP!Server, G!Start, GP!Start, G!Attempt, GP!Attempt
  <1>4. CASE G!Stop \/ \E k \in Kinds : G!SetCallback(k)
    BY <1>4 DEF GP!Server, G!Stop, GP!Stop, G!SetCallback, GP!SetCallback,
                G!serverVars, GP!serverVars
  <1>5. CASE G!Joined
    BY <1>5 DEF GP!Server, G!Joined, GP!Joined, G!ToSet, GP!ToSet
  <1>6. CASE G!Shutdown \/ G!ShutdownReturns
    BY <1>6 DEF GP!Server, G!Shutdown, GP!Shutdown, G!ShutdownReturns, GP!ShutdownReturns,
                G!Go, GP!Go, G!ShutdownAt, GP!ShutdownAt, G!InFlight, GP!InFlight,
                G!Held, GP!Held
  <1>7. CASE \E i \in DOMAIN m_threads : G!Register(i) \/ G!RunReturns(i)
    BY <1>7 DEF GP!Server, G!Register, GP!Register, G!RunReturns, GP!RunReturns,
                G!Go, GP!Go, G!ShutdownAt, GP!ShutdownAt, G!Held, GP!Held
  <1> QED BY <1>2, <1>3, <1>4, <1>5, <1>6, <1>7 DEF G!Server

\* The steps of a call.
CallNext(x) ==
    \/ \E k \in Kinds, i \in DOMAIN m_threads : G!Arrive(x, k, i)
    \/ G!Dispatch(x) \/ G!EndCall(x) \/ G!ClientGone(x)

LEMMA CallKeepsServer ==
    ASSUME Inv, NEW x \in Calls, CallNext(x) \/ UNCHANGED serverVars PROVE GP!Inv'
  <1>1. CASE CallNext(x)
    <2>1. \/ \E k \in Kinds, i \in DOMAIN m_threads : GP!Arrive(x, k, i)
          \/ GP!Dispatch(x) \/ GP!EndCall(x) \/ GP!ClientGone(x)
      BY <1>1 DEF CallNext, G!Arrive, G!Dispatch, G!EndCall, G!ClientGone,
                  GP!Arrive, GP!Dispatch, GP!EndCall, GP!ClientGone, G!Held, GP!Held,
                  G!Turn, GP!Turn, G!Runs, GP!Runs, G!serverVars, GP!serverVars
    <2> QED BY <2>1, ServerAssumptions, GP!CallStep DEF Inv
  <1>2. CASE UNCHANGED serverVars
    <2>1. UNCHANGED GP!vars
      BY <1>2 DEF serverVars, GP!vars, GP!serverVars
    <2> QED BY <2>1, ServerAssumptions, GP!NextInv DEF Inv
  <1> QED BY <1>1, <1>2

LEMMA ServerStep ==
    ASSUME Inv, ~aborted, G!Server, UNCHANGED job PROVE Inv'
  <1>1. GP!Next
    BY ServerIsServer DEF GP!Next
  <1>2. GP!Inv'
    BY <1>1, ServerAssumptions, GP!NextInv DEF Inv
  <1>3. UNCHANGED call
    BY DEF G!Server, G!SetCallback, G!StartFails, G!Start, G!Attempt, G!Stop, G!Joined,
           G!Shutdown, G!ShutdownReturns, G!Register, G!RunReturns
  <1> QED BY <1>2, <1>3 DEF Inv

-----------------------------------------------------------------------------
(* One call changes, the others and the server stay.                       *)

\* The call and its job become ones that keep the invariant.
Sound(x, c, r) ==
    /\ call' = [call EXCEPT ![x] = c] /\ job' = [job EXCEPT ![x] = r]
    /\ CallNext(x) \/ UNCHANGED serverVars
    /\ r \in Records /\ JobInv(c, r)

LEMMA SoundStep ==
    ASSUME Inv, NEW x \in Calls, NEW c, NEW r, Sound(x, c, r) PROVE Inv'
  <1>1. GP!Inv'
    BY CallKeepsServer DEF Sound
  <1>2. /\ call \in [Calls -> {G!NoCall} \cup Served] /\ job \in [Calls -> Records]
        /\ call' = [call EXCEPT ![x] = c] /\ job' = [job EXCEPT ![x] = r]
        /\ r \in Records /\ JobInv(c, r)
    BY CallFacts DEF Inv, Sound
  <1>3. /\ job' \in [Calls -> Records] /\ call'[x] = c /\ job'[x] = r
        /\ \A y \in Calls : y # x => call'[y] = call[y] /\ job'[y] = job[y]
    BY <1>2
  <1>4. \A y \in Calls : JobInv(call'[y], job'[y])
    BY <1>2, <1>3 DEF Inv
  <1> HIDE DEF GP!Inv
  <1> QED BY <1>1, <1>3, <1>4 DEF Inv, JobInv, NewInv, ThreadInv, CountInv

\* A step that leaves the server alone.
LEMMA GoesSound ==
    ASSUME Inv, NEW x \in Calls, NEW r \in Records, Goes(x, r), JobInv(call[x], r)
    PROVE  Inv'
  <1>1. UNCHANGED call /\ UNCHANGED serverVars /\ Becomes(x, r)
    BY DEF Goes, serverVars
  <1>2. call' = [call EXCEPT ![x] = call[x]]
    BY <1>1, CallFacts
  <1> QED BY <1>1, <1>2, SoundStep DEF Sound, Becomes

\* A handler returns.
LEMMA ReturnsSound ==
    ASSUME Inv, NEW x \in Calls, NEW r \in Records, Returns(x, r),
           r.thread \notin {"posting"},
           r.thread = "sending" => call[x].kind = "stream" /\ r.open /\ call[x].gone,
           CountInv(call[x], r)
    PROVE  Inv'
  <1> DEFINE c == [call[x] EXCEPT !.st = "ended"]
  <1>1. /\ call[x].st = "running" /\ call' = [call EXCEPT ![x] = c]
        /\ Becomes(x, r) /\ CallNext(x)
    BY DEF Returns, G!EndCall, G!Turn, CallNext
  <1>2. call[x] \in Served
    BY <1>1, CallFacts
  <1>3. c.st = "ended" /\ c.kind = call[x].kind /\ c.gone = call[x].gone
    BY <1>2 DEF Served
  <1> HIDE DEF c
  <1>4. JobInv(c, r)
    BY <1>3 DEF JobInv, NewInv, ThreadInv, CountInv
  <1> QED BY <1>1, <1>4, SoundStep DEF Sound, Becomes

-----------------------------------------------------------------------------
(* The calls.                                                              *)

LEMMA ArriveStep ==
    ASSUME Inv, NEW x \in Calls, Arrive(x) PROVE Inv'
  <1>1. PICK k \in Kinds, i \in DOMAIN m_threads : G!Arrive(x, k, i)
    BY DEF Arrive
  <1> DEFINE c == [st |-> "matched", at |-> i, kind |-> k, gone |-> FALSE]
  <1>2. /\ call[x].st = "none" /\ call' = [call EXCEPT ![x] = c]
        /\ UNCHANGED job /\ CallNext(x)
    BY <1>1 DEF Arrive, G!Arrive, G!Turn, CallNext
  <1>3. job[x] = NoJob /\ job[x] \in Records /\ job \in [Calls -> Records]
    BY <1>2, CallFacts DEF JobInv, NewInv, Inv
  <1>4. job' = [job EXCEPT ![x] = job[x]]
    BY <1>2, <1>3
  <1>5. JobInv(c, job[x])
    BY <1>3, ExampleAssumption DEF JobInv, NewInv, ThreadInv, CountInv, NoJob
  <1> HIDE DEF c
  <1> QED BY <1>2, <1>3, <1>4, <1>5, SoundStep DEF Sound

\* The handler starts with its thread.
LEMMA StartStep ==
    ASSUME Inv, NEW x \in Calls, Start(x) PROVE Inv'
  <1> USE ExampleAssumption
  <1> DEFINE c == [call[x] EXCEPT !.st = "running"]
             r == [NoJob EXCEPT !.pc = "waiting", !.thread = ThreadOf(call[x].kind)]
  <1>1. /\ call[x].st = "matched" /\ call' = [call EXCEPT ![x] = c] /\ CallNext(x)
        /\ Becomes(x, [job[x] EXCEPT !.pc = "waiting", !.thread = ThreadOf(call[x].kind)])
    BY DEF Start, G!Dispatch, G!Turn, CallNext
  <1>2. job[x] = NoJob /\ call[x] \in Served
    BY <1>1, CallFacts DEF JobInv, NewInv
  <1>3. c.st = "running" /\ c.kind = call[x].kind
    BY <1>2 DEF Served
  <1>4. ThreadOf(call[x].kind) \in {"none", "posting", "sending"}
    BY DEF ThreadOf
  <1>5. r \in Records
    <2>1. NoJob \in Records
      BY DEF Records, NoJob
    <2>2. \A t \in {"none", "posting", "sending"} :
             [NoJob EXCEPT !.pc = "waiting", !.thread = t] \in Records
      BY <2>1 DEF Records
    <2> QED BY <1>4, <2>2, Zenon
  <1>6. JobInv(c, r)
    BY <1>3 DEF JobInv, NewInv, ThreadInv, CountInv, NoJob, ThreadOf
  <1>7. job' = [job EXCEPT ![x] = r]
    BY <1>1, <1>2 DEF Becomes
  <1> HIDE DEF c, r
  <1> QED BY <1>1, <1>5, <1>6, <1>7, SoundStep DEF Sound

\* The client of a call that a handler serves leaves; nothing else changes.
LEMMA GoneStep ==
    ASSUME Inv, NEW x \in Calls, ClientGone(x) PROVE Inv'
  <1> DEFINE c == [call[x] EXCEPT !.gone = TRUE]
  <1>1. /\ call[x].st \in {"matched", "running"} /\ call' = [call EXCEPT ![x] = c]
        /\ UNCHANGED job /\ CallNext(x)
    BY DEF ClientGone, G!ClientGone, G!Turn, CallNext
  <1>2. call[x] \in Served /\ job[x] \in Records /\ JobInv(call[x], job[x])
    BY <1>1, CallFacts
  <1>3. c.st = call[x].st /\ c.kind = call[x].kind /\ c.gone = TRUE
    BY <1>2 DEF Served
  <1> HIDE DEF c
  <1>4. JobInv(c, job[x])
    BY <1>1, <1>2, <1>3 DEF JobInv, NewInv, ThreadInv, CountInv
  <1>5. job' = [job EXCEPT ![x] = job[x]]
    BY <1>1 DEF Inv
  <1> QED BY <1>1, <1>2, <1>4, <1>5, SoundStep DEF Sound

LEMMA HandlerStep ==
    ASSUME Inv, NEW x \in Calls, Handler(x) PROVE Inv'
  <1> USE ExampleAssumption
  <1> DEFINE r == job[x]
             c == call[x]
  <1>1. r \in Records /\ NewInv(c, r) /\ ThreadInv(c, r) /\ CountInv(c, r)
    BY CallFacts DEF JobInv
  <1>2. CASE SeqNoResumes(x) \/ OrderResumes(x)
    <2> DEFINE to == [r EXCEPT !.pc = "finish"]
    <2>1. /\ Goes(x, to) /\ c.st = "running" /\ r.pc = "waiting"
          /\ (c.kind = "seqno" /\ r.thread = "done") \/ c.kind = "order"
      BY <1>2 DEF SeqNoResumes, OrderResumes, Waits, At
    <2> HIDE DEF r, c
    <2>2. to \in Records
      BY <1>1 DEF Records
    <2>3. JobInv(c, to)
      BY <1>1, <2>1 DEF Records, JobInv, NewInv, ThreadInv, CountInv
    <2> HIDE DEF to
    <2> QED BY <2>1, <2>2, <2>3, GoesSound DEF c
  <1>3. CASE Finish(x)
    <2> DEFINE to == [r EXCEPT !.wrote = IF c.gone \/ c.kind = "counted" THEN @ ELSE 1,
                               !.status = IF c.gone THEN "left" ELSE "ok"]
    <2>1. Returns(x, to) /\ r.pc = "finish"
      BY <1>3 DEF Finish, At
    <2> HIDE DEF r, c
    <2>2. to \in Records
      <3>1. \A w \in 0 .. Messages, s \in {"left", "ok"} :
               [r EXCEPT !.wrote = w, !.status = s] \in Records
        BY <1>1 DEF Records
      <3>2. (IF c.gone \/ c.kind = "counted" THEN r.wrote ELSE 1) \in 0 .. Messages
        BY <1>1 DEF Records
      <3>3. (IF c.gone THEN "left" ELSE "ok") \in {"left", "ok"}
        OBVIOUS
      <3> QED BY <3>1, <3>2, <3>3, Zenon
    <2>3. /\ to.thread = r.thread /\ to.pc = r.pc /\ to.taken = r.taken /\ to.sent = r.sent
          /\ c.kind = "counted" => to.wrote = r.wrote
      BY <1>1 DEF Records
    <2>4. r.thread \notin {"posting", "sending"} /\ CountInv(c, to)
      BY <1>1, <2>1, <2>3 DEF ThreadInv, CountInv
    <2> HIDE DEF to
    <2> QED BY <2>1, <2>2, <2>3, <2>4, ReturnsSound DEF c
  <1>4. CASE NoticeReturns(x) \/ StreamEnds(x)
    <2> DEFINE s == IF c.gone THEN "left" ELSE "cancelled"
               to == [r EXCEPT !.status = s]
    <2>1. /\ Returns(x, to) /\ c.kind \in {"notice", "stream"}
          /\ c.kind = "stream" => ~r.open \/ c.gone
      BY <1>4 DEF NoticeReturns, StreamEnds, Unfinished, Waits, At
    <2> HIDE DEF r, c
    <2>2. s \in {"left", "cancelled"}
      OBVIOUS
    <2> HIDE DEF s
    <2>3. to \in Records
      BY <1>1, <2>2 DEF Records
    <2>4. /\ to.thread = r.thread /\ to.pc = r.pc /\ to.taken = r.taken
          /\ to.sent = r.sent /\ to.open = r.open /\ to.wrote = r.wrote
      BY <1>1 DEF Records
    <2>5. /\ r.thread # "posting" /\ CountInv(c, to)
          /\ r.thread = "sending" => c.kind = "stream" /\ r.open /\ c.gone
      BY <1>1, <2>1, <2>4 DEF ThreadInv, CountInv
    <2> HIDE DEF to
    <2> QED BY <2>1, <2>3, <2>4, <2>5, ReturnsSound DEF c
  <1>5. CASE StreamReceives(x)
    <2> DEFINE to == [r EXCEPT !.taken = @ + 1]
    <2>1. /\ Goes(x, to) /\ c.kind = "stream" /\ c.st = "running" /\ r.taken < r.sent
      BY <1>5 DEF StreamReceives, Waits, At, Pending
    <2> HIDE DEF r, c
    <2>2. to \in Records
      BY <1>1, <2>1 DEF Records
    <2>3. JobInv(c, to)
      BY <1>1, <2>1 DEF Records, JobInv, NewInv, ThreadInv, CountInv
    <2> HIDE DEF to
    <2> QED BY <2>1, <2>2, <2>3, GoesSound DEF c
  <1>6. CASE \E ok \in BOOLEAN : CountedWrites(x, ok)
    <2>1. PICK ok \in BOOLEAN : CountedWrites(x, ok)
      BY <1>6
    <2> DEFINE to == [r EXCEPT !.taken = @ + 1,
                               !.wrote = IF ok /\ ~c.gone THEN @ + 1 ELSE @,
                               !.pc = IF ok /\ r.taken + 1 < Messages THEN @ ELSE "finish"]
    <2>2. Goes(x, to) /\ c.kind = "counted" /\ c.st = "running" /\ r.pc = "waiting"
      BY <2>1 DEF CountedWrites, Waits, At
    <2> HIDE DEF r, c
    <2>3. to \in Records
      <3>1. \A t, w \in 0 .. Messages, p \in {"waiting", "finish"} :
               [r EXCEPT !.taken = t, !.wrote = w, !.pc = p] \in Records
        BY <1>1 DEF Records
      <3>2. /\ r.taken + 1 \in 0 .. Messages
            /\ (IF ok /\ ~c.gone THEN r.wrote + 1 ELSE r.wrote) \in 0 .. Messages
        BY <1>1, <2>2 DEF Records, CountInv
      <3>3. (IF ok /\ r.taken + 1 < Messages THEN r.pc ELSE "finish") \in {"waiting", "finish"}
        BY <2>2
      <3>4. to = [r EXCEPT !.taken = r.taken + 1,
                           !.wrote = IF ok /\ ~c.gone THEN r.wrote + 1 ELSE r.wrote,
                           !.pc = IF ok /\ r.taken + 1 < Messages THEN r.pc ELSE "finish"]
        BY DEF to
      <3> HIDE DEF to
      <3> QED BY <3>1, <3>2, <3>3, <3>4
    <2>4. JobInv(c, to)
      BY <1>1, <2>2 DEF Records, JobInv, NewInv, ThreadInv, CountInv
    <2> HIDE DEF to
    <2> QED BY <2>2, <2>3, <2>4, GoesSound DEF c
  <1> QED BY <1>2, <1>3, <1>4, <1>5, <1>6 DEF Handler

LEMMA ThreadStep ==
    ASSUME Inv, NEW x \in Calls, Thread(x) PROVE Inv'
  <1> USE ExampleAssumption
  <1> DEFINE r == job[x]
             c == call[x]
  <1>1. r \in Records /\ NewInv(c, r) /\ ThreadInv(c, r) /\ CountInv(c, r)
    BY CallFacts DEF JobInv
  <1>2. CASE ThreadPosts(x)
    <2> DEFINE to == [r EXCEPT !.thread = "done"]
    <2>1. Goes(x, to) /\ r.thread = "posting"
      BY <1>2 DEF ThreadPosts
    <2> HIDE DEF r, c
    <2>2. to \in Records
      BY <1>1 DEF Records
    <2>3. JobInv(c, to)
      BY <1>1, <2>1 DEF Records, JobInv, NewInv, ThreadInv, CountInv, NoJob
    <2> HIDE DEF to
    <2> QED BY <2>1, <2>2, <2>3, GoesSound DEF c
  <1>3. CASE ThreadSends(x)
    <2> DEFINE to == [r EXCEPT !.sent = @ + 1]
    <2>1. Goes(x, to) /\ r.thread = "sending" /\ r.sent < Messages
      BY <1>3 DEF ThreadSends
    <2> HIDE DEF r, c
    <2>2. to \in Records
      BY <1>1, <2>1 DEF Records
    <2>3. JobInv(c, to)
      BY <1>1, <2>1 DEF Records, JobInv, NewInv, ThreadInv, CountInv, NoJob
    <2> HIDE DEF to
    <2> QED BY <2>1, <2>2, <2>3, GoesSound DEF c
  <1>4. CASE ThreadCloses(x)
    <2> DEFINE to == [r EXCEPT !.thread = "done", !.open = FALSE]
    <2>1. Goes(x, to) /\ r.thread = "sending"
      BY <1>4 DEF ThreadCloses
    <2> HIDE DEF r, c
    <2>2. to \in Records
      BY <1>1 DEF Records
    <2>3. JobInv(c, to)
      BY <1>1, <2>1 DEF Records, JobInv, NewInv, ThreadInv, CountInv, NoJob
    <2> HIDE DEF to
    <2> QED BY <2>1, <2>2, <2>3, GoesSound DEF c
  <1> QED BY <1>2, <1>3, <1>4 DEF Thread

LEMMA NextInv == Inv /\ [Next]_vars => Inv'
  <1> SUFFICES ASSUME Inv, [Next]_vars PROVE Inv'
    OBVIOUS
  <1>1. CASE UNCHANGED vars
    <2>1. UNCHANGED GP!vars /\ UNCHANGED <<call, job>>
      BY <1>1 DEF vars, serverVars, GP!vars, GP!serverVars
    <2>2. GP!Inv'
      BY <2>1, ServerAssumptions, GP!NextInv DEF Inv
    <2> QED BY <2>1, <2>2 DEF Inv
  <1>2. CASE Next
    BY <1>2, ServerStep, ArriveStep, StartStep, HandlerStep, ThreadStep, GoneStep DEF Next
  <1> QED BY <1>1, <1>2

\* Every state a behaviour reaches satisfies the inductive invariant.
THEOREM Invariance == Spec => []Inv
  BY InitInv, NextInv, PTL DEF Spec

\* Every field stays in its range: no handler takes, counts or writes more
\* messages than a stream has.
THEOREM TypeCorrect == Spec => []TypeOK
  <1>1. Inv => TypeOK
    BY DEF Inv, Records, TypeOK, GP!Inv, GP!TypeOK, G!TypeOK, GP!NoCall, G!NoCall
  <1> QED BY <1>1, Invariance, PTL

\* When the contexts are gone the only detached threads that still use them
\* are those of streams whose client has left: every other one has its handler
\* waiting for it, and the contexts go only after the threads that run them,
\* which stay for every call they hold.
THEOREM LateTheorem == Spec => []LateOnlyAfterLeave
  <1>1. ASSUME Inv, m_grpc_contexts = << >>, NEW x \in Calls PROVE call[x].st # "running"
    <2>1. DOMAIN m_threads = {}
      BY <1>1 DEF Inv, GP!Inv, GP!TypeOK
    <2> QED BY <1>1, <2>1 DEF Inv, GP!Inv, GP!HeldIsRun, GP!Active
  <1>2. Inv => LateOnlyAfterLeave
    BY <1>1 DEF Inv, JobInv, ThreadInv, LateOnlyAfterLeave
  <1> QED BY <1>2, Invariance, PTL
=============================================================================
