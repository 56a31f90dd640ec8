------------------------- MODULE GeneratedCallsProofs -------------------------
(***************************************************************************)
(* Theorems of GeneratedCalls.tla, for every window: the type invariant,   *)
(* and what a status OK tells the client about the conversation.           *)
(***************************************************************************)
EXTENDS GeneratedCalls, TLAPS

-----------------------------------------------------------------------------
(* The inductive invariant.                                                *)

\* Where the two sides of each pair can be.
Places ==
    /\ c = "start" => s = "none"
    /\ kind = "notice" => /\ c \in {"start", "talk", "finish", "done"}
                          /\ s \in {"none", "arriving", "read", "write", "finish", "done"}
    /\ kind = "unary" => /\ c \in {"start", "finish", "done"}
                         /\ s \in {"none", "arriving", "finish", "done"}
    /\ kind = "stream" => /\ c \in {"start", "read", "finish", "done"}
                          /\ s \in {"none", "arriving", "write", "finish", "done"}
    /\ kind = "notify" => /\ c \in {"start", "read", "finish", "done"}
                          /\ s \in {"none", "arriving", "write", "wait", "done"}
    /\ kind = "clientstream" =>
          /\ c \in {"start", "meta", "write", "finish", "done"}
          /\ s \in {"none", "arriving", "meta", "read", "finish", "done"}

\* The client sends at most once, and nothing after writes_done.
SendsOnce ==
    /\ kind \in {"unary", "stream", "notify"} => up = 0
    /\ kind = "notice" => /\ "write" \in todo => up = 0
                          /\ c = "finish" \/ half => todo = {}
    /\ kind = "clientstream" /\ c \in {"start", "meta", "write"} => up = 0 /\ ~half

\* A handler past its reads has read all there is to read, over a call that
\* has not ended; one past its write has answered.
HandlerDone ==
    /\ kind = "notice" /\ s \in {"write", "finish", "done"} =>
          over \/ ("write" \notin todo /\ up = 0)
    /\ kind = "clientstream" /\ s \in {"finish", "done"} => over \/ (half /\ up = 0)
    /\ kind \in {"notice", "stream"} /\ s \in {"finish", "done"} =>
          over \/ got \/ down > 0

\* So the status says that the conversation was complete when it was sent, also
\* if the call ends before the client has it.
StatusSent ==
    fin => /\ s = "done" /\ up = 0 /\ kind # "notify"
           /\ kind = "notice" => "write" \notin todo
           /\ kind = "clientstream" => half
           /\ kind \in {"notice", "stream"} => got \/ down > 0

StatusRead ==
    /\ got => kind \in {"notice", "stream", "notify"}
    /\ status = "ok" => c = "done" /\ fin /\ down = 0

Inv == TypeOK /\ Places /\ SendsOnce /\ HandlerDone /\ StatusSent /\ StatusRead

LEMMA InitInv == Init => Inv
  <1> SUFFICES ASSUME Init PROVE Inv
    OBVIOUS
  <1>1. TypeOK
    <2>1. /\ half \in BOOLEAN /\ meta \in BOOLEAN /\ fin \in BOOLEAN
          /\ over \in BOOLEAN /\ got \in BOOLEAN
      BY Zenon DEF Init
    <2> QED BY <2>1, WindowAssumption DEF Init, TypeOK
  <1>2. Places /\ SendsOnce /\ HandlerDone /\ StatusSent /\ StatusRead
    BY DEF Init, Places, SendsOnce, HandlerDone, StatusSent, StatusRead
  <1> QED BY <1>1, <1>2 DEF Inv

-----------------------------------------------------------------------------
(* The client.                                                             *)

LEMMA ClientStep ==
    ASSUME Inv, Client \/ CStartFails \/ Over PROVE Inv'
  <1> USE WindowAssumption
      DEF Inv, TypeOK, Places, SendsOnce, HandlerDone, StatusSent, StatusRead, sent
  <1>1. CASE CStart
    BY <1>1 DEF CStart, ClientGoes, AfterStart
  <1>2. CASE CMetadata
    BY <1>2 DEF CMetadata, ClientGoes
  <1>3. CASE CWrite
    BY <1>3 DEF CWrite, ClientGoes, Write
  <1>4. CASE \E ok \in BOOLEAN : CRead(ok)
    <2>1. PICK ok \in BOOLEAN : CRead(ok)
      BY <1>4
    <2>2. CASE ok
      BY <2>1, <2>2 DEF CRead, ClientGoes, Read
    <2>3. CASE ~ok
      BY <2>1, <2>3 DEF CRead, ClientGoes, Read
    <2> QED BY <2>2, <2>3
  <1>5. CASE CTalk
    <2>1. CASE "write" \in todo /\ Write /\ todo' = todo \ {"write"} /\ UNCHANGED <<down, got>>
      BY <1>5, <2>1 DEF CTalk, ClientGoes, Write
    <2>2. CASE Read(TRUE) /\ todo' = todo \ {"read"} /\ UNCHANGED up
      BY <1>5, <2>2 DEF CTalk, ClientGoes, Read
    <2>3. CASE Read(FALSE) /\ todo' = todo \ {"read"} /\ UNCHANGED up
      BY <1>5, <2>3 DEF CTalk, ClientGoes, Read
    <2> QED BY ONLY <1>5, <2>1, <2>2, <2>3 DEF CTalk
  <1>6. CASE CTalked
    BY <1>6 DEF CTalked, ClientGoes
  <1>7. CASE CWritesDone
    BY <1>7 DEF CWritesDone, ClientGoes
  <1>8. CASE CFinish
    BY <1>8 DEF CFinish, ClientGoes
  <1>9. CASE CStartFails
    BY <1>9 DEF CStartFails, AfterStart
  <1>10. CASE Over
    BY <1>10 DEF Over
  <1> QED BY ONLY <1>1, <1>2, <1>3, <1>4, <1>5, <1>6, <1>7, <1>8, <1>9, <1>10,
                  Client \/ CStartFails \/ Over DEF Client

-----------------------------------------------------------------------------
(* The handlers.                                                           *)

LEMMA ServerStep ==
    ASSUME Inv, Server \/ SDone PROVE Inv'
  <1> USE WindowAssumption
      DEF Inv, TypeOK, Places, SendsOnce, HandlerDone, StatusSent, StatusRead, HandlerGoes
  <1>1. CASE SStart
    BY <1>1 DEF SStart
  <1>2. CASE \E ok \in BOOLEAN : SSendMetadata(ok)
    BY <1>2 DEF SSendMetadata
  <1>3. CASE \E ok \in BOOLEAN : SRead(ok)
    BY <1>3 DEF SRead, AfterRead
  <1>4. CASE \E ok \in BOOLEAN : SWrite(ok)
    <2>1. PICK ok \in BOOLEAN : SWrite(ok)
      BY <1>4
    <2>2. CASE over
      BY <2>1, <2>2 DEF SWrite
    <2>3. CASE ~over
      BY <2>1, <2>3 DEF SWrite
    <2> QED BY <2>2, <2>3
  <1>5. CASE SAlarm \/ SDone
    <2>1. CASE SAlarm
      BY <2>1 DEF SAlarm
    <2>2. CASE SDone
      BY <2>2 DEF SDone
    <2> QED BY <1>5, <2>1, <2>2
  <1>6. CASE SFinish
    BY <1>6 DEF SFinish
  <1> QED BY ONLY <1>1, <1>2, <1>3, <1>4, <1>5, <1>6, Server \/ SDone DEF Server

LEMMA NextInv == Inv /\ [Next]_vars => Inv'
  <1> SUFFICES ASSUME Inv, [Next]_vars PROVE Inv'
    OBVIOUS
  <1>1. CASE UNCHANGED vars
    BY <1>1 DEF Inv, TypeOK, Places, SendsOnce, HandlerDone, StatusSent, StatusRead,
                vars, sent
  <1>2. CASE Next
    BY <1>2, ClientStep, ServerStep DEF Next
  <1> QED BY <1>1, <1>2

\* Every state a behaviour reaches satisfies the inductive invariant.
THEOREM Invariance == Spec => []Inv
  BY InitInv, NextInv, PTL DEF Spec

\* Every variable stays in its range: flow control holds for every window, and
\* no client sends more than one message.
THEOREM TypeCorrect == Spec => []TypeOK
  BY Invariance, PTL DEF Inv

\* A status OK tells the client that the handler has read all its messages and
\* that it has read all the handler's.
THEOREM ConversationTheorem == Spec => []Conversation
  <1>1. Inv => Conversation
    BY DEF Inv, StatusSent, StatusRead, TypeOK, Conversation
  <1> QED BY <1>1, Invariance, PTL
=============================================================================
