--------------------------- MODULE GeneratedCalls ---------------------------
(***************************************************************************)
(* The program that the templates generate for a new project: the handlers *)
(* of example_project's server.cpp, each with the coroutine of             *)
(* example_client.cpp that calls it, over one gRPC call.                   *)
(*                                                                         *)
(* The call itself is external.  A message written waits for its reader; a *)
(* write waits while Window messages do (flow control).  asio-grpc's       *)
(* finish() of a client first signals that it has no more to write, then   *)
(* gets the status, which follows the last message.  Once the call is over *)
(* for the client (its deadline of five seconds, a lost connection), what  *)
(* the server sends is lost, and its operations fail sooner or later.      *)
(***************************************************************************)
EXTENDS Integers

CONSTANT Window

ASSUME WindowAssumption == Window \in Nat \ {0}

VARIABLES kind,      \* the rpc, "notify" is ServerStreaming when done is notified
          c, s,      \* what the client and the handler wait for
          todo,      \* what the client has still to do of read && write
          up, down,  \* messages on their way to the server, to the client
          half,      \* the client has signalled writes_done
          meta,      \* the server has sent initial metadata
          fin,       \* the server's status is on its way
          over,      \* deadline, or connection lost
          got,       \* history: the client has read a response
          status     \* what finish() returned: "ok" or "error"

sent == <<up, down, half, meta, fin>>
vars == <<kind, c, s, todo, sent, over, got, status>>

Init ==
    /\ kind \in {"notice", "unary", "stream", "notify", "clientstream"}
    /\ c = "start" /\ s = "none" /\ todo = {"read", "write"}
    /\ up = 0 /\ down = 0 /\ half = FALSE /\ meta = FALSE /\ fin = FALSE
    /\ over = FALSE /\ got = FALSE /\ status = "none"

-----------------------------------------------------------------------------
(* The client.                                                             *)

ClientGoes(from, to) == c = from /\ c' = to /\ UNCHANGED <<kind, over>>

AfterStart ==
    CASE kind = "notice"             -> "talk"
      [] kind = "unary"              -> "finish"
      [] kind \in {"stream", "notify"} -> "read"
      [] kind = "clientstream"       -> "meta"

\* Starting a unary or a server-streaming call sends the request and closes
\* the client's side.
CStart ==
    /\ ClientGoes("start", AfterStart)
    /\ s' = "arriving"
    /\ half' = (kind \in {"unary", "stream", "notify"})
    /\ UNCHANGED <<todo, up, down, meta, fin, got, status>>

\* Only makeNoticeRequest looks at the result of start().
CStartFails ==
    /\ c = "start" /\ c' = IF kind = "notice" THEN "done" ELSE AfterStart
    /\ over' = TRUE
    /\ UNCHANGED <<kind, s, todo, sent, got, status>>

CMetadata ==
    /\ meta \/ fin \/ over
    /\ ClientGoes("meta", "write")
    /\ UNCHANGED <<s, todo, sent, got, status>>

Write == up' = IF over THEN up ELSE up + 1

\* The loop of a client with more to send.
CWriteAgain ==
    /\ Write
    /\ ClientGoes("write", "write")
    /\ UNCHANGED <<s, todo, down, half, meta, fin, got, status>>

CWrite ==
    /\ Write
    /\ ClientGoes("write", "finish")
    /\ UNCHANGED <<s, todo, down, half, meta, fin, got, status>>

\* A read gives the next message, or fails after the last.
Read(ok) ==
    IF ok THEN down > 0 /\ down' = down - 1 /\ got' = TRUE
    ELSE (over \/ (fin /\ down = 0)) /\ UNCHANGED <<down, got>>

CRead(ok) ==
    /\ Read(ok) /\ ClientGoes("read", IF ok THEN "read" ELSE "finish")
    /\ UNCHANGED <<s, todo, up, half, meta, fin, status>>

\* Reads before it writes.
CTalkInTurn ==
    /\ ClientGoes("talk", "talk")
    /\ \/ "write" \in todo /\ "read" \notin todo
          /\ Write /\ todo' = todo \ {"write"} /\ UNCHANGED <<down, got>>
       \/ "read" \in todo /\ (\E ok \in BOOLEAN : Read(ok)) /\ todo' = todo \ {"read"}
          /\ UNCHANGED up
    /\ UNCHANGED <<s, half, meta, fin, status>>

\* Both operations of read && write are under way at once.
CTalk ==
    /\ ClientGoes("talk", "talk")
    /\ \/ "write" \in todo /\ Write /\ todo' = todo \ {"write"} /\ UNCHANGED <<down, got>>
       \/ "read" \in todo /\ (\E ok \in BOOLEAN : Read(ok)) /\ todo' = todo \ {"read"}
          /\ UNCHANGED up
    /\ UNCHANGED <<s, half, meta, fin, status>>

CTalked ==
    /\ todo = {} /\ ClientGoes("talk", "finish")
    /\ UNCHANGED <<s, todo, sent, got, status>>

CWritesDone ==
    /\ ~half /\ half' = TRUE
    /\ ClientGoes("finish", "finish")
    /\ UNCHANGED <<s, todo, up, down, meta, fin, got, status>>

CFinish ==
    /\ half /\ ClientGoes("finish", "done")
    /\ \/ fin /\ down = 0 /\ status' = "ok"
       \/ over /\ status' = "error"
    /\ UNCHANGED <<s, todo, sent, got>>

Client ==
    \/ CStart \/ CMetadata \/ CWrite \/ (\E ok \in BOOLEAN : CRead(ok))
    \/ CTalk \/ CTalked \/ CWritesDone \/ CFinish

-----------------------------------------------------------------------------
(* The handlers.                                                           *)

HandlerGoes(from, to) ==
    s = from /\ s' = to /\ UNCHANGED <<kind, c, todo, half, over, got, status>>

SStart ==
    /\ HandlerGoes("arriving",
                   CASE kind = "notice"               -> "read"
                     [] kind = "unary"                -> "finish"
                     [] kind \in {"stream", "notify"} -> "write"
                     [] kind = "clientstream"         -> "meta")
    /\ UNCHANGED <<up, down, meta, fin>>

\* Answers without reading.
SSendMetadataOnly(ok) ==
    /\ ok \/ over
    /\ HandlerGoes("meta", IF ok THEN "finish" ELSE "done")
    /\ meta' = (meta \/ (ok /\ ~over))
    /\ UNCHANGED <<up, down, fin>>

\* An operation that sends fails only when the call is over.
SSendMetadata(ok) ==
    /\ ok \/ over
    /\ HandlerGoes("meta", IF ok THEN "read" ELSE "done")
    /\ meta' = (meta \/ (ok /\ ~over))
    /\ UNCHANGED <<up, down, fin>>

\* procNotice reads once and ignores the result, procClientStreaming reads
\* until it fails.
AfterRead(ok) ==
    CASE kind = "notice" -> "write"
      [] kind # "notice" /\ ok -> "read"
      [] kind # "notice" /\ ~ok -> "finish"

SRead(ok) ==
    /\ IF ok THEN up > 0 /\ up' = up - 1
       ELSE (over \/ (half /\ up = 0)) /\ UNCHANGED up
    /\ HandlerGoes("read", AfterRead(ok))
    /\ UNCHANGED <<down, meta, fin>>

\* Only the handler that is notified when done looks at the result.
SWrite(ok) ==
    /\ IF ok THEN over \/ down < Window ELSE over
    /\ HandlerGoes("write", CASE kind # "notify" -> "finish"
                              [] kind = "notify" /\ ok -> "wait"
                              [] kind = "notify" /\ ~ok -> "done")
    /\ IF over THEN UNCHANGED <<down, meta>> ELSE down' = down + 1 /\ meta' = TRUE
    /\ UNCHANGED <<up, fin>>

\* The alarm of thirty seconds comes first.
SAlarm == HandlerGoes("wait", "write") /\ UNCHANGED <<up, down, meta, fin>>

\* A group that waits for the alarm only.
SDoneNever == FALSE /\ UNCHANGED vars

\* wait_for_done comes first.
SDone == over /\ HandlerGoes("wait", "done") /\ UNCHANGED <<up, down, meta, fin>>

\* A handler that returns without it would cancel the call.
SFinish ==
    /\ HandlerGoes("finish", "done")
    /\ fin' = ~over
    /\ UNCHANGED <<up, down, meta>>

Server ==
    \/ SStart \/ SAlarm \/ SFinish
    \/ \E ok \in BOOLEAN : SSendMetadata(ok) \/ SRead(ok) \/ SWrite(ok)

-----------------------------------------------------------------------------
\* The deadline that every client sets, or a lost connection.
Over ==
    /\ c \notin {"start", "done"} /\ ~over /\ over' = TRUE
    /\ UNCHANGED <<kind, c, s, todo, sent, got, status>>

Next == Client \/ CStartFails \/ Server \/ SDone \/ Over

\* Both programs run.  A call that is done stays done, so that no alarm of
\* thirty seconds can come first for ever.
Fairness == WF_vars(Client) /\ WF_vars(Server) /\ SF_vars(SDone)

Spec == Init /\ [][Next]_vars /\ Fairness

-----------------------------------------------------------------------------
TypeOK ==
    /\ kind \in {"notice", "unary", "stream", "notify", "clientstream"}
    /\ c \in {"start", "talk", "meta", "write", "read", "finish", "done"}
    /\ s \in {"none", "arriving", "meta", "read", "write", "wait", "finish", "done"}
    /\ todo \subseteq {"read", "write"}
    /\ up \in 0 .. 1 /\ down \in 0 .. Window /\ got \in BOOLEAN
    /\ half \in BOOLEAN /\ meta \in BOOLEAN /\ fin \in BOOLEAN /\ over \in BOOLEAN
    /\ status \in {"none", "ok", "error"}

\* A status OK tells the client that the handler has read all its messages and
\* that it has read all the handler's: no pair talks past each other.
Conversation ==
    status = "ok" =>
        /\ s = "done" /\ up = 0 /\ down = 0
        /\ got = (kind \in {"notice", "stream"})

DeadlineExpires == WF_vars(Over)

\* Every call ends, for the client and for the handler, by its deadline at the
\* latest; the handler that is notified when done ends in no other way.
CallsEnd == DeadlineExpires => <>(c = "done" /\ s \in {"none", "done"})

\* No pair waits for each other: but for that handler, a call over a sound
\* connection ends well before any deadline.
NeedsNoDeadline == kind # "notify" /\ []~over => <>(status = "ok")
=============================================================================
