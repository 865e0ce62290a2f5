------------------------------- MODULE DataPlane -------------------------------
(***************************************************************************)
(* A data plane process with its logger and, in the direct mode, what its   *)
(* handler (CreateProxyHandler in proxy.go, logger.Middleware) does with a   *)
(* request.  ProxyMain says where main is; LossyLog, which AsyncWriter      *)
(* implements, is the log; main's deferred cleanup closes it and waits.     *)
(*                                                                         *)
(* Of the records only "http_request" is kept, one for a request; what the   *)
(* others do to the queue is that any record may be dropped.                *)
(***************************************************************************)
EXTENDS ProxyMain, Sequences

\* The status of a reply of the backend, one that is not the final one, the
\* one of the error handler for a client with a certificate (no other gets
\* through the handshake), and "none".
Statuses == {200, 103, 401, 0}

Records == [request : Requests, status : Statuses]

VARIABLES
    handler,    \* where the handler of each request is
    recorded,   \* statusCode of its statusResponseWriter
    sent,       \* the final status its client has got, or 0
    log,        \* the records accepted
    written,    \* those on the output
    finished,   \* the logger's Close has returned
    failed      \* the output has failed

handling == <<handler, recorded, sent>>
logging == <<log, written, finished, failed>>
dataVars == <<vars, handling, logging>>

Log == INSTANCE LossyLog WITH closed <- ~queue

DataInit ==
    /\ Init
    /\ Log!Init
    /\ handler = [r \in Requests |-> "none"]
    /\ recorded = [r \in Requests |-> 0]
    /\ sent = [r \in Requests |-> 0]

-----------------------------------------------------------------------------
(* The handler of the direct mode                                           *)

\* The mux: /healthz goes past the middleware, all else through it, which
\* takes a status of 200 for granted.
Route(r) ==
    /\ Accept(r)
    /\ IF mode = "direct"
       THEN handler' = [handler EXCEPT ![r] = "health"] \/ handler' = [handler EXCEPT ![r] = "proxying"]
       ELSE handler' = [handler EXCEPT ![r] = "connection"]
    /\ recorded' = [recorded EXCEPT ![r] = 200]
    /\ UNCHANGED <<sent, logging>>

InHandler(r, h) == Running /\ requests[r] = "inflight" /\ handler[r] = h

\* Mutated form: the first status is the one that counts.
WriteHeader_First(r, code) ==
    /\ recorded' = [recorded EXCEPT ![r] = IF @ = 200 THEN code ELSE @]
    /\ sent' = [sent EXCEPT ![r] = IF code = 103 THEN @ ELSE code]

\* An interim status is followed by another; the last one counts.
WriteHeader(r, code) ==
    /\ recorded' = [recorded EXCEPT ![r] = code]
    /\ sent' = [sent EXCEPT ![r] = IF code = 103 THEN @ ELSE code]

Interim(r) ==
    /\ InHandler(r, "proxying")
    /\ WriteHeader(r, 103)
    /\ UNCHANGED <<vars, handler, logging>>

\* The final header of the backend's reply; its body follows.
Reply(r) ==
    /\ InHandler(r, "proxying")
    /\ WriteHeader(r, 200)
    /\ handler' = [handler EXCEPT ![r] = "copying"]
    /\ UNCHANGED <<vars, logging>>

\* No reply, or one that switches protocols: the ErrorHandler.  (The
\* middleware's ResponseWriter hides the Hijacker that a switch needs.)
UpstreamErr(r) ==
    /\ InHandler(r, "proxying")
    /\ WriteHeader(r, 401)
    /\ handler' = [handler EXCEPT ![r] = "served"]
    /\ UNCHANGED <<vars, logging>>

Copied(r) ==
    /\ InHandler(r, "copying")
    /\ handler' = [handler EXCEPT ![r] = "served"]
    /\ UNCHANGED <<vars, recorded, sent, logging>>

\* The backend or the client breaks off: ReverseProxy panics with
\* http.ErrAbortHandler, past the middleware; the server closes the connection.
CopyAborts(r) ==
    /\ InHandler(r, "copying")
    /\ Answer(r)
    /\ handler' = [handler EXCEPT ![r] = "done"]
    /\ UNCHANGED <<recorded, sent, logging>>

\* Mutated form: the handler returns, a goroutine of its own logs.
LogAccess_Later(r) ==
    /\ Running
    /\ handler[r] = "served"
    /\ IF requests[r] = "inflight" THEN Answer(r) /\ UNCHANGED <<handler, log>>
       ELSE /\ IF queue THEN GoesOn ELSE End("panicked")
            /\ UNCHANGED <<mode, pc, failCount, proxy, notified, stop, serving, rotation,
                           grpc, queue>>
            /\ handler' = [handler EXCEPT ![r] = "done"]
            /\ log' = IF queue /\ ~failed
                      THEN Append(log, [request |-> r, status |-> recorded[r]]) ELSE log
    /\ UNCHANGED <<recorded, sent, written, finished, failed>>

\* The record, accepted or dropped; a closed queue panics.
LogAccess(r) ==
    /\ InHandler(r, "served")
    /\ IF queue THEN GoesOn ELSE End("panicked")
    /\ UNCHANGED <<mode, pc, failCount, proxy, notified, stop, serving, rotation, grpc, queue>>
    /\ handler' = [handler EXCEPT ![r] = "done"]
    /\ \/ /\ Log!Accept
          /\ log' = Append(log, [request |-> r, status |-> recorded[r]])
       \/ UNCHANGED logging
    /\ UNCHANGED <<recorded, sent>>

\* The handler returns.
Answered(r) ==
    /\ handler[r] \in {"done", "health", "connection"}
    /\ Answer(r)
    /\ UNCHANGED <<handling, logging>>

-----------------------------------------------------------------------------
(* The logger, and main                                                     *)

LogWrites ==
    /\ Running
    /\ UNCHANGED <<vars, handling>>
    /\ Log!Persist \/ Log!Fail

\* The worker's last flush.
LogFinishes ==
    /\ Running
    /\ UNCHANGED <<vars, handling>>
    /\ Log!Finish

\* Mutated form: main closes the queue and does not wait.
CleanupReturns_NoWait == Return /\ UNCHANGED <<handling, logging>>


\* cleanup: close(aw.buffer), then aw.wg.Wait().
CleanupBegins == Cleanup /\ Log!Close /\ UNCHANGED handling

CleanupReturns == finished /\ Return /\ UNCHANGED <<handling, logging>>

DataMain ==
    \/ /\ \/ NewProxyOk \/ NewProxyErr \/ SleepEnds
          \/ RunDirect \/ Listen \/ ListenErr
          \/ Shutdown \/ Drained \/ DrainTimeout \/ CloseConn \/ TakeErr
       /\ UNCHANGED <<handling, logging>>
    \/ CleanupBegins \/ CleanupReturns

Others ==
    /\ \/ Serve \/ ServeErr
       \/ \E d \in Directions : AcceptErr(d)
       \/ RotationCalls \/ RotationReturns \/ RotationLogs
       \/ Signal
    /\ UNCHANGED <<handling, logging>>

DataNext ==
    \/ DataMain
    \/ Others
    \/ \E r \in Requests :
         \/ Route(r) \/ Interim(r) \/ Reply(r) \/ UpstreamErr(r)
         \/ Copied(r) \/ CopyAborts(r) \/ LogAccess(r) \/ Answered(r)
    \/ LogWrites \/ LogFinishes

DataSpec == DataInit /\ [][DataNext]_dataVars

\* As in ProxyMain; and Close returns (AsyncWriter: CloseReturns).
FairDataSpec == DataSpec /\ WF_dataVars(DataMain) /\ WF_dataVars(LogFinishes)

-----------------------------------------------------------------------------
(* Properties                                                               *)

DataTypeOK ==
    /\ TypeOK
    /\ handler \in [Requests -> {"none", "health", "connection", "proxying", "copying",
                                 "served", "done"}]
    /\ recorded \in [Requests -> Statuses]
    /\ sent \in [Requests -> Statuses]
    /\ log \in Seq(Records)
    /\ written \in Seq(Records)
    /\ finished \in BOOLEAN
    /\ failed \in BOOLEAN

\* middleware.go:73: the status of an access record is the one its client got,
\* also when the backend sends an interim reply and fails after it; a
\* request has one record at most.
RecordedIsSent ==
    \A i \in 1 .. Len(log) :
        /\ log[i].status = sent[log[i].request]
        /\ \A j \in 1 .. Len(log) : log[i].request = log[j].request => i = j

\* main.go:43: a process that exits with success has written every record it
\* accepted, those of the requests drained at the end too (a failed output has
\* lost its records from the log).
RecordsSurvive == exit = "ok" => written = log

\* A shutdown may end in a panic: the rotation, which nothing stops, logs into
\* the closed queue.  Nothing else panics, and no request is cut by it.
PanicCutsNothing ==
    exit = "panicked" => /\ pc = "return" /\ ~queue
                         /\ \A r \in Requests : requests[r] \in {"new", "answered"}

\* The handlers and the logger leave main's life as it is: none of them ends
\* the process, and the wait for the worker is one more step of main.
ImplementsProxyMain == Spec

=============================================================================
