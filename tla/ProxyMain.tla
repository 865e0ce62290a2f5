------------------------------- MODULE ProxyMain -------------------------------
(***************************************************************************)
(* The life of a data plane process: main (data-plane/cmd/main.go) creates  *)
(* the proxy, with retries, and runs it in one of its modes until a signal  *)
(* or an error ends it (data-plane/internal/proxy/proxy.go: NewProxy, Run,  *)
(* runDirectMode, runRedirectMode, runTProxyMode and the accept loops).     *)
(*                                                                         *)
(* Four kinds of goroutines run here: main, the HTTP server of the direct   *)
(* mode or the two accept loops of the others, the handlers of the requests *)
(* they accept, and the certificate rotation, of which only what matters to *)
(* the shutdown is kept: it calls over the gRPC connection and it logs.     *)
(***************************************************************************)
EXTENDS Naturals

CONSTANTS
    Requests,       \* requests (direct mode) or connections (the others)
    LoopMax,        \* the bound of the retry loop's condition (10)
    MaxAttempts     \* the attempt after which main gives up (10)

ASSUME AttemptsAssumption == LoopMax \in Nat /\ MaxAttempts \in 1 .. LoopMax

\* "intercept" is the redirect mode and the TPROXY mode, which differ in how
\* they listen and in their handlers.
Modes == {"direct", "intercept"}
Directions == {"inbound", "outbound"}

VARIABLES
    mode,       \* PROXY_MODE
    pc,         \* where main is
    failCount,  \* main's local
    proxy,      \* p is not nil
    notified,   \* signal.Notify has been called
    stop,       \* the channel of the signals holds one
    server,     \* the http.Server of the direct mode
    acceptors,  \* the accept loops of the intercepting modes
    errs,       \* errors in errCh
    requests,   \* what has become of every request
    rotation,   \* the rotation goroutine
    grpc,       \* the connection to the control plane is open
    queue,      \* the logger's queue is open
    exit        \* "running", or how the process has ended

vars == <<mode, pc, failCount, proxy, notified, stop, server, acceptors, errs,
          requests, rotation, grpc, queue, exit>>

serving == <<server, acceptors, errs>>

Init ==
    /\ mode \in Modes
    /\ pc = "first"
    /\ failCount = 0
    /\ proxy = FALSE
    /\ notified = FALSE
    /\ stop = FALSE
    /\ server = "none"
    /\ acceptors = [d \in Directions |-> "none"]
    /\ errs = 0
    /\ requests = [r \in Requests |-> "new"]
    /\ rotation = "none"
    /\ grpc = TRUE
    /\ queue = TRUE
    /\ exit = "running"

Running == exit = "running"

\* The process ends, and what it was serving is cut.
End(how) ==
    /\ exit' = how
    /\ requests' = [r \in Requests |->
         IF requests[r] = "inflight" THEN "cut" ELSE requests[r]]

GoesOn == UNCHANGED <<exit, requests>>

-----------------------------------------------------------------------------
(* Creation                                                                 *)

\* A token, its SPIFFE id, a certificate; then the rotation starts.
NewProxyOk ==
    /\ Running
    /\ pc \in {"first", "retry"}
    /\ proxy' = TRUE
    /\ rotation' = "waiting"
    /\ pc' = "run"
    /\ GoesOn
    /\ UNCHANGED <<mode, failCount, notified, stop, serving, grpc, queue>>

\* Mutated form: the attempt is not counted.
LoopHead_NoCount ==
    IF failCount <= LoopMax
    THEN pc' = "sleep" /\ UNCHANGED failCount
    ELSE pc' = "run" /\ UNCHANGED failCount

\* for failCount <= 10 { failCount++; sleep ... }; below the loop is p.Run().
LoopHead ==
    IF failCount <= LoopMax
    THEN pc' = "sleep" /\ failCount' = failCount + 1
    ELSE pc' = "run" /\ UNCHANGED failCount

\* Mutated form: the last attempt leaves the loop instead of the process.
NewProxyErr_Breaks ==
    /\ Running
    /\ pc \in {"first", "retry"}
    /\ IF pc = "retry" /\ failCount = MaxAttempts
       THEN pc' = "run" /\ UNCHANGED failCount
       ELSE LoopHead
    /\ GoesOn
    /\ UNCHANGED <<mode, proxy, notified, stop, serving, rotation, grpc, queue>>

\* Any step of NewProxy fails; nothing of the attempt is kept.
NewProxyErr ==
    /\ Running
    /\ pc \in {"first", "retry"}
    /\ IF pc = "retry" /\ failCount = MaxAttempts
       THEN End("failed") /\ UNCHANGED <<pc, failCount>>
       ELSE LoopHead /\ GoesOn
    /\ UNCHANGED <<mode, proxy, notified, stop, serving, rotation, grpc, queue>>

SleepEnds ==
    /\ Running
    /\ pc = "sleep"
    /\ pc' = "retry"
    /\ GoesOn
    /\ UNCHANGED <<mode, failCount, proxy, notified, stop, serving, rotation, grpc, queue>>

-----------------------------------------------------------------------------
(* Run: the direct mode                                                     *)

\* p.Run(): RunsWithProxy is that p is not nil here.
RunDirect ==
    /\ Running
    /\ pc = "run"
    /\ proxy
    /\ mode = "direct"
    /\ notified' = TRUE
    /\ server' = "starting"
    /\ pc' = "stop"
    /\ GoesOn
    /\ UNCHANGED <<mode, failCount, proxy, stop, acceptors, errs, rotation, grpc, queue>>

Serve ==
    /\ Running
    /\ server = "starting"
    /\ server' = "serving"
    /\ GoesOn
    /\ UNCHANGED <<mode, pc, failCount, proxy, notified, stop, acceptors, errs,
                   rotation, grpc, queue>>

\* The port is taken, or the listener fails for good: the goroutine logs it
\* and ends, and main goes on waiting for a signal.
ServeErr ==
    /\ Running
    /\ server \in {"starting", "serving"}
    /\ server' = "failed"
    /\ GoesOn
    /\ UNCHANGED <<mode, pc, failCount, proxy, notified, stop, acceptors, errs,
                   rotation, grpc, queue>>

\* Mutated form: Close, which does not wait, for Shutdown.
Shutdown_Close ==
    /\ Running
    /\ pc = "stop"
    /\ stop
    /\ stop' = FALSE
    /\ server' = "closed"
    /\ pc' = "closeConn"
    /\ requests' = [r \in Requests |->
         IF requests[r] = "inflight" THEN "cut" ELSE requests[r]]
    /\ UNCHANGED <<mode, failCount, proxy, notified, acceptors, errs, rotation,
                   grpc, queue, exit>>

\* Mutated form: the logger is closed with the signal.
Shutdown_ClosesLog ==
    /\ Running
    /\ pc = "stop"
    /\ stop
    /\ stop' = FALSE
    /\ server' = "closed"
    /\ queue' = FALSE
    /\ pc' = "drain"
    /\ GoesOn
    /\ UNCHANGED <<mode, failCount, proxy, notified, acceptors, errs, rotation, grpc>>

\* <-stop; server.Shutdown closes the listener, and waits.
Shutdown ==
    /\ Running
    /\ pc = "stop"
    /\ stop
    /\ stop' = FALSE
    /\ server' = "closed"
    /\ pc' = "drain"
    /\ GoesOn
    /\ UNCHANGED <<mode, failCount, proxy, notified, acceptors, errs, rotation, grpc, queue>>

InFlight == {r \in Requests : requests[r] = "inflight"}

Drained ==
    /\ Running
    /\ pc = "drain"
    /\ InFlight = {}
    /\ pc' = "closeConn"
    /\ GoesOn
    /\ UNCHANGED <<mode, failCount, proxy, notified, stop, serving, rotation, grpc, queue>>

\* Mutated form: Shutdown has no deadline.
DrainTimeout_Never ==
    /\ FALSE
    /\ UNCHANGED vars

\* The ten seconds of shutdownCtx are over: Run returns the error.
DrainTimeout ==
    /\ Running
    /\ pc = "drain"
    /\ InFlight # {}
    /\ End("failed")
    /\ UNCHANGED <<mode, pc, failCount, proxy, notified, stop, serving, rotation, grpc, queue>>

\* main returns: the deferred calls, the last one first.
CloseConn ==
    /\ Running
    /\ pc = "closeConn"
    /\ grpc' = FALSE
    /\ pc' = "cleanup"
    /\ GoesOn
    /\ UNCHANGED <<mode, failCount, proxy, notified, stop, serving, rotation, queue>>

Cleanup ==
    /\ Running
    /\ pc = "cleanup"
    /\ queue' = FALSE
    /\ pc' = "return"
    /\ GoesOn
    /\ UNCHANGED <<mode, failCount, proxy, notified, stop, serving, rotation, grpc>>

Return ==
    /\ Running
    /\ pc = "return"
    /\ End("ok")
    /\ UNCHANGED <<mode, pc, failCount, proxy, notified, stop, serving, rotation, grpc, queue>>

-----------------------------------------------------------------------------
(* Run: the intercepting modes                                              *)

\* Both listeners, and a loop for each.
Listen ==
    /\ Running
    /\ pc = "run"
    /\ proxy
    /\ mode = "intercept"
    /\ acceptors' = [d \in Directions |-> "accepting"]
    /\ pc' = "errCh"
    /\ GoesOn
    /\ UNCHANGED <<mode, failCount, proxy, notified, stop, server, errs, rotation, grpc, queue>>

\* One of them fails (the other is closed): main exits with the error.
ListenErr ==
    /\ Running
    /\ pc = "run"
    /\ proxy
    /\ mode = "intercept"
    /\ End("failed")
    /\ UNCHANGED <<mode, pc, failCount, proxy, notified, stop, serving, rotation, grpc, queue>>

\* Mutated form: the loop returns without a word.
AcceptErr_Silent(d) ==
    /\ Running
    /\ acceptors[d] = "accepting"
    /\ acceptors' = [acceptors EXCEPT ![d] = "dead"]
    /\ GoesOn
    /\ UNCHANGED <<mode, pc, failCount, proxy, notified, stop, server, errs,
                   rotation, grpc, queue>>

\* Any error of Accept, a passing one (no descriptors left) too, ends the loop;
\* errCh has room for both.
AcceptErr(d) ==
    /\ Running
    /\ acceptors[d] = "accepting"
    /\ acceptors' = [acceptors EXCEPT ![d] = "dead"]
    /\ errs' = errs + 1
    /\ GoesOn
    /\ UNCHANGED <<mode, pc, failCount, proxy, notified, stop, server, rotation, grpc, queue>>

\* return <-errCh; main exits with the error.
TakeErr ==
    /\ Running
    /\ pc = "errCh"
    /\ errs > 0
    /\ errs' = errs - 1
    /\ End("failed")
    /\ UNCHANGED <<mode, pc, failCount, proxy, notified, stop, server, acceptors,
                   rotation, grpc, queue>>

-----------------------------------------------------------------------------
(* The requests, the rotation, the signals                                  *)

Accept(r) ==
    /\ Running
    /\ requests[r] = "new"
    /\ server = "serving" \/ \E d \in Directions : acceptors[d] = "accepting"
    /\ requests' = [requests EXCEPT ![r] = "inflight"]
    /\ UNCHANGED <<mode, pc, failCount, proxy, notified, stop, serving, rotation,
                   grpc, queue, exit>>

\* The handler answers, or closes the connection.
Answer(r) ==
    /\ Running
    /\ requests[r] = "inflight"
    /\ requests' = [requests EXCEPT ![r] = "answered"]
    /\ UNCHANGED <<mode, pc, failCount, proxy, notified, stop, serving, rotation,
                   grpc, queue, exit>>

\* The rotation's context is never done: it goes on until the process ends.
RotationCalls ==
    /\ Running
    /\ rotation = "waiting"
    /\ rotation' = "calling"
    /\ GoesOn
    /\ UNCHANGED <<mode, pc, failCount, proxy, notified, stop, serving, grpc, queue>>

\* A call comes back, at the latest when the connection is closed under it.
RotationReturns ==
    /\ Running
    /\ rotation = "calling"
    /\ rotation' = "logging"
    /\ GoesOn
    /\ UNCHANGED <<mode, pc, failCount, proxy, notified, stop, serving, grpc, queue>>

\* Success or failure is logged; the queue may be closed, and a send on it panics.
RotationLogs ==
    /\ Running
    /\ rotation = "logging"
    /\ rotation' = "waiting"
    /\ IF queue THEN GoesOn ELSE End("panicked")
    /\ UNCHANGED <<mode, pc, failCount, proxy, notified, stop, serving, grpc, queue>>

\* SIGTERM or SIGINT, at any time.
Signal ==
    /\ Running
    /\ ~stop
    /\ IF notified THEN stop' = TRUE /\ GoesOn ELSE End("killed") /\ UNCHANGED stop
    /\ UNCHANGED <<mode, pc, failCount, proxy, notified, serving, rotation, grpc, queue>>

-----------------------------------------------------------------------------

Main ==
    \/ NewProxyOk \/ NewProxyErr \/ SleepEnds
    \/ RunDirect \/ Listen \/ ListenErr
    \/ Shutdown \/ Drained \/ DrainTimeout \/ CloseConn \/ Cleanup \/ Return
    \/ TakeErr

Next ==
    \/ Main
    \/ Serve \/ ServeErr
    \/ \E d \in Directions : AcceptErr(d)
    \/ \E r \in Requests : Accept(r) \/ Answer(r)
    \/ RotationCalls \/ RotationReturns \/ RotationLogs
    \/ Signal

\* main is scheduled, and its calls and timers end.  Nothing makes a handler
\* answer.
Spec == Init /\ [][Next]_vars
FairSpec == Spec /\ WF_vars(Main)

-----------------------------------------------------------------------------
(* Properties                                                               *)

TypeOK ==
    /\ mode \in Modes
    /\ pc \in {"first", "sleep", "retry", "run", "stop", "drain", "closeConn",
               "cleanup", "return", "errCh"}
    /\ failCount \in 0 .. MaxAttempts
    /\ proxy \in BOOLEAN
    /\ notified \in BOOLEAN
    /\ stop \in BOOLEAN
    /\ server \in {"none", "starting", "serving", "failed", "closed"}
    /\ acceptors \in [Directions -> {"none", "accepting", "dead"}]
    /\ errs \in 0 .. 2
    /\ requests \in [Requests -> {"new", "inflight", "answered", "cut"}]
    /\ rotation \in {"none", "waiting", "calling", "logging"}
    /\ grpc \in BOOLEAN
    /\ queue \in BOOLEAN
    /\ exit \in {"running", "ok", "failed", "panicked", "killed"}

\* The retry loop is left with a proxy or not at all: main.go:82-101 tests
\* failCount in two places, and Run has no test for nil.
RunsWithProxy == pc \notin {"first", "sleep", "retry"} => proxy

\* A sidecar never goes on with one direction only: while main waits, both
\* loops accept, or the error that makes main exit is in the channel.
BothDirections ==
    pc = "errCh" /\ Running =>
        (\A d \in Directions : acceptors[d] = "accepting") \/ errs > 0

\* A process that exits with success has answered every request it accepted
\* (README.md:77, "Graceful Shutdown").
DrainedExit == exit = "ok" => \A r \in Requests : requests[r] \in {"new", "answered"}

\* main.go:82-100 ends: a process that starts serves, or is gone.
StartupEnds == pc = "first" ~> pc \in {"stop", "errCh"} \/ ~Running

\* After the signal the direct mode ends, also when a handler hangs.
SignalEnds == stop ~> ~Running

\* README.md:78, "Handle SIGTERM/SIGINT signals; implement server.Shutdown": a
\* process that serves is not killed by one.
SignalsHandled == pc \in {"stop", "drain", "errCh"} => exit # "killed"

=============================================================================
