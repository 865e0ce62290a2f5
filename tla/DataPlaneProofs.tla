--------------------------- MODULE DataPlaneProofs ---------------------------
(***************************************************************************)
(* Proofs about a data plane process, for every set of requests and every   *)
(* number of attempts.  First of main and Run by themselves (ProxyMain): it *)
(* runs with a proxy only, it never serves one direction alone, and it      *)
(* exits with success only when it has answered.  Then of the process with  *)
(* its handlers and its log (DataPlane).  That the handlers never end the   *)
(* process is proved together with the invariant of ProxyMain, which says   *)
(* that none runs any more when the queue is closed.                        *)
(***************************************************************************)
EXTENDS DataPlane, TLAPS

USE AttemptsAssumption DEF Modes, Directions

Starting == {"first", "sleep", "retry", "run"}
Ending == {"closeConn", "cleanup", "return"}

DeadLoops(d) == IF acceptors[d] = "dead" THEN 1 ELSE 0

\* Before Run, and in the direct mode, nothing is accepted by a loop.
NoLoops == \A d \in Directions : acceptors[d] = "none"

\* The retry loop counts every attempt but the first, and no more than it may.
RetryInv ==
    /\ pc = "first" => failCount = 0
    /\ RunsWithProxy

\* What accepts, at each place of main; a channel holds an error at most for
\* each loop that is dead.
ServingInv ==
    /\ pc \in Starting => server = "none"
    /\ pc # "errCh" => NoLoops
    /\ pc \in {"drain"} \cup Ending => server = "closed"
    /\ pc = "errCh" => server = "none"
    /\ errs <= DeadLoops("inbound") + DeadLoops("outbound")

\* A request is cut only when the process ends, and main returns only when none
\* is in flight.
DrainInv ==
    /\ Running => \A r \in Requests : requests[r] # "cut"
    /\ pc \in Ending /\ Running => \A r \in Requests : requests[r] # "inflight"
    /\ DrainedExit

MainInv == TypeOK /\ RetryInv /\ ServingInv /\ BothDirections /\ DrainInv

LEMMA InitMain == Init => MainInv
<1>1. Init => TypeOK
  <2>1. Init => proxy \in BOOLEAN /\ notified \in BOOLEAN /\ stop \in BOOLEAN
                /\ grpc \in BOOLEAN /\ queue \in BOOLEAN
    BY Zenon DEF Init
  <2>2. Init => /\ failCount \in 0 .. MaxAttempts /\ errs \in 0 .. 2
                /\ acceptors \in [Directions -> {"none", "accepting", "dead"}]
                /\ requests \in [Requests -> {"new", "inflight", "answered", "cut"}]
    BY DEF Init
  <2> QED
    BY <2>1, <2>2, Zenon DEF Init, TypeOK
<1>2. Init => RetryInv
  BY DEF Init, RetryInv, RunsWithProxy
<1>3. Init => ServingInv
  BY DEF Init, ServingInv, Starting, Ending, NoLoops, DeadLoops
<1>4. Init => BothDirections
  BY DEF Init, BothDirections
<1>5. Init => DrainInv
  BY DEF Init, DrainInv, Running, Ending, DrainedExit
<1> QED
  BY <1>1, <1>2, <1>3, <1>4, <1>5 DEF MainInv

LEMMA TypeStep == TypeOK /\ RetryInv /\ ServingInv /\ [Next]_vars => TypeOK'
<1> SUFFICES ASSUME TypeOK, RetryInv, ServingInv, [Next]_vars PROVE TypeOK'
  OBVIOUS
<1> USE DEF TypeOK
<1>1. CASE NewProxyOk
  BY <1>1 DEF NewProxyOk, GoesOn, serving
<1>2. CASE NewProxyErr
  BY <1>2 DEF NewProxyErr, LoopHead, End, GoesOn, serving, RetryInv
<1>3. CASE SleepEnds
  BY <1>3 DEF SleepEnds, GoesOn, serving
<1>4. CASE RunDirect
  BY <1>4 DEF RunDirect, GoesOn
<1>5. CASE Listen
  BY <1>5 DEF Listen, GoesOn
<1>6. CASE ListenErr
  BY <1>6 DEF ListenErr, End, serving
<1>7. CASE Shutdown
  BY <1>7 DEF Shutdown, GoesOn
<1>8. CASE Drained
  BY <1>8 DEF Drained, GoesOn, serving
<1>9. CASE DrainTimeout
  BY <1>9 DEF DrainTimeout, End, serving
<1>10. CASE CloseConn
  BY <1>10 DEF CloseConn, GoesOn, serving
<1>11. CASE Cleanup
  BY <1>11 DEF Cleanup, GoesOn, serving
<1>12. CASE Return
  BY <1>12 DEF Return, End, serving
<1>13. CASE TakeErr
  BY <1>13 DEF TakeErr, End
<1>14. CASE Serve
  BY <1>14 DEF Serve, GoesOn
<1>15. CASE ServeErr
  BY <1>15 DEF ServeErr, GoesOn
<1>16. ASSUME NEW d \in Directions, AcceptErr(d) PROVE TypeOK'
  BY <1>16 DEF AcceptErr, GoesOn, ServingInv, DeadLoops
<1>17. ASSUME NEW r \in Requests, Accept(r) PROVE TypeOK'
  BY <1>17 DEF Accept, serving
<1>18. ASSUME NEW r \in Requests, Answer(r) PROVE TypeOK'
  BY <1>18 DEF Answer, serving
<1>19. CASE RotationCalls
  BY <1>19 DEF RotationCalls, GoesOn, serving
<1>20. CASE RotationReturns
  BY <1>20 DEF RotationReturns, GoesOn, serving
<1>21. CASE RotationLogs
  BY <1>21 DEF RotationLogs, GoesOn, End, serving
<1>22. CASE Signal
  <2>1. stop' \in BOOLEAN
    BY <1>22, Zenon DEF Signal
  <2>2. UNCHANGED <<mode, pc, failCount, proxy, notified, serving, rotation, grpc, queue>>
        /\ (GoesOn \/ End("killed"))
    BY <1>22, Zenon DEF Signal
  <2> QED
    BY <2>1, <2>2 DEF GoesOn, End, serving
<1>23. CASE UNCHANGED vars
  BY <1>23 DEF vars
<1> HIDE DEF TypeOK
<1> QED
  BY <1>1, <1>2, <1>3, <1>4, <1>5, <1>6, <1>7, <1>8, <1>9, <1>10, <1>11, <1>12,
     <1>13, <1>14, <1>15, <1>16, <1>17, <1>18, <1>19, <1>20, <1>21, <1>22, <1>23
  DEF Next, Main

LEMMA RetryStep ==
  MainInv /\ [Next]_vars => RetryInv'
<1> SUFFICES ASSUME TypeOK, RetryInv, [Next]_vars PROVE RetryInv'
  BY DEF MainInv
<1> USE DEF RetryInv, RunsWithProxy
<1>1. CASE NewProxyOk
  <2>1. proxy' /\ pc' = "run"
    BY <1>1, Zenon DEF NewProxyOk
  <2> QED
    BY <2>1
<1>2. CASE NewProxyErr
  <2>1. failCount \in 0 .. MaxAttempts /\ proxy' = proxy
    BY <1>2, Zenon DEF TypeOK, NewProxyErr
  <2>2. CASE pc = "retry" /\ failCount = MaxAttempts
    BY <1>2, <2>1, <2>2 DEF NewProxyErr
  <2>3. CASE ~(pc = "retry" /\ failCount = MaxAttempts)
    <3>1. failCount <= LoopMax
      BY <2>1
    <3>2. pc' = "sleep"
      BY <1>2, <2>3, <3>1, Zenon DEF NewProxyErr, LoopHead
    <3> QED
      BY <3>2
  <2> QED
    BY <2>2, <2>3
<1>3. CASE pc' \in {pc, "retry"} /\ failCount' = failCount /\ proxy' = proxy
  BY <1>3
<1>4. CASE pc \notin {"first", "sleep", "retry"} /\ proxy' = proxy
           /\ pc' \in {"stop", "errCh", "drain"} \cup Ending
  BY <1>4 DEF Ending
<1> HIDE DEF RetryInv, RunsWithProxy
<1>5. CASE SleepEnds \/ ListenErr \/ DrainTimeout \/ Return \/ TakeErr \/ Serve \/ ServeErr
  BY <1>3, <1>5, Zenon
  DEF SleepEnds, ListenErr, DrainTimeout, Return, TakeErr, Serve, ServeErr
<1>6. CASE RotationCalls \/ RotationReturns \/ RotationLogs \/ Signal \/ UNCHANGED vars
  BY <1>3, <1>6, Zenon DEF RotationCalls, RotationReturns, RotationLogs, Signal, vars
<1>7. ASSUME NEW d \in Directions, AcceptErr(d) PROVE RetryInv'
  BY <1>3, <1>7, Zenon DEF AcceptErr
<1>8. ASSUME NEW r \in Requests, Accept(r) \/ Answer(r) PROVE RetryInv'
  BY <1>3, <1>8, Zenon DEF Accept, Answer
<1>9. CASE RunDirect \/ Listen
  BY <1>4, <1>9 DEF RunDirect, Listen
<1>10. CASE Shutdown \/ Drained \/ CloseConn \/ Cleanup
  BY <1>4, <1>10 DEF Shutdown, Drained, CloseConn, Cleanup, Ending
<1> QED
  BY <1>1, <1>2, <1>5, <1>6, <1>7, <1>8, <1>9, <1>10 DEF Next, Main

LEMMA ServingStep ==
  MainInv /\ [Next]_vars => ServingInv' /\ BothDirections'
<1> SUFFICES ASSUME TypeOK, ServingInv, BothDirections, [Next]_vars
             PROVE  ServingInv' /\ BothDirections'
  BY DEF MainInv
<1> DEFINE Keeps == UNCHANGED <<server, acceptors, errs>>
\* What leaves the listeners alone.
<1>1. CASE Keeps /\ pc' = pc /\ (Running' => Running)
  BY <1>1 DEF ServingInv, BothDirections, NoLoops, DeadLoops
<1>2. CASE Keeps /\ pc \in {"first", "sleep", "retry"} /\ pc' \in Starting
  BY <1>2 DEF ServingInv, BothDirections, NoLoops, DeadLoops, Starting, Ending
<1>3. CASE Keeps /\ pc \in {"drain"} \cup Ending /\ pc' \in Ending
  BY <1>3 DEF ServingInv, BothDirections, NoLoops, DeadLoops, Starting, Ending
<1>4. CASE NewProxyOk \/ NewProxyErr \/ SleepEnds
  <2>1. (pc' = pc /\ ~Running') \/ pc' \in Starting
    BY <1>4 DEF NewProxyOk, NewProxyErr, SleepEnds, LoopHead, End, Running, Starting
  <2>2. Keeps /\ pc \in {"first", "sleep", "retry"}
    BY <1>4 DEF NewProxyOk, NewProxyErr, SleepEnds, serving
  <2> QED
    BY <1>1, <1>2, <2>1, <2>2
<1>5. CASE ListenErr \/ DrainTimeout \/ Return \/ RotationCalls \/ RotationReturns
           \/ RotationLogs \/ Signal \/ UNCHANGED vars
  <2>1. Keeps /\ pc' = pc
    BY <1>5, Zenon DEF ListenErr, DrainTimeout, Return, RotationCalls,
       RotationReturns, RotationLogs, Signal, vars, serving
  <2>2. Running' => Running
    BY <1>5, Zenon DEF ListenErr, DrainTimeout, Return, RotationCalls,
       RotationReturns, RotationLogs, Signal, vars, Running
  <2> QED
    BY <1>1, <2>1, <2>2
<1>6. ASSUME NEW r \in Requests, Accept(r) \/ Answer(r)
      PROVE  ServingInv' /\ BothDirections'
  BY <1>1, <1>6, Zenon DEF Accept, Answer, serving, Running
<1>7. CASE Drained \/ CloseConn \/ Cleanup
  BY <1>3, <1>7 DEF Drained, CloseConn, Cleanup, serving, Ending
\* What changes them.
<1>8. CASE RunDirect
  BY <1>8 DEF RunDirect, ServingInv, BothDirections, NoLoops, DeadLoops, Starting, Ending
<1>9. CASE Shutdown
  BY <1>9 DEF Shutdown, ServingInv, BothDirections, NoLoops, DeadLoops, Starting, Ending
<1>10. CASE Serve \/ ServeErr
  BY <1>10 DEF Serve, ServeErr, ServingInv, BothDirections, NoLoops, DeadLoops, Starting, Ending
<1>11. CASE Listen
  BY <1>11 DEF Listen, ServingInv, BothDirections, NoLoops, DeadLoops, Starting, Ending, TypeOK
<1>12. ASSUME NEW d \in Directions, AcceptErr(d)
       PROVE  ServingInv' /\ BothDirections'
  <2>1. pc = "errCh" /\ pc' = "errCh" /\ server' = server
    BY <1>12 DEF AcceptErr, ServingInv, NoLoops
  <2>2. acceptors' = [acceptors EXCEPT ![d] = "dead"] /\ acceptors[d] = "accepting"
        /\ errs' = errs + 1
    BY <1>12 DEF AcceptErr
  <2>3. errs' <= DeadLoops("inbound")' + DeadLoops("outbound")'
    BY <2>2 DEF ServingInv, DeadLoops, TypeOK
  <2>4. errs' > 0
    BY <2>2 DEF TypeOK
  <2> QED
    BY <2>1, <2>3, <2>4 DEF ServingInv, BothDirections, Starting, Ending
<1>13. CASE TakeErr
  <2>1. ~Running'
    BY <1>13 DEF TakeErr, End, Running
  <2>2. UNCHANGED <<pc, server, acceptors>> /\ errs' = errs - 1
    BY <1>13 DEF TakeErr
  <2> QED
    BY <2>1, <2>2 DEF ServingInv, BothDirections, NoLoops, DeadLoops, TypeOK
<1> QED
  BY <1>4, <1>5, <1>6, <1>7, <1>8, <1>9, <1>10, <1>11, <1>12, <1>13 DEF Next, Main

LEMMA DrainStep ==
  MainInv /\ [Next]_vars => DrainInv'
<1> SUFFICES ASSUME TypeOK, ServingInv, DrainInv, [Next]_vars PROVE DrainInv'
  BY DEF MainInv
<1> USE DEF DrainInv, DrainedExit, Running
\* The process goes on, and main does not come to its end.
<1>1. CASE GoesOn /\ (pc' = pc \/ pc' \notin Ending)
  BY <1>1 DEF GoesOn
\* The process ends, but not well.
<1>2. CASE exit' \notin {"running", "ok"}
  BY <1>2
\* main goes on through its end.
<1>3. CASE GoesOn /\ pc \in Ending
  BY <1>3 DEF GoesOn
<1> HIDE DEF DrainInv, DrainedExit, Running
<1>4. CASE \/ NewProxyOk \/ NewProxyErr \/ SleepEnds \/ RunDirect \/ Listen \/ ListenErr
           \/ Shutdown \/ DrainTimeout \/ TakeErr \/ Serve \/ ServeErr
  <2>1. \/ GoesOn /\ (pc' = pc \/ pc' \notin Ending)
        \/ exit' \notin {"running", "ok"}
    BY <1>4 DEF NewProxyOk, NewProxyErr, LoopHead, SleepEnds, RunDirect, Listen,
       ListenErr, Shutdown, DrainTimeout, TakeErr, Serve, ServeErr, End, Ending
  <2> QED
    BY <1>1, <1>2, <2>1
<1>5. CASE RotationCalls \/ RotationReturns \/ RotationLogs \/ Signal \/ UNCHANGED vars
  <2>1. (GoesOn /\ pc' = pc) \/ exit' \notin {"running", "ok"}
    BY <1>5 DEF RotationCalls, RotationReturns, RotationLogs, Signal, End, GoesOn, vars
  <2> QED
    BY <1>1, <1>2, <2>1
<1>6. ASSUME NEW d \in Directions, AcceptErr(d) PROVE DrainInv'
  BY <1>1, <1>6, Zenon DEF AcceptErr
<1>7. CASE Drained
  BY <1>7 DEF Drained, InFlight, GoesOn, DrainInv, DrainedExit, Running, Ending
<1>8. CASE CloseConn \/ Cleanup
  BY <1>3, <1>8 DEF CloseConn, Cleanup, Ending
<1>9. CASE Return
  <2>1. /\ \A r \in Requests : requests[r] \in {"new", "answered"}
        /\ requests' = requests /\ exit' = "ok"
    <3>1. \A r \in Requests : requests[r] \in {"new", "answered"}
      BY <1>9 DEF Return, DrainInv, Ending, TypeOK
    <3> QED
      BY <1>9, <3>1 DEF Return, End, TypeOK
  <2> QED
    BY <2>1 DEF DrainInv, DrainedExit, Running
<1>10. ASSUME NEW r \in Requests, Accept(r) PROVE DrainInv'
  <2>1. pc' \notin Ending
    BY <1>10 DEF Accept, ServingInv, NoLoops, Ending
  <2>2. Running' /\ exit' = "running"
    BY <1>10 DEF Accept, Running
  <2>3. \A q \in Requests : requests'[q] # "cut"
    BY <1>10 DEF Accept, DrainInv, TypeOK
  <2> QED
    BY <2>1, <2>2, <2>3 DEF DrainInv, DrainedExit
<1>11. ASSUME NEW r \in Requests, Answer(r) PROVE DrainInv'
  BY <1>11 DEF Answer, DrainInv, DrainedExit, Running, TypeOK
<1> QED
  BY <1>4, <1>5, <1>6, <1>7, <1>8, <1>9, <1>10, <1>11 DEF Next, Main

-----------------------------------------------------------------------------

\* The inductive invariant.
LEMMA MainInvariant == Spec => []MainInv
<1>1. MainInv /\ [Next]_vars => MainInv'
  BY TypeStep, RetryStep, ServingStep, DrainStep, Zenon DEF MainInv
<1> QED
  BY <1>1, InitMain, PTL DEF Spec

\* The types, and the bound of errCh: a loop that sends its error never blocks.
THEOREM TypeCorrect == Spec => []TypeOK
<1>1. MainInv => TypeOK
  BY DEF MainInv
<1> QED
  BY <1>1, MainInvariant, PTL

\* main.go:82-101 never calls Run on a nil proxy: the two bounds of the retry
\* loop fit, whatever they are, as long as the exit is not behind the loop's end.
THEOREM RunsOnlyWithProxy == Spec => []RunsWithProxy
<1>1. MainInv => RunsWithProxy
  BY DEF MainInv, RetryInv
<1> QED
  BY <1>1, MainInvariant, PTL

\* While main waits for an error, both loops accept, or there is one to take.
THEOREM NeverOneDirection == Spec => []BothDirections
<1>1. MainInv => BothDirections
  BY DEF MainInv
<1> QED
  BY <1>1, MainInvariant, PTL

\* main returns only from a shutdown that has drained every request.
THEOREM ExitsDrained == Spec => []DrainedExit
<1>1. MainInv => DrainedExit
  BY DEF MainInv, DrainInv
<1> QED
  BY <1>1, MainInvariant, PTL

-----------------------------------------------------------------------------
(* The process with its handlers and its log                                *)

HandlerInv ==
    \A r \in Requests :
        /\ handler[r] = "none" <=> requests[r] = "new"
        /\ handler[r] \in {"proxying", "copying", "served"} => requests[r] \in {"inflight", "cut"}
        /\ handler[r] \in {"copying", "served"} => recorded[r] = sent[r]

\* The log holds a record of handlers that have ended, one of each.
LogInv ==
    /\ \A i \in 1 .. Len(log) :
          handler[log[i].request] = "done" /\ log[i].status = sent[log[i].request]
    /\ \A i, j \in 1 .. Len(log) : log[i].request = log[j].request => i = j

\* The queue is closed by main's last deferred call, and main waits for it.
CloseInv ==
    /\ ~queue => pc = "return"
    /\ finished => ~queue /\ written = log
    /\ Len(written) <= Len(log)
    /\ exit = "ok" => finished

OwnTypes ==
    /\ handler \in [Requests -> {"none", "health", "connection", "proxying", "copying",
                                 "served", "done"}]
    /\ recorded \in [Requests -> Statuses]
    /\ sent \in [Requests -> Statuses]
    /\ log \in Seq(Records)
    /\ written \in Seq(Records)
    /\ finished \in BOOLEAN
    /\ failed \in BOOLEAN

OwnInv == OwnTypes /\ HandlerInv /\ LogInv /\ CloseInv /\ PanicCutsNothing

-----------------------------------------------------------------------------
(* The steps                                                                *)

\* A step of main or of a goroutine that has nothing to do with handlers, and
\* that neither closes the queue nor returns from main.
Elsewhere ==
    \/ NewProxyOk \/ NewProxyErr \/ SleepEnds
    \/ RunDirect \/ Listen \/ ListenErr
    \/ Shutdown \/ Drained \/ DrainTimeout \/ CloseConn \/ TakeErr
    \/ Serve \/ ServeErr
    \/ \E d \in Directions : AcceptErr(d)
    \/ RotationCalls \/ RotationReturns \/ RotationLogs
    \/ Signal

\* What such a step leaves of the requests.
Cuts ==
    \/ requests' = requests
    \/ requests' = [r \in Requests |-> IF requests[r] = "inflight" THEN "cut" ELSE requests[r]]

LEMMA ElsewhereStep ==
  ASSUME MainInv, Elsewhere
  PROVE  /\ Next
         /\ Running /\ exit' # "ok"
         /\ Cuts
         /\ queue' = queue
         /\ pc = "return" => pc' = pc
         /\ exit' = "panicked" =>
              ~queue /\ requests' = [r \in Requests |->
                                      IF requests[r] = "inflight" THEN "cut" ELSE requests[r]]
  <1>1. Next
    BY Zenon DEF Elsewhere, Next, Main
  <1>2. Running /\ queue' = queue
    BY Zenon DEF Elsewhere, NewProxyOk, NewProxyErr, SleepEnds, RunDirect, Listen, ListenErr,
       Shutdown, Drained, DrainTimeout, CloseConn, TakeErr, Serve, ServeErr, AcceptErr,
       RotationCalls, RotationReturns, RotationLogs, Signal
  <1>3. \/ GoesOn
        \/ End("failed")
        \/ End("killed")
        \/ End("panicked") /\ ~queue
    BY Zenon DEF Elsewhere, NewProxyOk, NewProxyErr, SleepEnds, RunDirect, Listen, ListenErr,
       Shutdown, Drained, DrainTimeout, CloseConn, TakeErr, Serve, ServeErr, AcceptErr,
       RotationCalls, RotationReturns, RotationLogs, Signal
  <1>4. pc = "return" => pc' = pc
    BY DEF Elsewhere, NewProxyOk, NewProxyErr, SleepEnds, RunDirect, Listen, ListenErr,
       Shutdown, Drained, DrainTimeout, CloseConn, TakeErr, Serve, ServeErr, AcceptErr,
       RotationCalls, RotationReturns, RotationLogs, Signal
  <1>5. QED
    BY <1>1, <1>2, <1>3, <1>4 DEF GoesOn, End, Cuts, Running

LEMMA ElsewhereOwn ==
  ASSUME MainInv, OwnInv, Elsewhere, UNCHANGED <<handling, logging>>
  PROVE  OwnInv'
  <1>1. /\ Running /\ exit' # "ok"
        /\ Cuts
        /\ queue' = queue
        /\ pc = "return" => pc' = pc
        /\ exit' = "panicked" =>
             ~queue /\ requests' = [r \in Requests |->
                                     IF requests[r] = "inflight" THEN "cut" ELSE requests[r]]
    BY ElsewhereStep
  <1>2. OwnTypes' /\ LogInv'
    BY DEF OwnInv, OwnTypes, LogInv, handling, logging
  <1>3. HandlerInv'
    BY <1>1 DEF OwnInv, HandlerInv, Cuts, handling, MainInv, TypeOK
  <1>4. CloseInv'
    BY <1>1 DEF OwnInv, CloseInv, logging
  <1>5. PanicCutsNothing'
    <2>1. CASE exit' = "panicked"
      <3>1. ~queue /\ pc = "return" /\ pc' = "return" /\ ~queue'
        BY <1>1, <2>1 DEF OwnInv, CloseInv
      <3>2. \A r \in Requests : requests[r] \in {"new", "answered"}
        BY <1>1, <3>1 DEF MainInv, DrainInv, Ending, TypeOK
      <3>3. \A r \in Requests : requests'[r] \in {"new", "answered"}
        BY <1>1, <2>1, <3>2
      <3>4. QED
        BY <3>1, <3>3 DEF PanicCutsNothing
    <2>2. QED
      BY <2>1 DEF PanicCutsNothing
  <1>6. QED
    BY <1>2, <1>3, <1>4, <1>5 DEF OwnInv

LEMMA LoggedRequest ==
  ASSUME OwnTypes, NEW i \in 1 .. Len(log)
  PROVE  log[i].request \in Requests
  <1>1. log[i] \in Records
    BY DEF OwnTypes
  <1>2. QED
    BY <1>1 DEF Records

\* While a handler runs, main has not come to its end: the queue is open.
LEMMA HandlersFindQueue ==
  ASSUME MainInv, OwnInv, Running, NEW r \in Requests, requests[r] = "inflight"
  PROVE  queue /\ ~finished
  BY DEF MainInv, DrainInv, Ending, OwnInv, CloseInv

LEMMA HandlerStep ==
  ASSUME MainInv, OwnInv, NEW r \in Requests,
         \/ Route(r) \/ Interim(r) \/ Reply(r) \/ UpstreamErr(r) \/ Copied(r)
         \/ CopyAborts(r) \/ Answered(r)
  PROVE  [Next]_vars /\ OwnInv'
  <1> USE DEF OwnInv, OwnTypes, HandlerInv, Statuses
  <1>1. /\ Accept(r) \/ Answer(r) \/ UNCHANGED vars
        /\ UNCHANGED logging
        /\ handler[r] # "done" \/ UNCHANGED <<handler, sent>>
    BY DEF Route, Interim, Reply, UpstreamErr, Copied, CopyAborts, Answered, InHandler, handling,
       Accept
  <1>2. Running /\ UNCHANGED <<pc, queue, exit>>
    BY <1>1 DEF Accept, Answer, vars, Route, Interim, Reply, UpstreamErr, Copied, CopyAborts,
       Answered, InHandler, GoesOn
  <1>3. [Next]_vars
    BY <1>1 DEF Next
  <1>4. CloseInv' /\ PanicCutsNothing'
    BY <1>1, <1>2 DEF CloseInv, PanicCutsNothing, logging, Running
  <1>5. OwnTypes' /\ HandlerInv'
    <2>1. CASE Route(r)
      BY <1>1, <2>1 DEF Route, Accept, logging, MainInv, TypeOK
    <2>2. CASE Interim(r)
      BY <1>1, <2>2 DEF Interim, InHandler, WriteHeader, logging, vars
    <2>3. CASE Reply(r)
      BY <1>1, <2>3 DEF Reply, InHandler, WriteHeader, logging, vars
    <2>4. CASE UpstreamErr(r)
      BY <1>1, <2>4 DEF UpstreamErr, InHandler, WriteHeader, logging, vars
    <2>5. CASE Copied(r)
      BY <1>1, <2>5 DEF Copied, InHandler, logging, vars
    <2>6. CASE CopyAborts(r)
      BY <1>1, <2>6 DEF CopyAborts, InHandler, Answer, logging, MainInv, TypeOK
    <2>7. CASE Answered(r)
      BY <1>1, <2>7 DEF Answered, Answer, handling, logging, MainInv, TypeOK
    <2>8. QED
      BY <2>1, <2>2, <2>3, <2>4, <2>5, <2>6, <2>7
  <1>6. LogInv'
    <2>1. \A q \in Requests : handler[q] = "done" => handler'[q] = "done" /\ sent'[q] = sent[q]
      BY <1>1 DEF Route, Interim, Reply, UpstreamErr, Copied, CopyAborts, Answered, WriteHeader,
         handling
    <2>2. \A i \in 1 .. Len(log) : log[i].request \in Requests
      BY LoggedRequest
    <2>3. QED
      BY <1>1, <2>1, <2>2 DEF LogInv, logging
  <1>7. QED
    BY <1>3, <1>4, <1>5, <1>6

LEMMA LogAccessStep ==
  ASSUME MainInv, OwnInv, NEW r \in Requests, LogAccess(r)
  PROVE  UNCHANGED vars /\ OwnInv'
  <1> USE DEF OwnInv, OwnTypes, HandlerInv
  <1>1. queue /\ ~finished
    BY HandlersFindQueue DEF LogAccess, InHandler
  <1>2. UNCHANGED vars
    BY <1>1, Zenon DEF LogAccess, GoesOn, vars, serving
  <1>3. /\ handler[r] = "served"
        /\ handler' = [handler EXCEPT ![r] = "done"]
        /\ UNCHANGED <<recorded, sent, written, finished, failed>>
        /\ log' = log \/ log' = Append(log, [request |-> r, status |-> recorded[r]])
    BY DEF LogAccess, InHandler, Log!Accept, logging
  <1>4. [request |-> r, status |-> recorded[r]] \in Records
    BY DEF Records
  <1>5. OwnTypes'
    BY <1>3, <1>4
  <1>6. HandlerInv'
    BY <1>2, <1>3 DEF vars
  <1>7. LogInv'
    <2>1. \A i \in 1 .. Len(log) : log[i].request \in Requests
      BY LoggedRequest
    <2>2. CASE log' = log
      BY <1>3, <2>1, <2>2 DEF LogInv
    <2>3. CASE log' = Append(log, [request |-> r, status |-> recorded[r]])
      <3>1. /\ Len(log') = Len(log) + 1
            /\ \A i \in 1 .. Len(log) : log'[i] = log[i]
            /\ log'[Len(log) + 1] = [request |-> r, status |-> recorded[r]]
            /\ Len(log) \in Nat
        BY <2>3, <1>4
      <3>2. \A i \in 1 .. Len(log) : log[i].request # r
        BY <1>3 DEF LogInv
      <3>3. recorded[r] = sent[r]
        BY <1>3
      <3>4. \A i \in 1 .. Len(log') :
              handler'[log'[i].request] = "done" /\ log'[i].status = sent'[log'[i].request]
        BY <1>3, <2>1, <3>1, <3>3 DEF LogInv
      <3>5. \A i, j \in 1 .. Len(log') : log'[i].request = log'[j].request => i = j
        BY <3>1, <3>2 DEF LogInv
      <3>6. QED
        BY <3>4, <3>5 DEF LogInv
    <2>4. QED
      BY <1>3, <2>2, <2>3
  <1>8. CloseInv' /\ PanicCutsNothing'
    BY <1>1, <1>2, <1>3 DEF CloseInv, PanicCutsNothing, vars
  <1>9. QED
    BY <1>2, <1>5, <1>6, <1>7, <1>8

\* What the log does by itself: it keeps a front of what it has.
LEMMA LogStep ==
  ASSUME MainInv, OwnInv, LogWrites \/ LogFinishes
  PROVE  UNCHANGED vars /\ OwnInv'
  <1> USE DEF OwnInv, OwnTypes
  <1>1. /\ UNCHANGED <<vars, handling>> /\ Running
        /\ Log!Take \/ Log!Break
        /\ finished' \in BOOLEAN
        /\ finished' => ~queue /\ (finished \/ written' = log')
    <2>1. CASE LogWrites
      BY <2>1 DEF LogWrites, Log!Persist, Log!Fail, CloseInv
    <2>2. CASE LogFinishes
      BY <2>2 DEF LogFinishes, Log!Finish
    <2>3. QED
      BY <2>1, <2>2
  <1>2. PICK n \in Len(written) .. Len(log) : written' = SubSeq(log, 1, n)
    BY <1>1 DEF Log!Take, Log!Break
  <1>3. /\ written' \in Seq(Records)
        /\ Len(written') = n
        /\ \A i \in 1 .. n : written'[i] = log[i]
        /\ n \in Nat /\ n <= Len(log)
    BY <1>2
  <1>4. log' = log \/ log' = written'
    BY <1>1 DEF Log!Take, Log!Break
  <1>5. failed' \in BOOLEAN
    BY <1>1 DEF Log!Take, Log!Break
  <1>6. OwnTypes'
    BY <1>1, <1>3, <1>4, <1>5 DEF handling
  <1>7. HandlerInv' /\ PanicCutsNothing'
    BY <1>1 DEF HandlerInv, PanicCutsNothing, handling, vars
  <1>8. LogInv'
    BY <1>1, <1>3, <1>4 DEF LogInv, handling
  <1>9. CloseInv'
    <2>1. finished => n = Len(log) /\ written' = log
      BY <1>2, <1>3 DEF CloseInv
    <2>2. finished' => ~queue' /\ written' = log'
      BY <1>1, <1>4, <2>1 DEF vars
    <2>3. Len(written') <= Len(log')
      BY <1>3, <1>4
    <2>4. exit' # "ok"
      BY <1>1 DEF Running, vars
    <2>5. QED
      BY <1>1, <2>2, <2>3, <2>4 DEF CloseInv, vars
  <1>10. QED
    BY <1>1, <1>6, <1>7, <1>8, <1>9

LEMMA CleanupStep ==
  ASSUME MainInv, OwnInv, CleanupBegins \/ CleanupReturns
  PROVE  Next /\ OwnInv'
  <1> USE DEF OwnInv
  <1>1. CASE CleanupBegins
    <2>1. /\ Cleanup /\ pc' = "return" /\ ~queue' /\ queue /\ Running
          /\ UNCHANGED <<handling, logging, exit, requests>>
      BY <1>1 DEF CleanupBegins, Cleanup, Log!Close, GoesOn, logging
    <2>2. OwnTypes' /\ HandlerInv' /\ LogInv'
      BY <2>1 DEF OwnTypes, HandlerInv, LogInv, handling, logging
    <2>3. CloseInv' /\ PanicCutsNothing'
      BY <2>1 DEF CloseInv, PanicCutsNothing, logging, Running
    <2>4. QED
      BY <2>1, <2>2, <2>3 DEF Next, Main
  <1>2. CASE CleanupReturns
    <2>1. /\ Return /\ finished /\ pc' = pc /\ queue' = queue /\ exit' = "ok"
          /\ Cuts
          /\ UNCHANGED <<handling, logging>>
      BY <1>2 DEF CleanupReturns, Return, End, Cuts
    <2>2. OwnTypes' /\ LogInv'
      BY <2>1 DEF OwnTypes, LogInv, handling, logging
    <2>3. HandlerInv'
      BY <2>1 DEF HandlerInv, Cuts, handling, MainInv, TypeOK
    <2>4. CloseInv' /\ PanicCutsNothing'
      BY <2>1 DEF CloseInv, PanicCutsNothing, logging
    <2>5. QED
      BY <2>1, <2>2, <2>3, <2>4 DEF Next, Main
  <1>3. QED
    BY <1>1, <1>2

-----------------------------------------------------------------------------

\* Every step is one of ProxyMain, or leaves its variables alone.
LEMMA DataStep ==
  ASSUME MainInv, OwnInv, [DataNext]_dataVars
  PROVE  [Next]_vars /\ OwnInv'
  <1>1. CASE UNCHANGED dataVars
    <2>1. UNCHANGED vars /\ UNCHANGED <<handling, logging>>
      BY <1>1 DEF dataVars
    <2>2. OwnTypes' /\ LogInv'
      BY <2>1 DEF OwnInv, OwnTypes, LogInv, handling, logging
    <2>3. HandlerInv' /\ CloseInv' /\ PanicCutsNothing'
      BY <2>1 DEF OwnInv, HandlerInv, CloseInv, PanicCutsNothing, handling, logging, vars
    <2>4. QED
      BY <2>1, <2>2, <2>3 DEF OwnInv
  <1>2. CASE Elsewhere /\ UNCHANGED <<handling, logging>>
    BY <1>2, ElsewhereStep, ElsewhereOwn
  <1>3. CASE CleanupBegins \/ CleanupReturns
    BY <1>3, CleanupStep
  <1>4. ASSUME NEW r \in Requests,
               \/ Route(r) \/ Interim(r) \/ Reply(r) \/ UpstreamErr(r) \/ Copied(r)
               \/ CopyAborts(r) \/ Answered(r)
        PROVE  [Next]_vars /\ OwnInv'
    BY <1>4, HandlerStep
  <1>5. ASSUME NEW r \in Requests, LogAccess(r)
        PROVE  [Next]_vars /\ OwnInv'
    BY <1>5, LogAccessStep
  <1>6. CASE LogWrites \/ LogFinishes
    BY <1>6, LogStep
  <1>7. QED
    BY <1>1, <1>2, <1>3, <1>4, <1>5, <1>6 DEF DataNext, DataMain, Others, Elsewhere

LEMMA DataInvariant == DataSpec => Spec /\ [](MainInv /\ OwnInv)
  <1>1. DataInit => Init /\ OwnInv
    <2> SUFFICES ASSUME DataInit
                 PROVE  Init /\ OwnInv
      OBVIOUS
    <2>1. /\ log = << >> /\ written = << >> /\ finished = FALSE /\ failed = FALSE
          /\ queue = TRUE /\ exit = "running"
      BY Zenon DEF DataInit, Init, Log!Init
    <2>2. OwnTypes
      <3>1. log \in Seq(Records) /\ written \in Seq(Records)
        BY <2>1
      <3>2. finished \in BOOLEAN /\ failed \in BOOLEAN
        BY <2>1, Zenon
      <3>3. QED
        BY <3>1, <3>2 DEF DataInit, OwnTypes, Statuses
    <2>3. HandlerInv
      BY DEF DataInit, Init, HandlerInv
    <2>4. LogInv /\ CloseInv /\ PanicCutsNothing
      BY <2>1 DEF LogInv, CloseInv, PanicCutsNothing
    <2>5. QED
      BY <2>2, <2>3, <2>4 DEF DataInit, OwnInv
  <1>2. OwnInv /\ MainInv /\ [DataNext]_dataVars => [Next]_vars /\ OwnInv'
    BY DataStep
  <1>3. MainInv /\ [Next]_vars => MainInv'
    BY TypeStep, RetryStep, ServingStep, DrainStep, Zenon DEF MainInv
  <1>4. QED
    BY <1>1, <1>2, <1>3, InitMain, PTL DEF DataSpec, Spec

\* The composition is a data plane process as ProxyMain describes it: the
\* theorems about ProxyMain hold of it.
THEOREM Composition == DataSpec => ImplementsProxyMain
  BY DataInvariant, PTL DEF ImplementsProxyMain

\* The types of the composition.
THEOREM DataTypes == DataSpec => []DataTypeOK
  <1>1. MainInv /\ OwnInv => DataTypeOK
    BY DEF MainInv, OwnInv, OwnTypes, DataTypeOK
  <1>2. QED
    BY <1>1, DataInvariant, PTL

\* An access record says what the client got, and a request has one.
THEOREM TrueRecords == DataSpec => []RecordedIsSent
  <1>1. OwnInv => RecordedIsSent
    BY DEF OwnInv, LogInv, RecordedIsSent
  <1>2. QED
    BY <1>1, DataInvariant, PTL

\* main's return loses no record the logger has accepted.
THEOREM NoRecordLost == DataSpec => []RecordsSurvive
  <1>1. OwnInv => RecordsSurvive
    BY DEF OwnInv, CloseInv, RecordsSurvive
  <1>2. QED
    BY <1>1, DataInvariant, PTL

\* A panic comes from the rotation after the queue is closed, and cuts no request.
THEOREM LatePanicOnly == DataSpec => []PanicCutsNothing
  <1>1. OwnInv => PanicCutsNothing
    BY DEF OwnInv
  <1>2. QED
    BY <1>1, DataInvariant, PTL

=============================================================================
