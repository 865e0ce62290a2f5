------------------------------ MODULE AsyncWriter ------------------------------
(***************************************************************************)
(* The logger's asynchronous writer (data-plane and sentinel-init,          *)
(* internal/logger/async_writer.go): goroutines that log, a bounded channel, *)
(* a worker with a bufio.Writer on the output, a ticker that flushes it, and *)
(* Close, together with the ways in which the process that logs may end.    *)
(*                                                                         *)
(* A record is a slice the JSON handler passes to Write in one call.        *)
(***************************************************************************)
EXTENDS Naturals, Sequences

CONSTANTS
    Writers,    \* goroutines that log
    QueueSize,  \* capacity of the channel (5000 in main)
    BufSize,    \* records that fit the bufio.Writer (4096 bytes)
    MaxWrites   \* bound: calls of Write by one goroutine

ASSUME SizesAssumption ==
    /\ QueueSize \in Nat \ {0}
    /\ BufSize \in Nat \ {0}
    /\ MaxWrites \in Nat

\* The n-th record of a goroutine.
Records == Writers \X (0 .. MaxWrites)

VARIABLES
    count,      \* calls of Write made by each goroutine
    buffer,     \* aw.buffer, the channel
    closed,     \* the channel is closed
    tick,       \* flushTicker.C holds a tick
    bw,         \* what the bufio.Writer holds
    err,        \* its sticky error: the output has failed
    out,        \* what the output has
    worker,     \* "running" or "done" (wg.Done)
    process     \* "running", "exited" (os.Exit) or "panicked"

vars == <<count, buffer, closed, tick, bw, err, out, worker, process>>

Init ==
    /\ count = [w \in Writers |-> 0]
    /\ buffer = << >>
    /\ closed = FALSE
    /\ tick = FALSE
    /\ bw = << >>
    /\ err = FALSE
    /\ out = << >>
    /\ worker = "running"
    /\ process = "running"

-----------------------------------------------------------------------------
(* Write                                                                    *)

Writes(w) ==
    /\ process = "running"
    /\ count[w] < MaxWrites
    /\ count' = [count EXCEPT ![w] = @ + 1]

\* The channel takes the copy of the record.
Accept(w) ==
    /\ Writes(w)
    /\ ~closed
    /\ Len(buffer) < QueueSize
    /\ buffer' = Append(buffer, <<w, count[w]>>)
    /\ UNCHANGED <<closed, tick, bw, err, out, worker, process>>

\* The channel is full: the record is dropped, the caller does not wait.
Drop(w) ==
    /\ Writes(w)
    /\ ~closed
    /\ Len(buffer) >= QueueSize
    /\ UNCHANGED <<buffer, closed, tick, bw, err, out, worker, process>>

\* A send on the closed channel panics, and the process with it: goroutines of
\* the proxy still log while main's deferred cleanup runs.
SendOnClosed(w) ==
    /\ Writes(w)
    /\ closed
    /\ process' = "panicked"
    /\ UNCHANGED <<buffer, closed, tick, bw, err, out, worker>>

-----------------------------------------------------------------------------
(* The worker                                                               *)

Working == process = "running" /\ worker = "running"

\* bw.Flush: all of it, or a part and the sticky error; nothing after an error.
Flush ==
    \/ /\ err
       /\ UNCHANGED <<bw, out, err>>
    \/ /\ ~err
       /\ out' = out \o bw
       /\ bw' = << >>
       /\ err' = FALSE
    \/ /\ ~err
       /\ \E n \in 0 .. Len(bw) :
            /\ n < Len(bw)
            /\ out' = out \o SubSeq(bw, 1, n)
       /\ err' = TRUE
       /\ bw' = bw

\* case data, ok := <-aw.buffer, with room in the bufio.Writer or after an
\* error, when bw.Write keeps nothing.
Receive ==
    /\ Working
    /\ buffer # << >>
    /\ err \/ Len(bw) < BufSize
    /\ bw' = IF err THEN bw ELSE Append(bw, Head(buffer))
    /\ buffer' = Tail(buffer)
    /\ UNCHANGED <<count, closed, tick, err, out, worker, process>>

\* The same, without room: bw.Write flushes what it holds first.
ReceiveAndSpill ==
    /\ Working
    /\ buffer # << >>
    /\ ~err
    /\ Len(bw) >= BufSize
    /\ \/ /\ out' = out \o bw
          /\ bw' = <<Head(buffer)>>
          /\ err' = FALSE
       \/ /\ \E n \in 0 .. Len(bw) : n < Len(bw) /\ out' = out \o SubSeq(bw, 1, n)
          /\ bw' = bw
          /\ err' = TRUE
    /\ buffer' = Tail(buffer)
    /\ UNCHANGED <<count, closed, tick, worker, process>>

\* Mutated forms: no last flush; the closed channel is read on and on.
Finish_NoFlush ==
    /\ Working
    /\ closed
    /\ buffer = << >>
    /\ worker' = "done"
    /\ UNCHANGED <<count, buffer, closed, tick, bw, err, out, process>>
Finish_ReadsOn ==
    /\ Working
    /\ closed
    /\ buffer = << >>
    /\ Flush
    /\ UNCHANGED <<count, buffer, closed, tick, worker, process>>

\* The channel is closed and drained: the last flush, then wg.Done.
Finish ==
    /\ Working
    /\ closed
    /\ buffer = << >>
    /\ Flush
    /\ worker' = "done"
    /\ UNCHANGED <<count, buffer, closed, tick, process>>

\* Mutated form: the tick flushes nothing.
FlushTick_NoFlush ==
    /\ Working
    /\ tick
    /\ tick' = FALSE
    /\ UNCHANGED <<count, buffer, closed, bw, err, out, worker, process>>

\* case <-flushTicker.C; which of the ready cases is taken is random.
FlushTick ==
    /\ Working
    /\ tick
    /\ tick' = FALSE
    /\ Flush
    /\ UNCHANGED <<count, buffer, closed, worker, process>>

\* The ticker's channel holds one tick, more are dropped.
Ticker ==
    /\ Working
    /\ ~tick
    /\ tick' = TRUE
    /\ UNCHANGED <<count, buffer, closed, bw, err, out, worker, process>>

-----------------------------------------------------------------------------
(* The end of the process                                                   *)

\* Close closes the channel and waits for the worker; main calls it once, as
\* the deferred cleanup of a return.
Close ==
    /\ process = "running"
    /\ ~closed
    /\ closed' = TRUE
    /\ UNCHANGED <<count, buffer, tick, bw, err, out, worker, process>>

\* os.Exit runs no deferred call: what is queued or buffered is lost.
Exit ==
    /\ process = "running"
    /\ ~closed
    /\ process' = "exited"
    /\ UNCHANGED <<count, buffer, closed, tick, bw, err, out, worker>>

\* main returns after Close has.
Return ==
    /\ process = "running"
    /\ worker = "done"
    /\ process' = "exited"
    /\ UNCHANGED <<count, buffer, closed, tick, bw, err, out, worker>>

Worker == Receive \/ ReceiveAndSpill \/ Finish \/ FlushTick

Next ==
    \/ \E w \in Writers : Accept(w) \/ Drop(w) \/ SendOnClosed(w)
    \/ Worker
    \/ Ticker
    \/ Close \/ Exit \/ Return

\* The worker runs and the ticker ticks.  The select picks at random among the
\* cases that are ready, so one that stays ready is picked.  Nothing makes
\* anybody log, close or exit.
Fairness ==
    /\ WF_vars(Receive \/ ReceiveAndSpill)
    /\ WF_vars(Finish)
    /\ WF_vars(FlushTick)
    /\ WF_vars(Ticker)

Spec == Init /\ [][Next]_vars
FairSpec == Spec /\ Fairness

-----------------------------------------------------------------------------
(* Properties                                                               *)

TypeOK ==
    /\ count \in [Writers -> 0 .. MaxWrites]
    /\ buffer \in Seq(Records)
    /\ Len(buffer) <= QueueSize
    /\ closed \in BOOLEAN
    /\ tick \in BOOLEAN
    /\ bw \in Seq(Records)
    /\ Len(bw) <= BufSize
    /\ err \in BOOLEAN
    /\ out \in Seq(Records)
    /\ worker \in {"running", "done"}
    /\ process \in {"running", "exited", "panicked"}

\* Every record accepted and not lost to a failed output, oldest first.
Accepted == IF err THEN out ELSE out \o (bw \o buffer)

Log == INSTANCE LossyLog WITH
    log <- Accepted,
    written <- out,
    finished <- worker = "done",
    failed <- err

\* The writer is a lossy log: a record is refused at Write or written in its
\* turn, and when Close returns everything accepted has reached the output,
\* unless the output has failed.
ImplementsLossyLog == Log!Spec

\* Close returns (main waits for it in the deferred cleanup), also when the
\* output has failed, unless a late record panics the process.
CloseReturns == closed ~> worker = "done" \/ process = "panicked"

In(r, s) == \E i \in 1 .. Len(s) : s[i] = r

\* The ticker brings every accepted record to the output while the process
\* runs, without waiting for more records or for Close.
EventuallyWritten ==
    \A r \in Writers \X (0 .. MaxWrites - 1) :
        In(r, Accepted) ~> In(r, out) \/ err \/ process # "running"

=============================================================================
