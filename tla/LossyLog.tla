------------------------------- MODULE LossyLog -------------------------------
(***************************************************************************)
(* What the asynchronous writer promises: a log that may refuse records but *)
(* keeps those it accepts, in order and once, that writes them from the     *)
(* front, and that is closed only when all are written, unless the device   *)
(* it writes to has failed.                                                 *)
(***************************************************************************)
EXTENDS Sequences, Naturals

CONSTANT Records

VARIABLES
    log,        \* the records accepted
    written,    \* those the device has, a prefix of log
    closed,     \* Close has been called
    finished,   \* Close has returned
    failed      \* the device has failed

vars == <<log, written, closed, finished, failed>>

Init ==
    /\ log = << >>
    /\ written = << >>
    /\ closed = FALSE
    /\ finished = FALSE
    /\ failed = FALSE

Accept ==
    /\ ~closed
    /\ ~failed
    /\ \E r \in Records : log' = Append(log, r)
    /\ UNCHANGED <<written, closed, finished, failed>>

\* The device takes some of the records that wait, from the front.
Take ==
    /\ \E n \in Len(written) .. Len(log) : written' = SubSeq(log, 1, n)
    /\ UNCHANGED <<log, failed>>

\* The device fails, perhaps in the middle of a write; it gets nothing more,
\* and what waits is lost.
Break ==
    /\ ~failed
    /\ failed' = TRUE
    /\ \E n \in Len(written) .. Len(log) : written' = SubSeq(log, 1, n)
    /\ log' = written'

Persist == Take /\ UNCHANGED <<closed, finished>>

Fail == Break /\ UNCHANGED <<closed, finished>>

Close ==
    /\ ~closed
    /\ closed' = TRUE
    /\ UNCHANGED <<log, written, finished, failed>>

\* Close returns: the device has everything, after the last writes.
Finish ==
    /\ closed
    /\ ~finished
    /\ finished' = TRUE
    /\ Take \/ Break
    /\ written' = log'
    /\ UNCHANGED closed

Next == Accept \/ Persist \/ Fail \/ Close \/ Finish

Spec == Init /\ [][Next]_vars

=============================================================================
