------------------------------- MODULE ProxyCopy -------------------------------
(***************************************************************************)
(* proxyCopy (data-plane/internal/proxy/proxy.go): two goroutines carry the *)
(* bytes of a connection between a client and the app, one in each          *)
(* direction, each closing the connection it writes to when it ends.        *)
(*                                                                         *)
(* The copier of end e reads from e and writes to Other(e).  A closed       *)
(* connection is closed in both directions.  TCP is modelled as far as the  *)
(* copiers and the ends see it: an end may half-close, leave, or be cut; a   *)
(* socket closed with bytes unread, or reached by bytes after it was closed, *)
(* is reset, and what was on its way to the other end may be lost.          *)
(***************************************************************************)
EXTENDS Naturals, Sequences

CONSTANTS
    MaxBytes,   \* bound: bytes an end sends
    Window      \* bytes on their way to an end before a write to it blocks

ASSUME BytesAssumption == MaxBytes \in Nat /\ Window \in Nat \ {0}

Ends == {"client", "app"}
Other(e) == IF e = "client" THEN "app" ELSE "client"

VARIABLES
    sent,       \* bytes each end has sent
    fin,        \* the end has ended its direction (CloseWrite, or it left)
    gone,       \* the end has left
    aborted,    \* it left with a reset, or a write to it met one
    arrived,    \* bytes of each end that its copier has not read
    chunk,      \* the copier's buffer: read from the end, not yet written
    copier,     \* "reading", "writing" or "done"
    closed,     \* the proxy's connection to the end is closed
    reset,      \* it was reset when closed, or later
    net,        \* bytes on their way to each end
    received,   \* bytes each end has received
    returned    \* wg.Wait has returned, and the handler with it

vars == <<sent, fin, gone, aborted, arrived, chunk, copier, closed, reset, net,
          received, returned>>

Init ==
    /\ sent = [e \in Ends |-> 0]
    /\ fin = [e \in Ends |-> FALSE]
    /\ gone = [e \in Ends |-> FALSE]
    /\ aborted = [e \in Ends |-> FALSE]
    /\ arrived = [e \in Ends |-> << >>]
    /\ chunk = [e \in Ends |-> << >>]
    /\ copier = [e \in Ends |-> "reading"]
    /\ closed = [e \in Ends |-> FALSE]
    /\ reset = [e \in Ends |-> FALSE]
    /\ net = [e \in Ends |-> << >>]
    /\ received = [e \in Ends |-> << >>]
    /\ returned = FALSE

First(s, n) == SubSeq(s, 1, n)

-----------------------------------------------------------------------------
(* The ends                                                                 *)

Send(e) ==
    /\ ~fin[e] /\ ~reset[e]
    /\ sent[e] < MaxBytes
    /\ sent' = [sent EXCEPT ![e] = @ + 1]
    /\ ~closed[e]
    /\ arrived' = [arrived EXCEPT ![e] = Append(@, sent[e] + 1)]
    /\ UNCHANGED <<fin, gone, aborted, chunk, copier, closed, reset, net, received, returned>>

\* The proxy has closed the connection: the bytes are answered by a reset.
SendToClosed(e) ==
    /\ ~fin[e] /\ ~reset[e]
    /\ sent[e] < MaxBytes
    /\ sent' = [sent EXCEPT ![e] = @ + 1]
    /\ closed[e]
    /\ reset' = [reset EXCEPT ![e] = TRUE]
    /\ \E n \in 0 .. Len(net[e]) : net' = [net EXCEPT ![e] = First(@, n)]
    /\ UNCHANGED <<fin, gone, aborted, arrived, chunk, copier, closed, received, returned>>

Receive(e) ==
    /\ ~gone[e]
    /\ net[e] # << >>
    /\ received' = [received EXCEPT ![e] = Append(@, Head(net[e]))]
    /\ net' = [net EXCEPT ![e] = Tail(@)]
    /\ UNCHANGED <<sent, fin, gone, aborted, arrived, chunk, copier, closed, reset, returned>>

CloseWrite(e) ==
    /\ ~fin[e]
    /\ fin' = [fin EXCEPT ![e] = TRUE]
    /\ UNCHANGED <<sent, gone, aborted, arrived, chunk, copier, closed, reset, net,
                   received, returned>>

\* A reset of the end: what it has sent may not all arrive.
Abort(e) ==
    /\ aborted' = [aborted EXCEPT ![e] = TRUE]
    /\ \E n \in 0 .. Len(arrived[e]) : arrived' = [arrived EXCEPT ![e] = First(@, n)]

\* Close on the end's side: orderly if it has read everything so far, or a
\* reset (bytes unread, a crash, SO_LINGER).
Leave(e) ==
    /\ ~gone[e]
    /\ gone' = [gone EXCEPT ![e] = TRUE]
    /\ fin' = [fin EXCEPT ![e] = TRUE]
    /\ net' = [net EXCEPT ![e] = << >>]
    /\ \/ net[e] = << >> /\ UNCHANGED <<aborted, arrived>>
       \/ Abort(e)
    /\ UNCHANGED <<sent, chunk, copier, closed, reset, received, returned>>

-----------------------------------------------------------------------------
(* The copiers: io.Copy, then Close of the connection written to             *)

\* Mutated form: the buffer keeps the last byte read.
Read_Short(e) ==
    /\ copier[e] = "reading"
    /\ ~closed[e]
    /\ arrived[e] # << >>
    /\ chunk' = [chunk EXCEPT ![e] = <<arrived[e][Len(arrived[e])]>>]
    /\ arrived' = [arrived EXCEPT ![e] = << >>]
    /\ copier' = [copier EXCEPT ![e] = "writing"]
    /\ UNCHANGED <<sent, fin, gone, aborted, closed, reset, net, received, returned>>

\* Any number of the bytes that are there.
Read(e) ==
    /\ copier[e] = "reading"
    /\ ~closed[e]
    /\ \E n \in 1 .. Len(arrived[e]) :
         /\ chunk' = [chunk EXCEPT ![e] = First(arrived[e], n)]
         /\ arrived' = [arrived EXCEPT ![e] = SubSeq(@, n + 1, Len(@))]
    /\ copier' = [copier EXCEPT ![e] = "writing"]
    /\ UNCHANGED <<sent, fin, gone, aborted, closed, reset, net, received, returned>>

\* The write blocks while the window of the receiver is full.
Write(e) ==
    /\ copier[e] = "writing"
    /\ chunk[e] # << >>
    /\ ~gone[Other(e)]
    /\ Len(net[Other(e)]) < Window
    /\ net' = [net EXCEPT ![Other(e)] = Append(@, Head(chunk[e]))]
    /\ chunk' = [chunk EXCEPT ![e] = Tail(@)]
    /\ UNCHANGED <<sent, fin, gone, aborted, arrived, copier, closed, reset, received, returned>>

Written(e) ==
    /\ copier[e] = "writing"
    /\ chunk[e] = << >>
    /\ copier' = [copier EXCEPT ![e] = "reading"]
    /\ UNCHANGED <<sent, fin, gone, aborted, arrived, chunk, closed, reset, net,
                   received, returned>>

\* Mutated form: the connection stays open.
CloseConn_None(e) == UNCHANGED <<closed, reset, net>>

\* conn.Close of the connection to e, whatever its other direction is doing.
CloseConn(e) ==
    /\ closed' = [closed EXCEPT ![e] = TRUE]
    /\ IF arrived[e] # << >>
       THEN /\ reset' = [reset EXCEPT ![e] = TRUE]
            /\ \E n \in 0 .. Len(net[e]) : net' = [net EXCEPT ![e] = First(@, n)]
       ELSE UNCHANGED <<reset, net>>

\* Mutated form: a read ends when nothing is there, as with a deadline.
AtEnd_Impatient(e) == closed[e] \/ arrived[e] = << >>

\* The end of the stream, or the connection was closed by the other copier.
AtEnd(e) == closed[e] \/ (fin[e] /\ arrived[e] = << >>)

ReadEnds(e) ==
    /\ copier[e] = "reading"
    /\ AtEnd(e)
    /\ copier' = [copier EXCEPT ![e] = "done"]
    /\ CloseConn(Other(e))
    /\ UNCHANGED <<sent, fin, gone, aborted, arrived, chunk, received, returned>>

\* The receiver has left and resets its connection: the rest is not written.
WriteErr(e) ==
    /\ copier[e] = "writing"
    /\ gone[Other(e)]
    /\ copier' = [copier EXCEPT ![e] = "done"]
    /\ chunk' = [chunk EXCEPT ![e] = << >>]
    /\ Abort(Other(e))
    /\ CloseConn(Other(e))
    /\ UNCHANGED <<sent, fin, gone, received, returned>>

\* wg.Wait, and the deferred calls of the handler on closed connections.
Return ==
    /\ ~returned
    /\ \A e \in Ends : copier[e] = "done"
    /\ returned' = TRUE
    /\ UNCHANGED <<sent, fin, gone, aborted, arrived, chunk, copier, closed, reset,
                   net, received>>

-----------------------------------------------------------------------------

End(e) == Send(e) \/ SendToClosed(e) \/ Receive(e) \/ CloseWrite(e) \/ Leave(e)

Copier(e) == Read(e) \/ Write(e) \/ Written(e) \/ ReadEnds(e) \/ WriteErr(e)

Next == (\E e \in Ends : End(e) \/ Copier(e)) \/ Return

\* The goroutines are scheduled.  Nothing makes an end send, read or leave.
Fairness == (\A e \in Ends : WF_vars(Copier(e))) /\ WF_vars(Return)

Spec == Init /\ [][Next]_vars
FairSpec == Spec /\ Fairness

-----------------------------------------------------------------------------
(* Properties                                                               *)

TypeOK ==
    /\ sent \in [Ends -> 0 .. MaxBytes]
    /\ fin \in [Ends -> BOOLEAN]
    /\ gone \in [Ends -> BOOLEAN]
    /\ aborted \in [Ends -> BOOLEAN]
    /\ arrived \in [Ends -> Seq(1 .. MaxBytes)]
    /\ chunk \in [Ends -> Seq(1 .. MaxBytes)]
    /\ copier \in [Ends -> {"reading", "writing", "done"}]
    /\ closed \in [Ends -> BOOLEAN]
    /\ reset \in [Ends -> BOOLEAN]
    /\ net \in [Ends -> Seq(1 .. MaxBytes)]
    /\ \A e \in Ends : Len(net[e]) <= Window
    /\ received \in [Ends -> Seq(1 .. MaxBytes)]
    /\ returned \in BOOLEAN

FromClient == INSTANCE Pipe WITH
    sent <- sent["client"],
    received <- received["app"],
    ended <- fin["client"]

FromApp == INSTANCE Pipe WITH
    sent <- sent["app"],
    received <- received["client"],
    ended <- fin["app"]

\* Each direction is a pipe: however reads, short reads, blocked writes and
\* closes interleave, an end receives a prefix of what the other sent.
ImplementsPipes == FromClient!Spec /\ FromApp!Spec

\* An end of the stream that the proxy passes on is true: an end that has not
\* ended its own direction and sees its connection closed in order has received
\* all that the other sent, unless the other was reset.  (One that half-closes
\* first has no such promise: proxyCopy closes its connection as well.)
EofIsTrue ==
    \A e \in Ends :
        closed[e] /\ net[e] = << >> /\ ~reset[e] /\ ~fin[e] /\ ~aborted[Other(e)]
            => Len(received[e]) = sent[Other(e)]

Takes(e) == []<>(net[e] = << >> \/ gone[e])

\* No goroutine is left behind: when an end has ended its direction, proxyCopy
\* returns, provided each end goes on reading or leaves (a write has no
\* deadline).
CopyEnds == Takes("client") /\ Takes("app") => \A e \in Ends : fin[e] ~> returned

=============================================================================
