--------------------------- MODULE ProxyCopyProofs ---------------------------
(***************************************************************************)
(* Proofs about ProxyCopy, for any number of bytes and any window: the      *)
(* types, that each direction implements Pipe, and that an orderly end of   *)
(* the stream is a true one.                                                *)
(***************************************************************************)
EXTENDS ProxyCopy, SequenceTheorems, TLAPS

LEMMA OtherEnd ==
  ASSUME NEW e \in Ends
  PROVE  /\ Other(e) \in Ends /\ Other(e) # e /\ Other(Other(e)) = e
         /\ \A d \in Ends : d = e \/ d = Other(e)
  BY DEF Ends, Other

(* Facts about the pieces of a queue, element by element.                   *)

LEMMA FirstOf ==
  ASSUME NEW S, NEW s \in Seq(S), NEW n \in 0 .. Len(s)
  PROVE  /\ First(s, n) \in Seq(S) /\ Len(First(s, n)) = n
         /\ \A i \in 1 .. n : First(s, n)[i] = s[i]
  <1>1. Len(s) \in Nat /\ \A i \in 1 .. n : s[i] \in S
    BY LenProperties, ElementOfSeq
  <1>2. QED
    BY <1>1, SubSeqProperties DEF First

LEMMA RestOf ==
  ASSUME NEW S, NEW s \in Seq(S), NEW n \in 1 .. Len(s)
  PROVE  /\ SubSeq(s, n + 1, Len(s)) \in Seq(S)
         /\ Len(SubSeq(s, n + 1, Len(s))) = Len(s) - n
         /\ \A i \in 1 .. Len(s) - n : SubSeq(s, n + 1, Len(s))[i] = s[n + i]
  <1>1. Len(s) \in Nat /\ \A i \in n + 1 .. Len(s) : s[i] \in S
    BY LenProperties, ElementOfSeq
  <1>2. n + 1 \in 1 .. Len(s) + 1 /\ Len(s) \in n .. Len(s)
    BY <1>1
  <1>3. QED
    BY <1>1, <1>2, SubSeqProperties

LEMMA Pushed ==
  ASSUME NEW S, NEW s \in Seq(S), NEW b \in S
  PROVE  /\ Append(s, b) \in Seq(S) /\ Len(Append(s, b)) = Len(s) + 1
         /\ \A i \in 1 .. Len(s) : Append(s, b)[i] = s[i]
         /\ Append(s, b)[Len(s) + 1] = b
  BY AppendProperties

LEMMA Popped ==
  ASSUME NEW S, NEW s \in Seq(S), s # << >>
  PROVE  /\ Tail(s) \in Seq(S) /\ Len(Tail(s)) = Len(s) - 1 /\ Len(s) \in Nat \ {0}
         /\ \A i \in 1 .. Len(s) - 1 : Tail(s)[i] = s[i + 1]
         /\ Head(s) \in S /\ Head(s) = s[1]
  BY HeadTailProperties, EmptySeq, LenProperties

-----------------------------------------------------------------------------
(* Types                                                                    *)

Bytes == 1 .. MaxBytes

\* What Abort and CloseConn leave of a queue.
LEMMA Queues ==
  ASSUME TypeOK, NEW e \in Ends
  PROVE  /\ Abort(e) => /\ aborted' \in [Ends -> BOOLEAN]
                        /\ arrived' \in [Ends -> Seq(Bytes)]
         /\ CloseConn(e) => /\ closed' \in [Ends -> BOOLEAN] /\ reset' \in [Ends -> BOOLEAN]
                            /\ net' \in [Ends -> Seq(Bytes)]
                            /\ \A d \in Ends : Len(net'[d]) <= Window
  <1>1. arrived[e] \in Seq(Bytes) /\ net[e] \in Seq(Bytes) /\ Len(net[e]) \in Nat
    BY LenProperties DEF TypeOK, Bytes
  <1>2. \A n \in 0 .. Len(arrived[e]) : First(arrived[e], n) \in Seq(Bytes)
    BY <1>1, FirstOf
  <1>3. \A n \in 0 .. Len(net[e]) : First(net[e], n) \in Seq(Bytes) /\ Len(First(net[e], n)) <= Len(net[e])
    BY <1>1, FirstOf
  <1>4. ASSUME Abort(e)
        PROVE  aborted' \in [Ends -> BOOLEAN] /\ arrived' \in [Ends -> Seq(Bytes)]
    BY <1>2, <1>4 DEF TypeOK, Abort, Bytes
  <1>5. ASSUME CloseConn(e)
        PROVE  closed' \in [Ends -> BOOLEAN] /\ reset' \in [Ends -> BOOLEAN]
    BY <1>5 DEF TypeOK, CloseConn
  <1>6. ASSUME CloseConn(e)
        PROVE  net' \in [Ends -> Seq(Bytes)] /\ \A d \in Ends : Len(net'[d]) <= Window
    <2>1. CASE UNCHANGED net
      BY <2>1 DEF TypeOK, Bytes
    <2>2. ASSUME NEW n \in 0 .. Len(net[e]), net' = [net EXCEPT ![e] = First(@, n)]
          PROVE  net' \in [Ends -> Seq(Bytes)] /\ \A d \in Ends : Len(net'[d]) <= Window
      <3>1. First(net[e], n) \in Seq(Bytes) /\ Len(First(net[e], n)) \in Nat
            /\ Len(First(net[e], n)) <= Window
        BY <1>1, <1>3, LenProperties, BytesAssumption DEF TypeOK
      <3>2. QED
        BY <2>2, <3>1 DEF TypeOK, Bytes
    <2>3. QED
      BY <1>6, <2>1, <2>2 DEF CloseConn
  <1>7. QED
    BY <1>4, <1>5, <1>6

LEMMA TypeStep == TypeOK /\ [Next]_vars => TypeOK'
  <1> SUFFICES ASSUME TypeOK, [Next]_vars PROVE TypeOK'
    OBVIOUS
  <1> USE BytesAssumption DEF Bytes
  <1>1. ASSUME NEW e \in Ends, End(e) PROVE TypeOK'
    <2>1. CASE Send(e)
      <3>1. Append(arrived[e], sent[e] + 1) \in Seq(Bytes)
        BY <2>1, Pushed DEF Send, TypeOK
      <3>2. QED
        BY <2>1, <3>1 DEF Send, TypeOK
    <2>2. CASE SendToClosed(e)
      <3>1. net[e] \in Seq(Bytes) /\ Len(net[e]) \in Nat
        BY LenProperties DEF TypeOK
      <3>2. \A n \in 0 .. Len(net[e]) :
              First(net[e], n) \in Seq(Bytes) /\ Len(First(net[e], n)) <= Len(net[e])
        BY <3>1, FirstOf
      <3>3. QED
        <4>1. PICK n \in 0 .. Len(net[e]) : net' = [net EXCEPT ![e] = First(@, n)]
          BY <2>2 DEF SendToClosed
        <4>2. net' \in [Ends -> Seq(Bytes)]
          BY <3>2, <4>1 DEF TypeOK
        <4>3. \A d \in Ends : Len(net'[d]) <= Window
          <5>1. Len(First(net[e], n)) <= Window
            BY <3>1, <3>2, FirstOf DEF TypeOK
          <5>2. QED
            BY <4>1, <5>1 DEF TypeOK
        <4>4. QED
          BY <2>2, <4>2, <4>3 DEF SendToClosed, TypeOK
    <2>3. CASE Receive(e)
      <3>1. /\ Tail(net[e]) \in Seq(Bytes) /\ Len(Tail(net[e])) <= Window
            /\ Head(net[e]) \in Bytes
        BY <2>3, Popped DEF Receive, TypeOK
      <3>2. Append(received[e], Head(net[e])) \in Seq(Bytes)
        BY <3>1, Pushed DEF TypeOK
      <3>3. QED
        <4>1. received' \in [Ends -> Seq(Bytes)]
          BY <2>3, <3>2 DEF Receive, TypeOK
        <4>2. net' \in [Ends -> Seq(Bytes)] /\ \A d \in Ends : Len(net'[d]) <= Window
          BY <2>3, <3>1 DEF Receive, TypeOK
        <4>3. QED
          BY <2>3, <4>1, <4>2 DEF Receive, TypeOK
    <2>4. CASE CloseWrite(e)
      BY <2>4 DEF CloseWrite, TypeOK
    <2>5. CASE Leave(e)
      <3>1. aborted' \in [Ends -> BOOLEAN] /\ arrived' \in [Ends -> Seq(Bytes)]
        BY <2>5, Queues DEF Leave, TypeOK
      <3>2. net' \in [Ends -> Seq(Bytes)] /\ \A d \in Ends : Len(net'[d]) <= Window
        BY <2>5 DEF Leave, TypeOK
      <3>3. QED
        BY <2>5, <3>1, <3>2 DEF Leave, TypeOK
    <2>6. QED
      BY <1>1, <2>1, <2>2, <2>3, <2>4, <2>5 DEF End
  <1>2. ASSUME NEW e \in Ends, Copier(e) PROVE TypeOK'
    <2>1. CASE Read(e)
      <3>1. PICK n \in 1 .. Len(arrived[e]) :
              /\ chunk' = [chunk EXCEPT ![e] = First(arrived[e], n)]
              /\ arrived' = [arrived EXCEPT ![e] = SubSeq(@, n + 1, Len(@))]
        BY <2>1 DEF Read
      <3>2. arrived[e] \in Seq(Bytes) /\ n \in 0 .. Len(arrived[e])
        BY <3>1, LenProperties DEF TypeOK
      <3>3. First(arrived[e], n) \in Seq(Bytes)
        BY <3>2, FirstOf
      <3>4. SubSeq(arrived[e], n + 1, Len(arrived[e])) \in Seq(Bytes)
        BY <3>1, <3>2, RestOf
      <3>5. QED
        BY <2>1, <3>1, <3>3, <3>4 DEF Read, TypeOK
    <2>2. CASE Write(e)
      <3>1. Tail(chunk[e]) \in Seq(Bytes) /\ Head(chunk[e]) \in Bytes
        BY <2>2, Popped DEF Write, TypeOK
      <3>2. /\ Append(net[Other(e)], Head(chunk[e])) \in Seq(Bytes)
            /\ Len(Append(net[Other(e)], Head(chunk[e]))) <= Window
        BY <2>2, <3>1, Pushed, OtherEnd, LenProperties DEF Write, TypeOK
      <3>3. QED
        BY <2>2, <3>1, <3>2, OtherEnd DEF Write, TypeOK
    <2>3. CASE Written(e)
      BY <2>3 DEF Written, TypeOK
    <2>4. CASE ReadEnds(e)
      BY <2>4, Queues, OtherEnd DEF ReadEnds, TypeOK
    <2>5. CASE WriteErr(e)
      <3>1. << >> \in Seq(Bytes)
        OBVIOUS
      <3>2. QED
        BY <2>5, <3>1, Queues, OtherEnd DEF WriteErr, TypeOK
    <2>6. QED
      BY <1>2, <2>1, <2>2, <2>3, <2>4, <2>5 DEF Copier
  <1>3. CASE Return
    BY <1>3 DEF Return, TypeOK
  <1>4. CASE UNCHANGED vars
    BY <1>4 DEF vars, TypeOK
  <1>5. QED
    BY <1>1, <1>2, <1>3, <1>4 DEF Next

LEMMA TypeInit == Init => TypeOK
  <1> SUFFICES ASSUME Init PROVE TypeOK
    OBVIOUS
  <1>1. << >> \in Seq(1 .. MaxBytes)
    OBVIOUS
  <1>2. \A e \in Ends : Len(net[e]) <= Window
    BY BytesAssumption DEF Init
  <1>3. sent \in [Ends -> 0 .. MaxBytes]
    BY BytesAssumption DEF Init
  <1>4. /\ arrived \in [Ends -> Seq(1 .. MaxBytes)] /\ chunk \in [Ends -> Seq(1 .. MaxBytes)]
        /\ net \in [Ends -> Seq(1 .. MaxBytes)] /\ received \in [Ends -> Seq(1 .. MaxBytes)]
    BY <1>1 DEF Init
  <1>5. QED
    BY <1>2, <1>3, <1>4 DEF Init, TypeOK

\* The type invariant of ProxyCopy; it bounds what waits for an end by Window.
THEOREM TypeCorrect == Spec => []TypeOK
  BY TypeInit, TypeStep, PTL DEF Spec

-----------------------------------------------------------------------------
(* The bytes in their order                                                 *)

\* How much there is of each queue.
Got(e) == Len(received[e])
Sending(e) == Len(net[e])
Held(e) == Len(chunk[e])
Waiting(e) == Len(arrived[e])

\* Of the end e and the other end o.
CopierInv(e, o) ==
    /\ closed[e] => copier[o] = "done"
    /\ gone[e] => fin[e] /\ net[e] = << >>
    /\ aborted[e] => fin[e]
    /\ copier[e] # "writing" => chunk[e] = << >>
    /\ copier[e] = "done" => fin[e] \/ closed[e] \/ aborted[o]

\* The bytes for e that have left the proxy.
Passed(e) == Got(e) + Sending(e)

\* They are numbered from one, without a gap.
OutInv(e, o) ==
    /\ \A i \in 1 .. Got(e) : received[e][i] = i
    /\ \A i \in 1 .. Sending(e) : net[e][i] = Got(e) + i
    /\ Passed(e) <= sent[o]

\* Those from e that the copier has, and those it will read, come after them,
\* and while nothing has been cut they are all there is.
InInv(e, o) ==
    copier[e] # "done" /\ ~gone[o] =>
        /\ \A i \in 1 .. Held(e) : chunk[e][i] = Passed(o) + i
        /\ \A i \in 1 .. Waiting(e) : arrived[e][i] = Passed(o) + Held(e) + i
        /\ Passed(o) + Held(e) + Waiting(e) <= sent[e]
        /\ ~closed[e] /\ ~aborted[e] =>
             Passed(o) + Held(e) + Waiting(e) = sent[e]

\* EofIsTrue, from the moment the connection is closed.
EofInv(e, o) ==
    closed[e] /\ ~reset[e] /\ ~fin[e] /\ ~aborted[o] => fin[o] /\ Passed(e) = sent[o]

PairInv(e, o) == CopierInv(e, o) /\ OutInv(e, o) /\ InInv(e, o) /\ EofInv(e, o)

CopyInv == TypeOK /\ \A e \in Ends : PairInv(e, Other(e))

LEMMA CopyInit == Init => CopyInv
  <1> SUFFICES ASSUME Init PROVE CopyInv
    OBVIOUS
  <1>1. ASSUME NEW e \in Ends
        PROVE  PairInv(e, Other(e))
    <2>1. ASSUME NEW d \in Ends
          PROVE  Got(d) = 0 /\ Sending(d) = 0 /\ Held(d) = 0 /\ Waiting(d) = 0
      BY <2>1 DEF Init, Got, Sending, Held, Waiting
    <2>2. QED
      BY <2>1, OtherEnd DEF Init, PairInv, CopierInv, OutInv, InInv, EofInv, Passed
  <1>2. QED
    BY <1>1, TypeInit DEF CopyInv

\* What Passed and the queues are made of.
LEMMA Lengths ==
  ASSUME TypeOK, NEW e \in Ends
  PROVE  /\ received[e] \in Seq(Bytes) /\ net[e] \in Seq(Bytes)
         /\ chunk[e] \in Seq(Bytes) /\ arrived[e] \in Seq(Bytes)
         /\ Got(e) \in Nat /\ Sending(e) \in Nat
         /\ Held(e) \in Nat /\ Waiting(e) \in Nat
         /\ sent[e] \in Nat /\ Passed(e) \in Nat
  <1>0. sent[e] \in Nat
    BY BytesAssumption DEF TypeOK
  <1>1. /\ received[e] \in Seq(Bytes) /\ net[e] \in Seq(Bytes)
        /\ chunk[e] \in Seq(Bytes) /\ arrived[e] \in Seq(Bytes)
    BY DEF TypeOK, Bytes
  <1>2. /\ Got(e) \in Nat /\ Sending(e) \in Nat
        /\ Held(e) \in Nat /\ Waiting(e) \in Nat
    BY <1>1, LenProperties DEF Got, Sending, Held, Waiting
  <1>3. Passed(e) \in Nat
    BY <1>2 DEF Passed
  <1>4. QED
    BY <1>0, <1>1, <1>2, <1>3

LEMMA SendStep ==
  ASSUME TypeOK, NEW e \in Ends, NEW o \in Ends, o # e,
         PairInv(e, o), PairInv(o, e), Send(e)
  PROVE  PairInv(e, o)' /\ PairInv(o, e)'
  <1>0. /\ Held(e) \in Nat /\ Waiting(e) \in Nat /\ arrived[e] \in Seq(Bytes)
        /\ Passed(o) \in Nat /\ Passed(e) \in Nat /\ sent[e] \in Nat
    BY Lengths
  <1>1. /\ sent'[e] = sent[e] + 1 /\ sent'[o] = sent[o]
        /\ arrived'[e] = Append(arrived[e], sent[e] + 1) /\ arrived'[o] = arrived[o]
        /\ UNCHANGED <<fin, gone, aborted, chunk, copier, closed, reset, net, received>>
        /\ ~fin[e] /\ ~closed[e]
    BY DEF Send, TypeOK
  <1>2. sent[e] + 1 \in Bytes
    BY BytesAssumption DEF Send, TypeOK, Bytes
  <1>3. /\ Waiting(e)' = Waiting(e) + 1
        /\ \A i \in 1 .. Waiting(e) : arrived'[e][i] = arrived[e][i]
        /\ arrived'[e][Waiting(e) + 1] = sent[e] + 1
    BY <1>0, <1>1, <1>2, Pushed DEF Waiting
  <1>4. CopierInv(e, o)' /\ CopierInv(o, e)'
    BY <1>1 DEF PairInv, CopierInv
  <1>. /\ Got(e)' = Got(e) /\ Got(o)' = Got(o) /\ Sending(e)' = Sending(e)
       /\ Sending(o)' = Sending(o) /\ Held(e)' = Held(e) /\ Held(o)' = Held(o)
       /\ Waiting(o)' = Waiting(o)
    BY <1>1 DEF Got, Sending, Held, Waiting
  <1>5. OutInv(e, o)' /\ OutInv(o, e)'
    <2>1. Passed(e)' = Passed(e) /\ Passed(o)' = Passed(o)
      BY DEF Passed
    <2>2. Passed(e) <= sent[o] /\ Passed(o) <= sent[e]
      BY DEF PairInv, OutInv
    <2>3. Passed(e)' <= sent'[o] /\ Passed(o)' <= sent'[e]
      BY <1>0, <1>1, <2>1, <2>2
    <2>4. QED
      BY <1>1, <2>3 DEF PairInv, OutInv
  <1>6. EofInv(e, o)' /\ EofInv(o, e)'
    BY <1>1 DEF PairInv, EofInv, Passed
  <1>7. InInv(o, e)'
    BY <1>1 DEF PairInv, InInv, Passed
  <1>8. InInv(e, o)'
    <2>1. Passed(o)' = Passed(o)
      BY DEF Passed
    <2>2. ASSUME copier[e] # "done", ~gone[o]
          PROVE  /\ \A i \in 1 .. Waiting(e)' :
                      arrived'[e][i] = Passed(o) + Held(e) + i
                 /\ Passed(o) + Held(e) + Waiting(e)' = sent'[e]
      <3>1. Passed(o) + Held(e) + Waiting(e) = sent[e]
        BY <1>1, <2>2 DEF PairInv, InInv, CopierInv
      <3>2. \A i \in 1 .. Waiting(e) : arrived[e][i] = Passed(o) + Held(e) + i
        BY <2>2 DEF PairInv, InInv
      <3>3. ASSUME NEW i \in 1 .. Waiting(e)'
            PROVE  arrived'[e][i] = Passed(o) + Held(e) + i
        <4>1. CASE i \in 1 .. Waiting(e)
          BY <1>3, <3>2, <4>1
        <4>2. CASE i = Waiting(e) + 1
          BY <1>0, <1>3, <3>1, <4>2
        <4>3. QED
          BY <1>0, <1>3, <4>1, <4>2
      <3>4. Passed(o) + Held(e) + Waiting(e)' = sent'[e]
        BY <1>0, <1>1, <1>3, <3>1
      <3>5. QED
        BY <3>3, <3>4
    <2>3. \A i \in 1 .. Held(e) :
            copier[e] # "done" /\ ~gone[o] => chunk[e][i] = Passed(o) + i
      BY DEF PairInv, InInv
    <2>4. Passed(o) + Held(e) + Waiting(e)' = sent'[e]
            => Passed(o) + Held(e) + Waiting(e)' <= sent'[e]
      BY <1>0, <1>1
    <2>5. QED
      BY <1>1, <2>1, <2>2, <2>3, <2>4 DEF InInv
  <1>9. QED
    BY <1>4, <1>5, <1>6, <1>7, <1>8 DEF PairInv

\* A queue to an end that is cut short stays in order.
LEMMA NetCut ==
  ASSUME TypeOK, NEW e \in Ends, NEW o \in Ends, OutInv(e, o),
         NEW n \in 0 .. Sending(e), net'[e] = First(net[e], n),
         received'[e] = received[e], sent[o] <= sent'[o], sent'[o] \in Nat
  PROVE  OutInv(e, o)' /\ (net[e] = << >> => net'[e] = << >>)
  <1>1. /\ net[e] \in Seq(Bytes) /\ Sending(e) \in Nat /\ Got(e) \in Nat
        /\ sent[o] \in Nat
    BY Lengths
  <1>2. /\ Sending(e)' = n /\ net'[e] \in Seq(Bytes)
        /\ \A i \in 1 .. n : net'[e][i] = net[e][i]
    BY <1>1, FirstOf DEF Sending
  <1>3. Got(e) + Sending(e) <= sent[o]
    BY DEF OutInv, Passed
  <1>4. Got(e)' + Sending(e)' <= sent'[o]
    <2>1. Got(e)' = Got(e)
      BY DEF Got
    <2>2. QED
      BY <1>1, <1>2, <1>3, <2>1
  <1>5. \A i \in 1 .. Sending(e)' : net'[e][i] = Got(e)' + i
    <2>1. Got(e)' = Got(e)
      BY DEF Got
    <2>2. \A i \in 1 .. Sending(e) : net[e][i] = Got(e) + i
      BY DEF OutInv
    <2>3. QED
      BY <1>1, <1>2, <2>1, <2>2
  <1>6. OutInv(e, o)'
    <2>1. Got(e)' = Got(e)
      BY DEF Got
    <2>2. QED
      BY <1>4, <1>5, <2>1 DEF OutInv, Passed
  <1>7. net[e] = << >> => net'[e] = << >>
    <2>1. net[e] = << >> => Len(net[e]) = 0
      OBVIOUS
    <2>2. net[e] = << >> => n = 0
      BY <2>1 DEF Sending
    <2>3. QED
      BY <1>1, <1>2, <2>2, EmptySeq DEF Sending
  <1>8. QED
    BY <1>6, <1>7

LEMMA SendToClosedStep ==
  ASSUME TypeOK, NEW e \in Ends, NEW o \in Ends, o # e,
         PairInv(e, o), PairInv(o, e), SendToClosed(e)
  PROVE  PairInv(e, o)' /\ PairInv(o, e)'
  <1>0. /\ Held(e) \in Nat /\ Waiting(e) \in Nat
        /\ Passed(o) \in Nat /\ sent[e] \in Nat /\ sent[o] \in Nat
    BY Lengths
  <1>1. /\ sent'[e] = sent[e] + 1 /\ sent'[o] = sent[o]
        /\ reset'[e] /\ reset'[o] = reset[o] /\ net'[o] = net[o]
        /\ UNCHANGED <<fin, gone, aborted, arrived, chunk, copier, closed, received>>
        /\ ~fin[e] /\ closed[e] /\ copier[o] = "done"
    BY DEF SendToClosed, TypeOK, PairInv, CopierInv
  <1>2. PICK n \in 0 .. Sending(e) : net'[e] = First(net[e], n)
    BY DEF SendToClosed, TypeOK, Sending
  <1>3. OutInv(e, o)' /\ (net[e] = << >> => net'[e] = << >>)
    BY <1>0, <1>1, <1>2, NetCut DEF PairInv
  <1>4. CopierInv(e, o)' /\ CopierInv(o, e)'
    BY <1>1, <1>3 DEF PairInv, CopierInv
  <1>. /\ Got(o)' = Got(o) /\ Sending(o)' = Sending(o) /\ Held(e)' = Held(e)
       /\ Held(o)' = Held(o) /\ Waiting(e)' = Waiting(e) /\ Waiting(o)' = Waiting(o)
    BY <1>1 DEF Got, Sending, Held, Waiting
  <1>5. Passed(o)' = Passed(o)
    BY DEF Passed
  <1>6. OutInv(o, e)'
    <2>1. Passed(o) <= sent[e]
      BY DEF PairInv, OutInv
    <2>2. Passed(o)' <= sent'[e]
      BY <1>0, <1>1, <1>5, <2>1
    <2>3. QED
      BY <1>1, <2>2 DEF PairInv, OutInv
  <1>7. InInv(e, o)'
    <2>1. Passed(o) + Held(e) + Waiting(e) <= sent[e]
            => Passed(o) + Held(e) + Waiting(e) <= sent'[e]
      BY <1>0, <1>1
    <2>2. QED
      BY <1>1, <1>5, <2>1 DEF PairInv, InInv
  <1>8. InInv(o, e)'
    BY <1>1 DEF InInv
  <1>9. EofInv(e, o)' /\ EofInv(o, e)'
    BY <1>1 DEF PairInv, EofInv
  <1>10. QED
    BY <1>3, <1>4, <1>6, <1>7, <1>8, <1>9 DEF PairInv

LEMMA ReceiveStep ==
  ASSUME TypeOK, NEW e \in Ends, NEW o \in Ends, o # e,
         PairInv(e, o), PairInv(o, e), Receive(e)
  PROVE  PairInv(e, o)' /\ PairInv(o, e)'
  <1>0. /\ received[e] \in Seq(Bytes) /\ net[e] \in Seq(Bytes)
        /\ Got(e) \in Nat /\ Sending(e) \in Nat
    BY Lengths
  <1>1. /\ received'[e] = Append(received[e], Head(net[e])) /\ net'[e] = Tail(net[e])
        /\ net[e] # << >> /\ ~gone[e]
        /\ received'[o] = received[o] /\ net'[o] = net[o]
        /\ UNCHANGED <<sent, fin, gone, aborted, arrived, chunk, copier, closed, reset>>
    BY DEF Receive, TypeOK
  <1>2. /\ Sending(e)' = Sending(e) - 1 /\ Sending(e) >= 1
        /\ \A i \in 1 .. Sending(e) - 1 : net'[e][i] = net[e][i + 1]
        /\ Head(net[e]) \in Bytes /\ Head(net[e]) = net[e][1]
    BY <1>0, <1>1, Popped DEF Sending
  <1>3. /\ Got(e)' = Got(e) + 1
        /\ \A i \in 1 .. Got(e) : received'[e][i] = received[e][i]
        /\ received'[e][Got(e) + 1] = net[e][1]
    BY <1>0, <1>1, <1>2, Pushed DEF Got
  <1>. /\ Got(o)' = Got(o) /\ Sending(o)' = Sending(o) /\ Held(e)' = Held(e)
       /\ Held(o)' = Held(o) /\ Waiting(e)' = Waiting(e) /\ Waiting(o)' = Waiting(o)
    BY <1>1 DEF Got, Sending, Held, Waiting
  <1>4. /\ \A i \in 1 .. Got(e) : received[e][i] = i
        /\ \A i \in 1 .. Sending(e) : net[e][i] = Got(e) + i
    BY DEF PairInv, OutInv
  <1>5. Passed(e)' = Passed(e) /\ Passed(o)' = Passed(o)
    <2>1. Got(e)' + Sending(e)' = Got(e) + Sending(e)
      BY <1>0, <1>2, <1>3
    <2>2. QED
      BY <1>1, <2>1 DEF Passed
  <1>6. /\ \A i \in 1 .. Got(e)' : received'[e][i] = i
        /\ \A i \in 1 .. Sending(e)' : net'[e][i] = Got(e)' + i
    <2>1. net[e][1] = Got(e) + 1
      BY <1>0, <1>2, <1>4
    <2>2. \A i \in 1 .. Got(e)' : received'[e][i] = i
      BY <1>0, <1>3, <1>4, <2>1
    <2>3. ASSUME NEW i \in 1 .. Sending(e) - 1
          PROVE  net[e][i + 1] = Got(e) + 1 + i
      <3>1. i + 1 \in 1 .. Sending(e)
        BY <1>0
      <3>2. net[e][i + 1] = Got(e) + (i + 1)
        BY <1>4, <3>1
      <3>3. QED
        BY <1>0, <3>2
    <2>4. QED
      BY <1>0, <1>2, <1>3, <2>2, <2>3
  <1>7. OutInv(e, o)' /\ OutInv(o, e)'
    BY <1>1, <1>5, <1>6 DEF PairInv, OutInv
  <1>8. CopierInv(e, o)' /\ CopierInv(o, e)'
    BY <1>1 DEF PairInv, CopierInv
  <1>9. InInv(e, o)' /\ InInv(o, e)'
    BY <1>1, <1>5 DEF PairInv, InInv
  <1>10. EofInv(e, o)' /\ EofInv(o, e)'
    BY <1>1, <1>5 DEF PairInv, EofInv
  <1>11. QED
    BY <1>7, <1>8, <1>9, <1>10 DEF PairInv

\* Bytes from an end that are cut short stay in order.
LEMMA ArrivedCut ==
  ASSUME TypeOK, NEW e \in Ends, NEW o \in Ends, InInv(e, o),
         NEW n \in 0 .. Waiting(e), arrived'[e] = First(arrived[e], n), aborted'[e],
         UNCHANGED <<copier[e], gone[o], chunk[e], sent[e], received[o], net[o]>>
  PROVE  InInv(e, o)'
  <1>1. /\ arrived[e] \in Seq(Bytes) /\ Waiting(e) \in Nat /\ Held(e) \in Nat
        /\ Passed(o) \in Nat /\ sent[e] \in Nat
    BY Lengths
  <1>2. Waiting(e)' = n /\ \A i \in 1 .. n : arrived'[e][i] = arrived[e][i]
    BY <1>1, FirstOf DEF Waiting
  <1>3. Held(e)' = Held(e) /\ Passed(o)' = Passed(o)
    BY DEF Held, Passed, Got, Sending
  <1>4. ASSUME copier[e] # "done", ~gone[o]
        PROVE  /\ \A i \in 1 .. Held(e) : chunk[e][i] = Passed(o) + i
               /\ \A i \in 1 .. n : arrived'[e][i] = Passed(o) + Held(e) + i
               /\ Passed(o) + Held(e) + n <= sent[e]
    <2>1. /\ \A i \in 1 .. Held(e) : chunk[e][i] = Passed(o) + i
          /\ \A i \in 1 .. Waiting(e) : arrived[e][i] = Passed(o) + Held(e) + i
          /\ Passed(o) + Held(e) + Waiting(e) <= sent[e]
      BY <1>4 DEF InInv
    <2>2. \A i \in 1 .. n : i \in 1 .. Waiting(e)
      BY <1>1
    <2>3. Passed(o) + Held(e) + n <= sent[e]
      BY <1>1, <2>1
    <2>4. QED
      BY <1>2, <2>1, <2>2, <2>3
  <1>5. QED
    BY <1>2, <1>3, <1>4 DEF InInv

LEMMA CloseWriteStep ==
  ASSUME TypeOK, NEW e \in Ends, NEW o \in Ends, o # e,
         PairInv(e, o), PairInv(o, e), CloseWrite(e)
  PROVE  PairInv(e, o)' /\ PairInv(o, e)'
  <1>1. /\ fin'[e] /\ fin'[o] = fin[o]
        /\ UNCHANGED <<sent, gone, aborted, arrived, chunk, copier, closed, reset, net, received>>
    BY DEF CloseWrite, TypeOK
  <1>2. CopierInv(e, o)' /\ CopierInv(o, e)'
    BY <1>1 DEF PairInv, CopierInv
  <1>3. OutInv(e, o)' /\ OutInv(o, e)' /\ InInv(e, o)' /\ InInv(o, e)'
    BY <1>1 DEF PairInv, OutInv, InInv, Passed, Got, Sending, Held, Waiting
  <1>4. EofInv(e, o)' /\ EofInv(o, e)'
    BY <1>1 DEF PairInv, EofInv, Passed, Got, Sending
  <1>5. QED
    BY <1>2, <1>3, <1>4 DEF PairInv

LEMMA LeaveStep ==
  ASSUME TypeOK, NEW e \in Ends, NEW o \in Ends, o # e,
         PairInv(e, o), PairInv(o, e), Leave(e)
  PROVE  PairInv(e, o)' /\ PairInv(o, e)'
  <1>1. /\ fin'[e] /\ gone'[e] /\ fin'[o] = fin[o] /\ gone'[o] = gone[o]
        /\ net'[e] = << >> /\ net'[o] = net[o] /\ aborted'[o] = aborted[o]
        /\ arrived'[o] = arrived[o]
        /\ UNCHANGED <<sent, chunk, copier, closed, reset, received>>
    BY DEF Leave, TypeOK, Abort
  <1>2. \/ aborted'[e] = aborted[e] /\ arrived'[e] = arrived[e]
        \/ aborted'[e] /\ \E n \in 0 .. Waiting(e) : arrived'[e] = First(arrived[e], n)
    BY DEF Leave, TypeOK, Abort, Waiting
  <1>3. CopierInv(e, o)' /\ CopierInv(o, e)'
    BY <1>1, <1>2 DEF PairInv, CopierInv
  <1>4. OutInv(o, e)'
    BY <1>1 DEF PairInv, OutInv, Passed, Got, Sending
  <1>5. OutInv(e, o)'
    <2>1. Got(e) \in Nat /\ Sending(e) \in Nat /\ sent[o] \in Nat /\ Got(e) + Sending(e) <= sent[o]
      BY Lengths DEF PairInv, OutInv, Passed
    <2>2. Got(e)' = Got(e) /\ Sending(e)' = 0
      BY <1>1 DEF Got, Sending
    <2>3. Passed(e)' <= sent'[o]
      BY <1>1, <2>1, <2>2 DEF Passed
    <2>4. QED
      BY <1>1, <2>2, <2>3 DEF PairInv, OutInv
  <1>6. InInv(e, o)'
    <2>1. CASE aborted'[e] = aborted[e] /\ arrived'[e] = arrived[e]
      BY <1>1, <2>1 DEF PairInv, InInv, Passed, Got, Sending, Held, Waiting
    <2>2. CASE aborted'[e] /\ \E n \in 0 .. Waiting(e) : arrived'[e] = First(arrived[e], n)
      BY <1>1, <2>2, ArrivedCut DEF PairInv
    <2>3. QED
      BY <1>2, <2>1, <2>2
  <1>7. InInv(o, e)'
    BY <1>1 DEF InInv
  <1>8. EofInv(e, o)'
    BY <1>1 DEF EofInv
  <1>9. EofInv(o, e)'
    BY <1>1, <1>2 DEF PairInv, EofInv, CopierInv, Passed, Got, Sending
  <1>10. QED
    BY <1>3, <1>4, <1>5, <1>6, <1>7, <1>8, <1>9 DEF PairInv

LEMMA ReadStep ==
  ASSUME TypeOK, NEW e \in Ends, NEW o \in Ends, o # e,
         PairInv(e, o), PairInv(o, e), Read(e)
  PROVE  PairInv(e, o)' /\ PairInv(o, e)'
  <1>0. /\ arrived[e] \in Seq(Bytes) /\ Waiting(e) \in Nat /\ Held(e) \in Nat
        /\ Passed(o) \in Nat /\ sent[e] \in Nat
    BY Lengths
  <1>1. PICK n \in 1 .. Waiting(e) :
          /\ chunk'[e] = First(arrived[e], n)
          /\ arrived'[e] = SubSeq(arrived[e], n + 1, Len(arrived[e]))
    BY DEF Read, TypeOK, Waiting
  <1>2. /\ chunk'[o] = chunk[o] /\ arrived'[o] = arrived[o]
        /\ copier'[o] = copier[o] /\ copier[e] = "reading" /\ copier'[e] = "writing"
        /\ UNCHANGED <<sent, fin, gone, aborted, closed, reset, net, received>>
    BY DEF Read, TypeOK
  <1>3. Held(e)' = n /\ \A i \in 1 .. n : chunk'[e][i] = arrived[e][i]
    <2>1. n \in 0 .. Waiting(e)
      BY <1>0
    <2>2. QED
      BY <1>0, <1>1, <2>1, FirstOf DEF Held, Waiting
  <1>4. /\ Waiting(e)' = Waiting(e) - n
        /\ \A i \in 1 .. Waiting(e) - n : arrived'[e][i] = arrived[e][n + i]
    BY <1>0, <1>1, RestOf DEF Waiting
  <1>5. /\ Passed(e)' = Passed(e) /\ Passed(o)' = Passed(o)
        /\ Held(o)' = Held(o) /\ Waiting(o)' = Waiting(o)
        /\ Got(e)' = Got(e) /\ Got(o)' = Got(o)
        /\ Sending(e)' = Sending(e) /\ Sending(o)' = Sending(o)
    BY <1>2 DEF Passed, Got, Sending, Held, Waiting
  <1>6. CopierInv(e, o)' /\ CopierInv(o, e)'
    BY <1>2 DEF PairInv, CopierInv
  <1>7. OutInv(e, o)' /\ OutInv(o, e)' /\ InInv(o, e)' /\ EofInv(e, o)' /\ EofInv(o, e)'
    BY <1>2, <1>5 DEF PairInv, OutInv, InInv, EofInv
  <1>8. InInv(e, o)'
    <2>1. Held(e) = 0
      BY <1>2 DEF PairInv, CopierInv, Held
    <2>2. ASSUME ~gone[o]
          PROVE  /\ \A i \in 1 .. Waiting(e) : arrived[e][i] = Passed(o) + i
                 /\ Passed(o) + Waiting(e) <= sent[e]
                 /\ ~closed[e] /\ ~aborted[e] => Passed(o) + Waiting(e) = sent[e]
      <3>1. /\ \A i \in 1 .. Waiting(e) : arrived[e][i] = Passed(o) + Held(e) + i
            /\ Passed(o) + Held(e) + Waiting(e) <= sent[e]
            /\ ~closed[e] /\ ~aborted[e] => Passed(o) + Held(e) + Waiting(e) = sent[e]
        BY <1>2, <2>2 DEF PairInv, InInv
      <3>2. Passed(o) + Held(e) = Passed(o)
        BY <1>0, <2>1
      <3>3. QED
        BY <3>1, <3>2
    <2>3. ASSUME ~gone[o]
          PROVE  \A i \in 1 .. Held(e)' : chunk'[e][i] = Passed(o) + i
      BY <1>0, <1>3, <2>2, <2>3
    <2>4. ASSUME ~gone[o], NEW i \in 1 .. Waiting(e)'
          PROVE  arrived'[e][i] = Passed(o) + Held(e)' + i
      <3>1. n + i \in 1 .. Waiting(e) /\ i \in 1 .. Waiting(e) - n
        BY <1>0, <1>4
      <3>2. arrived'[e][i] = Passed(o) + (n + i)
        BY <1>4, <2>2, <2>4, <3>1
      <3>3. QED
        BY <1>0, <1>3, <3>2
    <2>5. Passed(o) + Held(e)' + Waiting(e)' = Passed(o) + Waiting(e)
      BY <1>0, <1>3, <1>4
    <2>6. QED
      BY <1>2, <1>5, <2>2, <2>3, <2>4, <2>5 DEF InInv
  <1>9. QED
    BY <1>6, <1>7, <1>8 DEF PairInv

LEMMA WriteStep ==
  ASSUME TypeOK, NEW e \in Ends, NEW o \in Ends, o # e, o = Other(e),
         PairInv(e, o), PairInv(o, e), Write(e)
  PROVE  PairInv(e, o)' /\ PairInv(o, e)'
  <1>0. /\ chunk[e] \in Seq(Bytes) /\ net[o] \in Seq(Bytes)
        /\ Got(o) \in Nat /\ Sending(o) \in Nat /\ Held(e) \in Nat /\ Waiting(e) \in Nat
        /\ Passed(o) \in Nat /\ sent[e] \in Nat
    BY Lengths
  <1>1. /\ net'[o] = Append(net[o], Head(chunk[e])) /\ net'[e] = net[e]
        /\ chunk'[e] = Tail(chunk[e]) /\ chunk'[o] = chunk[o] /\ chunk[e] # << >>
        /\ copier[e] = "writing" /\ ~gone[o]
        /\ UNCHANGED <<sent, fin, gone, aborted, arrived, copier, closed, reset, received>>
    BY DEF Write, TypeOK
  <1>2. /\ Held(e)' = Held(e) - 1 /\ Held(e) >= 1
        /\ \A i \in 1 .. Held(e) - 1 : chunk'[e][i] = chunk[e][i + 1]
        /\ Head(chunk[e]) \in Bytes /\ Head(chunk[e]) = chunk[e][1]
    BY <1>0, <1>1, Popped DEF Held
  <1>3. /\ Sending(o)' = Sending(o) + 1
        /\ \A i \in 1 .. Sending(o) : net'[o][i] = net[o][i]
        /\ net'[o][Sending(o) + 1] = chunk[e][1]
    BY <1>0, <1>1, <1>2, Pushed DEF Sending
  <1>4. /\ Passed(e)' = Passed(e) /\ Got(e)' = Got(e) /\ Sending(e)' = Sending(e)
        /\ Held(o)' = Held(o) /\ Waiting(o)' = Waiting(o) /\ Waiting(e)' = Waiting(e)
        /\ Got(o)' = Got(o)
    BY <1>1 DEF Passed, Got, Sending, Held, Waiting
  <1>5. Passed(o)' = Passed(o) + 1 /\ Passed(o) = Got(o) + Sending(o)
    BY <1>0, <1>3, <1>4 DEF Passed
  <1>6. /\ \A i \in 1 .. Held(e) : chunk[e][i] = Passed(o) + i
        /\ \A i \in 1 .. Waiting(e) : arrived[e][i] = Passed(o) + Held(e) + i
        /\ Passed(o) + Held(e) + Waiting(e) <= sent[e]
        /\ ~closed[e] /\ ~aborted[e] => Passed(o) + Held(e) + Waiting(e) = sent[e]
    BY <1>1 DEF PairInv, InInv
  <1>7. CopierInv(e, o)' /\ CopierInv(o, e)'
    BY <1>1 DEF PairInv, CopierInv
  <1>8. OutInv(e, o)' /\ InInv(o, e)' /\ EofInv(e, o)'
    BY <1>1, <1>4 DEF PairInv, OutInv, InInv, EofInv
  <1>9. OutInv(o, e)'
    <2>1. chunk[e][1] = Got(o) + (Sending(o) + 1)
      BY <1>0, <1>2, <1>5, <1>6
    <2>2. \A i \in 1 .. Sending(o) : net[o][i] = Got(o) + i
      BY DEF PairInv, OutInv
    <2>3. ASSUME NEW i \in 1 .. Sending(o)'
          PROVE  net'[o][i] = Got(o) + i
      <3>1. CASE i \in 1 .. Sending(o)
        BY <1>3, <2>2, <3>1
      <3>2. CASE i = Sending(o) + 1
        BY <1>0, <1>3, <2>1, <3>2
      <3>3. QED
        BY <1>0, <1>3, <3>1, <3>2
    <2>4. Passed(o)' <= sent[e]
      BY <1>0, <1>2, <1>5, <1>6
    <2>5. \A i \in 1 .. Got(o) : received[o][i] = i
      BY DEF PairInv, OutInv
    <2>6. QED
      BY <1>1, <1>4, <2>3, <2>4, <2>5 DEF OutInv
  <1>10. InInv(e, o)'
    <2>1. Passed(o)' + Held(e)' = Passed(o) + Held(e)
      BY <1>0, <1>2, <1>5
    <2>2. ASSUME NEW i \in 1 .. Held(e)'
          PROVE  chunk'[e][i] = Passed(o)' + i
      <3>1. i + 1 \in 1 .. Held(e) /\ i \in 1 .. Held(e) - 1
        BY <1>0, <1>2
      <3>2. chunk'[e][i] = Passed(o) + (i + 1)
        BY <1>2, <1>6, <3>1
      <3>3. QED
        BY <1>0, <1>5, <3>2
    <2>3. QED
      BY <1>1, <1>4, <1>6, <2>1, <2>2 DEF InInv
  <1>11. EofInv(o, e)'
    BY <1>1, <1>4 DEF PairInv, EofInv, CopierInv
  <1>12. QED
    BY <1>7, <1>8, <1>9, <1>10, <1>11 DEF PairInv

LEMMA WrittenStep ==
  ASSUME TypeOK, NEW e \in Ends, NEW o \in Ends, o # e,
         PairInv(e, o), PairInv(o, e), Written(e)
  PROVE  PairInv(e, o)' /\ PairInv(o, e)'
  <1>1. /\ copier[e] = "writing" /\ copier'[e] = "reading" /\ copier'[o] = copier[o]
        /\ chunk[e] = << >>
        /\ UNCHANGED <<sent, fin, gone, aborted, arrived, chunk, closed, reset, net, received>>
    BY DEF Written, TypeOK
  <1>2. CopierInv(e, o)' /\ CopierInv(o, e)'
    BY <1>1 DEF PairInv, CopierInv
  <1>3. OutInv(e, o)' /\ OutInv(o, e)' /\ InInv(e, o)' /\ InInv(o, e)'
    BY <1>1 DEF PairInv, OutInv, InInv, Passed, Got, Sending, Held, Waiting
  <1>4. EofInv(e, o)' /\ EofInv(o, e)'
    BY <1>1 DEF PairInv, EofInv, Passed, Got, Sending
  <1>5. QED
    BY <1>2, <1>3, <1>4 DEF PairInv

\* CloseConn(o), by the copier of e.
LEMMA Closing ==
  ASSUME TypeOK, NEW e \in Ends, NEW o \in Ends, o # e, CloseConn(o), OutInv(o, e),
         UNCHANGED <<sent, received>>
  PROVE  /\ closed'[o] /\ closed'[e] = closed[e] /\ reset'[e] = reset[e] /\ net'[e] = net[e]
         /\ reset'[o] \/ (reset'[o] = reset[o] /\ net'[o] = net[o])
         /\ OutInv(o, e)' /\ (net[o] = << >> => net'[o] = << >>)
  <1>1. /\ closed'[o] /\ closed'[e] = closed[e] /\ reset'[e] = reset[e] /\ net'[e] = net[e]
        /\ reset'[o] \/ (reset'[o] = reset[o] /\ net'[o] = net[o])
        /\ net'[o] = net[o] \/ \E n \in 0 .. Sending(o) : net'[o] = First(net[o], n)
    BY DEF CloseConn, TypeOK, Sending
  <1>2. sent[e] <= sent'[e] /\ sent'[e] \in Nat /\ received'[o] = received[o]
    BY Lengths
  <1>3. OutInv(o, e)' /\ (net[o] = << >> => net'[o] = << >>)
    <2>1. CASE net'[o] = net[o]
      BY <2>1 DEF OutInv, Passed, Got, Sending
    <2>2. CASE \E n \in 0 .. Sending(o) : net'[o] = First(net[o], n)
      BY <1>2, <2>2, NetCut
    <2>3. QED
      BY <1>1, <2>1, <2>2
  <1>4. QED
    BY <1>1, <1>3

LEMMA ReadEndsStep ==
  ASSUME TypeOK, NEW e \in Ends, NEW o \in Ends, o # e, o = Other(e),
         PairInv(e, o), PairInv(o, e), ReadEnds(e)
  PROVE  PairInv(e, o)' /\ PairInv(o, e)'
  <1>1. /\ copier[e] = "reading" /\ AtEnd(e) /\ CloseConn(o)
        /\ copier'[e] = "done" /\ copier'[o] = copier[o]
        /\ UNCHANGED <<sent, fin, gone, aborted, arrived, chunk, received>>
    BY DEF ReadEnds, TypeOK
  <1>2. /\ closed'[o] /\ closed'[e] = closed[e] /\ reset'[e] = reset[e] /\ net'[e] = net[e]
        /\ reset'[o] \/ (reset'[o] = reset[o] /\ net'[o] = net[o])
        /\ OutInv(o, e)' /\ (net[o] = << >> => net'[o] = << >>)
    BY <1>1, Closing DEF PairInv
  <1>3. ~closed[o] /\ chunk[e] = << >>
    BY <1>1 DEF PairInv, CopierInv
  <1>4. CopierInv(e, o)' /\ CopierInv(o, e)'
    BY <1>1, <1>2, <1>3 DEF PairInv, CopierInv, AtEnd
  <1>5. OutInv(e, o)' /\ InInv(e, o)' /\ EofInv(e, o)'
    <2>1. Passed(e)' = Passed(e) /\ Got(e)' = Got(e) /\ Sending(e)' = Sending(e)
      BY <1>1, <1>2 DEF Passed, Got, Sending
    <2>2. OutInv(e, o)'
      BY <1>1, <1>2, <2>1 DEF PairInv, OutInv
    <2>3. InInv(e, o)'
      BY <1>1 DEF InInv
    <2>4. EofInv(e, o)'
      BY <1>1, <1>2, <2>1 DEF PairInv, EofInv
    <2>5. QED
      BY <2>2, <2>3, <2>4
  <1>6. InInv(o, e)'
    <2>1. Passed(e)' = Passed(e) /\ Held(o)' = Held(o) /\ Waiting(o)' = Waiting(o)
      BY <1>1, <1>2 DEF Passed, Got, Sending, Held, Waiting
    <2>2. QED
      BY <1>1, <1>2, <1>3, <2>1 DEF PairInv, InInv
  <1>7. EofInv(o, e)'
    <2>1. SUFFICES ASSUME ~reset'[o], ~fin[o], ~aborted[e]
          PROVE  fin[e] /\ Passed(o)' = sent[e]
      BY <1>1, <1>2 DEF EofInv
    <2>2. Passed(o)' = Passed(o)
      BY <1>1, <1>2, <2>1 DEF Passed, Got, Sending
    <2>3. ~closed[e] /\ ~gone[o] /\ fin[e] /\ arrived[e] = << >>
      BY <1>1, <1>3, <2>1 DEF PairInv, CopierInv, AtEnd
    <2>4. Held(e) = 0 /\ Waiting(e) = 0 /\ Passed(o) \in Nat
      BY <1>3, <2>3, Lengths DEF Held, Waiting
    <2>5. Passed(o) + Held(e) + Waiting(e) = sent[e]
      BY <1>1, <2>1, <2>3 DEF PairInv, InInv
    <2>6. QED
      BY <2>2, <2>3, <2>4, <2>5
  <1>8. QED
    BY <1>2, <1>4, <1>5, <1>6, <1>7 DEF PairInv

LEMMA WriteErrStep ==
  ASSUME TypeOK, NEW e \in Ends, NEW o \in Ends, o # e, o = Other(e),
         PairInv(e, o), PairInv(o, e), WriteErr(e)
  PROVE  PairInv(e, o)' /\ PairInv(o, e)'
  <1>1. /\ copier[e] = "writing" /\ gone[o] /\ CloseConn(o)
        /\ copier'[e] = "done" /\ copier'[o] = copier[o]
        /\ chunk'[e] = << >> /\ chunk'[o] = chunk[o]
        /\ aborted'[o] /\ aborted'[e] = aborted[e] /\ arrived'[e] = arrived[e]
        /\ \E n \in 0 .. Waiting(o) : arrived'[o] = First(arrived[o], n)
        /\ UNCHANGED <<sent, fin, gone, received>>
    BY DEF WriteErr, TypeOK, Abort, Waiting
  <1>2. /\ closed'[o] /\ closed'[e] = closed[e] /\ reset'[e] = reset[e] /\ net'[e] = net[e]
        /\ OutInv(o, e)' /\ (net[o] = << >> => net'[o] = << >>)
    BY <1>1, Closing DEF PairInv
  <1>3. fin[o]
    BY <1>1 DEF PairInv, CopierInv
  <1>4. CopierInv(e, o)' /\ CopierInv(o, e)'
    BY <1>1, <1>2, <1>3 DEF PairInv, CopierInv
  <1>5. OutInv(e, o)' /\ InInv(e, o)' /\ EofInv(e, o)'
    <2>1. Passed(e)' = Passed(e) /\ Got(e)' = Got(e) /\ Sending(e)' = Sending(e)
      BY <1>1, <1>2 DEF Passed, Got, Sending
    <2>2. OutInv(e, o)'
      BY <1>1, <1>2, <2>1 DEF PairInv, OutInv
    <2>3. InInv(e, o)'
      BY <1>1 DEF InInv
    <2>4. EofInv(e, o)'
      BY <1>1, <1>2, <2>1 DEF PairInv, EofInv, CopierInv
    <2>5. QED
      BY <2>2, <2>3, <2>4
  <1>6. InInv(o, e)'
    BY <1>1, <1>2, ArrivedCut DEF PairInv
  <1>7. EofInv(o, e)'
    BY <1>1, <1>3 DEF EofInv
  <1>8. QED
    BY <1>2, <1>4, <1>5, <1>6, <1>7 DEF PairInv

LEMMA CopyStep == CopyInv /\ [Next]_vars => CopyInv'
  <1> SUFFICES ASSUME CopyInv, [Next]_vars PROVE CopyInv'
    OBVIOUS
  <1>1. TypeOK /\ TypeOK'
    BY TypeStep DEF CopyInv
  <1>2. ASSUME NEW e \in Ends, End(e) \/ Copier(e)
        PROVE  PairInv(e, Other(e))' /\ PairInv(Other(e), e)'
    <2>1. /\ Other(e) \in Ends /\ Other(e) # e
          /\ PairInv(e, Other(e)) /\ PairInv(Other(e), e)
      BY OtherEnd DEF CopyInv
    <2>2. CASE End(e)
      BY <1>1, <2>1, <2>2, SendStep, SendToClosedStep, ReceiveStep, CloseWriteStep, LeaveStep
      DEF End
    <2>3. CASE Copier(e)
      BY <1>1, <2>1, <2>3, ReadStep, WriteStep, WrittenStep, ReadEndsStep, WriteErrStep
      DEF Copier
    <2>4. QED
      BY <1>2, <2>2, <2>3
  <1>3. CASE \E e \in Ends : End(e) \/ Copier(e)
    <2>1. PICK e \in Ends : End(e) \/ Copier(e)
      BY <1>3
    <2>2. PairInv(e, Other(e))' /\ PairInv(Other(e), e)'
      BY <1>2, <2>1
    <2>3. ASSUME NEW d \in Ends PROVE PairInv(d, Other(d))'
      BY <2>2, OtherEnd
    <2>4. QED
      BY <1>1, <2>3 DEF CopyInv
  <1>4. CASE Return \/ UNCHANGED vars
    <2>1. UNCHANGED <<sent, fin, gone, aborted, arrived, chunk, copier, closed, reset, net, received>>
      BY <1>4 DEF Return, vars
    <2>2. ASSUME NEW d \in Ends, NEW o, PairInv(d, o) PROVE PairInv(d, o)'
      BY <2>1, <2>2 DEF PairInv, CopierInv, OutInv, InInv, EofInv, Passed, Got, Sending, Held, Waiting
    <2>3. QED
      BY <1>1, <2>2 DEF CopyInv
  <1>5. QED
    BY <1>3, <1>4 DEF Next

\* EofIsTrue: what the proxy passes on as an orderly end of the stream is one.
THEOREM TrueEof == Spec => []EofIsTrue
  <1>1. CopyInv => EofIsTrue
    <2> SUFFICES ASSUME CopyInv, NEW e \in Ends, closed[e], net[e] = << >>, ~reset[e],
                        ~fin[e], ~aborted[Other(e)]
                 PROVE  Len(received[e]) = sent[Other(e)]
      BY DEF EofIsTrue
    <2>1. Passed(e) = sent[Other(e)] /\ Got(e) \in Nat
      BY Lengths DEF CopyInv, PairInv, EofInv
    <2>2. Sending(e) = 0
      BY DEF Sending
    <2>3. QED
      BY <2>1, <2>2 DEF Passed, Got
  <1>2. QED
    BY <1>1, CopyInit, CopyStep, PTL DEF Spec

-----------------------------------------------------------------------------
(* The refinement                                                           *)

\* A step seen by the direction from e.
PipeStep(e, o) ==
    \/ ~fin[e] /\ sent'[e] = sent[e] + 1 /\ UNCHANGED <<received[o], fin[e]>>
    \/ /\ Len(received[o]) < sent[e]
       /\ received'[o] = Append(received[o], Len(received[o]) + 1)
       /\ UNCHANGED <<sent[e], fin[e]>>
    \/ ~fin[e] /\ fin'[e] = TRUE /\ UNCHANGED <<sent[e], received[o]>>
    \/ UNCHANGED <<sent[e], received[o], fin[e]>>

\* What an end takes is the next byte of the other.
LEMMA NextByte ==
  ASSUME TypeOK, NEW e \in Ends, NEW o \in Ends, PairInv(o, e), Receive(o)
  PROVE  /\ Len(received[o]) < sent[e]
         /\ received'[o] = Append(received[o], Len(received[o]) + 1)
  <1>1. /\ net[o] \in Seq(Bytes) /\ Sending(o) \in Nat /\ Got(o) \in Nat /\ sent[e] \in Nat
    BY Lengths
  <1>2. /\ net[o] # << >> /\ received'[o] = Append(received[o], Head(net[o]))
    BY DEF Receive, TypeOK
  <1>3. Sending(o) \in Nat \ {0} /\ Head(net[o]) = net[o][1]
    BY <1>1, <1>2, Popped DEF Sending
  <1>4. net[o][1] = Got(o) + 1
    BY <1>3 DEF PairInv, OutInv
  <1>5. Got(o) + Sending(o) <= sent[e]
    BY DEF PairInv, OutInv, Passed
  <1>6. Got(o) < sent[e]
    BY <1>1, <1>3, <1>5
  <1>7. QED
    BY <1>2, <1>3, <1>4, <1>6 DEF Got

LEMMA EveryStepIsAPipes ==
  ASSUME CopyInv, [Next]_vars, NEW e \in Ends
  PROVE  PipeStep(e, Other(e))
  <1> DEFINE o == Other(e)
  <1>0. TypeOK /\ o \in Ends /\ o # e /\ PairInv(o, e)
    BY OtherEnd DEF CopyInv
  <1>1. ASSUME NEW d \in Ends, End(d)
        PROVE  PipeStep(e, o)
    <2>1. d = e \/ d = o
      BY OtherEnd
    <2>2. CASE Send(d) \/ SendToClosed(d)
      BY <1>0, <2>1, <2>2 DEF Send, SendToClosed, TypeOK, PipeStep
    <2>3. CASE Receive(d)
      <3>1. CASE d = e
        BY <1>0, <2>3, <3>1 DEF Receive, TypeOK, PipeStep
      <3>2. CASE d = o
        BY <1>0, <2>3, <3>2, NextByte DEF Receive, PipeStep
      <3>3. QED
        BY <2>1, <3>1, <3>2
    <2>4. CASE CloseWrite(d) \/ Leave(d)
      BY <1>0, <2>1, <2>4 DEF CloseWrite, Leave, TypeOK, PipeStep
    <2>5. QED
      BY <1>1, <2>2, <2>3, <2>4 DEF End
  <1>2. ASSUME NEW d \in Ends, Copier(d)
        PROVE  PipeStep(e, o)
    BY <1>2 DEF Copier, Read, Write, Written, ReadEnds, WriteErr, PipeStep
  <1>3. CASE Return \/ UNCHANGED vars
    BY <1>3 DEF Return, vars, PipeStep
  <1>4. QED
    BY <1>1, <1>2, <1>3 DEF Next

\* ImplementsPipes: each direction delivers a prefix of what was sent into it.
THEOREM Refinement == Spec => ImplementsPipes
  <1>1. Init => FromClient!Init /\ FromApp!Init
    BY DEF Init, FromClient!Init, FromApp!Init, Ends
  <1>2. ASSUME CopyInv, [Next]_vars
        PROVE  [FromClient!Next]_(FromClient!vars) /\ [FromApp!Next]_(FromApp!vars)
    <2>1. PipeStep("client", "app") /\ PipeStep("app", "client")
      BY <1>2, EveryStepIsAPipes DEF Ends, Other
    <2>2. [FromClient!Next]_(FromClient!vars)
      BY <2>1 DEF PipeStep, FromClient!Next, FromClient!vars, FromClient!Send,
                  FromClient!Deliver, FromClient!End
    <2>3. [FromApp!Next]_(FromApp!vars)
      BY <2>1 DEF PipeStep, FromApp!Next, FromApp!vars, FromApp!Send,
                  FromApp!Deliver, FromApp!End
    <2>4. QED
      BY <2>2, <2>3
  <1>3. QED
    BY <1>1, <1>2, CopyInit, CopyStep, PTL
    DEF Spec, ImplementsPipes, FromClient!Spec, FromApp!Spec

=============================================================================
