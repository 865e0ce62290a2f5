--------------------------- MODULE AsyncWriterProofs ---------------------------
(***************************************************************************)
(* Proofs about AsyncWriter, for any number of goroutines and any sizes:    *)
(* the types, the refinement of LossyLog and the order of the records.      *)
(***************************************************************************)
EXTENDS AsyncWriter, SequenceTheorems, TLAPS

(* Facts about the three pieces a record passes through.                    *)

LEMMA Pieces ==
  ASSUME NEW S, NEW a \in Seq(S), NEW b \in Seq(S), NEW c \in Seq(S)
  PROVE  /\ a \o (b \o c) \in Seq(S)
         /\ Len(a \o (b \o c)) = Len(a) + Len(b) + Len(c)
         /\ (a \o b) \o c = a \o (b \o c)
  <1>1. b \o c \in Seq(S) /\ Len(b \o c) = Len(b) + Len(c)
    BY ConcatProperties
  <1>2. a \o (b \o c) \in Seq(S) /\ Len(a \o (b \o c)) = Len(a) + Len(b \o c)
    BY <1>1, ConcatProperties
  <1>3. QED
    BY <1>1, <1>2, ConcatAssociative, LenProperties

LEMMA AppendLast ==
  ASSUME NEW S, NEW a \in Seq(S), NEW b \in Seq(S), NEW c \in Seq(S), NEW e \in S
  PROVE  a \o (b \o Append(c, e)) = Append(a \o (b \o c), e)
  <1>1. <<e>> \in Seq(S)
    OBVIOUS
  <1>2. Append(c, e) = c \o <<e>>
    BY AppendIsConcat
  <1>3. b \o (c \o <<e>>) = (b \o c) \o <<e>>
    BY <1>1, ConcatAssociative
  <1>4. b \o c \in Seq(S) /\ a \o (b \o c) \in Seq(S)
    BY ConcatProperties
  <1>5. a \o ((b \o c) \o <<e>>) = (a \o (b \o c)) \o <<e>>
    BY <1>1, <1>4, ConcatAssociative
  <1>6. Append(a \o (b \o c), e) = (a \o (b \o c)) \o <<e>>
    BY <1>4, AppendIsConcat
  <1>7. QED
    BY <1>2, <1>3, <1>5, <1>6

LEMMA MoveHead ==
  ASSUME NEW S, NEW b \in Seq(S), NEW c \in Seq(S), c # << >>
  PROVE  /\ Append(b, Head(c)) \o Tail(c) = b \o c
         /\ <<Head(c)>> \o Tail(c) = c
  <1>1. Head(c) \in S /\ Tail(c) \in Seq(S) /\ <<Head(c)>> \in Seq(S)
    BY HeadTailProperties
  <1>2. Append(b, Head(c)) = b \o <<Head(c)>>
    BY <1>1, AppendIsConcat
  <1>3. <<Head(c)>> \o Tail(c) = c
    OBVIOUS
  <1>4. (b \o <<Head(c)>>) \o Tail(c) = b \o (<<Head(c)>> \o Tail(c))
    BY <1>1, ConcatAssociative
  <1>5. QED
    BY <1>2, <1>3, <1>4

LEMMA PrefixOfPieces ==
  ASSUME NEW S, NEW a \in Seq(S), NEW b \in Seq(S), NEW c \in Seq(S),
         NEW n \in 0 .. Len(b)
  PROVE  /\ a \o SubSeq(b, 1, n) = SubSeq(a \o (b \o c), 1, Len(a) + n)
         /\ Len(a) + n \in Len(a) .. Len(a \o (b \o c))
  <1> DEFINE whole == a \o (b \o c)
             front == a \o SubSeq(b, 1, n)
             sub == SubSeq(whole, 1, Len(a) + n)
  <1>0. Len(a) \in Nat /\ Len(b) \in Nat /\ Len(c) \in Nat
    BY LenProperties
  <1>1. /\ b \o c \in Seq(S) /\ Len(b \o c) = Len(b) + Len(c)
        /\ \A i \in 1 .. Len(b) : (b \o c)[i] = b[i]
    BY <1>0, ConcatProperties
  <1>2. /\ whole \in Seq(S) /\ Len(whole) = Len(a) + Len(b) + Len(c)
        /\ \A i \in 1 .. Len(a) : whole[i] = a[i]
        /\ \A i \in Len(a) + 1 .. Len(a) + Len(b) + Len(c) : whole[i] = (b \o c)[i - Len(a)]
    BY <1>0, <1>1, ConcatProperties
  <1>3. /\ SubSeq(b, 1, n) \in Seq(S) /\ Len(SubSeq(b, 1, n)) = n
        /\ \A i \in 1 .. n : SubSeq(b, 1, n)[i] = b[i]
    <2>1. \A i \in 1 .. n : b[i] \in S
      BY <1>0, ElementOfSeq
    <2>2. QED
      BY <1>0, <2>1, SubSeqProperties
  <1>4. /\ front \in Seq(S) /\ Len(front) = Len(a) + n
        /\ \A i \in 1 .. Len(a) : front[i] = a[i]
        /\ \A i \in Len(a) + 1 .. Len(a) + n : front[i] = b[i - Len(a)]
    BY <1>0, <1>3, ConcatProperties
  <1>5. /\ sub \in Seq(S) /\ Len(sub) = Len(a) + n
        /\ \A i \in 1 .. Len(a) + n : sub[i] = whole[i]
    <2>1. \A i \in 1 .. Len(a) + n : whole[i] \in S
      BY <1>0, <1>2, ElementOfSeq
    <2>2. QED
      BY <1>0, <2>1, SubSeqProperties
  <1>6. \A i \in 1 .. Len(a) + n : front[i] = sub[i]
    BY <1>0, <1>1, <1>2, <1>4, <1>5
  <1>7. front = sub
    BY <1>4, <1>5, <1>6, SeqEqual
  <1>8. QED
    BY <1>0, <1>2, <1>7

-----------------------------------------------------------------------------

\* The outcomes of Flush and of a spill keep the types of the output and of the
\* bufio.Writer.
LEMMA FlushTypes ==
  ASSUME TypeOK, Flush
  PROVE  /\ out' \in Seq(Records) /\ bw' \in Seq(Records)
         /\ Len(bw') <= BufSize /\ err' \in BOOLEAN
  <1>1. CASE err /\ UNCHANGED <<bw, out, err>>
    BY <1>1 DEF TypeOK
  <1>2. CASE out' = out \o bw /\ bw' = << >> /\ err' = FALSE
    <2>1. out' \in Seq(Records)
      BY <1>2, ConcatProperties DEF TypeOK
    <2>2. bw' \in Seq(Records) /\ Len(bw') <= BufSize
      BY <1>2, SizesAssumption
    <2>3. QED
      BY <1>2, <2>1, <2>2
  <1>3. ASSUME NEW n \in 0 .. Len(bw), n < Len(bw), out' = out \o SubSeq(bw, 1, n),
               err' = TRUE, bw' = bw
        PROVE  out' \in Seq(Records) /\ bw' \in Seq(Records)
               /\ Len(bw') <= BufSize /\ err' \in BOOLEAN
    <2>1. SubSeq(bw, 1, n) \in Seq(Records)
      BY LenProperties, ElementOfSeq, SubSeqProperties DEF TypeOK
    <2>2. out' \in Seq(Records)
      BY <1>3, <2>1, ConcatProperties DEF TypeOK
    <2>3. QED
      BY <1>3, <2>2 DEF TypeOK
  <1>4. QED
    BY <1>1, <1>2, <1>3 DEF Flush

\* A spill is a flush after which the bufio.Writer takes the record.
LEMMA SpillTypes ==
  ASSUME TypeOK, ReceiveAndSpill
  PROVE  /\ out' \in Seq(Records) /\ bw' \in Seq(Records)
         /\ Len(bw') <= BufSize /\ err' \in BOOLEAN
         /\ buffer' \in Seq(Records) /\ Len(buffer') <= QueueSize
  <1>0. /\ Head(buffer) \in Records /\ Tail(buffer) \in Seq(Records)
        /\ Len(Tail(buffer)) = Len(buffer) - 1 /\ buffer' = Tail(buffer)
        /\ Len(buffer) \in Nat
    BY HeadTailProperties, LenProperties DEF TypeOK, ReceiveAndSpill
  <1>b. buffer' \in Seq(Records) /\ Len(buffer') <= QueueSize
    BY <1>0, SizesAssumption DEF TypeOK
  <1>1. CASE out' = out \o bw /\ bw' = <<Head(buffer)>> /\ err' = FALSE
    <2>1. out' \in Seq(Records)
      BY <1>1, ConcatProperties DEF TypeOK
    <2>2. bw' \in Seq(Records) /\ Len(bw') <= BufSize
      BY <1>0, <1>1, SizesAssumption
    <2>3. QED
      BY <1>b, <1>1, <2>1, <2>2
  <1>2. ASSUME NEW n \in 0 .. Len(bw), n < Len(bw), out' = out \o SubSeq(bw, 1, n),
               err' = TRUE, bw' = bw
        PROVE  out' \in Seq(Records) /\ bw' \in Seq(Records)
               /\ Len(bw') <= BufSize /\ err' \in BOOLEAN
    <2>1. SubSeq(bw, 1, n) \in Seq(Records)
      BY LenProperties, ElementOfSeq, SubSeqProperties DEF TypeOK
    <2>2. out' \in Seq(Records)
      BY <1>2, <2>1, ConcatProperties DEF TypeOK
    <2>3. QED
      BY <1>2, <2>2 DEF TypeOK
  <1>3. QED
    BY <1>b, <1>1, <1>2 DEF ReceiveAndSpill

\* Every variable keeps its type: the channel and the bufio.Writer stay within
\* their capacities.
THEOREM TypeCorrect == Spec => []TypeOK
  <1> USE SizesAssumption
  <1>1. Init => TypeOK
    <2> SUFFICES ASSUME Init
                 PROVE  TypeOK
      OBVIOUS
    <2>1. << >> \in Seq(Records) /\ Len(<< >>) = 0
      BY EmptySeq
    <2>2. count \in [Writers -> 0 .. MaxWrites]
      BY DEF Init
    <2>3. 0 <= QueueSize /\ 0 <= BufSize
      OBVIOUS
    <2>4. QED
      BY <2>1, <2>2, <2>3, Zenon DEF Init, TypeOK
  <1>2. TypeOK /\ [Next]_vars => TypeOK'
    <2> SUFFICES ASSUME TypeOK, [Next]_vars
                 PROVE  TypeOK'
      OBVIOUS
    <2>0. Len(buffer) \in Nat /\ Len(bw) \in Nat
      BY LenProperties DEF TypeOK
    <2>1. ASSUME NEW w \in Writers, Accept(w)
          PROVE  TypeOK'
      <3>1. <<w, count[w]>> \in Records /\ count' \in [Writers -> 0 .. MaxWrites]
        BY <2>1 DEF Accept, Writes, TypeOK, Records
      <3>2. buffer' \in Seq(Records) /\ Len(buffer') = Len(buffer) + 1
        BY <2>1, <3>1, AppendProperties DEF Accept, TypeOK
      <3>3. Len(buffer') <= QueueSize
        BY <2>0, <2>1, <3>2 DEF Accept
      <3>4. QED
        BY <2>1, <3>1, <3>2, <3>3 DEF Accept, TypeOK
    <2>2. ASSUME NEW w \in Writers, Drop(w) \/ SendOnClosed(w)
          PROVE  TypeOK'
      BY <2>2 DEF Drop, SendOnClosed, Writes, TypeOK
    <2>3. CASE Receive
      <3>1. /\ Head(buffer) \in Records /\ Tail(buffer) \in Seq(Records)
            /\ Len(Tail(buffer)) = Len(buffer) - 1
        BY <2>3, HeadTailProperties DEF Receive, TypeOK
      <3>2. bw' \in Seq(Records) /\ Len(bw') <= BufSize
        <4>1. /\ Append(bw, Head(buffer)) \in Seq(Records)
              /\ Len(Append(bw, Head(buffer))) = Len(bw) + 1
          BY <3>1, AppendProperties DEF TypeOK
        <4>2. QED
          BY <2>0, <2>3, <4>1 DEF Receive, TypeOK
      <3>3. buffer' \in Seq(Records) /\ Len(buffer') <= QueueSize
        BY <2>0, <2>3, <3>1 DEF Receive, TypeOK
      <3>4. QED
        BY <2>3, <3>2, <3>3 DEF Receive, TypeOK
    <2>4. CASE ReceiveAndSpill
      <3>1. UNCHANGED <<count, closed, tick, worker, process>>
        BY <2>4 DEF ReceiveAndSpill
      <3>2. QED
        BY <2>4, <3>1, SpillTypes DEF TypeOK
    <2>5. CASE Finish
      BY <2>5, FlushTypes DEF Finish, TypeOK
    <2>6. CASE FlushTick
      BY <2>6, FlushTypes DEF FlushTick, TypeOK
    <2>7. CASE Ticker \/ Close \/ Exit \/ Return \/ UNCHANGED vars
      BY <2>7 DEF Ticker, Close, Exit, Return, vars, TypeOK
    <2>8. QED
      BY <2>1, <2>2, <2>3, <2>4, <2>5, <2>6, <2>7 DEF Next, Worker
  <1>3. QED
    BY <1>1, <1>2, PTL DEF Spec

-----------------------------------------------------------------------------
(* The refinement.                                                          *)

\* A flush, of a worker that leaves the channel alone, hands the front of the
\* accepted records to the device or breaks it; with an empty channel nothing
\* accepted is left.
LEMMA FlushStep ==
  ASSUME TypeOK, Flush, buffer' = buffer
  PROVE  /\ Log!Take \/ Log!Break
         /\ buffer = << >> => out' = Accepted'
  <1> USE DEF TypeOK
  <1>0. Len(out) \in Nat /\ Len(bw) \in Nat /\ Len(buffer) \in Nat
    BY LenProperties
  <1>1. CASE err /\ UNCHANGED <<bw, out, err>>
    <2>1. Accepted = out /\ Accepted' = out /\ out' = out /\ err' = err
      BY <1>1 DEF Accepted
    <2>2. out' = SubSeq(Accepted, 1, Len(out))
      BY <2>1, SubSeqFull
    <2>3. Len(out) \in Len(out) .. Len(Accepted)
      BY <1>0, <2>1
    <2>4. QED
      BY <2>1, <2>2, <2>3 DEF Log!Take
  <1>2. CASE ~err /\ out' = out \o bw /\ bw' = << >> /\ err' = FALSE
    <2>1. Accepted = out \o (bw \o buffer)
      BY <1>2 DEF Accepted
    <2>2. << >> \o buffer = buffer
      BY ConcatEmptySeq
    <2>3. Accepted' = (out \o bw) \o (<< >> \o buffer)
      BY <1>2 DEF Accepted
    <2>4. Accepted' = Accepted
      BY <2>1, <2>2, <2>3, ConcatAssociative
    <2>5. out' = SubSeq(Accepted, 1, Len(out) + Len(bw))
          /\ Len(out) + Len(bw) \in Len(out) .. Len(Accepted)
      <3>1. Len(bw) \in 0 .. Len(bw) /\ SubSeq(bw, 1, Len(bw)) = bw
        BY <1>0, SubSeqFull
      <3>2. QED
        BY <1>2, <2>1, <3>1, PrefixOfPieces
    <2>6. Log!Take
      BY <1>2, <2>4, <2>5 DEF Log!Take
    <2>7. ASSUME buffer = << >> PROVE out' = Accepted'
      <3>1. out \o bw \in Seq(Records)
        BY ConcatProperties
      <3>2. (out \o bw) \o << >> = out \o bw
        BY <3>1, ConcatEmptySeq
      <3>3. QED
        BY <1>2, <2>2, <2>3, <2>7, <3>2
    <2>8. QED
      BY <2>6, <2>7
  <1>3. ASSUME ~err, NEW n \in 0 .. Len(bw), n < Len(bw),
               out' = out \o SubSeq(bw, 1, n), err' = TRUE
        PROVE  Log!Break /\ out' = Accepted'
    <2>1. Accepted = out \o (bw \o buffer) /\ Accepted' = out'
      BY <1>3 DEF Accepted
    <2>2. out' = SubSeq(Accepted, 1, Len(out) + n)
          /\ Len(out) + n \in Len(out) .. Len(Accepted)
      BY <1>3, <2>1, PrefixOfPieces
    <2>3. QED
      BY <1>3, <2>1, <2>2 DEF Log!Break
  <1>4. QED
    BY <1>1, <1>2, <1>3 DEF Flush

LEMMA SpillStep ==
  ASSUME TypeOK, ReceiveAndSpill
  PROVE  Log!Take \/ Log!Break
  <1> USE DEF TypeOK
  <1>0. /\ Len(out) \in Nat /\ Len(bw) \in Nat
        /\ Head(buffer) \in Records /\ Tail(buffer) \in Seq(Records)
        /\ buffer # << >> /\ ~err /\ buffer' = Tail(buffer)
    BY LenProperties, HeadTailProperties DEF ReceiveAndSpill
  <1>1. Accepted = out \o (bw \o buffer)
    BY <1>0 DEF Accepted
  <1>2. CASE out' = out \o bw /\ bw' = <<Head(buffer)>> /\ err' = FALSE
    <2>1. Accepted' = (out \o bw) \o (<<Head(buffer)>> \o Tail(buffer))
      BY <1>0, <1>2 DEF Accepted
    <2>2. Accepted' = Accepted
      <3>1. <<Head(buffer)>> \o Tail(buffer) = buffer
        BY <1>0, HeadTailProperties
      <3>2. out \in Seq(Records) /\ bw \in Seq(Records) /\ buffer \in Seq(Records)
        OBVIOUS
      <3>3. (out \o bw) \o buffer = out \o (bw \o buffer)
        BY <3>2, ConcatAssociative
      <3>4. QED
        BY <1>1, <2>1, <3>1, <3>3
    <2>3. Len(bw) \in 0 .. Len(bw) /\ SubSeq(bw, 1, Len(bw)) = bw
      BY <1>0, SubSeqFull
    <2>4. out' = SubSeq(Accepted, 1, Len(out) + Len(bw))
          /\ Len(out) + Len(bw) \in Len(out) .. Len(Accepted)
      BY <1>1, <1>2, <2>3, PrefixOfPieces
    <2>5. QED
      BY <1>0, <1>2, <2>2, <2>4 DEF Log!Take
  <1>3. ASSUME NEW n \in 0 .. Len(bw), n < Len(bw), out' = out \o SubSeq(bw, 1, n),
               err' = TRUE
        PROVE  Log!Break
    <2>1. Accepted' = out'
      BY <1>3 DEF Accepted
    <2>2. out' = SubSeq(Accepted, 1, Len(out) + n)
          /\ Len(out) + n \in Len(out) .. Len(Accepted)
      BY <1>1, <1>3, PrefixOfPieces
    <2>3. QED
      BY <1>0, <1>3, <2>1, <2>2 DEF Log!Break
  <1>4. QED
    BY <1>2, <1>3 DEF ReceiveAndSpill

\* Taking a record off the channel without a spill changes nothing for the log.
LEMMA ReceiveStep ==
  ASSUME TypeOK, Receive
  PROVE  Accepted' = Accepted
  <1>1. CASE err
    BY <1>1 DEF Receive, Accepted
  <1>2. CASE ~err
    <2>1. bw' = Append(bw, Head(buffer)) /\ buffer' = Tail(buffer) /\ out' = out /\ ~err'
          /\ buffer # << >>
      BY <1>2 DEF Receive
    <2>2. bw' \o buffer' = bw \o buffer
      BY <2>1, MoveHead DEF TypeOK
    <2>3. QED
      BY <1>2, <2>1, <2>2 DEF Accepted
  <1>3. QED
    BY <1>1, <1>2

\* A record that Write accepts is the last one of the log.
LEMMA AcceptStep ==
  ASSUME TypeOK, NEW w \in Writers, Accept(w)
  PROVE  /\ <<w, count[w]>> \in Records
         /\ Accepted' = IF err THEN Accepted ELSE Append(Accepted, <<w, count[w]>>)
  <1>1. <<w, count[w]>> \in Records
    BY DEF TypeOK, Records
  <1>2. buffer' = Append(buffer, <<w, count[w]>>) /\ UNCHANGED <<out, bw, err>>
    BY DEF Accept
  <1>3. out \o (bw \o Append(buffer, <<w, count[w]>>))
          = Append(out \o (bw \o buffer), <<w, count[w]>>)
    <2>1. out \in Seq(Records) /\ bw \in Seq(Records) /\ buffer \in Seq(Records)
      BY DEF TypeOK
    <2>2. \A e \in Records :
            out \o (bw \o Append(buffer, e)) = Append(out \o (bw \o buffer), e)
      BY <2>1, AppendLast
    <2>3. QED
      BY <1>1, <2>2
  <1>4. QED
    BY <1>1, <1>2, <1>3 DEF Accepted

LEMMA RefinementStep ==
  ASSUME TypeOK, [Next]_vars
  PROVE  [Log!Next]_Log!vars
  <1> USE DEF Log!Next, Log!vars
  <1>1. ASSUME NEW w \in Writers, Accept(w)
        PROVE  [Log!Next]_Log!vars
    <2>1. UNCHANGED <<out, closed, worker, err>> /\ ~closed
      BY <1>1 DEF Accept
    <2>2. CASE err
      BY <1>1, <2>1, <2>2, AcceptStep
    <2>3. CASE ~err
      BY <1>1, <2>1, <2>3, AcceptStep DEF Log!Accept
    <2>4. QED
      BY <2>2, <2>3
  <1>2. ASSUME NEW w \in Writers, Drop(w) \/ SendOnClosed(w)
        PROVE  [Log!Next]_Log!vars
    BY <1>2 DEF Drop, SendOnClosed, Accepted
  <1>3. CASE Receive
    <2>1. UNCHANGED <<out, closed, worker, err>>
      BY <1>3 DEF Receive
    <2>2. QED
      BY <1>3, <2>1, ReceiveStep
  <1>4. CASE ReceiveAndSpill
    <2>1. UNCHANGED <<closed, worker>>
      BY <1>4 DEF ReceiveAndSpill
    <2>2. QED
      BY <1>4, <2>1, SpillStep DEF Log!Persist, Log!Fail
  <1>5. CASE Finish
    <2>1. /\ closed /\ worker # "done" /\ worker' = "done" /\ closed' = closed
          /\ buffer = << >> /\ buffer' = buffer /\ Flush
      BY <1>5 DEF Finish, Working
    <2>2. (Log!Take \/ Log!Break) /\ out' = Accepted'
      BY <2>1, FlushStep
    <2>3. Log!Finish
      BY <2>1, <2>2 DEF Log!Finish
    <2>4. QED
      BY <2>3
  <1>6. CASE FlushTick
    <2>1. UNCHANGED <<closed, worker>> /\ buffer' = buffer /\ Flush
      BY <1>6 DEF FlushTick
    <2>2. QED
      BY <2>1, FlushStep DEF Log!Persist, Log!Fail
  <1>7. CASE Close
    BY <1>7 DEF Close, Log!Close, Accepted
  <1>8. CASE Ticker \/ Exit \/ Return \/ UNCHANGED vars
    BY <1>8 DEF Ticker, Exit, Return, vars, Accepted
  <1>9. QED
    BY <1>1, <1>2, <1>3, <1>4, <1>5, <1>6, <1>7, <1>8 DEF Next, Worker

\* The asynchronous writer implements the lossy log, for every number of
\* goroutines, capacity and interleaving: in particular, when Close has
\* returned everything accepted is in the output, unless the output failed.
THEOREM Refinement == Spec => ImplementsLossyLog
  <1>1. Init => Log!Init
    BY DEF Init, Log!Init, Accepted
  <1>2. TypeOK /\ [Next]_vars => [Log!Next]_Log!vars
    BY RefinementStep
  <1>3. QED
    BY <1>1, <1>2, TypeCorrect, PTL DEF Spec, ImplementsLossyLog, Log!Spec

=============================================================================
