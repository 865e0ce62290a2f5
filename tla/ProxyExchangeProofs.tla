-------------------------- MODULE ProxyExchangeProofs --------------------------
(***************************************************************************)
(* The safety of the connection handlers, for every number of connections,  *)
(* of messages and of certificates: the app hears of verified clients only, *)
(* and a handshake that a rotation overtakes uses one certificate.          *)
(***************************************************************************)
EXTENDS ProxyExchange, TLAPS, SequenceTheorems

Stages == {"accept", "hello", "connect", "sign", "tproxy", "dial", "read", "write",
           "reply", "answer", "copy", "done"}

\* The stages in which nothing has been forwarded, and of them those before the
\* key has been used.
Silent == {"accept", "hello", "connect", "sign", "tproxy", "dial", "read", "write"}
Keyless == {"accept", "hello", "connect", "sign"}

\* An object is never written to again once a pointer to it is out.
HeapInv == \A v \in Certs : heap[v] = [chain |-> v, key |-> v]

CertInv(c) ==
    /\ stage[c] \in Keyless => key[c] = 0
    /\ stage[c] \in {"connect", "sign"} => pointer[c] \in Certs
    /\ chain[c] = pointer[c]
    /\ key[c] # 0 => key[c] = chain[c]

ForwardInv(c) ==
    /\ stage[c] \in Silent => forwarded[c] = 0
    /\ stage[c] = "write" => sent[c] > 0
    /\ stage[c] = "answer" => reply[c] \in Replies
    /\ kind[c] \in TLSKinds /\ ~credential[c] =>
         stage[c] \in Keyless \cup {"done"} /\ forwarded[c] = 0

\* A reply is waited for behind a request, and only a failure ends the handler
\* without one; the way to the error of the TPROXY mode is closed to the others.
ServedInv(c) ==
    kind[c] # "tproxy" =>
        /\ stage[c] # "tproxy"
        /\ stage[c] \in {"reply", "answer"} => forwarded[c] > 0
        /\ stage[c] = "done" /\ ~refused[c] => forwarded[c] > 0 /\ received[c] # << >>

ExchangeInv ==
    /\ TypeOK
    /\ HeapInv
    /\ \A c \in Conns : CertInv(c) /\ ForwardInv(c)

\* The boolean a history variable is set to.
LEMMA SetTrue ==
  ASSUME NEW S, NEW f \in [S -> BOOLEAN], NEW x \in S
  PROVE  [f EXCEPT ![x] = TRUE] \in [S -> BOOLEAN]
  OBVIOUS

LEMMA InitExchange == Init => ExchangeInv
<1> SUFFICES ASSUME Init PROVE ExchangeInv
  OBVIOUS
<1>1. TypeOK
  <2>1. credential \in [Conns -> BOOLEAN] /\ refused \in [Conns -> BOOLEAN]
    BY Zenon DEF Init
  <2>2. heap \in [Certs -> [chain : Certs, key : Certs]] /\ current \in Certs
    BY KindsAssumption DEF Init, Certs
  <2>3. << >> \in Seq(Replies)
    OBVIOUS
  <2> QED
    BY <2>1, <2>2, <2>3, KindsAssumption DEF Init, TypeOK
<1>2. HeapInv
  BY DEF Init, HeapInv
<1>3. \A c \in Conns : CertInv(c)
  BY DEF Init, CertInv, Keyless
<1>4. \A c \in Conns : ForwardInv(c)
  BY DEF Init, ForwardInv, Silent, Keyless
<1> QED
  BY <1>1, <1>2, <1>3, <1>4 DEF ExchangeInv

\* A reply of the upstream is queued.
LEMMA AnswersTypes ==
  ASSUME TypeOK, NEW c \in Conns, NEW r \in Replies, Answers(c, r)
  PROVE  TypeOK'
<1>1. Append(replied[c], r) \in Seq(Replies)
  BY AppendProperties DEF TypeOK
<1>2. replied' = [replied EXCEPT ![c] = Append(replied[c], r)]
  BY DEF Answers
<1>3. UNCHANGED <<certs, tls, stage, upstream, client, sent, forwarded, reply, received,
                  gone, refused>>
  BY DEF Answers
<1> QED
  BY <1>1, <1>2, <1>3 DEF TypeOK, certs, tls

LEMMA TypeStep == ExchangeInv /\ [Next]_vars => TypeOK'
<1> SUFFICES ASSUME ExchangeInv, [Next]_vars PROVE TypeOK'
  OBVIOUS
<1> USE KindsAssumption
<1>1. TypeOK /\ HeapInv /\ \A c \in Conns : CertInv(c) /\ ForwardInv(c)
  BY DEF ExchangeInv
<1>2. CASE Rotate
  <2>1. current' \in Certs
    BY <1>1, <1>2 DEF Rotate, TypeOK, Certs
  <2>2. UNCHANGED <<heap, tls, stage, upstream, client, messages, gone, refused>>
    BY <1>2 DEF Rotate
  <2> QED
    BY <1>1, <2>1, <2>2 DEF tls, messages, TypeOK
<1>3. CASE UNCHANGED vars
  BY <1>1, <1>3 DEF vars, TypeOK
<1>4. ASSUME NEW c \in Conns, Handler(c) \/ Peers(c) PROVE TypeOK'
  <2> USE DEF TypeOK
  <2>1. CASE OriginalDstErr(c)
    BY <1>1, <2>1 DEF OriginalDstErr, Refused, Return, Goto, certs, tls, messages, CertInv, ForwardInv, Silent, Certs, Replies
  <2>2. CASE OriginalDst(c)
    BY <1>1, <2>2 DEF OriginalDst, Goto, Stays, certs, tls, messages, CertInv, ForwardInv, Silent, Certs, Replies
  <2>3. CASE Handshake(c)
    BY <1>1, <2>3 DEF Handshake, Goto, Stays, certs, tls, messages, CertInv, ForwardInv, Silent, Certs, Replies
  <2>4. CASE GetCertificate(c)
    BY <1>1, <2>4 DEF GetCertificate, Goto, Stays, certs, tls, messages, CertInv, ForwardInv, Silent, Certs, Replies
  <2>5. CASE Verified(c)
    BY <1>1, <2>5 DEF Verified, UsesKey, Goto, Stays, certs, tls, messages, CertInv, ForwardInv, Silent, Certs, Replies
  <2>6. CASE HandshakeErr(c)
    BY <1>1, <2>6 DEF HandshakeErr, UsesKey, Refused, Return, Goto, certs, tls, messages, CertInv, ForwardInv, Silent, Certs, Replies
  <2>7. CASE TProxyErr(c)
    BY <1>1, <2>7 DEF TProxyErr, Return, Goto, certs, tls, messages, CertInv, ForwardInv, Silent, Certs, Replies
  <2>8. CASE Dial(c)
    BY <1>1, <2>8 DEF Dial, Goto, certs, tls, messages, CertInv, ForwardInv, Silent, Certs, Replies
  <2>27. CASE Connect(c)
    BY <1>1, <2>27 DEF Connect, Goto, certs, tls, messages, CertInv, ForwardInv, Silent, Certs, Replies
  <2>9. CASE DialErr(c)
    BY <1>1, <2>9 DEF DialErr, Refused, Return, Goto, certs, tls, messages, CertInv, ForwardInv, Silent, Certs, Replies
  <2>10. CASE DialTLS(c)
    BY <1>1, <2>10 DEF DialTLS, UsesKey, Goto, Stays, certs, tls, messages, CertInv, ForwardInv, Silent, Certs, Replies
  <2>11. CASE DialTLSErr(c)
    BY <1>1, <2>11 DEF DialTLSErr, UsesKey, Refused, Return, Goto, certs, tls, messages, CertInv, ForwardInv, Silent, Certs, Replies
  <2>12. CASE ReadRequest(c)
    BY <1>1, <2>12 DEF ReadRequest, Goto, Stays, certs, tls, messages, CertInv, ForwardInv, Silent, Certs, Replies
  <2>13. CASE ReadErr(c)
    BY <1>1, <2>13 DEF ReadErr, Refused, Return, Goto, certs, tls, messages, CertInv, ForwardInv, Silent, Certs, Replies
  <2>14. CASE WriteRequest(c)
    <3>1. forwarded[c] + 1 \in 0 .. MaxSent
      BY <1>1, <2>14 DEF WriteRequest, ForwardInv, Silent
    <3>2. forwarded' = [forwarded EXCEPT ![c] = forwarded[c] + 1] /\ stage' = [stage EXCEPT ![c] = "reply"]
      BY <2>14 DEF WriteRequest, Goto
    <3>3. UNCHANGED <<certs, tls, sent, replied, reply, received, gone, client, upstream, refused>>
      BY <2>14 DEF WriteRequest, Stays
    <3> QED
      BY <1>1, <3>1, <3>2, <3>3 DEF certs, tls
  <2>15. CASE WriteRequestErr(c)
    BY <1>1, <2>15 DEF WriteRequestErr, Refused, Return, Goto, certs, tls, messages, CertInv, ForwardInv, Silent, Certs, Replies
  <2>16. CASE ReadResponse(c)
    <3>1. replied[c] \in Seq(Replies) /\ replied[c] # << >>
      BY <1>1, <2>16 DEF ReadResponse
    <3>2. Head(replied[c]) \in Replies /\ Tail(replied[c]) \in Seq(Replies)
      BY <3>1, HeadTailProperties
    <3>3. /\ reply' = [reply EXCEPT ![c] = Head(replied[c])]
          /\ replied' = [replied EXCEPT ![c] = Tail(replied[c])]
          /\ stage' = [stage EXCEPT ![c] = "answer"]
      BY <2>16 DEF ReadResponse, Goto
    <3>4. UNCHANGED <<certs, tls, sent, forwarded, received, gone, client, upstream, refused>>
      BY <2>16 DEF ReadResponse, Stays
    <3> QED
      BY <1>1, <3>2, <3>3, <3>4 DEF certs, tls
  <2>17. CASE ReadResponseErr(c)
    BY <1>1, <2>17 DEF ReadResponseErr, Refused, Return, Goto, certs, tls, messages, CertInv, ForwardInv, Silent, Certs, Replies
  <2>18. CASE WriteResponse(c)
    <3>1. reply[c] \in Replies
      BY <1>1, <2>18 DEF WriteResponse, ForwardInv
    <3>2. Append(received[c], reply[c]) \in Seq(Replies)
      BY <1>1, <3>1, AppendProperties
    <3>3. /\ received' = [received EXCEPT ![c] = Append(received[c], reply[c])]
          /\ stage' = [stage EXCEPT ![c] = "done"]
          /\ client' = [client EXCEPT ![c] = "closed"]
          /\ upstream' = [upstream EXCEPT ![c] = IF @ = "open" THEN "closed" ELSE @]
      BY <2>18 DEF WriteResponse, Return, Goto
    <3>4. UNCHANGED <<certs, tls, sent, forwarded, replied, reply, gone, refused>>
      BY <2>18 DEF WriteResponse
    <3> QED
      BY <1>1, <3>2, <3>3, <3>4 DEF certs, tls
  <2>19. CASE WriteResponseErr(c)
    BY <1>1, <2>19 DEF WriteResponseErr, Refused, Return, Goto, certs, tls, messages, CertInv, ForwardInv, Silent, Certs, Replies
  <2>20. CASE CopyRequest(c)
    <3>1. forwarded[c] + 1 \in 0 .. MaxSent
      BY <1>1, <2>20 DEF CopyRequest
    <3>2. forwarded' = [forwarded EXCEPT ![c] = forwarded[c] + 1]
      BY <2>20 DEF CopyRequest
    <3>3. UNCHANGED <<certs, tls, stage, upstream, client, sent, replied, reply, received,
                      gone, refused>>
      BY <2>20 DEF CopyRequest
    <3> QED
      BY <1>1, <3>1, <3>2, <3>3 DEF certs, tls
  <2>21. CASE CopyReply(c)
    <3>1. replied[c] \in Seq(Replies) /\ replied[c] # << >> /\ received[c] \in Seq(Replies)
      BY <1>1, <2>21 DEF CopyReply
    <3>2. Append(received[c], Head(replied[c])) \in Seq(Replies)
          /\ Tail(replied[c]) \in Seq(Replies)
      BY <3>1, HeadTailProperties, AppendProperties
    <3>3. /\ received' = [received EXCEPT ![c] = Append(received[c], Head(replied[c]))]
          /\ replied' = [replied EXCEPT ![c] = Tail(replied[c])]
      BY <2>21 DEF CopyReply
    <3>4. UNCHANGED <<certs, tls, stage, upstream, client, sent, forwarded, reply, gone, refused>>
      BY <2>21 DEF CopyReply
    <3> QED
      BY <1>1, <3>2, <3>3, <3>4 DEF certs, tls
  <2>22. CASE CopyEnds(c)
    BY <1>1, <2>22 DEF CopyEnds, Refused, Return, Goto, certs, tls, messages, CertInv, ForwardInv, Silent, Certs, Replies
  <2>23. CASE SendRequest(c)
    <3>1. sent[c] + 1 \in 0 .. MaxSent
      BY <1>1, <2>23 DEF SendRequest
    <3>2. sent' = [sent EXCEPT ![c] = sent[c] + 1]
      BY <2>23 DEF SendRequest
    <3>3. UNCHANGED <<certs, tls, stage, upstream, client, forwarded, replied, reply, received,
                      gone, refused>>
      BY <2>23 DEF SendRequest
    <3> QED
      BY <1>1, <3>1, <3>2, <3>3 DEF certs, tls
  <2>24. CASE SendInterim(c)
    <3>1. Answers(c, "interim")
      BY <2>24 DEF SendInterim
    <3> QED
      BY <1>1, <3>1, AnswersTypes DEF Replies
  <2>25. CASE SendFinal(c)
    <3>1. Answers(c, "final")
      BY <2>25 DEF SendFinal
    <3> QED
      BY <1>1, <3>1, AnswersTypes DEF Replies
  <2>26. ASSUME NEW who \in {"client", "upstream"}, Leave(c, who) PROVE TypeOK'
    BY <1>1, <2>26 DEF Leave, certs, tls, messages
  <2> HIDE DEF TypeOK
  <2> QED
    BY <1>4, <2>1, <2>2, <2>3, <2>4, <2>5, <2>6, <2>7, <2>8, <2>9, <2>10, <2>11, <2>12, <2>13, <2>14, <2>15, <2>16, <2>17, <2>18, <2>19, <2>20, <2>21, <2>22, <2>23, <2>24, <2>25, <2>26, <2>27
    DEF Handler, Peers
<1> QED
  BY <1>2, <1>3, <1>4 DEF Next

-----------------------------------------------------------------------------
(* The certificate                                                          *)

LEMMA HeapStep == HeapInv /\ [Next]_vars => HeapInv'
<1> SUFFICES ASSUME HeapInv, [Next]_vars PROVE HeapInv'
  OBVIOUS
<1>1. CASE Rotate \/ UNCHANGED vars
  BY <1>1 DEF Rotate, vars, HeapInv
<1>2. ASSUME NEW c \in Conns, Handler(c) \/ Peers(c) PROVE heap' = heap
  BY <1>2, Zenon
  DEF Handler, Peers, OriginalDstErr, OriginalDst, Handshake, GetCertificate, Verified,
      HandshakeErr, TProxyErr, Dial, Connect, DialErr, DialTLS, DialTLSErr, ReadRequest, ReadErr,
      WriteRequest, WriteRequestErr, ReadResponse, ReadResponseErr, WriteResponse,
      WriteResponseErr, CopyRequest, CopyReply, CopyEnds, SendRequest, SendInterim,
      SendFinal, Answers, Leave, UsesKey, certs
<1> QED
  BY <1>1, <1>2 DEF Next, HeapInv

\* A handler that leaves the certificate alone and does not go back to its use.
MovesOn(c) ==
    /\ UNCHANGED <<pointer, chain, key>>
    /\ \/ UNCHANGED stage
       \/ stage[c] \in Keyless /\ stage' = [stage EXCEPT ![c] = "hello"]
       \/ stage[c] = "connect" /\ stage' = [stage EXCEPT ![c] = "sign"]
       \/ \E where \in Stages \ Keyless : stage' = [stage EXCEPT ![c] = where]

LEMMA CertStep ==
  ExchangeInv /\ [Next]_vars => \A x \in Conns : CertInv(x)'
<1> SUFFICES ASSUME TypeOK, HeapInv, \A x \in Conns : CertInv(x), [Next]_vars,
                    NEW x \in Conns
             PROVE  CertInv(x)'
  BY DEF ExchangeInv
<1>1. CASE Rotate \/ UNCHANGED vars
  BY <1>1 DEF Rotate, vars, tls, CertInv
<1>2. ASSUME NEW c \in Conns, MovesOn(c) PROVE CertInv(x)'
  BY <1>2 DEF MovesOn, CertInv, Keyless, TypeOK
<1>3. ASSUME NEW c \in Conns, GetCertificate(c) PROVE CertInv(x)'
  <2>1. heap[current].chain = current /\ current \in Certs
    BY DEF HeapInv, TypeOK
  <2>2. /\ pointer' = [pointer EXCEPT ![c] = current]
        /\ chain' = [chain EXCEPT ![c] = current]
        /\ key' = key
        /\ stage[c] = "hello"
        /\ \E where \in {"connect", "sign"} : stage' = [stage EXCEPT ![c] = where]
    BY <1>3, <2>1 DEF GetCertificate, Goto
  <2> QED
    BY <2>1, <2>2 DEF CertInv, Keyless, TypeOK
<1>4. ASSUME NEW c \in Conns, UsesKey(c), NEW where \in Stages \ Keyless,
             stage' = [stage EXCEPT ![c] = where]
      PROVE  CertInv(x)'
  <2>1. pointer[c] \in Certs /\ heap[pointer[c]].key = pointer[c]
    <3>1. pointer[c] \in Certs
      BY <1>4, Zenon DEF UsesKey, CertInv
    <3>2. heap[pointer[c]] = [chain |-> pointer[c], key |-> pointer[c]]
      BY <3>1, Zenon DEF HeapInv
    <3> QED
      BY <3>1, <3>2
  <2>2. key' = [key EXCEPT ![c] = pointer[c]] /\ UNCHANGED <<pointer, chain>>
    BY <1>4, <2>1 DEF UsesKey
  <2> QED
    BY <1>4, <2>1, <2>2 DEF CertInv, Keyless, TypeOK
<1>5. ASSUME NEW c \in Conns, Handler(c) PROVE CertInv(x)'
  <2>1. CASE OriginalDstErr(c) \/ OriginalDst(c) \/ Handshake(c)
    BY <1>2, <2>1
    DEF OriginalDstErr, OriginalDst, Handshake, MovesOn, Goto, Refused, Return, tls,
        Keyless, Stages
  <2>2. CASE GetCertificate(c)
    BY <1>3, <2>2
  <2>3. CASE Verified(c) \/ HandshakeErr(c) \/ DialTLS(c) \/ DialTLSErr(c)
    BY <1>4, <2>3
    DEF Verified, HandshakeErr, DialTLS, DialTLSErr, Goto, Refused, Return, Keyless, Stages
  <2>4. CASE \/ TProxyErr(c) \/ Dial(c) \/ Connect(c) \/ DialErr(c) \/ ReadRequest(c) \/ ReadErr(c)
             \/ WriteRequest(c) \/ WriteRequestErr(c)
    BY <1>2, <2>4
    DEF TProxyErr, Dial, Connect, DialErr, ReadRequest, ReadErr, WriteRequest, WriteRequestErr,
        MovesOn, Goto, Refused, Return, tls, Keyless, Stages
  <2>5. CASE \/ ReadResponse(c) \/ ReadResponseErr(c) \/ WriteResponse(c)
             \/ WriteResponseErr(c) \/ CopyRequest(c) \/ CopyReply(c) \/ CopyEnds(c)
    BY <1>2, <2>5
    DEF ReadResponse, ReadResponseErr, WriteResponse, WriteResponseErr, CopyRequest,
        CopyReply, CopyEnds, MovesOn, Goto, Refused, Return, tls, Keyless, Stages
  <2> QED
    BY <1>5, <2>1, <2>2, <2>3, <2>4, <2>5 DEF Handler
<1>6. ASSUME NEW c \in Conns, Peers(c) PROVE CertInv(x)'
  BY <1>2, <1>6 DEF Peers, SendRequest, SendInterim, SendFinal, Answers, Leave, MovesOn, tls
<1> QED
  BY <1>1, <1>5, <1>6 DEF Next

-----------------------------------------------------------------------------
(* What is forwarded                                                        *)

\* A handler that is done, or that is not yet there: nothing new is forwarded.
Quiet(c) ==
    /\ UNCHANGED <<kind, credential, sent, forwarded, reply>>
    /\ \/ UNCHANGED stage
       \/ stage' = [stage EXCEPT ![c] = "done"]
       \/ stage[c] = "accept" /\ stage' = [stage EXCEPT ![c] = "hello"]
       \/ stage[c] \in {"hello", "connect"} /\
             \E where \in {"connect", "sign"} : stage' = [stage EXCEPT ![c] = where]

LEMMA ForwardStep ==
  ExchangeInv /\ [Next]_vars => \A x \in Conns : ForwardInv(x)'
<1> SUFFICES ASSUME TypeOK, \A x \in Conns : ForwardInv(x), [Next]_vars, NEW x \in Conns
             PROVE  ForwardInv(x)'
  BY DEF ExchangeInv
<1> USE DEF ForwardInv, Silent, Keyless
<1>1. CASE Rotate \/ UNCHANGED vars
  BY <1>1 DEF Rotate, vars, tls, messages
<1>2. ASSUME NEW c \in Conns, Quiet(c) PROVE ForwardInv(x)'
  BY <1>2 DEF Quiet, TypeOK
\* A handler goes on without a client to verify, or with one it has verified.
<1>3. ASSUME NEW c \in Conns, NEW where \in {"tproxy", "dial", "read", "copy"},
             UNCHANGED <<kind, credential, sent, forwarded, reply>>,
             stage' = [stage EXCEPT ![c] = where],
             stage[c] \in Silent,
             ~(kind[c] \in TLSKinds /\ ~credential[c])
      PROVE  ForwardInv(x)'
  BY <1>3 DEF TypeOK
<1>4. ASSUME NEW c \in Conns, Handler(c) PROVE ForwardInv(x)'
  <2>1. CASE \/ OriginalDstErr(c) \/ Handshake(c) \/ GetCertificate(c) \/ HandshakeErr(c)
             \/ TProxyErr(c) \/ Connect(c) \/ DialErr(c) \/ DialTLSErr(c) \/ ReadErr(c)
             \/ WriteRequestErr(c) \/ ReadResponseErr(c) \/ WriteResponse(c)
             \/ WriteResponseErr(c) \/ CopyEnds(c)
    <3> HIDE DEF ForwardInv, Silent, Keyless
    <3>1. Quiet(c)
      BY <2>1, Zenon
      DEF OriginalDstErr, Handshake, GetCertificate, HandshakeErr, TProxyErr, Connect,
          DialErr, DialTLSErr, ReadErr, WriteRequestErr, ReadResponseErr, WriteResponse,
          WriteResponseErr, CopyEnds, UsesKey, Refused, Return, Goto, Quiet, tls, messages
    <3> QED
      BY <1>2, <3>1
  <2>2. CASE OriginalDst(c)
    <3>1. CASE kind[c] = "self"
      BY <1>3, <2>2, <3>1 DEF OriginalDst, Goto, tls, messages, TLSKinds
    <3>2. CASE kind[c] # "self"
      BY <1>2, <2>2, <3>2 DEF OriginalDst, Goto, Quiet, tls, messages
    <3> QED
      BY <3>1, <3>2
  <2>3. CASE Verified(c)
    BY <1>3, <2>3 DEF Verified, UsesKey, Goto, messages
  <2>4. CASE Dial(c)
    BY <1>3, <2>4 DEF Dial, Goto, tls, messages
  <2>5. CASE DialTLS(c)
    BY <1>3, <2>5 DEF DialTLS, UsesKey, Goto, messages, TLSKinds
  <2>6. CASE ReadRequest(c)
    BY <2>6 DEF ReadRequest, Goto, tls, messages, TypeOK
  <2>7. CASE WriteRequest(c)
    <3>1. /\ UNCHANGED <<kind, credential, sent, reply>> /\ stage[c] = "write"
          /\ forwarded' = [forwarded EXCEPT ![c] = @ + 1]
          /\ stage' = [stage EXCEPT ![c] = "reply"]
      BY <2>7 DEF WriteRequest, Goto, tls
    <3> QED
      BY <3>1 DEF TypeOK
  <2>8. CASE ReadResponse(c)
    <3>1. replied[c] \in Seq(Replies) /\ replied[c] # << >>
      BY <2>8 DEF ReadResponse, TypeOK
    <3>2. Head(replied[c]) \in Replies
      BY <3>1, HeadTailProperties
    <3>3. /\ UNCHANGED <<kind, credential, sent, forwarded>> /\ stage[c] = "reply"
          /\ reply' = [reply EXCEPT ![c] = Head(replied[c])]
          /\ stage' = [stage EXCEPT ![c] = "answer"]
      BY <2>8 DEF ReadResponse, Goto, tls
    <3> QED
      BY <3>2, <3>3 DEF TypeOK
  <2>9. CASE CopyRequest(c)
    <3>1. /\ UNCHANGED <<kind, credential, sent, reply, stage>> /\ stage[c] = "copy"
          /\ forwarded' = [forwarded EXCEPT ![c] = @ + 1]
      BY <2>9 DEF CopyRequest, tls
    <3> QED
      BY <3>1 DEF TypeOK
  <2>10. CASE CopyReply(c)
    BY <1>2, <2>10 DEF CopyReply, Quiet, tls
  <2> QED
    BY <1>4, <2>1, <2>2, <2>3, <2>4, <2>5, <2>6, <2>7, <2>8, <2>9, <2>10 DEF Handler
<1>5. ASSUME NEW c \in Conns, Peers(c) PROVE ForwardInv(x)'
  <2>1. CASE SendRequest(c)
    <3>1. /\ UNCHANGED <<kind, credential, stage, forwarded, reply>>
          /\ sent' = [sent EXCEPT ![c] = @ + 1]
      BY <2>1 DEF SendRequest, tls
    <3> QED
      BY <3>1 DEF TypeOK
  <2>2. CASE SendInterim(c) \/ SendFinal(c) \/ \E who \in {"client", "upstream"} : Leave(c, who)
    BY <1>2, <2>2 DEF SendInterim, SendFinal, Answers, Leave, Quiet, tls, messages
  <2> QED
    BY <1>5, <2>1, <2>2 DEF Peers
<1> QED
  BY <1>1, <1>4, <1>5 DEF Next

-----------------------------------------------------------------------------

\* The inductive invariant.
LEMMA ExchangeInvariant == Spec => []ExchangeInv
<1>1. ExchangeInv /\ [Next]_vars => ExchangeInv'
  <2>1. ExchangeInv => HeapInv
    BY DEF ExchangeInv
  <2> QED
    BY <2>1, TypeStep, HeapStep, CertStep, ForwardStep DEF ExchangeInv
<1> QED
  BY <1>1, InitExchange, PTL DEF Spec

\* The types; a handler forwards no request that was not sent.
THEOREM TypeCorrect == Spec => []TypeOK
<1>1. ExchangeInv => TypeOK
  BY DEF ExchangeInv
<1> QED
  BY <1>1, ExchangeInvariant, PTL

\* mTLS enforcement: nothing of a client without a certificate of the CA comes
\* through, however many connections there are and however they end.
THEOREM MutualTLS == Spec => []OnlyVerifiedClients
<1>1. ExchangeInv => OnlyVerifiedClients
  BY DEF ExchangeInv, ForwardInv, OnlyVerifiedClients
<1> QED
  BY <1>1, ExchangeInvariant, PTL

\* The swap of the certificate is atomic for every handshake.
THEOREM SwapIsAtomic == Spec => []AtomicSwap
<1>1. ExchangeInv => AtomicSwap
  BY DEF ExchangeInv, CertInv, AtomicSwap
<1> QED
  BY <1>1, ExchangeInvariant, PTL

-----------------------------------------------------------------------------
(* What is served                                                           *)

\* The handler goes on, behind nothing that has not been forwarded.
GoesOn(c) ==
    /\ UNCHANGED <<kind, forwarded, received, refused>>
    /\ \/ UNCHANGED stage
       \/ \E where \in Stages \ {"tproxy", "reply", "answer", "done"} :
             stage' = [stage EXCEPT ![c] = where]

\* It fails, or one of its peers has left it.
Fails(c) ==
    /\ UNCHANGED <<kind, forwarded, received>>
    /\ refused' = [refused EXCEPT ![c] = TRUE]
    /\ UNCHANGED stage \/ stage' = [stage EXCEPT ![c] = "done"]

LEMMA ServedStep ==
  ExchangeInv /\ (\A x \in Conns : ServedInv(x)) /\ [Next]_vars
    => \A x \in Conns : ServedInv(x)'
<1> SUFFICES ASSUME TypeOK, \A x \in Conns : ForwardInv(x) /\ ServedInv(x), [Next]_vars,
                    NEW x \in Conns
             PROVE  ServedInv(x)'
  BY DEF ExchangeInv
<1>1. CASE Rotate \/ UNCHANGED vars
  BY <1>1 DEF Rotate, vars, tls, messages, ServedInv
<1>2. ASSUME NEW c \in Conns, GoesOn(c) PROVE ServedInv(x)'
  BY <1>2 DEF GoesOn, ServedInv, TypeOK
<1>3. ASSUME NEW c \in Conns, Fails(c) PROVE ServedInv(x)'
  <2>1. CASE x = c
    <3>1. refused'[x]
      BY <1>3, <2>1, Zenon DEF Fails, TypeOK
    <3>2. stage'[x] \in {stage[x], "done"} /\ UNCHANGED <<kind, forwarded, received>>
      BY <1>3, <2>1 DEF Fails, TypeOK
    <3> QED
      BY <3>1, <3>2 DEF ServedInv
  <2>2. CASE x # c
    <3>1. refused'[x] = refused[x]
      BY <1>3, <2>2, Zenon DEF Fails, TypeOK
    <3>2. stage'[x] = stage[x] /\ UNCHANGED <<kind, forwarded, received>>
      BY <1>3, <2>2 DEF Fails, TypeOK
    <3> QED
      BY <3>1, <3>2 DEF ServedInv
  <2> QED
    BY <2>1, <2>2
<1>4. ASSUME NEW c \in Conns, Handler(c) PROVE ServedInv(x)'
  <2>1. CASE \/ OriginalDst(c) \/ Handshake(c) \/ GetCertificate(c) \/ Dial(c) \/ DialTLS(c)
             \/ Connect(c) \/ ReadRequest(c)
    <3>1. GoesOn(c)
      BY <2>1
      DEF OriginalDst, Handshake, GetCertificate, Dial, Connect, DialTLS, ReadRequest, UsesKey, Goto,
          Stays, tls, messages, Stages, GoesOn
    <3> QED
      BY <1>2, <3>1
  <2>2. CASE \/ OriginalDstErr(c) \/ HandshakeErr(c) \/ DialErr(c) \/ DialTLSErr(c)
             \/ ReadErr(c) \/ WriteRequestErr(c) \/ ReadResponseErr(c)
             \/ WriteResponseErr(c) \/ CopyEnds(c)
    <3>1. Fails(c)
      BY <2>2, Zenon
      DEF OriginalDstErr, HandshakeErr, DialErr, DialTLSErr, ReadErr, WriteRequestErr,
          ReadResponseErr, WriteResponseErr, CopyEnds, UsesKey, Refused, Return, Goto, tls,
          messages, Fails
    <3> QED
      BY <1>3, <3>1
  <2>3. CASE Verified(c)
    BY <2>3 DEF Verified, UsesKey, Goto, Stays, messages, ServedInv, TypeOK
  <2>4. CASE TProxyErr(c)
    BY <2>4 DEF TProxyErr, Return, Goto, tls, messages, ServedInv, TypeOK
  <2>5. CASE WriteRequest(c)
    <3>1. /\ UNCHANGED <<kind, received, refused>>
          /\ stage[c] = "write" /\ stage' = [stage EXCEPT ![c] = "reply"]
          /\ forwarded' = [forwarded EXCEPT ![c] = @ + 1]
      BY <2>5 DEF WriteRequest, Goto, Stays, tls
    <3> QED
      BY <3>1 DEF ServedInv, TypeOK
  <2>6. CASE ReadResponse(c)
    BY <2>6 DEF ReadResponse, Goto, Stays, tls, ServedInv, TypeOK
  <2>7. CASE WriteResponse(c)
    <3>1. /\ UNCHANGED <<kind, forwarded, refused>>
          /\ stage[c] = "answer" /\ stage' = [stage EXCEPT ![c] = "done"]
          /\ received' = [received EXCEPT ![c] = Append(@, reply[c])]
      BY <2>7 DEF WriteResponse, Return, Goto, tls
    <3>2. reply[c] \in Replies /\ received[c] \in Seq(Replies)
      BY <3>1 DEF ForwardInv, TypeOK
    <3>3. Append(received[c], reply[c]) # << >>
      BY <3>2, AppendProperties
    <3> QED
      BY <3>1, <3>3 DEF ServedInv, TypeOK
  <2>8. CASE CopyRequest(c) \/ CopyReply(c)
    <3>1. /\ UNCHANGED <<kind, stage, refused>> /\ stage[c] = "copy"
          /\ \A y \in Conns \ {c} : forwarded'[y] = forwarded[y] /\ received'[y] = received[y]
      BY <2>8 DEF CopyRequest, CopyReply, tls, TypeOK
    <3> QED
      BY <3>1 DEF ServedInv
  <2> QED
    BY <1>4, <2>1, <2>2, <2>3, <2>4, <2>5, <2>6, <2>7, <2>8 DEF Handler
<1>5. ASSUME NEW c \in Conns, Peers(c) PROVE ServedInv(x)'
  <2>1. CASE SendRequest(c) \/ SendInterim(c) \/ SendFinal(c)
    BY <1>2, <2>1 DEF SendRequest, SendInterim, SendFinal, Answers, tls, GoesOn
  <2>2. CASE \E who \in {"client", "upstream"} : Leave(c, who)
    <3>1. Fails(c)
      BY <2>2, Zenon DEF Leave, tls, messages, Fails
    <3> QED
      BY <1>3, <3>1
  <2> QED
    BY <1>5, <2>1, <2>2 DEF Peers
<1> QED
  BY <1>1, <1>4, <1>5 DEF Next

\* A handler whose peers and dials do their part is over only when it has
\* forwarded a request and relayed a reply, on any number of connections.
THEOREM EveryoneIsServed == Spec => []RequestServed
<1> DEFINE Served == \A c \in Conns : ServedInv(c)
<1>1. Init => Served
  BY DEF Init, ServedInv
<1>2. ExchangeInv /\ Served /\ [Next]_vars => Served'
  BY ServedStep
<1>3. Served => RequestServed
  BY DEF ServedInv, RequestServed, Done
<1> HIDE DEF Served
<1> QED
  BY <1>1, <1>2, <1>3, ExchangeInvariant, PTL DEF Spec

=============================================================================
