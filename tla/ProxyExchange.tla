----------------------------- MODULE ProxyExchange -----------------------------
(***************************************************************************)
(* The handlers of the data plane's intercepted connections                *)
(* (data-plane/internal/proxy/proxy.go), one goroutine each:               *)
(*   - redirected inbound: handleRedirectedConnection, forwardLocalApp and  *)
(*     proxyInboundHTTPRequests;                                           *)
(*   - redirected outbound: handleOutboundConnection, and to another host   *)
(*     forwardOutboundPlain and proxyOutboundHTTPRequests, to the pod itself *)
(*     forwardLocalApp and proxyCopy;                                      *)
(*   - TPROXY inbound: handleTProxyConnection.                              *)
(* They read the certificate that CertManager swaps while they run.         *)
(*                                                                         *)
(* A connection's data are its HTTP messages: requests, and replies that    *)
(* are interim (1xx) or final.                                             *)
(***************************************************************************)
EXTENDS Naturals, Sequences

CONSTANTS
    Conns,      \* connections
    Kinds,      \* the kinds accepted: a subset of AllKinds
    MaxSent,    \* bound: requests a client sends on a connection
    MaxCerts    \* bound: certificates

AllKinds == {"inbound", "outbound", "self", "tproxy"}

ASSUME KindsAssumption ==
    /\ Kinds \subseteq AllKinds
    /\ MaxSent \in Nat
    /\ MaxCerts \in Nat \ {0}

\* The kinds that begin with a TLS handshake of the client.
TLSKinds == {"inbound", "tproxy"}
Certs == 1 .. MaxCerts

VARIABLES
    heap,       \* the tls.Certificate objects: the chain and the key of each
    current,    \* CertManager.CurrentCert, a pointer
    kind,       \* what each connection is
    credential, \* the client has a certificate that the CA pool verifies
    stage,      \* where its handler is
    pointer,    \* the certificate the handler has got hold of
    chain,      \* the chain and
    key,        \* the key that it has used
    upstream,   \* the connection to the app or to the remote proxy
    client,     \* the client's connection
    sent,       \* requests the client has sent
    forwarded,  \* requests the upstream has received
    replied,    \* the upstream's replies that wait for the handler
    reply,      \* the reply the handler holds
    received,   \* the replies the client has received
    gone,       \* the peers that have left, of "client" and "upstream"
    refused     \* history: the environment has failed the handler

vars == <<heap, current, kind, credential, stage, pointer, chain, key, upstream,
          client, sent, forwarded, replied, reply, received, gone, refused>>

certs == <<heap, current>>
tls == <<kind, credential, pointer, chain, key>>
messages == <<sent, forwarded, replied, reply, received>>

Init ==
    /\ heap = [v \in Certs |-> [chain |-> v, key |-> v]]
    /\ current = 1
    /\ kind \in [Conns -> Kinds]
    /\ credential \in [Conns -> BOOLEAN]
    /\ stage = [c \in Conns |-> "accept"]
    /\ pointer = [c \in Conns |-> 0]
    /\ chain = [c \in Conns |-> 0]
    /\ key = [c \in Conns |-> 0]
    /\ upstream = [c \in Conns |-> "none"]
    /\ client = [c \in Conns |-> "open"]
    /\ sent = [c \in Conns |-> 0]
    /\ forwarded = [c \in Conns |-> 0]
    /\ replied = [c \in Conns |-> << >>]
    /\ reply = [c \in Conns |-> "none"]
    /\ received = [c \in Conns |-> << >>]
    /\ gone = [c \in Conns |-> {}]
    /\ refused = [c \in Conns |-> FALSE]

Goto(c, where) == stage' = [stage EXCEPT ![c] = where]

\* The handler returns: the deferred calls close both connections.
Return(c) ==
    /\ Goto(c, "done")
    /\ client' = [client EXCEPT ![c] = "closed"]
    /\ upstream' = [upstream EXCEPT ![c] = IF @ = "open" THEN "closed" ELSE @]

\* It returns because of what the environment does.
Refused(c) == Return(c) /\ refused' = [refused EXCEPT ![c] = TRUE]

Stays(c) == UNCHANGED <<client, upstream, refused>>

-----------------------------------------------------------------------------
(* The certificate                                                          *)

\* Mutated form: the object is overwritten, field by field.
Rotate_InPlace ==
    /\ IF heap[current].chain = heap[current].key
       THEN heap[current].chain < MaxCerts /\ heap' = [heap EXCEPT ![current].chain = @ + 1]
       ELSE heap' = [heap EXCEPT ![current].key = @ + 1]
    /\ UNCHANGED <<current, tls, stage, upstream, client, messages, gone, refused>>

\* cm.CurrentCert = &result.Certificate, under the lock: a new object.
Rotate ==
    /\ current < MaxCerts
    /\ current' = current + 1
    /\ UNCHANGED <<heap, tls, stage, upstream, client, messages, gone, refused>>

-----------------------------------------------------------------------------
(* Accept to the upstream connection                                        *)

\* getsockopt(SO_ORIGINAL_DST) fails.
OriginalDstErr(c) ==
    /\ stage[c] = "accept"
    /\ kind[c] \in {"outbound", "self"}
    /\ Refused(c)
    /\ UNCHANGED <<certs, tls, messages, gone>>

\* An outbound connection is for another host or for the pod itself.
OriginalDst(c) ==
    /\ stage[c] = "accept"
    /\ kind[c] \in {"outbound", "self"}
    /\ Goto(c, IF kind[c] = "self" THEN "dial" ELSE "hello")
    /\ Stays(c)
    /\ UNCHANGED <<certs, tls, messages, gone>>

\* The inbound handlers begin the handshake of the connection.
Handshake(c) ==
    /\ stage[c] = "accept"
    /\ kind[c] \in TLSKinds
    /\ Goto(c, "hello")
    /\ Stays(c)
    /\ UNCHANGED <<certs, tls, messages, gone>>

\* GetCurrentCertificate: in the GetCertificate callback of a server's
\* handshake, or for the tls.Config of a dial, which comes before it connects.
\* The chain is used first.
GetCertificate(c) ==
    /\ stage[c] = "hello"
    /\ pointer' = [pointer EXCEPT ![c] = current]
    /\ chain' = [chain EXCEPT ![c] = heap[current].chain]
    /\ Goto(c, IF kind[c] = "outbound" THEN "connect" ELSE "sign")
    /\ Stays(c)
    /\ UNCHANGED <<certs, kind, credential, key, messages, gone>>

UsesKey(c) ==
    /\ stage[c] = "sign"
    /\ key' = [key EXCEPT ![c] = heap[pointer[c]].key]
    /\ UNCHANGED <<certs, kind, credential, pointer, chain, messages, gone>>

\* Mutated form: RequestClientCert for RequireAndVerifyClientCert.
Verified_Any(c) ==
    /\ UsesKey(c)
    /\ kind[c] \in TLSKinds
    /\ Goto(c, IF kind[c] = "tproxy" THEN "tproxy" ELSE "dial")
    /\ Stays(c)

\* RequireAndVerifyClientCert: the client's certificate is good.
Verified(c) ==
    /\ UsesKey(c)
    /\ kind[c] \in TLSKinds
    /\ credential[c]
    /\ Goto(c, IF kind[c] = "tproxy" THEN "tproxy" ELSE "dial")
    /\ Stays(c)

\* It is not, or the client leaves.
HandshakeErr(c) ==
    /\ UsesKey(c)
    /\ kind[c] \in TLSKinds
    /\ ~credential[c] \/ "client" \in gone[c]
    /\ Refused(c)

\* handleTProxyConnection hands the *tls.Conn to getOriginalDst, which takes
\* a *net.TCPConn only: its error ends every connection.
TProxyErr(c) ==
    /\ stage[c] = "tproxy"
    /\ Return(c)
    /\ UNCHANGED <<certs, tls, messages, gone, refused>>

\* net.Dial of the app; of the pod's own connections, bytes are copied.
Dial(c) ==
    /\ stage[c] = "dial"
    /\ upstream' = [upstream EXCEPT ![c] = "open"]
    /\ Goto(c, IF kind[c] = "self" THEN "copy" ELSE "read")
    /\ UNCHANGED <<certs, tls, client, messages, gone, refused>>

\* tls.Dial of the remote proxy connects,
Connect(c) ==
    /\ stage[c] = "connect"
    /\ upstream' = [upstream EXCEPT ![c] = "open"]
    /\ Goto(c, "sign")
    /\ UNCHANGED <<certs, tls, client, messages, gone, refused>>

\* Neither connects.
DialErr(c) ==
    /\ stage[c] \in {"dial", "connect"}
    /\ Refused(c)
    /\ UNCHANGED <<certs, tls, messages, gone>>

\* and then shakes hands with it: it verifies our certificate.
DialTLS(c) ==
    /\ UsesKey(c)
    /\ kind[c] = "outbound"
    /\ Goto(c, "read")
    /\ Stays(c)

DialTLSErr(c) ==
    /\ UsesKey(c)
    /\ kind[c] = "outbound"
    /\ Refused(c)

-----------------------------------------------------------------------------
(* proxyInboundHTTPRequests and proxyOutboundHTTPRequests: the loop ends     *)
(* with its first round.                                                    *)

ReadRequest(c) ==
    /\ stage[c] = "read"
    /\ sent[c] > 0
    /\ Goto(c, "write")
    /\ Stays(c)
    /\ UNCHANGED <<certs, tls, messages, gone>>

\* Mutated form: the end of the client's stream is read again and again.
ReadErr_Again(c) ==
    /\ stage[c] = "read"
    /\ sent[c] = 0
    /\ "client" \in gone[c]
    /\ UNCHANGED vars

\* The end of the client's stream, or bytes that are no request.
ReadErr(c) ==
    /\ stage[c] = "read"
    /\ sent[c] > 0 \/ "client" \in gone[c]
    /\ Refused(c)
    /\ UNCHANGED <<certs, tls, messages, gone>>

\* With "Connection: close".
WriteRequest(c) ==
    /\ stage[c] = "write"
    /\ forwarded' = [forwarded EXCEPT ![c] = @ + 1]
    /\ Goto(c, "reply")
    /\ Stays(c)
    /\ UNCHANGED <<certs, tls, sent, replied, reply, received, gone>>

WriteRequestErr(c) ==
    /\ stage[c] = "write"
    /\ gone[c] # {}
    /\ Refused(c)
    /\ UNCHANGED <<certs, tls, messages, gone>>

\* http.ReadResponse, of the first reply, interim or final; or it fails.
ReadResponse(c) ==
    /\ stage[c] = "reply"
    /\ replied[c] # << >>
    /\ reply' = [reply EXCEPT ![c] = Head(replied[c])]
    /\ replied' = [replied EXCEPT ![c] = Tail(@)]
    /\ Goto(c, "answer")
    /\ Stays(c)
    /\ UNCHANGED <<certs, tls, sent, forwarded, received, gone>>

ReadResponseErr(c) ==
    /\ stage[c] = "reply"
    /\ replied[c] # << >> \/ "upstream" \in gone[c]
    /\ Refused(c)
    /\ UNCHANGED <<certs, tls, messages, gone>>

\* Mutated form: the reply is dropped.
WriteResponse_Drops(c) ==
    /\ stage[c] = "answer"
    /\ Return(c)
    /\ UNCHANGED <<certs, tls, messages, gone, refused>>

\* With "Connection: close"; the handler returns.
WriteResponse(c) ==
    /\ stage[c] = "answer"
    /\ received' = [received EXCEPT ![c] = Append(@, reply[c])]
    /\ Return(c)
    /\ UNCHANGED <<certs, tls, sent, forwarded, replied, reply, gone, refused>>

WriteResponseErr(c) ==
    /\ stage[c] = "answer"
    /\ "client" \in gone[c]
    /\ Refused(c)
    /\ UNCHANGED <<certs, tls, messages, gone>>

-----------------------------------------------------------------------------
(* proxyCopy                                                                *)

CopyRequest(c) ==
    /\ stage[c] = "copy"
    /\ forwarded[c] < sent[c]
    /\ forwarded' = [forwarded EXCEPT ![c] = @ + 1]
    /\ UNCHANGED <<certs, tls, stage, upstream, client, sent, replied, reply,
                   received, gone, refused>>

CopyReply(c) ==
    /\ stage[c] = "copy"
    /\ replied[c] # << >>
    /\ received' = [received EXCEPT ![c] = Append(@, Head(replied[c]))]
    /\ replied' = [replied EXCEPT ![c] = Tail(@)]
    /\ UNCHANGED <<certs, tls, stage, upstream, client, sent, forwarded, reply,
                   gone, refused>>

\* One direction is over: its copier closes the connection it writes to, and
\* the other one fails on that.
CopyEnds(c) ==
    /\ stage[c] = "copy"
    /\ gone[c] # {}
    /\ Refused(c)
    /\ UNCHANGED <<certs, tls, messages, gone>>

-----------------------------------------------------------------------------
(* The peers                                                                *)

SendRequest(c) ==
    /\ client[c] = "open"
    /\ "client" \notin gone[c]
    /\ sent[c] < MaxSent
    /\ sent' = [sent EXCEPT ![c] = @ + 1]
    /\ UNCHANGED <<certs, tls, stage, upstream, client, forwarded, replied, reply,
                   received, gone, refused>>

\* The finals that the upstream has not sent yet.
Owed(c) ==
    forwarded[c] > Len(SelectSeq(received[c] \o replied[c], LAMBDA r : r = "final"))

Answers(c, r) ==
    /\ upstream[c] = "open"
    /\ "upstream" \notin gone[c]
    /\ reply[c] # "final"
    /\ Owed(c)
    /\ replied' = [replied EXCEPT ![c] = Append(@, r)]
    /\ UNCHANGED <<certs, tls, stage, upstream, client, sent, forwarded, reply,
                   received, gone, refused>>

\* 100 Continue, 103 Early Hints and the like.
SendInterim(c) ==
    /\ replied[c] = << >>
    /\ reply[c] = "none"
    /\ received[c] = << >>
    /\ Answers(c, "interim")

SendFinal(c) == Answers(c, "final")

Leave(c, who) ==
    /\ IF who = "client" THEN client[c] = "open" ELSE upstream[c] = "open"
    /\ who \notin gone[c]
    /\ gone' = [gone EXCEPT ![c] = @ \cup {who}]
    /\ refused' = [refused EXCEPT ![c] = TRUE]
    /\ UNCHANGED <<certs, tls, stage, upstream, client, messages>>

-----------------------------------------------------------------------------

Handler(c) ==
    \/ OriginalDstErr(c) \/ OriginalDst(c) \/ Handshake(c) \/ GetCertificate(c)
    \/ Verified(c) \/ HandshakeErr(c) \/ TProxyErr(c)
    \/ Dial(c) \/ Connect(c) \/ DialErr(c) \/ DialTLS(c) \/ DialTLSErr(c)
    \/ ReadRequest(c) \/ ReadErr(c) \/ WriteRequest(c) \/ WriteRequestErr(c)
    \/ ReadResponse(c) \/ ReadResponseErr(c) \/ WriteResponse(c) \/ WriteResponseErr(c)
    \/ CopyRequest(c) \/ CopyReply(c) \/ CopyEnds(c)

Peers(c) ==
    \/ SendRequest(c) \/ SendInterim(c) \/ SendFinal(c)
    \/ \E who \in {"client", "upstream"} : Leave(c, who)

Next ==
    \/ Rotate
    \/ \E c \in Conns : Handler(c) \/ Peers(c)

Spec == Init /\ [][Next]_vars

\* The handler is in a handshake with a peer that has not left: with its client
\* (tlsConn.Handshake), or with the remote proxy (tls.Dial, whose Dialer has no
\* Timeout).  Neither has a deadline, so a silent peer keeps the handler there.
Waits(c) ==
    \/ kind[c] \in TLSKinds /\ stage[c] \in {"hello", "sign"} /\ "client" \notin gone[c]
    \/ kind[c] = "outbound" /\ stage[c] = "sign" /\ "upstream" \notin gone[c]

\* Goroutines are scheduled, and connections fail or are made (the kernel gives
\* up on one that is not answered).  Nothing makes a peer act, in a handshake
\* or later.
FairSpec ==
    Spec /\ \A c \in Conns : WF_vars(~Waits(c) /\ Handler(c)) /\ WF_vars(CopyEnds(c))

-----------------------------------------------------------------------------
(* Properties                                                               *)

Replies == {"interim", "final"}

TypeOK ==
    /\ heap \in [Certs -> [chain : Certs, key : Certs]]
    /\ current \in Certs
    /\ kind \in [Conns -> Kinds]
    /\ credential \in [Conns -> BOOLEAN]
    /\ stage \in [Conns -> {"accept", "hello", "sign", "connect", "tproxy", "dial",
                            "read", "write", "reply", "answer", "copy", "done"}]
    /\ pointer \in [Conns -> {0} \cup Certs]
    /\ chain \in [Conns -> {0} \cup Certs]
    /\ key \in [Conns -> {0} \cup Certs]
    /\ upstream \in [Conns -> {"none", "open", "closed"}]
    /\ client \in [Conns -> {"open", "closed"}]
    /\ sent \in [Conns -> 0 .. MaxSent]
    /\ forwarded \in [Conns -> 0 .. MaxSent]
    /\ replied \in [Conns -> Seq(Replies)]
    /\ reply \in [Conns -> {"none"} \cup Replies]
    /\ received \in [Conns -> Seq(Replies)]
    /\ gone \in [Conns -> SUBSET {"client", "upstream"}]
    /\ refused \in [Conns -> BOOLEAN]

Done(c) == stage[c] = "done"

\* mTLS enforcement (README.md:56-58): the app receives nothing of a client from
\* outside the pod that has no certificate of the CA, on no path of the handlers.
OnlyVerifiedClients ==
    \A c \in Conns : kind[c] \in TLSKinds /\ ~credential[c] => forwarded[c] = 0

\* "Atomic swap of tls.Certificate without connection drops" (README.md:64): a
\* handshake that a rotation overtakes uses the chain and the key of one
\* certificate.
AtomicSwap == \A c \in Conns : key[c] # 0 => key[c] = chain[c]

\* A connection of the redirect mode whose client is admitted and whose peers and
\* dials do their part is over only when its request has reached the upstream, and
\* the upstream's first reply the client (it need not be the final one: an interim
\* reply is relayed in its place).
RequestServed ==
    \A c \in Conns :
        kind[c] # "tproxy" /\ Done(c) /\ ~refused[c]
            => forwarded[c] > 0 /\ received[c] # << >>

\* The same is said of the TPROXY mode: README.md:7, "request forwarding", and
\* proxy.go:656, "forwarding to local app (mTLS)".
TProxyForwards ==
    \A c \in Conns :
        kind[c] = "tproxy" /\ Done(c) /\ ~refused[c] => forwarded[c] > 0

\* The handler is with its client, or it will be: of the outbound ones, one that
\* has its upstream.
HearsClient(c) ==
    kind[c] = "outbound" => stage[c] \notin {"accept", "hello", "connect", "sign"}

\* A handler ends when both peers have left it, wherever that finds it, or the
\* client before it has sent a request, if the handler hears of that.  (It does
\* not in tls.Dial: a remote that stays silent in the handshake keeps the handler
\* of a client that has long left.  When only the client leaves later, the handler
\* waits for the upstream, again without a deadline.)
HandlerEnds ==
    \A c \in Conns :
        \/ gone[c] = {"client", "upstream"}
        \/ "client" \in gone[c] /\ sent[c] = 0 /\ HearsClient(c)
            ~> Done(c)

=============================================================================
