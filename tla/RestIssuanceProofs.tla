--------------------------- MODULE RestIssuanceProofs ---------------------------
(***************************************************************************)
(* Proofs about RestIssuance, for any number of requests, threads and       *)
(* accounts.                                                                *)
(***************************************************************************)
EXTENDS RestIssuance, TLAPS

\* A request is answered without a certificate by the controller.
Responded(c) ==
    /\ phase[c] \in {"handling", "issuing"}
    /\ phase' = [phase EXCEPT ![c] = "completing"]
    /\ \E s \in Statuses : status' = [status EXCEPT ![c] = s]
    /\ UNCHANGED <<request, verified, unnamed, thread, mdc, vault, answer>>

LEMMA RespondedSteps ==
  ASSUME NEW c \in Calls, BadRequest(c) \/ SpoofingAttempt(c) \/ IssuanceFailed(c)
  PROVE  Responded(c)
  BY DEF BadRequest, SpoofingAttempt, IssuanceFailed, Responded, Respond, Goto, Statuses

\* The name is found: the caller's, or none, or "unknown".
NameFound(c) ==
    /\ phase[c] = "naming"
    /\ request[c].token.status = "good"
    /\ \E n \in Names \cup {None} :
          /\ verified' = [verified EXCEPT ![c] = n]
          /\ mdc' = [mdc EXCEPT ![thread[c]] = n]
          /\ \/ n = request[c].token.sa /\ unnamed' = unnamed
             \/ n \in {None, Unknown} /\ unnamed' = [unnamed EXCEPT ![c] = TRUE]
    /\ phase' = [phase EXCEPT ![c] = "handling"]
    /\ UNCHANGED <<request, thread, vault, status, answer>>

\* The token of an accepted request names an account.
LEMMA GoodToken ==
  ASSUME NEW r \in Requests, r.token.status = "good"
  PROVE  r.token.sa \in Accounts
  BY DEF Requests, Tokens

LEMMA NameIsNotNone == None \notin Names /\ NoRequest \in Requests
  BY NamesAssumption DEF Names, NoRequest, Requests, Tokens

-----------------------------------------------------------------------------

\* The phases in which a request occupies a thread.
Serving == {"validating", "naming", "handling", "issuing", "completing"}

\* A thread serves one request, and only in these phases.
ThreadInv ==
    /\ \A c \in Calls : phase[c] \in Serving <=> thread[c] \in Threads
    /\ \A c, d \in Calls : thread[c] \in Threads /\ thread[c] = thread[d] => c = d

\* The entry of a thread is that of its request from preHandle on.
MdcInv ==
    /\ \A t \in Threads : Free(t) => mdc[t] = None
    /\ \A c \in Calls :
          /\ phase[c] \in {"validating", "naming"} => mdc[thread[c]] = None
          /\ phase[c] \in {"handling", "issuing", "completing"} =>
                mdc[thread[c]] = verified[c]

\* What is known about the caller of a request, phase by phase.
CallerInv(c) ==
    /\ phase[c] \in {"arrived", "validating", "naming"} => ~unnamed[c]
    /\ phase[c] \in {"naming", "handling", "issuing", "completing"} =>
          request[c].token.status = "good"
    /\ phase[c] \in {"handling", "issuing", "completing"} =>
          IF unnamed[c] THEN verified[c] \in {None, Unknown}
          ELSE verified[c] = request[c].token.sa

\* A certificate under way, and one that is answered, name the caller.
CertInv(c) ==
    /\ phase[c] = "issuing" =>
          verified[c] # None /\ vault[c] = [cn |-> verified[c], san |-> verified[c]]
    /\ Answered(c) =>
          /\ request[c].token.status = "good"
          /\ answer[c].cn = answer[c].san
          /\ answer[c].cn = IF unnamed[c] THEN Unknown ELSE request[c].token.sa

\* A request has a status exactly when it is answered.
StatusInv(c) ==
    /\ phase[c] \in {"completing", "closed"} <=> status[c] # None
    /\ Answered(c) => phase[c] \in {"completing", "closed"}

RestInv ==
    /\ ThreadInv
    /\ MdcInv
    /\ \A c \in Calls : CallerInv(c) /\ CertInv(c) /\ StatusInv(c)

-----------------------------------------------------------------------------

\* The kinds of step a proof has to look at.
LEMMA Steps ==
  ASSUME TypeOK, RestInv, [Next]_vars
  PROVE  \/ UNCHANGED vars
         \/ \E c \in Calls :
              \/ Arrive(c) \/ InvalidToken(c) \/ Validate(c) \/ NameFound(c)
              \/ Responded(c) \/ IssueCertificate(c) \/ CertificateIssued(c)
              \/ AfterCompletion(c)
              \/ \E t \in Threads : Begin(c, t)
  <1>1. ASSUME NEW c \in Calls, GetServiceAccountName(c) \/ GetServiceAccountNameErr(c)
        PROVE  NameFound(c)
    <2>1. phase[c] = "naming" /\ request[c].token.status = "good"
      BY <1>1 DEF GetServiceAccountName, GetServiceAccountNameErr, RestInv, CallerInv
    <2>2. request[c].token.sa \in Accounts
      BY <2>1, GoodToken DEF TypeOK
    <2>3. CASE GetServiceAccountName(c)
      BY <2>1, <2>2, <2>3 DEF GetServiceAccountName, Named, Goto, NameFound, Names
    <2>4. CASE GetServiceAccountNameErr(c)
      <3>1. PICK n \in {None, Unknown} : Named(c, n)
        BY <2>4 DEF GetServiceAccountNameErr
      <3>2. n \in Names \cup {None}
        BY DEF Names
      <3>3. QED
        BY <2>1, <2>4, <3>1, <3>2 DEF GetServiceAccountNameErr, Named, Goto, NameFound
    <2>5. QED
      BY <1>1, <2>3, <2>4
  <1>2. QED
    BY <1>1, RespondedSteps DEF Next, Serve, PreHandle, IssueIdentity, VaultAnswers

LEMMA InitOK == Init => TypeOK /\ RestInv
  <1>1. Init => TypeOK
    BY NameIsNotNone DEF Init, TypeOK
  <1>2. Init => RestInv
    BY NamesAssumption DEF Init, RestInv, ThreadInv, MdcInv, CallerInv, CertInv,
       StatusInv, Answered, Serving
  <1>3. QED
    BY <1>1, <1>2

\* A certificate that is written for a caller has names.
LEMMA IssueTyped ==
  ASSUME TypeOK, RestInv, NEW c \in Calls, IssueCertificate(c)
  PROVE  /\ mdc[thread[c]] = verified[c]
         /\ verified[c] # None
         /\ request[c].service = verified[c]
         /\ verified[c] \in Names
  BY DEF IssueCertificate, IsCaller, RestInv, MdcInv, TypeOK

LEMMA TypeStep ==
  ASSUME TypeOK, RestInv, [Next]_vars
  PROVE  TypeOK'
  <1> USE DEF TypeOK, Goto
  <1>1. CASE UNCHANGED vars
    BY <1>1 DEF vars
  <1>2. ASSUME NEW c \in Calls, Arrive(c)
        PROVE  TypeOK'
    BY <1>2 DEF Arrive
  <1>3. ASSUME NEW c \in Calls, InvalidToken(c)
        PROVE  TypeOK'
    BY <1>3 DEF InvalidToken, Unauthorized, Statuses
  <1>4. ASSUME NEW c \in Calls, Validate(c)
        PROVE  TypeOK'
    BY <1>4 DEF Validate
  <1>5. ASSUME NEW c \in Calls, NameFound(c)
        PROVE  TypeOK'
    <2>1. PICK n \in Names \cup {None} :
            /\ verified' = [verified EXCEPT ![c] = n]
            /\ mdc' = [mdc EXCEPT ![thread[c]] = n]
            /\ unnamed' = unnamed \/ unnamed' = [unnamed EXCEPT ![c] = TRUE]
      BY <1>5 DEF NameFound
    <2>2. /\ verified' \in [Calls -> Names \cup {None}]
          /\ mdc' \in [Threads -> Names \cup {None}]
          /\ unnamed' \in [Calls -> BOOLEAN]
      BY <2>1
    <2>3. QED
      BY <1>5, <2>2 DEF NameFound
  <1>6. ASSUME NEW c \in Calls, Responded(c)
        PROVE  TypeOK'
    BY <1>6 DEF Responded
  <1>7. ASSUME NEW c \in Calls, IssueCertificate(c)
        PROVE  TypeOK'
    BY <1>7, IssueTyped DEF IssueCertificate, Certificates
  <1>8. ASSUME NEW c \in Calls, CertificateIssued(c)
        PROVE  TypeOK'
    BY <1>8 DEF CertificateIssued, Respond, Statuses
  <1>9. ASSUME NEW c \in Calls, AfterCompletion(c)
        PROVE  TypeOK'
    BY <1>9 DEF AfterCompletion
  <1>10. ASSUME NEW c \in Calls, NEW t \in Threads, Begin(c, t)
         PROVE  TypeOK'
    BY <1>10 DEF Begin
  <1>11. QED
    BY <1>1, <1>2, <1>3, <1>4, <1>5, <1>6, <1>7, <1>8, <1>9, <1>10, Steps

-----------------------------------------------------------------------------

LEMMA ThreadStep ==
  ASSUME TypeOK, RestInv, [Next]_vars
  PROVE  ThreadInv' /\ MdcInv'
  <1> USE DEF RestInv, ThreadInv, MdcInv, Serving, Free, TypeOK, Goto
  <1>a. None \notin Threads
    BY NamesAssumption
  <1>1. CASE UNCHANGED vars
    BY <1>1 DEF vars
  <1>2. ASSUME NEW c \in Calls, Arrive(c)
        PROVE  ThreadInv' /\ MdcInv'
    BY <1>2 DEF Arrive
  <1>3. ASSUME NEW c \in Calls, InvalidToken(c)
        PROVE  ThreadInv' /\ MdcInv'
    BY <1>a, <1>3 DEF InvalidToken, Unauthorized
  <1>4. ASSUME NEW c \in Calls, Validate(c)
        PROVE  ThreadInv' /\ MdcInv'
    BY <1>4 DEF Validate
  <1>5. ASSUME NEW c \in Calls, NameFound(c)
        PROVE  ThreadInv' /\ MdcInv'
    BY <1>5 DEF NameFound
  <1>6. ASSUME NEW c \in Calls, Responded(c)
        PROVE  ThreadInv' /\ MdcInv'
    BY <1>6 DEF Responded
  <1>7. ASSUME NEW c \in Calls, IssueCertificate(c)
        PROVE  ThreadInv' /\ MdcInv'
    BY <1>7 DEF IssueCertificate
  <1>8. ASSUME NEW c \in Calls, CertificateIssued(c)
        PROVE  ThreadInv' /\ MdcInv'
    BY <1>8 DEF CertificateIssued, Respond
  <1>9. ASSUME NEW c \in Calls, AfterCompletion(c)
        PROVE  ThreadInv' /\ MdcInv'
    BY <1>a, <1>9 DEF AfterCompletion
  <1>10. ASSUME NEW c \in Calls, NEW t \in Threads, Begin(c, t)
         PROVE  ThreadInv' /\ MdcInv'
    BY <1>a, <1>10 DEF Begin
  <1>11. QED
    BY <1>1, <1>2, <1>3, <1>4, <1>5, <1>6, <1>7, <1>8, <1>9, <1>10, Steps

CallInv(c) == CallerInv(c) /\ CertInv(c) /\ StatusInv(c)

LEMMA CallStep ==
  ASSUME TypeOK, RestInv, [Next]_vars
  PROVE  \A d \in Calls : CallInv(d)'
  <1> USE DEF CallInv, CallerInv, CertInv, StatusInv, Answered, TypeOK, Goto
  <1>a. /\ \A d \in Calls : CallInv(d)
        /\ None \notin Statuses
    BY NamesAssumption DEF RestInv, Statuses
  <1>1. CASE UNCHANGED vars
    BY <1>1, <1>a DEF vars
  <1>2. ASSUME NEW c \in Calls, Arrive(c)
        PROVE  \A d \in Calls : CallInv(d)'
    BY <1>2, <1>a DEF Arrive
  <1>3. ASSUME NEW c \in Calls, InvalidToken(c)
        PROVE  \A d \in Calls : CallInv(d)'
    BY <1>3, <1>a DEF InvalidToken, Unauthorized, Statuses
  <1>4. ASSUME NEW c \in Calls, Validate(c)
        PROVE  \A d \in Calls : CallInv(d)'
    BY <1>4, <1>a DEF Validate
  <1>5. ASSUME NEW c \in Calls, NameFound(c)
        PROVE  \A d \in Calls : CallInv(d)'
    BY <1>5, <1>a DEF NameFound
  <1>6. ASSUME NEW c \in Calls, Responded(c)
        PROVE  \A d \in Calls : CallInv(d)'
    BY <1>6, <1>a DEF Responded
  <1>7. ASSUME NEW c \in Calls, IssueCertificate(c)
        PROVE  \A d \in Calls : CallInv(d)'
    <2>1. /\ vault' = [vault EXCEPT ![c] = [cn |-> verified[c], san |-> verified[c]]]
          /\ verified[c] # None
          /\ phase[c] = "handling"
          /\ phase' = [phase EXCEPT ![c] = "issuing"]
          /\ UNCHANGED <<request, verified, unnamed, status, answer>>
      BY <1>7, IssueTyped DEF IssueCertificate
    <2>2. ASSUME NEW d \in Calls
          PROVE  CallInv(d)'
      BY <1>a, <2>1
    <2>3. QED
      BY <2>2
  <1>8. ASSUME NEW c \in Calls, CertificateIssued(c)
        PROVE  \A d \in Calls : CallInv(d)'
    BY <1>8, <1>a DEF CertificateIssued, Respond, Statuses
  <1>9. ASSUME NEW c \in Calls, AfterCompletion(c)
        PROVE  \A d \in Calls : CallInv(d)'
    BY <1>9, <1>a DEF AfterCompletion
  <1>10. ASSUME NEW c \in Calls, NEW t \in Threads, Begin(c, t)
         PROVE  \A d \in Calls : CallInv(d)'
    BY <1>10, <1>a DEF Begin
  <1>11. QED
    BY <1>1, <1>2, <1>3, <1>4, <1>5, <1>6, <1>7, <1>8, <1>9, <1>10, Steps

LEMMA Invariant == Spec => [](TypeOK /\ RestInv)
  <1>1. TypeOK /\ RestInv /\ [Next]_vars => (TypeOK /\ RestInv)'
    BY TypeStep, ThreadStep, CallStep DEF RestInv, CallInv
  <1>2. QED
    BY <1>1, InitOK, PTL DEF Spec

\* Every variable keeps its type; in particular Vault is never asked for a
\* certificate without a name.
THEOREM TypeCorrect == Spec => []TypeOK
  BY Invariant, PTL

\* A certificate has one name: the caller's, or "unknown" where the second
\* review of an accepted token has failed.
THEOREM CertificateBinding == Spec => []CertificateIsCallers
  <1>1. RestInv => CertificateIsCallers
    BY DEF RestInv, CertInv, CertificateIsCallers
  <1>2. QED
    BY <1>1, Invariant, PTL

\* The logging context of a thread is that of the request it serves.
THEOREM ContextIsolation == Spec => []ContextStaysWithRequest
  <1>1. TypeOK /\ RestInv => ContextStaysWithRequest
    BY NamesAssumption DEF TypeOK, RestInv, ThreadInv, MdcInv, Serving, ContextStaysWithRequest
  <1>2. QED
    BY <1>1, Invariant, PTL

-----------------------------------------------------------------------------

\* The controller and its interceptor keep the promise of an issuer.
THEOREM Refinement == Spec => ImplementsIssuer
  <1>1. Init => Promise!Init
    BY DEF Init, Promise!Init, Caller, NoRequest
  <1>2. TypeOK /\ RestInv /\ [Next]_vars => [Promise!Next]_(Promise!vars)
    <2> SUFFICES ASSUME TypeOK, RestInv, [Next]_vars
                 PROVE  [Promise!Next]_(Promise!vars)
      OBVIOUS
    <2> DEFINE asked == [c \in Calls |-> Caller(request[c])]
               out == [c \in Calls |->
                         IF phase[c] = "idle" THEN "idle"
                         ELSE IF status[c] = None THEN "pending"
                         ELSE IF Answered(c) THEN answer[c].cn ELSE "refused"]
    <2>a. ASSUME \A d \in Calls : request'[d] = request[d] /\ out'[d] = out[d]
          PROVE  [Promise!Next]_(Promise!vars)
      <3>1. out' = out
        BY <2>a
      <3>2. asked' = asked
        BY <2>a
      <3>3. QED
        BY <3>1, <3>2 DEF Promise!vars
    <2>1. CASE UNCHANGED vars
      BY <2>1, <2>a DEF vars, Answered
    <2>2. ASSUME NEW c \in Calls, Arrive(c)
          PROVE  [Promise!Next]_(Promise!vars)
      <3>1. out[c] # "pending"
        <4>1. CASE phase[c] = "idle"
          BY <4>1
        <4>2. CASE phase[c] = "closed" /\ ~Answered(c)
          BY <4>2 DEF RestInv, StatusInv
        <4>3. CASE phase[c] = "closed" /\ Answered(c)
          <5>1. answer[c].cn \in Accounts \cup {Unknown}
            BY <4>3, GoodToken DEF RestInv, CertInv, TypeOK
          <5>2. out[c] = answer[c].cn
            BY <4>3 DEF RestInv, StatusInv
          <5>3. QED
            BY <5>1, <5>2, NamesAssumption
        <4>4. QED
          BY <2>2, <4>1, <4>2, <4>3 DEF Arrive
      <3>2. out' = [out EXCEPT ![c] = "pending"]
        BY <2>2 DEF Arrive, Goto, TypeOK, Answered
      <3>3. \E n \in Accounts \cup {None} : asked' = [asked EXCEPT ![c] = n]
        <4>1. PICK r \in Requests : request' = [request EXCEPT ![c] = r]
          BY <2>2 DEF Arrive
        <4>2. Caller(r) \in Accounts \cup {None}
          BY GoodToken DEF Caller
        <4>3. asked' = [asked EXCEPT ![c] = Caller(r)]
          BY <4>1 DEF TypeOK
        <4>4. QED
          BY <4>2, <4>3
      <3>4. Promise!Ask(c)
        BY <3>1, <3>2, <3>3 DEF Promise!Ask
      <3>5. QED
        BY <3>4 DEF Promise!Next
    <2>b. ASSUME NEW c \in Calls, phase[c] # "idle", status[c] = None
          PROVE  out[c] = "pending"
      BY <2>b
    <2>c. ASSUME NEW c \in Calls, phase[c] \in Serving, status[c] = None,
                 out' = [out EXCEPT ![c] = "refused"], request' = request
          PROVE  [Promise!Next]_(Promise!vars)
      <3>1. asked' = asked
        BY <2>c
      <3>2. Promise!Refuse(c)
        BY <2>b, <2>c, <3>1 DEF Promise!Refuse, Serving
      <3>3. QED
        BY <3>2 DEF Promise!Next
    <2>3. ASSUME NEW c \in Calls, InvalidToken(c)
          PROVE  [Promise!Next]_(Promise!vars)
      <3>1. phase[c] \in Serving /\ status[c] = None /\ ~Answered(c)
        BY <2>3 DEF InvalidToken, RestInv, StatusInv, Serving
      <3>2. out' = [out EXCEPT ![c] = "refused"]
        <4>1. /\ phase' = [phase EXCEPT ![c] = "closed"]
              /\ UNCHANGED <<request, answer>>
          BY <2>3 DEF InvalidToken, Unauthorized, Goto
        <4>2. status'[c] # None /\ \A d \in Calls \ {c} : status'[d] = status[d]
          BY <2>3, NamesAssumption DEF InvalidToken, Unauthorized, TypeOK, Statuses
        <4>3. QED
          BY <3>1, <4>1, <4>2 DEF TypeOK, Answered
      <3>3. QED
        BY <2>3, <2>c, <3>1, <3>2 DEF InvalidToken
    <2>4. ASSUME NEW c \in Calls, Responded(c)
          PROVE  [Promise!Next]_(Promise!vars)
      <3>1. phase[c] \in Serving /\ status[c] = None /\ ~Answered(c)
        BY <2>4 DEF Responded, RestInv, StatusInv, Serving
      <3>2. PICK s \in Statuses : status' = [status EXCEPT ![c] = s]
        BY <2>4 DEF Responded
      <3>3. s # None
        BY NamesAssumption
      <3>4. out' = [out EXCEPT ![c] = "refused"]
        <4>1. /\ phase' = [phase EXCEPT ![c] = "completing"]
              /\ UNCHANGED <<request, answer>>
          BY <2>4 DEF Responded
        <4>2. status'[c] # None /\ \A d \in Calls \ {c} : status'[d] = status[d]
          BY <3>2, <3>3 DEF TypeOK
        <4>3. QED
          BY <3>1, <4>1, <4>2 DEF TypeOK, Answered
      <3>5. QED
        BY <2>4, <2>c, <3>1, <3>4 DEF Responded
    <2>5. ASSUME NEW c \in Calls, CertificateIssued(c)
          PROVE  [Promise!Next]_(Promise!vars)
      <3>1. /\ phase[c] = "issuing" /\ status[c] = None
            /\ request[c].token.status = "good"
            /\ verified[c] # None
            /\ vault[c] = [cn |-> verified[c], san |-> verified[c]]
            /\ verified[c] \in {request[c].token.sa, Unknown}
        BY <2>5 DEF CertificateIssued, RestInv, StatusInv, CallerInv, CertInv
      <3>2. /\ answer' = [answer EXCEPT ![c] = vault[c]]
            /\ status' = [status EXCEPT ![c] = 200]
            /\ phase' = [phase EXCEPT ![c] = "completing"]
            /\ request' = request
        BY <2>5 DEF CertificateIssued, Respond, Goto
      <3>3. 200 # None
        BY NamesAssumption DEF Statuses
      <3>4. vault[c].cn = verified[c] /\ vault[c] # NoCertificate
        BY <3>1 DEF NoCertificate
      <3>5. out' = [out EXCEPT ![c] = verified[c]]
        BY <3>2, <3>3, <3>4 DEF TypeOK, Answered
      <3>6. asked' = asked /\ asked[c] = request[c].token.sa
        BY <3>1, <3>2 DEF Caller
      <3>7. asked[c] # None
        BY <3>1, <3>6, GoodToken, NamesAssumption DEF TypeOK
      <3>8. out[c] = "pending"
        BY <2>b, <3>1
      <3>9. verified[c] \in {[a \in Accounts |-> a][asked[c]]} \cup {Unknown}
        BY <3>1, <3>6, GoodToken DEF TypeOK
      <3>10. Promise!Certify(c)
        BY <3>5, <3>6, <3>7, <3>8, <3>9 DEF Promise!Certify
      <3>11. QED
        BY <3>10 DEF Promise!Next
    <2>d. ASSUME NEW c \in Calls, phase[c] # "idle",
                 NEW p \in Serving \cup {"closed"}, phase' = [phase EXCEPT ![c] = p],
                 UNCHANGED <<request, status, answer>>
          PROVE  [Promise!Next]_(Promise!vars)
      BY <2>a, <2>d DEF TypeOK, Answered, Serving
    <2>6. ASSUME NEW c \in Calls,
                 \/ Validate(c) \/ NameFound(c) \/ IssueCertificate(c)
                 \/ AfterCompletion(c) \/ \E t \in Threads : Begin(c, t)
          PROVE  [Promise!Next]_(Promise!vars)
      <3>1. /\ phase[c] # "idle"
            /\ \E p \in Serving \cup {"closed"} : phase' = [phase EXCEPT ![c] = p]
            /\ UNCHANGED <<request, status, answer>>
        BY <2>6 DEF Validate, NameFound, IssueCertificate, AfterCompletion, Begin, Goto, Serving
      <3>2. QED
        BY <2>d, <3>1
    <2>7. QED
      BY <2>1, <2>2, <2>3, <2>4, <2>5, <2>6, Steps
  <1>3. QED
    BY <1>1, <1>2, Invariant, PTL DEF Spec, ImplementsIssuer, Promise!Spec

=============================================================================
