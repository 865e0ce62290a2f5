------------------------ MODULE IdentityIssuanceProofs ------------------------
(***************************************************************************)
(* Proofs about IdentityIssuance, for any number of calls, threads,         *)
(* accounts and pods.                                                       *)
(***************************************************************************)
EXTENDS IdentityIssuance, TLAPS

\* A call is refused or fails: only its phase, its status and the thread it
\* blocked change.
Refused(c) ==
    /\ phase' = [phase EXCEPT ![c] = "closed"]
    /\ \E s \in Statuses : status' = [status EXCEPT ![c] = s]
    /\ \/ thread' = thread
       \/ thread' = [thread EXCEPT ![c] = None]
    /\ \/ vault' = vault
       \/ vault' = [vault EXCEPT ![c] = NoCertificate]
    /\ UNCHANGED <<request, context, mdc, answer, authenticated>>

LEMMA RefusedSteps ==
  ASSUME NEW c \in Calls,
         \/ \E t \in Threads : \/ MissingToken(c, t) \/ InvalidToken(c, t)
                              \/ ValidationError(c, t) \/ SpoofingAttempt(c, t)
                              \/ NullIdentity(c, t)
         \/ IssuanceFailed(c)
  PROVE  Refused(c)
  BY DEF MissingToken, InvalidToken, ValidationError, SpoofingAttempt,
     NullIdentity, IssuanceFailed, Refused, Close, Statuses

LEMMA AccountIsNotNone == ASSUME NEW a \in Accounts PROVE a # None
  BY NamesAssumption

\* The kinds of step a proof has to look at.
LEMMA Steps ==
  ASSUME [Next]_vars
  PROVE  \/ UNCHANGED vars
         \/ \E c \in Calls :
              \/ Start(c) \/ Refused(c) \/ CertificateIssued(c)
              \/ \E t \in Threads : Authorized(c, t) \/ IssueCertificate(c, t)
  BY RefusedSteps DEF Next, Intercept, GetCertificate, VaultAnswers

\* The token of an accepted call names an account.
LEMMA GoodToken ==
  ASSUME NEW r \in Requests \cup {NoRequest}, r.token.status = "good"
  PROVE  r.token.sa \in Accounts /\ r.token.pod \in Pods \cup {None} /\ r.service \in Accounts
  <1>1. r.token \in GoodTokens /\ r.service \in Accounts
    BY DEF Requests, NoRequest, BadTokens
  <1>2. PICK w \in Workloads : r.token = [status |-> "good", sa |-> w.sa, pod |-> w.pod]
    BY <1>1 DEF GoodTokens
  <1>3. w.sa \in Accounts /\ w.pod \in Pods \cup {None}
    BY WorkloadsAssumption
  <1>4. QED
    BY <1>1, <1>2, <1>3

\* The last segment of an account's id is a name.
LEMMA AccountHasName ==
  ASSUME NEW a \in Accounts
  PROVE  GetServiceAccountName(a) \in Names
  BY AccountsAssumption DEF GetServiceAccountName

-----------------------------------------------------------------------------

\* Every variable keeps its type; in particular no certificate is requested
\* without an alternative name.
THEOREM TypeCorrect == Spec => []TypeOK
  <1>1. Init => TypeOK
    BY DEF Init, TypeOK
  <1>2. TypeOK /\ [Next]_vars => TypeOK'
    <2> SUFFICES ASSUME TypeOK, [Next]_vars
                 PROVE  TypeOK'
      OBVIOUS
    <2>1. CASE UNCHANGED vars
      BY <2>1 DEF vars, TypeOK
    <2>2. ASSUME NEW c \in Calls, Start(c)
          PROVE  TypeOK'
      BY <2>2 DEF Start, TypeOK
    <2>3. ASSUME NEW c \in Calls, NEW t \in Threads, Authorized(c, t)
          PROVE  TypeOK'
      <3>1. /\ request[c].token.sa \in Accounts
            /\ request[c].token.pod \in Pods \cup {None}
        BY <2>3, GoodToken DEF Authorized, TypeOK
      <3>2. QED
        BY <2>3, <3>1 DEF Authorized, TypeOK, Contexts
    <2>4. ASSUME NEW c \in Calls, NEW t \in Threads, IssueCertificate(c, t)
          PROVE  TypeOK'
      <3>1. GetServiceAccountName(request[c].service) \in Names
        <4>1. request[c].service \in Accounts
          BY <2>4, NamesAssumption DEF IssueCertificate, IsCaller, TypeOK, Contexts, NoContext
        <4>2. QED
          BY <4>1, AccountHasName
      <3>2. mdc[t] \in Accounts
        BY <2>4 DEF IssueCertificate, TypeOK
      <3>3. context[c].podUid \in Pods \cup {None}
        BY DEF TypeOK, Contexts, NoContext
      <3>4. QED
        BY <2>4, <3>1, <3>2, <3>3 DEF IssueCertificate, TypeOK, Certificates
    <2>5. ASSUME NEW c \in Calls, CertificateIssued(c)
          PROVE  TypeOK'
      BY <2>5 DEF CertificateIssued, Close, TypeOK, Statuses
    <2>6. ASSUME NEW c \in Calls, Refused(c)
          PROVE  TypeOK'
      BY <2>6 DEF Refused, TypeOK
    <2>7. QED
      BY <2>1, <2>2, <2>3, <2>4, <2>5, <2>6, Steps
  <1>3. QED
    BY <1>1, <1>2, PTL DEF Spec

-----------------------------------------------------------------------------

\* The call c carries the identity of its own accepted token.
CarriesCaller(c) ==
    /\ request[c].token.status = "good"
    /\ context[c].identity = request[c].token.sa
    /\ context[c].podUid = request[c].token.pod

\* A certificate for the caller of c.
ForCaller(c, cert) ==
    /\ request[c].token.status = "good"
    /\ request[c].service = request[c].token.sa
    /\ cert.cn = GetServiceAccountName(request[c].token.sa)
    /\ cert.podUid = request[c].token.pod
    /\ cert.san \in authenticated

\* A call has a status from the step that closes it on.
StatusInv(c) ==
    /\ phase[c] = "closed" => status[c] # None
    /\ phase[c] # "closed" => status[c] = None

CallInv(c) ==
    /\ StatusInv(c)
    /\ phase[c] \in {"ready", "issuing"} => CarriesCaller(c) /\ ~Answered(c)
    /\ phase[c] = "issuing" => ForCaller(c, vault[c])
    /\ phase[c] \in {"idle", "started"} => ~Answered(c)
    /\ Answered(c) => ForCaller(c, answer[c])

\* What a thread remembers comes from an accepted token.
MdcInv == \A t \in Threads : mdc[t] # None => mdc[t] \in authenticated

IssuanceInv == MdcInv /\ \A c \in Calls : CallInv(c)

LEMMA IssuanceInvInit == Init => IssuanceInv
  BY DEF Init, IssuanceInv, MdcInv, CallInv, StatusInv, Answered

LEMMA IssuanceInvStep ==
  ASSUME TypeOK, IssuanceInv, [Next]_vars
  PROVE  IssuanceInv'
  <1> USE DEF IssuanceInv, MdcInv, CallInv, StatusInv, CarriesCaller, ForCaller, Answered
  <1>a. None \notin Statuses
    BY NamesAssumption
  <1>1. CASE UNCHANGED vars
    BY <1>1 DEF vars
  <1>2. ASSUME NEW c \in Calls, Start(c)
        PROVE  IssuanceInv'
    BY <1>2 DEF Start, TypeOK
  <1>3. ASSUME NEW c \in Calls, NEW t \in Threads, Authorized(c, t)
        PROVE  IssuanceInv'
    BY <1>3 DEF Authorized, Intercepting, TypeOK
  <1>4. ASSUME NEW c \in Calls, NEW t \in Threads, IssueCertificate(c, t)
        PROVE  IssuanceInv'
    BY <1>4 DEF IssueCertificate, Handling, IsCaller, TypeOK
  <1>5. ASSUME NEW c \in Calls, CertificateIssued(c)
        PROVE  IssuanceInv'
    BY <1>a, <1>5 DEF CertificateIssued, Close, TypeOK, Statuses
  <1>6. ASSUME NEW c \in Calls, Refused(c)
        PROVE  IssuanceInv'
    BY <1>a, <1>6 DEF Refused, TypeOK
  <1>7. QED
    BY <1>1, <1>2, <1>3, <1>4, <1>5, <1>6, Steps

LEMMA IssuanceInvariant == Spec => []IssuanceInv
  <1>1. TypeOK /\ IssuanceInv /\ [Next]_vars => IssuanceInv'
    BY IssuanceInvStep
  <1>2. QED
    BY <1>1, IssuanceInvInit, TypeCorrect, PTL DEF Spec

\* A certificate goes only to a caller whose token was accepted and who asked
\* for its own SPIFFE id, with the last segment of that id as common name and
\* with its pod uid, however the tasks of the calls share the threads.
THEOREM CertificateBinding == Spec => []CertificateIsCallers
  <1>1. IssuanceInv => CertificateIsCallers
    BY DEF IssuanceInv, CallInv, ForCaller, CertificateIsCallers
  <1>2. QED
    BY <1>1, IssuanceInvariant, PTL

\* The alternative name of a certificate is always the account of an accepted
\* token, of this call or of another.
THEOREM SanAuthenticity == Spec => []SanWasAuthenticated
  <1>1. IssuanceInv => SanWasAuthenticated
    BY DEF IssuanceInv, CallInv, ForCaller, SanWasAuthenticated
  <1>2. QED
    BY <1>1, IssuanceInvariant, PTL

-----------------------------------------------------------------------------

\* The interceptor and the service keep the promise of an issuer.
THEOREM Refinement == Spec => ImplementsIssuer
  <1>1. Init => Promise!Init
    BY DEF Init, Promise!Init, Caller, NoRequest
  <1>2. TypeOK /\ IssuanceInv /\ [Next]_vars => [Promise!Next]_(Promise!vars)
    <2> SUFFICES ASSUME TypeOK, IssuanceInv, [Next]_vars
                 PROVE  [Promise!Next]_(Promise!vars)
      OBVIOUS
    <2> DEFINE asked == [c \in Calls |-> Caller(request[c])]
               out == [c \in Calls |->
                         IF phase[c] = "idle" THEN "idle"
                         ELSE IF status[c] = None THEN "pending"
                         ELSE IF Answered(c) THEN answer[c].cn ELSE "refused"]
    <2>a. ASSUME request' = request, out' = out
          PROVE  [Promise!Next]_(Promise!vars)
      BY <2>a DEF Promise!vars
    <2>b. ASSUME NEW c \in Calls, phase[c] \in {"started", "ready"},
                 phase' = [phase EXCEPT ![c] = "ready"] \/ phase' = [phase EXCEPT ![c] = "issuing"],
                 UNCHANGED <<request, status, answer>>
          PROVE  [Promise!Next]_(Promise!vars)
      <3>1. out' = out
        BY <2>b DEF TypeOK, Answered
      <3>2. QED
        BY <2>a, <2>b, <3>1
    <2>1. CASE UNCHANGED vars
      BY <2>1, <2>a DEF vars, Answered
    <2>2. ASSUME NEW c \in Calls, Start(c)
          PROVE  [Promise!Next]_(Promise!vars)
      <3>1. out[c] # "pending"
        <4>1. ASSUME Answered(c)
              PROVE  answer[c].cn \in Names
          BY <4>1, GoodToken, AccountHasName DEF IssuanceInv, CallInv, ForCaller, TypeOK
        <4>2. phase[c] # "idle" => status[c] # None
          BY <2>2 DEF Start, IssuanceInv, CallInv, StatusInv
        <4>3. QED
          BY <4>1, <4>2, NamesAssumption
      <3>2. out' = [out EXCEPT ![c] = "pending"]
        BY <2>2 DEF Start, TypeOK, Answered
      <3>3. \E n \in Accounts \cup {None} : asked' = [asked EXCEPT ![c] = n]
        <4>1. PICK r \in Requests : request' = [request EXCEPT ![c] = r]
          BY <2>2 DEF Start
        <4>2. Caller(r) \in Accounts \cup {None}
          BY GoodToken DEF Caller
        <4>3. asked' = [asked EXCEPT ![c] = Caller(r)]
          BY <4>1 DEF TypeOK
        <4>4. QED
          BY <4>2, <4>3
      <3>4. Promise!Ask(c)
        BY <3>1, <3>2, <3>3 DEF Promise!Ask
      <3>5. QED
        BY <3>4 DEF Promise!Next
    <2>3. ASSUME NEW c \in Calls, Refused(c),
                 phase[c] \in {"started", "ready", "issuing"}
          PROVE  [Promise!Next]_(Promise!vars)
      <3>1. ~Answered(c) /\ status[c] = None
        BY <2>3 DEF IssuanceInv, CallInv, StatusInv
      <3>2. out' = [out EXCEPT ![c] = "refused"]
        <4>1. /\ phase' = [phase EXCEPT ![c] = "closed"]
              /\ UNCHANGED <<request, answer>>
          BY <2>3 DEF Refused
        <4>2. status'[c] # None /\ \A d \in Calls \ {c} : status'[d] = status[d]
          BY <2>3, NamesAssumption DEF Refused, TypeOK
        <4>3. QED
          BY <3>1, <4>1, <4>2 DEF TypeOK, Answered
      <3>3. asked' = asked /\ out[c] = "pending"
        BY <2>3, <3>1 DEF Refused
      <3>4. Promise!Refuse(c)
        BY <3>2, <3>3 DEF Promise!Refuse
      <3>5. QED
        BY <3>4 DEF Promise!Next
    <2>4. ASSUME NEW c \in Calls, NEW t \in Threads, Authorized(c, t) \/ IssueCertificate(c, t)
          PROVE  [Promise!Next]_(Promise!vars)
      BY <2>4, <2>b DEF Authorized, Intercepting, IssueCertificate, Handling
    <2>5. ASSUME NEW c \in Calls, CertificateIssued(c)
          PROVE  [Promise!Next]_(Promise!vars)
      <3> DEFINE cn == GetServiceAccountName(request[c].token.sa)
      <3>1. /\ phase[c] = "issuing" /\ status[c] = None
            /\ request[c].token.status = "good"
            /\ vault[c].cn = cn
        BY <2>5 DEF CertificateIssued, IssuanceInv, CallInv, StatusInv, ForCaller
      <3>2. request[c].token.sa \in Accounts /\ cn \in Names
        BY <3>1, GoodToken, AccountHasName DEF TypeOK
      <3>3. /\ answer' = [answer EXCEPT ![c] = vault[c]]
            /\ phase' = [phase EXCEPT ![c] = "closed"]
            /\ status' = [status EXCEPT ![c] = "OK"]
            /\ request' = request
        BY <2>5 DEF CertificateIssued, Close
      <3>4. vault[c] # NoCertificate /\ "OK" # None
        BY <3>1, <3>2, NamesAssumption DEF NoCertificate, Statuses
      <3> HIDE DEF cn
      <3>5. out' = [out EXCEPT ![c] = cn]
        BY <3>1, <3>3, <3>4 DEF TypeOK, Answered
      <3>6. /\ asked' = asked
            /\ asked[c] = request[c].token.sa
            /\ asked[c] # None
            /\ out[c] = "pending"
        BY <3>1, <3>2, <3>3, NamesAssumption DEF Caller
      <3>7. [a \in Accounts |-> GetServiceAccountName(a)][asked[c]] = cn
        BY <3>2, <3>6 DEF cn
      <3>8. Promise!Certify(c)
        BY <3>5, <3>6, <3>7 DEF Promise!Certify
      <3>9. QED
        BY <3>8 DEF Promise!Next
    <2>6. ASSUME NEW c \in Calls,
                 \/ \E t \in Threads : \/ MissingToken(c, t) \/ InvalidToken(c, t)
                                       \/ ValidationError(c, t) \/ SpoofingAttempt(c, t)
                                       \/ NullIdentity(c, t)
                 \/ IssuanceFailed(c)
          PROVE  phase[c] \in {"started", "ready", "issuing"}
      BY <2>6 DEF MissingToken, InvalidToken, ValidationError, SpoofingAttempt,
         NullIdentity, IssuanceFailed, Intercepting, Handling
    <2>7. QED
      BY <2>1, <2>2, <2>3, <2>4, <2>5, <2>6, RefusedSteps
         DEF Next, Intercept, GetCertificate, VaultAnswers
  <1>3. QED
    BY <1>1, <1>2, IssuanceInvariant, TypeCorrect, PTL DEF Spec, ImplementsIssuer, Promise!Spec

=============================================================================
