--------------------------- MODULE IdentityIssuance ---------------------------
(***************************************************************************)
(* The gRPC certificate issuer of the control plane: GrpcServerInterceptor, *)
(* K8sTokenReviewService, GrpcIdentityContext, IdentityService and          *)
(* VaultPkiService.                                                         *)
(*                                                                         *)
(* grpc-java runs the work of a call as tasks, one at a time for a call,    *)
(* each on any free thread of its pool: interceptCall when the call starts, *)
(* getCertificate when the request message is complete.  The gRPC context   *)
(* travels with the call; the MDC is a thread local and stays with the      *)
(* thread, and nothing in this path removes an entry of it.                 *)
(***************************************************************************)
EXTENDS FiniteSets

CONSTANTS
    Calls,      \* the calls open at a time; a closed one makes room for a new one
    Threads,    \* the threads of the gRPC executor
    Namespaces, \* the namespaces of the cluster
    Names,      \* the names of service accounts, unique in a namespace only
    Accounts,   \* the service accounts of the cluster
    Pods,       \* pod uids
    Workloads,  \* what tokens are issued to: an account and its pod, or no pod
    None        \* null

Statuses == {"OK", "UNAUTHENTICATED", "PERMISSION_DENIED", "INTERNAL", "UNKNOWN"}

\* An account stands for its SPIFFE id, "spiffe://<trust domain>/ns/<namespace>
\* /sa/<name>", where the trust domain is one for all.
ASSUME AccountsAssumption == Accounts \subseteq [namespace: Namespaces, name: Names]

ASSUME WorkloadsAssumption == Workloads \subseteq [sa: Accounts, pod: Pods \cup {None}]

ASSUME NamesAssumption ==
    /\ None \notin Accounts
    /\ None \notin Names \cup Pods \cup Threads \cup Statuses
    /\ "pending" \notin Names

\* getServiceAccountName: the last segment of the id; the trust domain and the
\* namespace are cut off.
GetServiceAccountName(identity) == identity.name

\* A token as the API server and getSpiffeIdentity see it: "malformed" has a
\* payload that getSpiffeIdentity cannot read, "refused" fails the review.
GoodTokens == {[status |-> "good", sa |-> w.sa, pod |-> w.pod] : w \in Workloads}
BadTokens == [status: {"missing", "refused", "malformed"}, sa: {None}, pod: {None}]

\* The metadata's token and the message's service_name, which nothing reads in a
\* call that the interceptor closes.
Requests == [token: GoodTokens, service: Accounts] \cup [token: BadTokens, service: {None}]
NoRequest == [token |-> [status |-> "missing", sa |-> None, pod |-> None], service |-> None]

Contexts == [identity: Accounts, podUid: Pods \cup {None}]
NoContext == [identity |-> None, podUid |-> None]

Certificates == [cn: Names, san: Accounts, podUid: Pods \cup {None}]
NoCertificate == [cn |-> None, san |-> None, podUid |-> None]

VARIABLES
    phase,      \* "idle", "started", "ready", "issuing" or "closed"
    request,    \* what the caller sent
    context,    \* the gRPC context of the call
    thread,     \* the thread blocked in the call's handler, or None
    mdc,        \* MDC "serviceIdentity" of every thread
    vault,      \* the names of the write to pki/issue in progress
    status,     \* the status the call was closed with, or None
    answer,     \* the certificate the caller received, or NoCertificate
    authenticated \* history: the accounts whose tokens have been accepted

vars == <<phase, request, context, thread, mdc, vault, status, answer, authenticated>>

Free(t) == \A c \in Calls : thread[c] # t

Init ==
    /\ phase = [c \in Calls |-> "idle"]
    /\ request = [c \in Calls |-> NoRequest]
    /\ context = [c \in Calls |-> NoContext]
    /\ thread = [c \in Calls |-> None]
    /\ mdc = [t \in Threads |-> None]
    /\ vault = [c \in Calls |-> NoCertificate]
    /\ status = [c \in Calls |-> None]
    /\ answer = [c \in Calls |-> NoCertificate]
    /\ authenticated = {}

-----------------------------------------------------------------------------

\* A client opens a call.
Start(c) ==
    /\ phase[c] \in {"idle", "closed"}
    /\ \E r \in Requests : request' = [request EXCEPT ![c] = r]
    /\ phase' = [phase EXCEPT ![c] = "started"]
    /\ context' = [context EXCEPT ![c] = NoContext]
    /\ vault' = [vault EXCEPT ![c] = NoCertificate]
    /\ status' = [status EXCEPT ![c] = None]
    /\ answer' = [answer EXCEPT ![c] = NoCertificate]
    /\ UNCHANGED <<thread, mdc, authenticated>>

Close(c, s) ==
    /\ phase' = [phase EXCEPT ![c] = "closed"]
    /\ status' = [status EXCEPT ![c] = s]

(* interceptCall, on a free thread t.                                       *)

Intercepting(c, t) == phase[c] = "started" /\ Free(t)

MissingToken(c, t) ==
    /\ Intercepting(c, t)
    /\ request[c].token.status = "missing"
    /\ Close(c, "UNAUTHENTICATED")
    /\ UNCHANGED <<request, context, thread, mdc, vault, answer, authenticated>>

\* validateToken is false when the review refuses the token and when the
\* review itself fails, which it may do for any token.
InvalidToken(c, t) ==
    /\ Intercepting(c, t)
    /\ request[c].token.status # "missing"
    /\ Close(c, "UNAUTHENTICATED")
    /\ UNCHANGED <<request, context, thread, mdc, vault, answer, authenticated>>

\* The review accepts the token and getSpiffeIdentity fails on it.
ValidationError(c, t) ==
    /\ Intercepting(c, t)
    /\ request[c].token.status = "malformed"
    /\ Close(c, "UNAUTHENTICATED")
    /\ UNCHANGED <<request, context, thread, mdc, vault, answer, authenticated>>

\* Mutated form: the MDC takes the name the caller asked for.
Authorized_RequestedName(c, t) ==
    /\ Intercepting(c, t)
    /\ request[c].token.status = "good"
    /\ context' = [context EXCEPT ![c] =
         [identity |-> request[c].token.sa, podUid |-> request[c].token.pod]]
    /\ mdc' = [mdc EXCEPT ![t] = request[c].service]
    /\ authenticated' = authenticated \cup {request[c].token.sa}
    /\ phase' = [phase EXCEPT ![c] = "ready"]
    /\ UNCHANGED <<request, thread, vault, status, answer>>

\* The identity goes into the context of the call and into the MDC of the
\* thread; Contexts.interceptCall then waits for the message.
Authorized(c, t) ==
    /\ Intercepting(c, t)
    /\ request[c].token.status = "good"
    /\ context' = [context EXCEPT ![c] =
         [identity |-> request[c].token.sa, podUid |-> request[c].token.pod]]
    /\ mdc' = [mdc EXCEPT ![t] = request[c].token.sa]
    /\ authenticated' = authenticated \cup {request[c].token.sa}
    /\ phase' = [phase EXCEPT ![c] = "ready"]
    /\ UNCHANGED <<request, thread, vault, status, answer>>

(* getCertificate, on a free thread t: the one of interceptCall or another.  *)

Handling(c, t) == phase[c] = "ready" /\ Free(t)

\* Mutated form: only an absent identity is refused.
IsCaller_AnyName(c) == context[c].identity # None

\* getCertificate, line 31.
IsCaller(c) == context[c].identity # None /\ context[c].identity = request[c].service

\* Mutated form: "return" without an onError.
SpoofingAttempt_NoAnswer(c, t) ==
    /\ Handling(c, t)
    /\ ~IsCaller(c)
    /\ UNCHANGED vars

\* Mutated form: the "return" of line 34 is missing.
SpoofingAttempt_NoReturn(c, t) ==
    /\ Handling(c, t)
    /\ ~IsCaller(c)
    /\ status' = [status EXCEPT ![c] = "PERMISSION_DENIED"]
    /\ vault' = [vault EXCEPT ![c] =
         [cn |-> GetServiceAccountName(request[c].service), san |-> mdc[t],
          podUid |-> context[c].podUid]]
    /\ thread' = [thread EXCEPT ![c] = t]
    /\ phase' = [phase EXCEPT ![c] = "issuing"]
    /\ UNCHANGED <<request, context, mdc, answer, authenticated>>

\* The caller asks for a name that is not its own.
SpoofingAttempt(c, t) ==
    /\ Handling(c, t)
    /\ ~IsCaller(c)
    /\ Close(c, "PERMISSION_DENIED")
    /\ UNCHANGED <<request, context, thread, mdc, vault, answer, authenticated>>

\* Map.of throws on the null alt_names of a thread that has never intercepted
\* a call; issueCertificate is called outside the try, so the call ends with
\* the status of an unhandled exception.
NullIdentity(c, t) ==
    /\ Handling(c, t)
    /\ IsCaller(c)
    /\ mdc[t] = None
    /\ Close(c, "UNKNOWN")
    /\ UNCHANGED <<request, context, thread, mdc, vault, answer, authenticated>>

\* The write to Vault: the common name is the last segment of the requested id,
\* the alternative name the whole id in the MDC of the thread; the pod uid of the
\* answer comes from the context.
\* The thread is blocked until it returns.
IssueCertificate(c, t) ==
    /\ Handling(c, t)
    /\ IsCaller(c)
    /\ mdc[t] # None
    /\ vault' = [vault EXCEPT ![c] =
         [cn |-> GetServiceAccountName(request[c].service), san |-> mdc[t],
          podUid |-> context[c].podUid]]
    /\ thread' = [thread EXCEPT ![c] = t]
    /\ phase' = [phase EXCEPT ![c] = "issuing"]
    /\ UNCHANGED <<request, context, mdc, status, answer, authenticated>>

CertificateIssued(c) ==
    /\ phase[c] = "issuing"
    /\ answer' = [answer EXCEPT ![c] = vault[c]]
    /\ vault' = [vault EXCEPT ![c] = NoCertificate]
    /\ Close(c, "OK")
    /\ thread' = [thread EXCEPT ![c] = None]
    /\ UNCHANGED <<request, context, mdc, authenticated>>

\* Vault refuses, fails or answers without a field: null or an exception, both
\* INTERNAL.  A failure without a message throws again in the catch clause
\* (Map.of), outside the try of getCertificate.
IssuanceFailed(c) ==
    /\ phase[c] = "issuing"
    /\ \E s \in {"INTERNAL", "UNKNOWN"} : Close(c, s)
    /\ vault' = [vault EXCEPT ![c] = NoCertificate]
    /\ thread' = [thread EXCEPT ![c] = None]
    /\ UNCHANGED <<request, context, mdc, answer, authenticated>>

-----------------------------------------------------------------------------

Intercept(c, t) ==
    \/ MissingToken(c, t)
    \/ InvalidToken(c, t)
    \/ ValidationError(c, t)
    \/ Authorized(c, t)

GetCertificate(c, t) ==
    \/ SpoofingAttempt(c, t)
    \/ NullIdentity(c, t)
    \/ IssueCertificate(c, t)

VaultAnswers(c) == CertificateIssued(c) \/ IssuanceFailed(c)

Next ==
    \E c \in Calls :
        \/ Start(c)
        \/ \E t \in Threads : Intercept(c, t) \/ GetCertificate(c, t)
        \/ VaultAnswers(c)

\* The executor runs a task that waits (a cached pool: a thread is free again
\* and again), and Vault answers or the HTTP client gives up.
Fairness ==
    \A c \in Calls :
        /\ SF_vars(\E t \in Threads : Intercept(c, t))
        /\ SF_vars(\E t \in Threads : GetCertificate(c, t))
        /\ WF_vars(VaultAnswers(c))

Spec == Init /\ [][Next]_vars
FairSpec == Spec /\ Fairness

-----------------------------------------------------------------------------
(* Properties                                                               *)

TypeOK ==
    /\ phase \in [Calls -> {"idle", "started", "ready", "issuing", "closed"}]
    /\ request \in [Calls -> Requests \cup {NoRequest}]
    /\ context \in [Calls -> Contexts \cup {NoContext}]
    /\ thread \in [Calls -> Threads \cup {None}]
    /\ mdc \in [Threads -> Accounts \cup {None}]
    /\ vault \in [Calls -> Certificates \cup {NoCertificate}]
    /\ status \in [Calls -> Statuses \cup {None}]
    /\ answer \in [Calls -> Certificates \cup {NoCertificate}]
    /\ authenticated \subseteq Accounts

Answered(c) == answer[c] # NoCertificate

\* IdentityService.java:31: a certificate goes only to a caller whose token was
\* accepted and who asked for its own SPIFFE id; it has the name of the caller's
\* account and the uid of the caller's pod, whichever threads served it.  The
\* common name has lost the namespace: it does not tell the caller from an
\* account of the same name in another one, which only the SAN could do.
CertificateIsCallers ==
    \A c \in Calls : Answered(c) =>
        /\ request[c].token.status = "good"
        /\ request[c].service = request[c].token.sa
        /\ answer[c].cn = GetServiceAccountName(request[c].token.sa)
        /\ answer[c].podUid = request[c].token.pod

\* What the alternative name keeps, although it is read from the thread: it
\* is the account of some token that has been accepted, never a name taken
\* from a request.
SanWasAuthenticated ==
    \A c \in Calls : Answered(c) => answer[c].san \in authenticated

\* Every call is closed, whatever fails on the way: no caller (the data plane
\* sets no deadline) waits forever.
EveryCallIsClosed == \A c \in Calls : phase[c] = "started" ~> phase[c] = "closed"

Caller(r) == IF r.token.status = "good" THEN r.token.sa ELSE None

Promise == INSTANCE Issuer WITH
    Callers <- Accounts,
    Name <- [a \in Accounts |-> GetServiceAccountName(a)],
    Fallback <- {},
    caller <- [c \in Calls |-> Caller(request[c])],
    outcome <- [c \in Calls |->
        IF phase[c] = "idle" THEN "idle"
        ELSE IF status[c] = None THEN "pending"
        ELSE IF Answered(c) THEN answer[c].cn ELSE "refused"]

\* GrpcServerInterceptor and IdentityService together keep the promise of an
\* issuer: a call is decided once, and certified only with the name of its
\* caller, which two callers may share.
ImplementsIssuer == Promise!Spec

\* README.md:5: "Each service receives its own verifiable certificate,
\* preventing pods from impersonating one another": the alternative name, the
\* SPIFFE id, is the caller's.
SanIsCaller ==
    \A c \in Calls : Answered(c) => answer[c].san = request[c].token.sa

=============================================================================
