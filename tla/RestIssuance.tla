------------------------------ MODULE RestIssuance ------------------------------
(***************************************************************************)
(* The REST certificate issuer of the control plane:                        *)
(* SentinelSecurityInterceptor, K8sTokenReviewService, IdentityController   *)
(* and VaultPkiService.                                                     *)
(*                                                                         *)
(* A thread of the servlet container serves a request from the interceptors *)
(* to their afterCompletion, and only then another.  The verified name is an *)
(* attribute of the request and an entry of the thread's MDC.  The token is *)
(* reviewed twice: to validate it, and to find out the name.                *)
(***************************************************************************)
EXTENDS FiniteSets

CONSTANTS
    Calls,      \* the requests open at a time; a closed one makes room
    Threads,    \* the threads of the container
    Accounts,   \* user names of service accounts: no "/" in them, so that the
                \* last segment of one is the name itself
    Unknown,    \* the name "unknown"
    None        \* null

Statuses == {200, 400, 401, 403, 500}

ASSUME NamesAssumption ==
    /\ None \notin Accounts \cup Threads \cup Statuses \cup {Unknown}
    /\ Unknown \notin Accounts
    /\ "pending" \notin Accounts \cup {Unknown}

Names == Accounts \cup {Unknown}

\* "refused" fails the review; the header may be missing or not "Bearer".
Tokens == [status: {"good"}, sa: Accounts] \cup [status: {"missing", "refused"}, sa: {None}]

\* A body that does not parse or has no serviceName has service None.
Requests == [token: Tokens, service: Names \cup {None}]
NoRequest == [token |-> [status |-> "missing", sa |-> None], service |-> None]

Certificates == [cn: Names, san: Names]
NoCertificate == [cn |-> None, san |-> None]

VARIABLES
    phase,      \* where each request is
    request,    \* what the caller sent
    verified,   \* its attribute "verifiedService"
    unnamed,    \* history: the second review has failed it
    thread,     \* the thread that serves it, or None
    mdc,        \* MDC "serviceIdentity" of every thread
    vault,      \* the names of the write to pki/issue in progress
    status,     \* the status of the response, or None
    answer      \* the certificate in it, or NoCertificate

vars == <<phase, request, verified, unnamed, thread, mdc, vault, status, answer>>

Init ==
    /\ phase = [c \in Calls |-> "idle"]
    /\ request = [c \in Calls |-> NoRequest]
    /\ verified = [c \in Calls |-> None]
    /\ unnamed = [c \in Calls |-> FALSE]
    /\ thread = [c \in Calls |-> None]
    /\ mdc = [t \in Threads |-> None]
    /\ vault = [c \in Calls |-> NoCertificate]
    /\ status = [c \in Calls |-> None]
    /\ answer = [c \in Calls |-> NoCertificate]

Free(t) == \A c \in Calls : thread[c] # t

Goto(c, p) == phase' = [phase EXCEPT ![c] = p]

-----------------------------------------------------------------------------

\* A client sends a request.
Arrive(c) ==
    /\ phase[c] \in {"idle", "closed"}
    /\ \E r \in Requests : request' = [request EXCEPT ![c] = r]
    /\ Goto(c, "arrived")
    /\ verified' = [verified EXCEPT ![c] = None]
    /\ unnamed' = [unnamed EXCEPT ![c] = FALSE]
    /\ vault' = [vault EXCEPT ![c] = NoCertificate]
    /\ status' = [status EXCEPT ![c] = None]
    /\ answer' = [answer EXCEPT ![c] = NoCertificate]
    /\ UNCHANGED <<thread, mdc>>

(* preHandle                                                                *)

\* A free thread takes the request.
Begin(c, t) ==
    /\ phase[c] = "arrived"
    /\ Free(t)
    /\ thread' = [thread EXCEPT ![c] = t]
    /\ Goto(c, "validating")
    /\ UNCHANGED <<request, verified, unnamed, mdc, vault, status, answer>>

\* preHandle is false: its own afterCompletion is not called, and the thread
\* is free again.
Unauthorized(c) ==
    /\ Goto(c, "closed")
    /\ status' = [status EXCEPT ![c] = 401]
    /\ thread' = [thread EXCEPT ![c] = None]

\* The header is missing, or validateToken is false: the review refuses the
\* token, or fails, which it may do for any token.
InvalidToken(c) ==
    /\ phase[c] = "validating"
    /\ Unauthorized(c)
    /\ UNCHANGED <<request, verified, unnamed, mdc, vault, answer>>

\* Mutated form: a review that comes back is a good one.
Validate_AnyToken(c) ==
    /\ phase[c] = "validating"
    /\ request[c].token.status # "missing"
    /\ Goto(c, "naming")
    /\ UNCHANGED <<request, verified, unnamed, thread, mdc, vault, status, answer>>

Validate(c) ==
    /\ phase[c] = "validating"
    /\ request[c].token.status = "good"
    /\ Goto(c, "naming")
    /\ UNCHANGED <<request, verified, unnamed, thread, mdc, vault, status, answer>>

\* The name goes into the request and into the MDC, null too.
Named(c, name) ==
    /\ verified' = [verified EXCEPT ![c] = name]
    /\ mdc' = [mdc EXCEPT ![thread[c]] = name]
    /\ Goto(c, "handling")
    /\ UNCHANGED <<request, thread, vault, status, answer>>

GetServiceAccountName(c) ==
    /\ phase[c] = "naming"
    /\ request[c].token.status = "good"
    /\ Named(c, request[c].token.sa)
    /\ UNCHANGED unnamed

\* The second review, which asks for no audience, does not authenticate the
\* token (null) or fails ("unknown"): it has expired, or the API server has
\* gone, or its own audience is not the token's.
GetServiceAccountNameErr(c) ==
    /\ phase[c] = "naming"
    /\ \E name \in {None, Unknown} : Named(c, name)
    /\ unnamed' = [unnamed EXCEPT ![c] = TRUE]

(* issueIdentity                                                            *)

\* The controller returns: the response is written, afterCompletion follows.
Respond(c, s) ==
    /\ Goto(c, "completing")
    /\ status' = [status EXCEPT ![c] = s]

BadRequest(c) ==
    /\ phase[c] = "handling"
    /\ request[c].service = None
    /\ Respond(c, 400)
    /\ UNCHANGED <<request, verified, unnamed, thread, mdc, vault, answer>>

\* Mutated form: only an absent name is refused.
IsCaller_AnyName(c) == verified[c] # None

IsCaller(c) == verified[c] # None /\ verified[c] = request[c].service

\* Mutated form: the response is never written.
SpoofingAttempt_NoAnswer(c) ==
    /\ phase[c] = "handling"
    /\ request[c].service # None
    /\ ~IsCaller(c)
    /\ UNCHANGED vars

SpoofingAttempt(c) ==
    /\ phase[c] = "handling"
    /\ request[c].service # None
    /\ ~IsCaller(c)
    /\ Respond(c, 403)
    /\ UNCHANGED <<request, verified, unnamed, thread, mdc, vault, answer>>

\* Mutated form: the work goes to another pool, the thread is free.
IssueCertificate_Async(c) ==
    /\ phase[c] = "handling"
    /\ request[c].service # None
    /\ IsCaller(c)
    /\ vault' = [vault EXCEPT ![c] = [cn |-> request[c].service, san |-> mdc[thread[c]]]]
    /\ thread' = [thread EXCEPT ![c] = None]
    /\ Goto(c, "issuing")
    /\ UNCHANGED <<request, verified, unnamed, mdc, status, answer>>

\* The write to Vault: the common name from the body, the alternative name
\* from the MDC of the thread, which is never null here.
IssueCertificate(c) ==
    /\ phase[c] = "handling"
    /\ request[c].service # None
    /\ IsCaller(c)
    /\ vault' = [vault EXCEPT ![c] = [cn |-> request[c].service, san |-> mdc[thread[c]]]]
    /\ Goto(c, "issuing")
    /\ UNCHANGED <<request, verified, unnamed, thread, mdc, status, answer>>

CertificateIssued(c) ==
    /\ phase[c] = "issuing"
    /\ answer' = [answer EXCEPT ![c] = vault[c]]
    /\ Respond(c, 200)
    /\ UNCHANGED <<request, verified, unnamed, thread, mdc, vault>>

\* null, or an exception in the error path: both are the container's 500.
IssuanceFailed(c) ==
    /\ phase[c] = "issuing"
    /\ Respond(c, 500)
    /\ UNCHANGED <<request, verified, unnamed, thread, mdc, vault, answer>>

\* Mutated form: the entry stays with the thread.
AfterCompletion_Keeps(c) ==
    /\ phase[c] = "completing"
    /\ thread' = [thread EXCEPT ![c] = None]
    /\ Goto(c, "closed")
    /\ UNCHANGED <<request, verified, unnamed, mdc, vault, status, answer>>

\* MDC.remove, and the thread is free.
AfterCompletion(c) ==
    /\ phase[c] = "completing"
    /\ mdc' = [mdc EXCEPT ![thread[c]] = None]
    /\ thread' = [thread EXCEPT ![c] = None]
    /\ Goto(c, "closed")
    /\ UNCHANGED <<request, verified, unnamed, vault, status, answer>>

-----------------------------------------------------------------------------

PreHandle(c) ==
    \/ InvalidToken(c) \/ Validate(c)
    \/ GetServiceAccountName(c) \/ GetServiceAccountNameErr(c)

IssueIdentity(c) == BadRequest(c) \/ SpoofingAttempt(c) \/ IssueCertificate(c)

VaultAnswers(c) == CertificateIssued(c) \/ IssuanceFailed(c)

Serve(c) == PreHandle(c) \/ IssueIdentity(c) \/ VaultAnswers(c) \/ AfterCompletion(c)

Next ==
    \E c \in Calls :
        \/ Arrive(c)
        \/ \E t \in Threads : Begin(c, t)
        \/ Serve(c)

\* A request that waits for a thread gets one in its turn; the API server and
\* Vault answer or their clients give up.
Fairness ==
    \A c \in Calls :
        /\ SF_vars(\E t \in Threads : Begin(c, t))
        /\ WF_vars(Serve(c))

Spec == Init /\ [][Next]_vars
FairSpec == Spec /\ Fairness

-----------------------------------------------------------------------------
(* Properties                                                               *)

TypeOK ==
    /\ phase \in [Calls -> {"idle", "arrived", "validating", "naming", "handling",
                            "issuing", "completing", "closed"}]
    /\ request \in [Calls -> Requests]
    /\ verified \in [Calls -> Names \cup {None}]
    /\ unnamed \in [Calls -> BOOLEAN]
    /\ thread \in [Calls -> Threads \cup {None}]
    /\ mdc \in [Threads -> Names \cup {None}]
    /\ vault \in [Calls -> Certificates \cup {NoCertificate}]
    /\ status \in [Calls -> Statuses \cup {None}]
    /\ answer \in [Calls -> Certificates \cup {NoCertificate}]

Answered(c) == answer[c] # NoCertificate

\* IdentityController.java:30: a certificate goes only to a caller whose token
\* was accepted; its common name and its alternative name, which come from the
\* body and from the thread, agree; they are the caller's own name, or
\* "unknown", and that only where the second review has failed.
CertificateIsCallers ==
    \A c \in Calls : Answered(c) =>
        /\ request[c].token.status = "good"
        /\ answer[c].cn = answer[c].san
        /\ answer[c].cn = IF unnamed[c] THEN Unknown ELSE request[c].token.sa

\* The logging context stays with its request (in the gRPC path it does not):
\* from preHandle to afterCompletion the thread holds the verified name of the
\* request it serves, and a thread that waits holds none.
ContextStaysWithRequest ==
    /\ \A c \in Calls : phase[c] \in {"handling", "issuing", "completing"} =>
          thread[c] # None /\ mdc[thread[c]] = verified[c]
    /\ \A t \in Threads : Free(t) => mdc[t] = None

\* Every request is answered and its thread is free again, whatever fails on
\* the way: the pool is not used up.
EveryCallIsClosed ==
    \A c \in Calls : phase[c] = "arrived" ~> phase[c] = "closed" /\ thread[c] = None

Caller(r) == IF r.token.status = "good" THEN r.token.sa ELSE None

Promise == INSTANCE Issuer WITH
    Callers <- Accounts,
    Name <- [a \in Accounts |-> a],
    Fallback <- {Unknown},
    caller <- [c \in Calls |-> Caller(request[c])],
    outcome <- [c \in Calls |->
        IF phase[c] = "idle" THEN "idle"
        ELSE IF status[c] = None THEN "pending"
        ELSE IF Answered(c) THEN answer[c].cn ELSE "refused"]

\* The REST path keeps the promise of an issuer, with "unknown" for a caller
\* whose name the second review has not found.
ImplementsIssuer == Promise!Spec

=============================================================================
