----------------------------- MODULE CertManager -----------------------------
(***************************************************************************)
(* The certificate rotation goroutine of the data plane                    *)
(* (data-plane/internal/cert_manager/cert_manager.go, StartRotation),      *)
(* with the parts of the token provider and of the certificate fetcher     *)
(* that it calls.                                                          *)
(*                                                                         *)
(* Time is counted in ticks of ten seconds, the shortest delay of the      *)
(* code, and every moment is kept relative to now: what is left of a       *)
(* timer, what is left of the certificate, the age of the token.  A        *)
(* goroutine that can move moves before the next tick.                     *)
(***************************************************************************)
EXTENDS Integers

CONSTANTS
    TTL,            \* life of a certificate at issue (Vault: 6m)
    RenewalWindow,  \* CertManager.RenewalWindow, 0 when the field is not set
    DefaultWindow,  \* the window used when it is not set (5m)
    RetryDelay,     \* CertManager.RetryDelay (1m)
    MinSleep,       \* the sleep when the renewal time has passed (10s)
    TokenTTL,       \* life of a service account token (1h)
    CallMax,        \* environment: no call takes longer than this
    MaxFail,        \* the failures in a row that rotation has to survive
    InitialCerts,   \* what CurrentCert may hold when the goroutine starts
    InitialTokens   \* TRUE: the goroutine is given a token, FALSE: none

\* The default of cert_manager.go:80-83.
Window == IF RenewalWindow = 0 THEN DefaultWindow ELSE RenewalWindow

Certs == {"none", "good", "unparsable"}

ASSUME TimesAssumption ==
    /\ TTL \in Nat \ {0}
    /\ RenewalWindow \in Nat
    /\ DefaultWindow \in Nat \ {0}
    /\ RetryDelay \in Nat \ {0}
    /\ MinSleep \in Nat \ {0}
    /\ TokenTTL \in Nat \ {0}
    /\ CallMax \in Nat
    /\ CallMax < TTL
    /\ MaxFail \in Nat
    /\ InitialCerts \subseteq Certs
    /\ InitialTokens \subseteq BOOLEAN

VARIABLES
    pc,         \* where the goroutine is
    timer,      \* what is left of the time.After it waits for
    elapsed,    \* how long the call it waits for has taken
    cert,       \* CurrentCert
    left,       \* time until CurrentCert's NotAfter; 0: it has expired
    token,      \* token.Token is not empty
    tokenAge,   \* age of token.Token; from TokenTTL on it has expired
    cancelled,  \* ctx is done
    poke,       \* a sender is ready on RenewNow
    fails,      \* history: failed calls since the last fetch, MaxFail+1: more
    lateFetches \* history: fetches started after ctx was done

vars == <<pc, timer, elapsed, cert, left, token, tokenAge, cancelled, poke,
          fails, lateFetches>>

env == <<cancelled, poke>>
held == <<cert, left, token, tokenAge>>

Least(a, b) == IF a <= b THEN a ELSE b

-----------------------------------------------------------------------------

\* NewProxy starts the goroutine with the token it requested and the
\* certificate it fetched with that token, one call each; the tests also start
\* it without a certificate or without a token.
Init ==
    /\ pc = "loop"
    /\ timer = 0
    /\ elapsed = 0
    /\ cert \in InitialCerts
    /\ IF cert = "good" THEN left \in TTL - CallMax .. TTL ELSE left = 0
    /\ token \in InitialTokens
    /\ tokenAge \in 0 .. Least(2 * CallMax, TokenTTL + CallMax)
    /\ cancelled = FALSE
    /\ poke = FALSE
    /\ fails = 0
    /\ lateFetches = 0

\* select { case <-time.After(d): ...; case <-ctx.Done(): return }
Wait(where, d) ==
    /\ pc' = where
    /\ timer' = d
    /\ elapsed' = 0

\* fetcher.Fetch is called.
StartFetch(where) ==
    /\ pc' = where
    /\ timer' = 0
    /\ elapsed' = 0
    /\ lateFetches' = IF cancelled THEN lateFetches + 1 ELSE lateFetches

\* The top of the loop: no token.  The token is tested again after RetryDelay
\* but nothing requests one.
NoToken ==
    /\ pc = "loop"
    /\ ~token
    /\ Wait("retry", RetryDelay)
    /\ UNCHANGED <<held, env, fails, lateFetches>>

\* No certificate yet: fetch one with the token at hand, whatever its age.
NeedsFetch ==
    /\ pc = "loop"
    /\ token
    /\ cert = "none"
    /\ StartFetch("initFetch")
    /\ UNCHANGED <<held, env, fails>>

\* x509.ParseCertificate fails: wait and parse the same certificate again.
ParseFails ==
    /\ pc = "loop"
    /\ token
    /\ cert = "unparsable"
    /\ Wait("retry", RetryDelay)
    /\ UNCHANGED <<held, env, fails, lateFetches>>

\* Mutated forms: no window; a floor of zero.
SleepDuration_NoWindow == IF left > 0 THEN left ELSE MinSleep
SleepDuration_ZeroFloor == IF left > Window THEN left - Window ELSE 0

\* Sleep until the renewal window opens; if it is open, for MinSleep.
SleepDuration == IF left > Window THEN left - Window ELSE MinSleep

Schedule ==
    /\ pc = "loop"
    /\ token
    /\ cert = "good"
    /\ Wait("sleep", SleepDuration)
    /\ UNCHANGED <<held, env, fails, lateFetches>>

RequestToken ==
    /\ pc' = "reqToken"
    /\ timer' = 0
    /\ elapsed' = 0
    /\ UNCHANGED <<held, fails, lateFetches>>

\* The three branches of the sleeping select.  When several are ready, any
\* of them may be taken.
SleepTimer ==
    /\ pc = "sleep"
    /\ timer = 0
    /\ RequestToken
    /\ UNCHANGED env

SleepRenewNow ==
    /\ pc = "sleep"
    /\ poke
    /\ poke' = FALSE
    /\ RequestToken
    /\ UNCHANGED cancelled

\* Mutated form: "break" of the select instead of "return".
Stop_Breaks(where) ==
    /\ pc = where
    /\ cancelled
    /\ Wait("loop", 0)
    /\ UNCHANGED <<held, env, fails, lateFetches>>

\* ctx.Done() in either select: the goroutine returns.
Stop(where) ==
    /\ pc = where
    /\ cancelled
    /\ Wait("done", 0)
    /\ UNCHANGED <<held, env, fails, lateFetches>>

SleepCancelled == Stop("sleep")

-----------------------------------------------------------------------------
(* The calls.  RequestToken runs under context.Background(), so a cancel    *)
(* does not end it; Fetch runs under ctx, and may come back either way.     *)

\* Mutated forms: no delay before the next attempt; no further attempt.
Failed_NoDelay ==
    /\ Wait("loop", 0)
    /\ fails' = Least(fails + 1, MaxFail + 1)
    /\ UNCHANGED <<held, env, lateFetches>>
Failed_GivesUp ==
    /\ Wait("done", 0)
    /\ fails' = Least(fails + 1, MaxFail + 1)
    /\ UNCHANGED <<held, env, lateFetches>>

\* A call failed: wait for RetryDelay, then start over.
Failed ==
    /\ Wait("retry", RetryDelay)
    /\ fails' = Least(fails + 1, MaxFail + 1)
    /\ UNCHANGED <<held, env, lateFetches>>

TokenErr == pc = "reqToken" /\ Failed

\* Mutated form: the new token is not stored in the container.
TokenOk_NotStored ==
    /\ pc = "reqToken"
    /\ StartFetch("fetch")
    /\ UNCHANGED <<held, env, fails>>

\* The new token replaces the old one; it was issued during the call.
TokenOk ==
    /\ pc = "reqToken"
    /\ token' = TRUE
    /\ tokenAge' \in 0 .. elapsed
    /\ StartFetch("fetch")
    /\ UNCHANGED <<cert, left, env, fails>>

FetchErr == pc \in {"initFetch", "fetch"} /\ Failed

\* The token was accepted: it had not expired when the call began.
Accepted == tokenAge - elapsed < TokenTTL

\* The certificate was issued during the call; it is swapped in under the lock
\* and the loop starts over.
FetchOk ==
    /\ pc \in {"initFetch", "fetch"}
    /\ Accepted
    /\ cert' = "good"
    /\ left' \in TTL - elapsed .. TTL
    /\ pc' = "loop"
    /\ elapsed' = 0
    /\ fails' = 0
    /\ UNCHANGED <<timer, token, tokenAge, env, lateFetches>>

\* The retry selects: RetryDelay has passed, or ctx is done.
Retry ==
    /\ pc = "retry"
    /\ timer = 0
    /\ pc' = "loop"
    /\ UNCHANGED <<timer, elapsed, held, env, fails, lateFetches>>

RetryCancelled == Stop("retry")

-----------------------------------------------------------------------------
(* The environment.                                                         *)

Cancel ==
    /\ ~cancelled
    /\ cancelled' = TRUE
    /\ UNCHANGED <<pc, timer, elapsed, held, poke, fails, lateFetches>>

\* Only the tests send on RenewNow, and only to a manager they have not
\* stopped; production has no sender.
SendRenewNow ==
    /\ ~poke
    /\ ~cancelled
    /\ poke' = TRUE
    /\ UNCHANGED <<pc, timer, elapsed, held, cancelled, fails, lateFetches>>

Waiting == pc \in {"sleep", "retry"}
Calling == pc \in {"reqToken", "initFetch", "fetch"}

\* The goroutine can move without time passing.
Urgent ==
    \/ pc = "loop"
    \/ Waiting /\ (timer = 0 \/ cancelled)
    \/ pc = "sleep" /\ poke
    \/ Calling /\ elapsed = CallMax

Tick ==
    /\ ~Urgent
    /\ timer' = IF Waiting THEN timer - 1 ELSE timer
    /\ elapsed' = IF Calling THEN elapsed + 1 ELSE elapsed
    /\ left' = IF left > 0 THEN left - 1 ELSE 0
    /\ tokenAge' = Least(tokenAge + 1, TokenTTL + CallMax)
    /\ UNCHANGED <<pc, cert, token, cancelled, poke, fails, lateFetches>>

-----------------------------------------------------------------------------

\* The goroutine: everything StartRotation does.
StartRotation ==
    \/ NoToken \/ NeedsFetch \/ ParseFails \/ Schedule
    \/ SleepTimer \/ SleepRenewNow \/ SleepCancelled
    \/ TokenOk \/ TokenErr
    \/ FetchOk \/ FetchErr
    \/ Retry \/ RetryCancelled

Next == StartRotation \/ Cancel \/ SendRenewNow \/ Tick

Spec == Init /\ [][Next]_vars

\* Goroutines run, clocks advance and calls return (the code sets no deadline
\* on them: CallMax is the environment's).  A select with several ready
\* branches picks at random, so a branch that is ready again and again is
\* taken.
Fairness ==
    /\ WF_vars(StartRotation)
    /\ WF_vars(Tick)
    /\ SF_vars(SleepCancelled)

\* The control plane and the API server answer some of the calls, however long
\* an outage lasts.
Recovery == SF_vars(TokenOk) /\ SF_vars(FetchOk)

LiveSpec == Spec /\ Fairness
FairSpec == LiveSpec /\ Recovery

-----------------------------------------------------------------------------
(* Properties                                                               *)

TypeOK ==
    /\ pc \in {"loop", "initFetch", "sleep", "reqToken", "fetch", "retry", "done"}
    /\ timer \in Nat
    /\ elapsed \in 0 .. CallMax
    /\ cert \in Certs
    /\ left \in 0 .. TTL
    /\ token \in BOOLEAN
    /\ tokenAge \in 0 .. TokenTTL + CallMax
    /\ cancelled \in BOOLEAN
    /\ poke \in BOOLEAN
    /\ fails \in 0 .. MaxFail + 1
    /\ lateFetches \in Nat

\* What one failed attempt can cost: the sleep of an attempt whose renewal time
\* has passed, two calls, and the delay after the failure.
AttemptCost == MinSleep + 2 * CallMax + RetryDelay

\* The renewal window, and the certificate as it arrives, leave room for
\* MaxFail failed attempts and the two calls of the one that succeeds.
Margin ==
    /\ Window > MaxFail * AttemptCost + 2 * CallMax
    /\ TTL - CallMax > MinSleep + MaxFail * AttemptCost + 2 * CallMax
    /\ InitialCerts = {"good"}
    /\ InitialTokens = {TRUE}

\* Hitless rotation: while the goroutine runs and no more than MaxFail calls in
\* a row have failed since the last fetch, the certificate that handshakes are
\* given has not expired: not during the calls, the delays or the sleeps, and
\* not when RenewNow wakes the goroutine early.
NeverServesExpired == pc # "done" /\ fails <= MaxFail => left > 0

\* A rotation presents the token it has just requested, however long the
\* outage before it was; so a token can expire without harm.
RotatesWithFreshToken == pc = "fetch" => token /\ tokenAge <= CallMax + elapsed

\* A cancel may come while RequestToken runs (which ignores it), or lose in the
\* select against a timer or a RenewNow sent before it: one more fetch starts,
\* and a second one only for such a RenewNow, never a third.
FewLateFetches == lateFetches <= 2 /\ (poke => lateFetches <= 1)

\* StartRotation exits after a cancel, wherever the cancel finds it
\* (cert_manager_test.go:292, 391, 419: "did not exit after cancel").
StopsOnCancel == cancelled ~> pc = "done"

\* After an outage of any length, a manager that serves an expired certificate
\* gets a new one, unless it is stopped.
RecoversFromOutage == cert = "good" /\ left = 0 ~> left > 0 \/ cancelled

\* The first certificate of a manager started without one comes as soon as the
\* calls succeed: the token it was given has aged no more than the two calls of
\* NewProxy, the failed attempts and one more call take.  This branch never
\* requests another token, so an outage that outlives the token is for ever.
FirstDeadline == 2 * CallMax + MaxFail * (CallMax + RetryDelay) + CallMax
FirstCertificate ==
    cert = "none" /\ token /\ ~cancelled /\ fails <= MaxFail => tokenAge <= FirstDeadline

\* The loop never runs hot: unless RenewNow is sent again and again, or the
\* goroutine returns, time passes between its rounds, also when every fetch
\* fails at once and when certificates are shorter than the window.
NoHotLoop == <>[](~poke) => []<><<Tick>>_vars \/ <>(pc = "done")

=============================================================================
