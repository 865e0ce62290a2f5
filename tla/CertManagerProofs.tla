-------------------------- MODULE CertManagerProofs --------------------------
(***************************************************************************)
(* Proofs about CertManager, for all delays, windows and call times.       *)
(***************************************************************************)
EXTENDS CertManager, TLAPS

LEMMA WindowIsPositive == Window \in Nat \ {0}
  BY TimesAssumption DEF Window

-----------------------------------------------------------------------------

\* Every variable keeps its type: no timer is ever set to a negative delay, and
\* a certificate arrives with some life left.
THEOREM TypeCorrect == Spec => []TypeOK
  <1> USE TimesAssumption DEF Certs
  <1>1. Init => TypeOK
    <2> SUFFICES ASSUME Init
                 PROVE  TypeOK
      OBVIOUS
    <2>1. token \in BOOLEAN /\ cancelled \in BOOLEAN /\ poke \in BOOLEAN
      BY Zenon DEF Init
    <2>2. cert \in Certs
      BY DEF Init
    <2>3. left \in 0 .. TTL
      BY DEF Init
    <2>4. tokenAge \in 0 .. TokenTTL + CallMax
      BY DEF Init, Least
    <2>5. QED
      BY <2>1, <2>2, <2>3, <2>4 DEF Init, TypeOK
  <1>2. TypeOK /\ [Next]_vars => TypeOK'
    <2> SUFFICES ASSUME TypeOK, [Next]_vars
                 PROVE  TypeOK'
      OBVIOUS
    <2> USE DEF TypeOK, held, env, Wait, StartFetch, Least
    <2>1. CASE NoToken
      BY <2>1 DEF NoToken
    <2>2. CASE NeedsFetch
      BY <2>2 DEF NeedsFetch
    <2>3. CASE ParseFails
      BY <2>3 DEF ParseFails
    <2>4. CASE Schedule
      BY <2>4, WindowIsPositive DEF Schedule, SleepDuration
    <2>5. CASE SleepTimer
      BY <2>5 DEF SleepTimer, RequestToken
    <2>6. CASE SleepRenewNow
      <3>1. poke' \in BOOLEAN
        BY <2>6, Zenon DEF SleepRenewNow
      <3>2. QED
        BY <2>6, <3>1 DEF SleepRenewNow, RequestToken
    <2>7. CASE SleepCancelled
      BY <2>7 DEF SleepCancelled, Stop
    <2>8. CASE TokenOk
      <3>1. token' \in BOOLEAN
        BY <2>8, Zenon DEF TokenOk
      <3>2. QED
        BY <2>8, <3>1 DEF TokenOk
    <2>9. CASE TokenErr
      BY <2>9 DEF TokenErr, Failed
    <2>10. CASE FetchOk
      BY <2>10 DEF FetchOk
    <2>11. CASE FetchErr
      BY <2>11 DEF FetchErr, Failed
    <2>12. CASE Retry
      BY <2>12 DEF Retry
    <2>13. CASE RetryCancelled
      BY <2>13 DEF RetryCancelled, Stop
    <2>14. CASE Cancel
      BY <2>14 DEF Cancel
    <2>15. CASE SendRenewNow
      BY <2>15 DEF SendRenewNow
    <2>16. CASE Tick
      BY <2>16 DEF Tick, Urgent, Waiting, Calling
    <2>17. CASE UNCHANGED vars
      BY <2>17 DEF vars
    <2>18. QED
      BY <2>1, <2>2, <2>3, <2>4, <2>5, <2>6, <2>7, <2>8, <2>9, <2>10, <2>11,
         <2>12, <2>13, <2>14, <2>15, <2>16, <2>17 DEF Next, StartRotation
  <1>3. QED
    BY <1>1, <1>2, PTL DEF Spec

-----------------------------------------------------------------------------

\* A rotation presents the token it has just requested: for every call time.
THEOREM FreshToken == Spec => []RotatesWithFreshToken
  <1> USE TimesAssumption DEF RotatesWithFreshToken
  <1>1. Init => RotatesWithFreshToken
    BY DEF Init
  <1>2. TypeOK /\ RotatesWithFreshToken /\ [Next]_vars => RotatesWithFreshToken'
    <2> SUFFICES ASSUME TypeOK, RotatesWithFreshToken, [Next]_vars
                 PROVE  RotatesWithFreshToken'
      OBVIOUS
    <2> USE DEF TypeOK, held, env, Wait, StartFetch, Least
    <2>1. CASE TokenOk
      <3>1. token'
        BY <2>1, Zenon DEF TokenOk
      <3>2. tokenAge' <= CallMax + elapsed'
        <4>1. tokenAge' \in 0 .. elapsed /\ elapsed' \in {0}
          BY <2>1, Zenon DEF TokenOk
        <4>2. QED
          BY <4>1
      <3>3. QED
        BY <3>1, <3>2, Zenon
    <2>2. CASE Tick
      BY <2>2 DEF Tick, Waiting, Calling
    <2>3. CASE UNCHANGED vars
      BY <2>3 DEF vars
    <2>4. CASE NoToken \/ NeedsFetch \/ ParseFails \/ Schedule \/ SleepTimer
               \/ SleepRenewNow \/ SleepCancelled \/ TokenErr \/ FetchOk
               \/ FetchErr \/ Retry \/ RetryCancelled
      <3>1. pc' # "fetch"
        BY <2>4 DEF NoToken, NeedsFetch, ParseFails, Schedule, SleepTimer,
           SleepRenewNow, SleepCancelled, TokenErr, FetchOk, FetchErr, Retry,
           RetryCancelled, Stop, RequestToken, Failed
      <3>2. QED
        BY <3>1
    <2>5. CASE Cancel \/ SendRenewNow
      BY <2>5 DEF Cancel, SendRenewNow
    <2>6. QED
      BY <2>1, <2>2, <2>3, <2>4, <2>5 DEF Next, StartRotation
  <1>3. QED
    BY <1>1, <1>2, TypeCorrect, PTL DEF Spec

-----------------------------------------------------------------------------

\* What is left of the certificate when an attempt begins must cover the
\* failures still to come and the two calls of the attempt that succeeds.
Need(f) == (MaxFail - f) * AttemptCost + 2 * CallMax + 1

LEMMA NeedTypes ==
  ASSUME NEW f \in 0 .. MaxFail
  PROVE  Need(f) \in Nat /\ AttemptCost \in Nat /\ Need(f) <= Need(0)
  <1> USE TimesAssumption
  <1>1. AttemptCost \in Nat
    BY DEF AttemptCost
  <1>2. MaxFail - f \in Nat
    OBVIOUS
  <1>3. (MaxFail - f) * AttemptCost \in Nat
    BY <1>1, <1>2
  <1>4. (MaxFail - f) * AttemptCost <= MaxFail * AttemptCost
    BY <1>1, <1>2
  <1>5. QED
    BY <1>1, <1>3, <1>4 DEF Need

\* One failure spends AttemptCost.
LEMMA NeedStep ==
  ASSUME NEW f \in Nat, f < MaxFail
  PROVE  Need(f) = Need(f + 1) + AttemptCost
  <1> USE TimesAssumption
  <1>1. AttemptCost \in Nat
    BY DEF AttemptCost
  <1>2. (MaxFail - f) * AttemptCost = (MaxFail - (f + 1)) * AttemptCost + AttemptCost
    BY <1>1
  <1>3. (MaxFail - (f + 1)) * AttemptCost \in Nat
    BY <1>1
  <1>4. QED
    BY <1>1, <1>2, <1>3 DEF Need

\* What is left of the certificate, at each place of the loop.
LeftIsEnough ==
    /\ pc = "loop" => left >= MinSleep + Need(fails) \/ left > Window
    /\ pc = "sleep" => left - timer >= Need(fails)
    /\ pc = "reqToken" => left + elapsed >= Need(fails)
    /\ pc = "fetch" => left + elapsed >= Need(fails) - CallMax
    /\ pc = "retry" => left - timer >= MinSleep + Need(fails)

\* The production manager never takes the branches without a token or without
\* a certificate, and while the failures are few it has life enough left.
RotationInv ==
    /\ token
    /\ cert = "good"
    /\ pc # "initFetch"
    /\ fails <= MaxFail => LeftIsEnough

LEMMA RotationInvInit == Margin /\ Init => RotationInv
  <1> SUFFICES ASSUME Margin, Init
               PROVE  RotationInv
    OBVIOUS
  <1>1. token /\ cert = "good" /\ pc = "loop"
    BY Zenon DEF Margin, Init
  <1>2. left \in TTL - CallMax .. TTL /\ fails = 0
    BY <1>1, Zenon DEF Init
  <1>3. TTL - CallMax > MinSleep + MaxFail * AttemptCost + 2 * CallMax
    BY Zenon DEF Margin
  <1>4. left >= MinSleep + Need(0)
    <2>1. AttemptCost \in Nat
      BY TimesAssumption DEF AttemptCost
    <2>2. MaxFail * AttemptCost \in Nat
      BY <2>1, TimesAssumption
    <2>3. QED
      BY <1>2, <1>3, <2>1, <2>2, TimesAssumption DEF Need
  <1>5. QED
    BY <1>1, <1>2, <1>4 DEF RotationInv, LeftIsEnough

LEMMA RotationInvStep ==
  ASSUME Margin, TypeOK, RotationInv, [Next]_vars
  PROVE  RotationInv'
  <1> USE TimesAssumption DEF held, env, Wait, StartFetch, Least
  <1>0. /\ pc \in {"loop", "sleep", "reqToken", "fetch", "retry", "done"}
        /\ cert = "good"
        /\ fails \in 0 .. MaxFail + 1 /\ left \in 0 .. TTL
        /\ timer \in Nat /\ elapsed \in 0 .. CallMax
    BY DEF TypeOK, RotationInv
  <1>t. token
    BY DEF RotationInv
  <1>n. fails <= MaxFail => /\ LeftIsEnough
                            /\ Need(fails) \in Nat
                            /\ Need(fails) <= Need(0)
    BY <1>0, NeedTypes DEF RotationInv
  <1>w. Window \in Nat /\ Need(0) \in Nat /\ Need(0) <= Window
    <2>1. AttemptCost \in Nat
      BY DEF AttemptCost
    <2>2. MaxFail * AttemptCost \in Nat
      BY <2>1
    <2>3. Window > MaxFail * AttemptCost + 2 * CallMax
      BY Zenon DEF Margin
    <2>4. QED
      BY <2>1, <2>2, <2>3, WindowIsPositive DEF Need
  <1>1. CASE Schedule
    <2>1. /\ pc = "loop" /\ pc' = "sleep" /\ timer' = SleepDuration
          /\ fails' = fails /\ left' = left /\ cert' = cert /\ token' = token
      BY <1>1, Zenon DEF Schedule
    <2>2. fails <= MaxFail => left - SleepDuration >= Need(fails)
      BY <1>0, <1>n, <1>w, <2>1 DEF SleepDuration, LeftIsEnough
    <2>3. fails' <= MaxFail => LeftIsEnough'
      BY <2>1, <2>2 DEF LeftIsEnough
    <2>4. QED
      BY <1>0, <1>t, <2>1, <2>3 DEF RotationInv
  <1>2. CASE SleepTimer \/ SleepRenewNow
    <2>1. /\ pc = "sleep" /\ pc' = "reqToken" /\ elapsed' = 0
          /\ fails' = fails /\ left' = left /\ cert' = cert /\ token' = token
      BY <1>2, Zenon DEF SleepTimer, SleepRenewNow, RequestToken
    <2>2. fails' <= MaxFail => LeftIsEnough'
      BY <1>0, <1>n, <2>1 DEF LeftIsEnough
    <2>3. QED
      BY <1>0, <1>t, <2>1, <2>2 DEF RotationInv
  <1>3. CASE TokenOk
    <2>1. /\ pc = "reqToken" /\ pc' = "fetch" /\ elapsed' = 0
          /\ fails' = fails /\ left' = left /\ cert' = cert
      BY <1>3, Zenon DEF TokenOk
    <2>2. token'
      BY <1>3, Zenon DEF TokenOk
    <2>3. fails' <= MaxFail => LeftIsEnough'
      BY <1>0, <1>n, <2>1 DEF LeftIsEnough
    <2>4. QED
      BY <1>0, <2>1, <2>2, <2>3 DEF RotationInv
  <1>4. CASE TokenErr \/ FetchErr
    <2>1. /\ pc \in {"reqToken", "fetch"} /\ pc' = "retry"
          /\ timer' = RetryDelay /\ left' = left /\ cert' = cert /\ token' = token
          /\ fails' = IF fails + 1 <= MaxFail + 1 THEN fails + 1 ELSE MaxFail + 1
      BY <1>0, <1>4 DEF TokenErr, FetchErr, Failed
    <2>2. fails' <= MaxFail => LeftIsEnough'
      <3>1. CASE fails < MaxFail
        <4>1. fails' = fails + 1 /\ Need(fails) = Need(fails + 1) + AttemptCost
          BY <1>0, <2>1, <3>1, NeedStep
        <4>2. Need(fails + 1) \in Nat
          BY <1>0, <3>1, NeedTypes
        <4>3. left - RetryDelay >= MinSleep + Need(fails + 1)
          BY <1>0, <1>n, <2>1, <3>1, <4>1, <4>2 DEF LeftIsEnough, AttemptCost
        <4>4. QED
          BY <2>1, <4>1, <4>3 DEF LeftIsEnough
      <3>2. CASE fails >= MaxFail
        BY <1>0, <2>1, <3>2
      <3>3. QED
        BY <1>0, <3>1, <3>2
    <2>3. QED
      BY <1>0, <1>t, <2>1, <2>2 DEF RotationInv
  <1>5. CASE FetchOk
    <2>1. /\ left' \in TTL - elapsed .. TTL /\ pc' = "loop" /\ fails' = 0
          /\ cert' = "good" /\ token' = token
      BY <1>5, Zenon DEF FetchOk
    <2>2. left' >= MinSleep + Need(0)
      <3>1. AttemptCost \in Nat
        BY DEF AttemptCost
      <3>2. MaxFail * AttemptCost \in Nat
        BY <3>1
      <3>3. TTL - CallMax > MinSleep + MaxFail * AttemptCost + 2 * CallMax
        BY Zenon DEF Margin
      <3>4. QED
        BY <1>0, <2>1, <3>1, <3>2, <3>3 DEF Need
    <2>3. QED
      BY <1>t, <2>1, <2>2 DEF RotationInv, LeftIsEnough
  <1>6. CASE Retry
    <2>1. /\ pc = "retry" /\ pc' = "loop" /\ timer = 0
          /\ fails' = fails /\ left' = left /\ cert' = cert /\ token' = token
      BY <1>6, Zenon DEF Retry
    <2>2. fails' <= MaxFail => LeftIsEnough'
      BY <1>0, <1>n, <2>1 DEF LeftIsEnough
    <2>3. QED
      BY <1>0, <1>t, <2>1, <2>2 DEF RotationInv
  <1>7. CASE SleepCancelled \/ RetryCancelled
    <2>1. pc' = "done" /\ cert' = cert /\ token' = token
      BY <1>7, Zenon DEF SleepCancelled, RetryCancelled, Stop
    <2>2. QED
      BY <1>0, <1>t, <2>1 DEF RotationInv, LeftIsEnough
  <1>8. CASE NoToken \/ NeedsFetch \/ ParseFails
    BY <1>0, <1>t, <1>8 DEF NoToken, NeedsFetch, ParseFails
  <1>9. CASE Cancel \/ SendRenewNow \/ UNCHANGED vars
    <2>1. UNCHANGED <<pc, timer, elapsed, cert, left, token, fails>>
      BY <1>9, Zenon DEF Cancel, SendRenewNow, vars
    <2>2. QED
      BY <2>1 DEF RotationInv, LeftIsEnough
  <1>10. CASE Tick
    <2>1. /\ UNCHANGED <<pc, cert, token, fails>>
          /\ pc # "loop"
          /\ timer' = IF Waiting THEN timer - 1 ELSE timer
          /\ elapsed' = IF Calling THEN elapsed + 1 ELSE elapsed
          /\ left' = IF left > 0 THEN left - 1 ELSE 0
      BY <1>10, Zenon DEF Tick, Urgent
    <2>2. fails' <= MaxFail => LeftIsEnough'
      BY <1>0, <1>n, <2>1 DEF LeftIsEnough, Waiting, Calling
    <2>3. QED
      BY <1>0, <1>t, <2>1, <2>2 DEF RotationInv
  <1>11. QED
    BY <1>1, <1>2, <1>3, <1>4, <1>5, <1>6, <1>7, <1>8, <1>9, <1>10
       DEF Next, StartRotation

\* Hitless rotation for all delays, windows and lives that leave the margin:
\* the production manager serves no expired certificate while at most MaxFail
\* calls in a row have failed.
THEOREM HitlessRotation ==
  ASSUME Margin
  PROVE  Spec => []NeverServesExpired
  <1>1. Init => RotationInv
    BY RotationInvInit
  <1>2. TypeOK /\ RotationInv /\ [Next]_vars => RotationInv'
    BY RotationInvStep
  <1>3. TypeOK /\ RotationInv => NeverServesExpired
    <2> SUFFICES ASSUME TypeOK, RotationInv, pc # "done", fails <= MaxFail
                 PROVE  left > 0
      BY DEF NeverServesExpired
    <2>1. Need(fails) >= 2 * CallMax + 1
      <3>1. AttemptCost \in Nat /\ MaxFail - fails \in Nat
        BY TimesAssumption DEF AttemptCost, TypeOK
      <3>2. (MaxFail - fails) * AttemptCost \in Nat
        BY <3>1
      <3>3. QED
        BY <3>2, TimesAssumption DEF Need
    <2>2. Need(fails) \in Nat
      BY NeedTypes, TimesAssumption DEF TypeOK
    <2>3. /\ LeftIsEnough
          /\ pc \in {"loop", "sleep", "reqToken", "fetch", "retry"}
          /\ elapsed \in 0 .. CallMax /\ timer \in Nat /\ left \in Nat
      BY TimesAssumption DEF RotationInv, TypeOK
    <2>4. QED
      BY <2>1, <2>2, <2>3, TimesAssumption, WindowIsPositive DEF LeftIsEnough
  <1>4. QED
    BY <1>1, <1>2, <1>3, TypeCorrect, PTL DEF Spec
-----------------------------------------------------------------------------

\* From here a fetch can start without another timer or RenewNow.
OneMore ==
    \/ pc = "reqToken"
    \/ pc \in {"sleep", "retry"} /\ timer = 0
    \/ pc = "loop" /\ cert = "none"

Extra == IF OneMore THEN 1 ELSE 0

\* After a cancel the fetches that have started, the one that may start from
\* here and the one of a RenewNow still pending are at most two together.
LateInv ==
    /\ ~cancelled => lateFetches = 0
    /\ cancelled => lateFetches + Extra <= 2
    /\ cancelled /\ poke => lateFetches + Extra <= 1

LEMMA LateInvStep ==
  ASSUME TypeOK, LateInv, [Next]_vars
  PROVE  LateInv'
  <1> USE TimesAssumption DEF held, env, Wait, StartFetch, Least
  <1>0. lateFetches \in Nat /\ timer \in Nat /\ Extra \in {0, 1}
        /\ left \in Nat
    BY DEF TypeOK, Extra
  <1>1. CASE NoToken \/ ParseFails \/ Schedule \/ TokenErr \/ FetchErr
    <2>1. /\ pc' \in {"retry", "sleep"} /\ timer' > 0
          /\ lateFetches' = lateFetches
      BY <1>0, <1>1, WindowIsPositive
         DEF NoToken, ParseFails, Schedule, SleepDuration, TokenErr, FetchErr, Failed
    <2>2. cancelled' = cancelled /\ poke' = poke
      BY <1>1, Zenon DEF NoToken, ParseFails, Schedule, TokenErr, FetchErr, Failed
    <2>3. Extra' = 0
      BY <2>1 DEF Extra, OneMore
    <2>4. QED
      BY <1>0, <2>1, <2>2, <2>3 DEF LateInv
  <1>2. CASE NeedsFetch \/ TokenOk
    <2>1. /\ Extra = 1
          /\ pc' \in {"fetch", "initFetch"}
      BY <1>2, Zenon DEF NeedsFetch, TokenOk, Extra, OneMore
    <2>2. lateFetches' = IF cancelled THEN lateFetches + 1 ELSE lateFetches
      BY <1>2, Zenon DEF NeedsFetch, TokenOk
    <2>3. cancelled' = cancelled /\ poke' = poke
      BY <1>2, Zenon DEF NeedsFetch, TokenOk
    <2>4. Extra' = 0
      BY <2>1 DEF Extra, OneMore
    <2>5. QED
      BY <1>0, <2>1, <2>2, <2>3, <2>4 DEF LateInv
  <1>3. CASE SleepTimer
    <2>1. /\ Extra = 1 /\ Extra' = 1 /\ lateFetches' = lateFetches
          /\ cancelled' = cancelled /\ poke' = poke
      BY <1>3, Zenon DEF SleepTimer, RequestToken, Extra, OneMore
    <2>2. QED
      BY <1>0, <2>1 DEF LateInv
  <1>4. CASE SleepRenewNow
    <2>1. Extra' = 1 /\ lateFetches' = lateFetches
      BY <1>4, Zenon DEF SleepRenewNow, RequestToken, Extra, OneMore
    <2>2. poke /\ ~poke' /\ cancelled' = cancelled
      BY <1>4, Zenon DEF SleepRenewNow
    <2>3. QED
      BY <1>0, <2>1, <2>2 DEF LateInv
  <1>5. CASE SleepCancelled \/ RetryCancelled \/ FetchOk
    <2>1. Extra' = 0
      BY <1>5 DEF SleepCancelled, RetryCancelled, Stop, FetchOk, Extra, OneMore
    <2>2. /\ lateFetches' = lateFetches /\ cancelled' = cancelled /\ poke' = poke
      BY <1>5, Zenon DEF SleepCancelled, RetryCancelled, Stop, FetchOk
    <2>3. QED
      BY <1>0, <2>1, <2>2 DEF LateInv
  <1>6. CASE Retry
    <2>1. Extra = 1 /\ lateFetches' = lateFetches
      BY <1>6, Zenon DEF Retry, Extra, OneMore
    <2>2. cancelled' = cancelled /\ poke' = poke
      BY <1>6, Zenon DEF Retry
    <2>3. Extra' \in {0, 1}
      BY DEF Extra
    <2>4. CASE Extra' = 1
      BY <1>0, <2>1, <2>2, <2>4 DEF LateInv
    <2>5. CASE Extra' = 0
      BY <1>0, <2>1, <2>2, <2>5 DEF LateInv
    <2>6. QED
      BY <2>3, <2>4, <2>5
  <1>7. CASE Cancel
    <2>1. Extra' = Extra /\ lateFetches' = lateFetches /\ ~cancelled
      BY <1>7, Zenon DEF Cancel, Extra, OneMore
    <2>2. lateFetches' = 0
      BY <2>1, Zenon DEF LateInv
    <2>3. QED
      BY <1>0, <2>1, <2>2 DEF LateInv
  <1>8. CASE SendRenewNow
    <2>1. /\ Extra' = Extra /\ lateFetches' = lateFetches
          /\ ~cancelled /\ ~cancelled'
      BY <1>8, Zenon DEF SendRenewNow, Extra, OneMore
    <2>2. QED
      BY <2>1, Zenon DEF LateInv
  <1>9. CASE Tick
    <2>1. /\ lateFetches' = lateFetches /\ cancelled' = cancelled /\ poke' = poke
          /\ UNCHANGED <<pc, cert>>
          /\ cancelled => ~Waiting
          /\ timer' = IF Waiting THEN timer - 1 ELSE timer
      BY <1>9, Zenon DEF Tick, Urgent
    <2>2. cancelled => Extra' = Extra
      BY <2>1 DEF Extra, OneMore, Waiting
    <2>3. QED
      BY <1>0, <2>1, <2>2 DEF LateInv
  <1>10. CASE UNCHANGED vars
    BY <1>10 DEF vars, LateInv, Extra, OneMore
  <1>11. QED
    BY <1>1, <1>2, <1>3, <1>4, <1>5, <1>6, <1>7, <1>8, <1>9, <1>10
       DEF Next, StartRotation

\* Whatever the delays and however long the calls take, a cancelled manager
\* starts at most one more fetch, and a second one only for a RenewNow sent
\* before the cancel.
THEOREM LateFetches == Spec => []FewLateFetches
  <1>1. Init => LateInv
    BY Zenon DEF Init, LateInv
  <1>2. TypeOK /\ LateInv /\ [Next]_vars => LateInv'
    BY LateInvStep
  <1>3. TypeOK /\ LateInv => FewLateFetches
    BY DEF TypeOK, LateInv, FewLateFetches, Extra
  <1>4. QED
    BY <1>1, <1>2, <1>3, TypeCorrect, PTL DEF Spec

-----------------------------------------------------------------------------

\* The age of the token a manager without a certificate was given: the two calls
\* of NewProxy, and a call and a delay for every failure.
AgeBound(f) == 2 * CallMax + f * (CallMax + RetryDelay)

LEMMA AgeBoundStep ==
  ASSUME NEW f \in Nat
  PROVE  /\ AgeBound(f) \in Nat
         /\ AgeBound(f + 1) = AgeBound(f) + CallMax + RetryDelay
         /\ f <= MaxFail => AgeBound(f) + CallMax <= FirstDeadline
  <1> USE TimesAssumption
  <1> DEFINE Cost == CallMax + RetryDelay
  <1>1. Cost \in Nat
    OBVIOUS
  <1> HIDE DEF Cost
  <1>2. f * Cost \in Nat /\ (f + 1) * Cost = f * Cost + Cost
    BY <1>1
  <1>3. f <= MaxFail => f * Cost <= MaxFail * Cost
    BY <1>1
  <1>4. MaxFail * Cost \in Nat
    BY <1>1
  <1>5. /\ AgeBound(f) = 2 * CallMax + f * Cost
        /\ AgeBound(f + 1) = 2 * CallMax + (f + 1) * Cost
        /\ FirstDeadline = 2 * CallMax + MaxFail * Cost + CallMax
    BY DEF AgeBound, FirstDeadline, Cost
  <1>6. QED
    BY <1>2, <1>3, <1>4, <1>5 DEF Cost

\* Without a certificate the goroutine is at the top of the loop, in a fetch or
\* behind one that has failed; the delay that is left has not aged the token yet.
FirstInv ==
    /\ cert = "none" => pc \in {"loop", "initFetch", "retry", "done"}
    /\ pc = "done" => cancelled
    /\ cert = "none" /\ token /\ fails <= MaxFail =>
         /\ pc = "loop" => tokenAge <= AgeBound(fails)
         /\ pc = "initFetch" => tokenAge <= AgeBound(fails) + elapsed
         /\ pc = "retry" => tokenAge + timer <= AgeBound(fails)

LEMMA FirstInvStep ==
  ASSUME TypeOK, FirstInv, [Next]_vars
  PROVE  FirstInv'
  <1> USE TimesAssumption DEF held, env, Wait, StartFetch, Least
  <1>0. /\ fails \in 0 .. MaxFail + 1 /\ timer \in Nat /\ elapsed \in 0 .. CallMax
        /\ tokenAge \in Nat
    BY DEF TypeOK
  <1>a. AgeBound(fails) \in Nat /\ AgeBound(fails + 1) = AgeBound(fails) + CallMax + RetryDelay
    BY <1>0, AgeBoundStep
  <1>1. CASE NeedsFetch \/ Retry
    <2>1. UNCHANGED <<cert, token, tokenAge, fails, cancelled>>
      BY <1>1, Zenon DEF NeedsFetch, Retry
    <2>2. \/ pc = "loop" /\ pc' = "initFetch" /\ elapsed' = 0
          \/ pc = "retry" /\ pc' = "loop" /\ timer = 0
      BY <1>1, Zenon DEF NeedsFetch, Retry
    <2>3. QED
      BY <1>0, <1>a, <2>1, <2>2 DEF FirstInv
  <1>2. CASE TokenErr \/ FetchErr
    <2>1. UNCHANGED <<cert, token, tokenAge, cancelled>>
      BY <1>2, Zenon DEF TokenErr, FetchErr, Failed
    <2>2. /\ pc \in {"reqToken", "initFetch", "fetch"} /\ pc' = "retry" /\ timer' = RetryDelay
          /\ fails' = IF fails < MaxFail THEN fails + 1 ELSE MaxFail + 1
      BY <1>0, <1>2 DEF TokenErr, FetchErr, Failed
    <2>3. CASE fails < MaxFail
      BY <1>0, <1>a, <2>1, <2>2, <2>3 DEF FirstInv
    <2>4. CASE ~(fails < MaxFail)
      BY <1>0, <2>1, <2>2, <2>4 DEF FirstInv
    <2>5. QED
      BY <2>3, <2>4
  <1>3. CASE SleepCancelled \/ RetryCancelled
    <2>1. pc' = "done" /\ cancelled /\ UNCHANGED <<cancelled, fails>>
      BY <1>3, Zenon DEF SleepCancelled, RetryCancelled, Stop
    <2>2. QED
      BY <2>1 DEF FirstInv
  <1>4. CASE FetchOk
    BY <1>4 DEF FetchOk, FirstInv
  <1>5. CASE NoToken \/ ParseFails \/ Schedule
    BY <1>5 DEF NoToken, ParseFails, Schedule, FirstInv
  <1>6. CASE SleepTimer \/ SleepRenewNow
    BY <1>6 DEF SleepTimer, SleepRenewNow, RequestToken, FirstInv
  <1>7. CASE TokenOk
    <2>1. pc = "reqToken" /\ pc' = "fetch" /\ cert' = cert
      BY <1>7, Zenon DEF TokenOk
    <2>2. cert # "none"
      BY <1>7, <2>1 DEF FirstInv, TypeOK
    <2>3. QED
      BY <2>1, <2>2 DEF FirstInv
  <1>8. CASE Cancel \/ SendRenewNow \/ UNCHANGED vars
    <2>1. UNCHANGED <<pc, timer, elapsed, cert, token, tokenAge, fails>>
      BY <1>8, Zenon DEF Cancel, SendRenewNow, vars
    <2>2. cancelled => cancelled'
      BY <1>8 DEF Cancel, SendRenewNow, vars
    <2>3. QED
      BY <2>1, <2>2 DEF FirstInv
  <1>9. CASE Tick
    <2>1. /\ UNCHANGED <<pc, cert, token, fails, cancelled>>
          /\ pc # "loop" /\ (pc = "retry" => timer # 0)
          /\ timer' = IF Waiting THEN timer - 1 ELSE timer
          /\ elapsed' = IF Calling THEN elapsed + 1 ELSE elapsed
      BY <1>9, Zenon DEF Tick, Urgent, Waiting
    <2>2. tokenAge' <= tokenAge + 1
      BY <1>0, <1>9 DEF Tick
    <2>3. tokenAge' \in Nat
      BY <1>0, <1>9 DEF Tick
    <2>4. QED
      BY <1>0, <1>a, <2>1, <2>2, <2>3 DEF FirstInv, Waiting, Calling
  <1>10. QED
    BY <1>1, <1>2, <1>3, <1>4, <1>5, <1>6, <1>7, <1>8, <1>9 DEF Next, StartRotation

\* The token of a manager without a certificate is no older than its failures
\* explain, for all delays and call times and any number of failures.
THEOREM FirstTokenAge == Spec => []FirstCertificate
  <1>1. Init => FirstInv
    <2> SUFFICES ASSUME Init PROVE FirstInv
      OBVIOUS
    <2>1. pc = "loop" /\ fails = 0 /\ tokenAge <= 2 * CallMax
      BY TimesAssumption DEF Init, Least
    <2>2. AgeBound(0) = 2 * CallMax
      BY TimesAssumption DEF AgeBound
    <2>3. QED
      BY <2>1, <2>2 DEF FirstInv
  <1>2. TypeOK /\ FirstInv /\ [Next]_vars => FirstInv'
    BY FirstInvStep
  <1>3. TypeOK /\ FirstInv => FirstCertificate
    <2> SUFFICES ASSUME TypeOK, FirstInv, cert = "none", token, ~cancelled, fails <= MaxFail
                 PROVE  tokenAge <= FirstDeadline
      BY DEF FirstCertificate
    <2>1. AgeBound(fails) \in Nat /\ AgeBound(fails) + CallMax <= FirstDeadline
      BY AgeBoundStep DEF TypeOK
    <2>2. FirstDeadline \in Nat
      <3>1. MaxFail * (CallMax + RetryDelay) \in Nat
        BY TimesAssumption
      <3>2. QED
        BY <3>1, TimesAssumption DEF FirstDeadline
    <2>3. QED
      BY <2>1, <2>2, TimesAssumption DEF FirstInv, TypeOK
  <1>4. QED
    BY <1>1, <1>2, <1>3, TypeCorrect, PTL DEF Spec

=============================================================================
