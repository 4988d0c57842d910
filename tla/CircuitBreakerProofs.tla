------------------------ MODULE CircuitBreakerProofs ------------------------
(***************************************************************************)
(* The safety properties of the circuit breaker, for any number of callers *)
(* and any threshold and timeout; and that the callers that retry through  *)
(* it are callers as it expects them, so that they hold for those too.     *)
(***************************************************************************)
EXTENDS Retry, DataLemmas

-----------------------------------------------------------------------------
(* The inductive invariant. A trial is in flight exactly when the circuit  *)
(* is half open; and until a late report has mixed things up, a call that  *)
(* was admitted as a trial is the one.                                     *)

FlagIsState == trialInFlight <=> state = "HalfOpen"
TrialIsTheOne ==
  ~stale => \A c \in Callers : call[c] = "trial" =>
              state = "HalfOpen" /\ \A d \in Callers : call[d] = "trial" => c = d

BreakerInv == BreakerTypeOK /\ FlagIsState /\ TrialIsTheOne /\ HalfOpenIsTried

\* Smaller(a, b) is a or b, and at most b.
LEMMA SmallerIsBounded ==
  ASSUME NEW a \in Nat, NEW b \in Nat
  PROVE  Smaller(a, b) \in 0..b
BY DEF Smaller

\* The invariant holds before the first call.
LEMMA BreakerInvInit == CBInit => BreakerInv
<1> SUFFICES ASSUME CBInit PROVE BreakerInv
  OBVIOUS
<1>1. BreakerTypeOK
  <2>1. trialInFlight \in BOOLEAN /\ stale \in BOOLEAN /\ lost \in BOOLEAN
    BY Zenon DEF CBInit
  <2> QED BY <2>1, BreakerAssumption DEF CBInit, BreakerTypeOK
<1>2. FlagIsState /\ HalfOpenIsTried
  BY DEF CBInit, FlagIsState, HalfOpenIsTried
<1>3. TrialIsTheOne
  BY DEF CBInit, TrialIsTheOne
<1> QED BY <1>1, <1>2, <1>3 DEF BreakerInv

\* No critical section, panic or tick of the clock breaks the invariant.
LEMMA BreakerInvStep == BreakerInv /\ [CBNext]_cbVars => BreakerInv'
<1> SUFFICES ASSUME BreakerInv, [CBNext]_cbVars PROVE BreakerInv'
  OBVIOUS
<1> USE BreakerAssumption DEF BreakerInv
<1>1. ASSUME NEW c \in Callers, AllowRequest(c) PROVE BreakerInv'
  <2>1. BreakerTypeOK'
    BY <1>1 DEF AllowRequest, breaker, BreakerTypeOK
  <2>2. FlagIsState'
    BY <1>1 DEF AllowRequest, breaker, FlagIsState
  <2>3. TrialIsTheOne'
    BY <1>1 DEF AllowRequest, breaker, BreakerTypeOK, TrialIsTheOne
  <2>4. HalfOpenIsTried'
    BY <1>1 DEF AllowRequest, breaker, HalfOpenIsTried
  <2> QED BY <2>1, <2>2, <2>3, <2>4
<1>2. ASSUME NEW c \in Callers, AllowTrial(c) PROVE BreakerInv'
  <2>1. BreakerTypeOK'
    BY <1>2 DEF AllowTrial, BreakerTypeOK
  <2>2. FlagIsState'
    BY <1>2 DEF AllowTrial, FlagIsState
  <2>3. TrialIsTheOne'
    <3>1. state # "HalfOpen"
      BY <1>2 DEF AllowTrial, AdmitsTrial, FlagIsState
    <3> QED BY <1>2, <3>1 DEF AllowTrial, BreakerTypeOK, TrialIsTheOne
  <2>4. HalfOpenIsTried'
    <3>1. call'[c] = "trial"
      BY <1>2 DEF AllowTrial, BreakerTypeOK
    <3> QED BY <3>1 DEF HalfOpenIsTried, Trials
  <2> QED BY <2>1, <2>2, <2>3, <2>4
<1>3. ASSUME NEW c \in Callers, RecordFailure(c) PROVE BreakerInv'
  <2>0. Smaller(failures + 1, Threshold) \in 0..Threshold
    BY SmallerIsBounded DEF BreakerTypeOK
  <2>1. BreakerTypeOK'
    <3>1. trialInFlight' \in BOOLEAN /\ stale' \in BOOLEAN
      BY <1>3, Zenon DEF RecordFailure, Returns
    <3> QED BY <1>3, <2>0, <3>1 DEF RecordFailure, Returns, BreakerTypeOK
  <2>2. FlagIsState'
    BY <1>3 DEF RecordFailure, FlagIsState
  <2>3. TrialIsTheOne'
    BY <1>3 DEF RecordFailure, Returns, IsLate, BreakerTypeOK, TrialIsTheOne
  <2>4. HalfOpenIsTried'
    BY <1>3 DEF RecordFailure, HalfOpenIsTried
  <2> QED BY <2>1, <2>2, <2>3, <2>4
<1>4. ASSUME NEW c \in Callers, RecordSuccess(c) PROVE BreakerInv'
  <2>1. BreakerTypeOK'
    <3>1. trialInFlight' \in BOOLEAN /\ stale' \in BOOLEAN
      BY <1>4, Zenon DEF RecordSuccess, Returns
    <3> QED BY <1>4, <3>1 DEF RecordSuccess, Returns, BreakerTypeOK
  <2>2. FlagIsState'
    BY <1>4 DEF RecordSuccess, FlagIsState
  <2>3. TrialIsTheOne'
    BY <1>4 DEF RecordSuccess, Returns, IsLate, BreakerTypeOK, TrialIsTheOne
  <2>4. HalfOpenIsTried'
    BY <1>4 DEF RecordSuccess, HalfOpenIsTried
  <2> QED BY <2>1, <2>2, <2>3, <2>4
<1>5. ASSUME NEW c \in Callers, Panics(c) PROVE BreakerInv'
  <2>1. BreakerTypeOK'
    BY <1>5 DEF Panics, breaker, BreakerTypeOK
  <2>2. FlagIsState'
    BY <1>5 DEF Panics, breaker, FlagIsState
  <2>3. TrialIsTheOne'
    BY <1>5 DEF Panics, breaker, BreakerTypeOK, TrialIsTheOne
  <2>4. HalfOpenIsTried'
    <3>1. ASSUME NEW d \in Trials, d # c PROVE d \in Trials'
      BY <1>5, <3>1 DEF Panics, BreakerTypeOK, Trials
    <3> QED BY <1>5, <3>1 DEF Panics, breaker, BreakerTypeOK, HalfOpenIsTried, Trials
  <2> QED BY <2>1, <2>2, <2>3, <2>4
<1>6. ASSUME Tick PROVE BreakerInv'
  <2>1. BreakerTypeOK'
    <3>1. Clock(age) \in 0..(Timeout + 1)
      BY SmallerIsBounded DEF Clock, BreakerTypeOK
    <3> QED BY <1>6, <3>1 DEF Tick, BreakerTypeOK
  <2>2. FlagIsState' /\ TrialIsTheOne' /\ HalfOpenIsTried'
    BY <1>6 DEF Tick, FlagIsState, TrialIsTheOne, HalfOpenIsTried, Trials
  <2> QED BY <2>1, <2>2
<1>7. CASE UNCHANGED cbVars
  BY <1>7 DEF cbVars, breaker, BreakerTypeOK, FlagIsState, TrialIsTheOne, HalfOpenIsTried, Trials
<1> QED BY <1>1, <1>2, <1>3, <1>4, <1>5, <1>6, <1>7 DEF CBNext, Allow

\* The breaker's fields and the positions of its callers have their types, always.
THEOREM BreakerTypeCorrect == CBSpec => []BreakerTypeOK
<1>1. BreakerInv => BreakerTypeOK
  BY DEF BreakerInv
<1> QED BY <1>1, BreakerInvInit, BreakerInvStep, PTL DEF CBSpec

\* Execute admits one trial at a time, until a call the closed circuit had admitted
\* reports to another.
THEOREM TrialsAreSingle == CBSpec => []OneTrialAtATime
<1>1. BreakerInv => OneTrialAtATime
  BY DEF BreakerInv, TrialIsTheOne, OneTrialAtATime, Trials
<1> QED BY <1>1, BreakerInvInit, BreakerInvStep, PTL DEF CBSpec

\* A half-open circuit waits for a trial that is running, or for one that panicked.
THEOREM HalfOpenHasItsTrial == CBSpec => []HalfOpenIsTried
<1>1. BreakerInv => HalfOpenIsTried
  BY DEF BreakerInv
<1> QED BY <1>1, BreakerInvInit, BreakerInvStep, PTL DEF CBSpec

\* What a step from an open circuit may lead to: it stays open, its timeout is over, or
\* a late report has come in.
LEMMA OpenStep ==
  BreakerInv /\ [CBNext]_cbVars => (state = "Open" /\ ~stale' => state' = "Open" \/ age > Timeout)
<1> SUFFICES ASSUME BreakerInv, [CBNext]_cbVars, state = "Open", ~stale'
             PROVE  state' = "Open" \/ age > Timeout
  OBVIOUS
<1>1. ASSUME NEW c \in Callers, Allow(c) PROVE state' = "Open" \/ age > Timeout
  BY <1>1 DEF Allow, AllowRequest, AllowTrial, AdmitsTrial
<1>2. ASSUME NEW c \in Callers, RecordFailure(c) PROVE state' = "Open"
  BY <1>2 DEF RecordFailure
<1>3. ASSUME NEW c \in Callers, RecordSuccess(c) PROVE FALSE
  <2>1. call[c] = "trial" /\ ~stale
    BY <1>3 DEF RecordSuccess, Returns, IsLate, BreakerInv, BreakerTypeOK
  <2> QED BY <2>1 DEF BreakerInv, TrialIsTheOne
<1>4. ASSUME NEW c \in Callers, Panics(c) PROVE state' = "Open"
  BY <1>4 DEF Panics, breaker
<1>5. CASE Tick \/ UNCHANGED cbVars
  BY <1>5 DEF Tick, cbVars, breaker
<1> QED BY <1>1, <1>2, <1>3, <1>4, <1>5 DEF CBNext

\* An open circuit stays open until its timeout is over, unless a late report closes it.
THEOREM OpenCircuitHolds == CBSpec => OpenHolds
<1>1. BreakerInv /\ [CBNext]_cbVars =>
        [state = "Open" /\ ~stale' => state' = "Open" \/ age > Timeout]_cbVars
  BY OpenStep
<1> QED BY <1>1, BreakerInvInit, BreakerInvStep, PTL DEF CBSpec, OpenHolds

-----------------------------------------------------------------------------
(* Do around Execute.                                                      *)

\* Every step of the callers of Do is a step of the breaker, or none of its business.
LEMMA DoUsesBreaker == [Next]_vars => [CBNext]_cbVars
<1> SUFFICES ASSUME [Next]_vars PROVE [CBNext]_cbVars
  OBVIOUS
<1>1. ASSUME NEW c \in Callers, Goes(c) PROVE [CBNext]_cbVars
  <2>1. CASE Admitted(c)
    BY <1>1, <2>1 DEF Admitted, CBNext
  <2>2. CASE Rejected(c)
    BY <2>2 DEF Rejected
  <2>3. CASE Succeeds(c)
    BY <2>3 DEF Succeeds, CBNext
  <2>4. CASE Fails(c) \/ FailsFatally(c)
    BY <2>4 DEF Fails, FailsFatally, CBNext
  <2>5. CASE TimerFires(c) \/ SeesCancel(c)
    BY <2>5 DEF TimerFires, SeesCancel
  <2> QED BY <1>1, <2>1, <2>2, <2>3, <2>4, <2>5 DEF Goes
<1>2. ASSUME NEW c \in Callers, Begin(c) \/ Cancel(c) PROVE [CBNext]_cbVars
  BY <1>2 DEF Begin, Cancel
<1>3. ASSUME NEW c \in Callers, DoPanics(c) PROVE [CBNext]_cbVars
  BY <1>3 DEF DoPanics, CBNext
<1>4. CASE Passes
  BY <1>4 DEF Passes, CBNext
<1>5. CASE UNCHANGED vars
  BY <1>5 DEF vars
<1> QED BY <1>1, <1>2, <1>3, <1>4, <1>5 DEF Next

\* Callers that retry are callers of the breaker: what holds for it holds among them.
THEOREM RetryingIsCalling == Spec => CBSpec
<1>1. Init => CBInit
  BY DEF Init
<1> QED BY <1>1, DoUsesBreaker, PTL DEF Spec, CBSpec

-----------------------------------------------------------------------------
(* How often Do calls f. The loop's counter says it, in every position.    *)

Positions == {"out", "ready", "running", "wait"}
Endings == {"ok", "fatal", "gave up", "cancelled", "panic"}

DoTypeOK ==
  /\ pos \in [Callers -> Positions]
  /\ attempt \in [Callers -> 0..MaxAttempts]
  /\ result \in [Callers -> Endings \cup {"none"}]
  /\ tries \in [Callers -> Nat]

\* p, a, r, t: a caller's position, attempt, result and tries.
InStep(p, a, t) ==
  /\ p = "out" => a = 0 /\ t <= MaxAttempts + 1
  /\ p \in {"ready", "wait"} => t = a
  /\ p = "running" => t = a + 1

GaveUpInFull(p, r, t) == r = "gave up" => p = "out" /\ t = MaxAttempts + 1

Counted(p, a, r, t) == InStep(p, a, t) /\ GaveUpInFull(p, r, t)

\* A caller that has not given up.
Going(r) == r # "gave up"

DoInv == DoTypeOK /\ \A c \in Callers : Counted(pos[c], attempt[c], result[c], tries[c])

\* MaxAttempts is a natural number.
LEMMA AttemptsNat == MaxAttempts \in Nat
BY PolicyAssumption

\* Where the counts of a caller can go from p, a, r and t.
LEMMA CountsMove ==
  ASSUME NEW p \in Positions, NEW a \in 0..MaxAttempts,
         NEW r \in Endings \cup {"none"}, NEW t \in Nat, Counted(p, a, r, t)
  PROVE  /\ t <= MaxAttempts + 1
         /\ r = "gave up" => t = MaxAttempts + 1
         /\ p = "out" => Counted("ready", a, "none", 0)
         /\ p = "ready" => t = a /\ Going(r) /\ Counted("running", a, r, t + 1)
         /\ p = "running" => t = a + 1 /\ Going(r)
         /\ p = "wait" => Counted("ready", a, r, t)
         /\ p # "out" => \A how \in Endings \ {"gave up"} : Counted("out", 0, how, t)
<1>1. InStep(p, a, t) /\ GaveUpInFull(p, r, t)
  BY DEF Counted
<1>2. t <= MaxAttempts + 1
  BY <1>1, AttemptsNat DEF InStep, Positions
<1>3. /\ p = "out" => InStep("ready", a, 0)
      /\ p = "ready" => t = a /\ InStep("running", a, t + 1)
      /\ p = "running" => t = a + 1
      /\ p = "wait" => InStep("ready", a, t)
      /\ InStep("out", 0, t)
  BY <1>1, <1>2 DEF InStep
<1>4. p # "out" => Going(r)
  BY <1>1, Zenon DEF GaveUpInFull, Going
<1>5. Going(r) => GaveUpInFull("running", r, t + 1) /\ GaveUpInFull("ready", r, t)
  BY Zenon DEF GaveUpInFull, Going
<1>6. GaveUpInFull("ready", "none", 0)
  BY DEF GaveUpInFull
<1>7. \A how \in Endings \ {"gave up"} : GaveUpInFull("out", how, t)
  BY Zenon DEF GaveUpInFull
<1>8. r = "gave up" => t = MaxAttempts + 1
  BY <1>1, Zenon DEF GaveUpInFull
<1>9. "ready" # "out" /\ "running" # "out" /\ "wait" # "out"
  OBVIOUS
<1> QED BY <1>2, <1>3, <1>4, <1>5, <1>6, <1>7, <1>8, <1>9, Zenon DEF Counted

\* Where they can go after an error.
LEMMA CountsAfterError ==
  ASSUME NEW a \in 0..MaxAttempts, NEW r, Going(r)
  PROVE  /\ a = MaxAttempts => Counted("out", 0, "gave up", a + 1)
         /\ a # MaxAttempts => /\ a < MaxAttempts /\ a + 1 \in 0..MaxAttempts
                               /\ Counted("wait", a + 1, r, a + 1)
         /\ a + 1 \in Nat
<1>1. /\ a = MaxAttempts => InStep("out", 0, a + 1) /\ GaveUpInFull("out", "gave up", a + 1)
      /\ a # MaxAttempts => a < MaxAttempts /\ a + 1 \in 0..MaxAttempts
      /\ InStep("wait", a + 1, a + 1)
      /\ a + 1 \in Nat
  BY AttemptsNat DEF InStep, GaveUpInFull
<1>2. GaveUpInFull("wait", r, a + 1)
  BY Zenon DEF GaveUpInFull, Going
<1> QED BY <1>1, <1>2, Zenon DEF Counted

\* The values the steps below use have their types.
LEMMA Values ==
  /\ 0 \in 0..MaxAttempts
  /\ "out" \in Positions /\ "ready" \in Positions /\ "running" \in Positions /\ "wait" \in Positions
  /\ "gave up" \in Endings
BY AttemptsNat DEF Positions, Endings

\* Nobody has called anything yet.
LEMMA DoInvInit == Init => DoInv
<1> SUFFICES ASSUME Init PROVE DoInv
  OBVIOUS
<1>1. DoTypeOK
  BY AttemptsNat DEF Init, DoTypeOK, Positions, Endings
<1>2. Counted("out", 0, "none", 0)
  BY AttemptsNat DEF Counted, InStep, GaveUpInFull
<1>3. ASSUME NEW c \in Callers
      PROVE  pos[c] = "out" /\ attempt[c] = 0 /\ result[c] = "none" /\ tries[c] = 0
  BY DEF Init
<1> QED BY <1>1, <1>2, <1>3 DEF DoInv

\* A step of one caller that gives its entries the values p, a, r and t keeps the
\* counts if those values fit together: nobody else's entries change.
LEMMA OneCallerCounts ==
  ASSUME NEW c \in Callers, DoInv,
         NEW p \in Positions, NEW a \in 0..MaxAttempts,
         NEW r \in Endings \cup {"none"}, NEW t \in Nat,
         pos' = [pos EXCEPT ![c] = p], attempt' = [attempt EXCEPT ![c] = a],
         result' = [result EXCEPT ![c] = r], tries' = [tries EXCEPT ![c] = t],
         Counted(p, a, r, t)
  PROVE  DoInv'
<1>1. DoTypeOK'
  BY DEF DoInv, DoTypeOK
<1>2. ASSUME NEW d \in Callers
      PROVE  Counted(pos'[d], attempt'[d], result'[d], tries'[d])
  <2>1. CASE d = c
    <3>1. pos'[d] = p /\ attempt'[d] = a /\ result'[d] = r /\ tries'[d] = t
      BY <2>1 DEF DoInv, DoTypeOK
    <3> QED BY <3>1
  <2>2. CASE d # c
    <3>1. /\ pos'[d] = pos[d] /\ attempt'[d] = attempt[d]
          /\ result'[d] = result[d] /\ tries'[d] = tries[d]
      BY <2>2 DEF DoInv, DoTypeOK
    <3> QED BY <3>1 DEF DoInv
  <2> QED BY <2>1, <2>2
<1> QED BY <1>1, <1>2 DEF DoInv

\* What the invariant says of one caller.
LEMMA OneCaller ==
  ASSUME DoInv, NEW c \in Callers
  PROVE  /\ pos[c] \in Positions /\ attempt[c] \in 0..MaxAttempts
         /\ result[c] \in Endings \cup {"none"} /\ tries[c] \in Nat
         /\ Counted(pos[c], attempt[c], result[c], tries[c])
         /\ pos = [pos EXCEPT ![c] = pos[c]] /\ attempt = [attempt EXCEPT ![c] = attempt[c]]
         /\ result = [result EXCEPT ![c] = result[c]] /\ tries = [tries EXCEPT ![c] = tries[c]]
BY DEF DoInv, DoTypeOK

\* So a caller in position p has counts that go where they can go from there.
LEMMA OneCallerMoves ==
  ASSUME DoInv, NEW c \in Callers
  PROVE  /\ tries[c] <= MaxAttempts + 1
         /\ result[c] = "gave up" => tries[c] = MaxAttempts + 1
         /\ pos[c] = "out" => Counted("ready", attempt[c], "none", 0)
         /\ pos[c] = "ready" => /\ tries[c] = attempt[c] /\ Going(result[c])
                                /\ Counted("running", attempt[c], result[c], tries[c] + 1)
         /\ pos[c] = "running" => tries[c] = attempt[c] + 1 /\ Going(result[c])
         /\ pos[c] = "wait" => Counted("ready", attempt[c], result[c], tries[c])
         /\ pos[c] # "out" =>
              \A how \in Endings \ {"gave up"} : Counted("out", 0, how, tries[c])
BY OneCaller, CountsMove, Zenon

\* The loop gives up after its last attempt, and otherwise counts the next.
LEMMA AfterErrorCounts ==
  ASSUME NEW c \in Callers, DoInv, AfterError(c), Going(result[c]),
         tries' = [tries EXCEPT ![c] = attempt[c] + 1]
  PROVE  DoInv'
<1>1. attempt[c] \in 0..MaxAttempts /\ attempt[c] + 1 \in Nat
  BY OneCaller, CountsAfterError
<1>2. CASE attempt[c] = MaxAttempts
  <2>1. ~(attempt[c] < MaxAttempts)
    BY <1>2, AttemptsNat
  <2>2. Leave(c, "gave up")
    BY <2>1 DEF AfterError
  <2>3. Counted("out", 0, "gave up", attempt[c] + 1)
    BY <1>1, <1>2, CountsAfterError
  <2> QED BY <1>1, <2>2, <2>3, Values, OneCallerCounts DEF Leave
<1>3. CASE attempt[c] # MaxAttempts
  <2>1. /\ attempt' = [attempt EXCEPT ![c] = attempt[c] + 1]
        /\ pos' = [pos EXCEPT ![c] = "wait"] /\ result' = result
    BY <1>3 DEF AfterError
  <2>2. attempt[c] + 1 \in 0..MaxAttempts /\ Counted("wait", attempt[c] + 1, result[c], attempt[c] + 1)
    BY <1>1, <1>3, CountsAfterError
  <2>3. result' = [result EXCEPT ![c] = result[c]] /\ result[c] \in Endings \cup {"none"}
    BY <2>1, OneCaller
  <2> QED BY <1>1, <2>1, <2>2, <2>3, Values, OneCallerCounts
<1> QED BY <1>2, <1>3

\* No step of a caller, of the clock or of the context breaks the count.
LEMMA DoInvStep == DoInv /\ [Next]_vars => DoInv'
<1> SUFFICES ASSUME DoInv, [Next]_vars PROVE DoInv'
  OBVIOUS
<1>1. ASSUME NEW c \in Callers, Begin(c) PROVE DoInv'
  <2>1. Counted("ready", attempt[c], "none", 0)
    BY <1>1, OneCallerMoves, Zenon DEF Begin
  <2>2. attempt' = [attempt EXCEPT ![c] = attempt[c]] /\ attempt[c] \in 0..MaxAttempts
    BY <1>1, OneCaller DEF Begin
  <2> QED BY <1>1, <2>1, <2>2, Values, OneCallerCounts DEF Begin
<1>2. ASSUME NEW c \in Callers, Admitted(c) PROVE DoInv'
  <2>1. /\ attempt' = [attempt EXCEPT ![c] = attempt[c]] /\ attempt[c] \in 0..MaxAttempts
        /\ result' = [result EXCEPT ![c] = result[c]] /\ result[c] \in Endings \cup {"none"}
        /\ tries' = [tries EXCEPT ![c] = tries[c] + 1] /\ tries[c] + 1 \in Nat
    BY <1>2, OneCaller DEF Admitted, CountTry
  <2>2. Counted("running", attempt[c], result[c], tries[c] + 1)
    BY <1>2, OneCallerMoves, Zenon DEF Admitted
  <2> QED BY <1>2, <2>1, <2>2, Values, OneCallerCounts DEF Admitted
<1>3. ASSUME NEW c \in Callers, Rejected(c) PROVE DoInv'
  <2>1. tries[c] = attempt[c] /\ Going(result[c])
    BY <1>3, OneCallerMoves, Zenon DEF Rejected
  <2>2. tries' = [tries EXCEPT ![c] = attempt[c] + 1]
    BY <1>3, <2>1 DEF Rejected, CountTry
  <2> QED BY <1>3, <2>1, <2>2, AfterErrorCounts DEF Rejected
<1>4. ASSUME NEW c \in Callers, Fails(c) PROVE DoInv'
  <2>1. tries[c] = attempt[c] + 1 /\ Going(result[c])
    BY <1>4, OneCallerMoves, Zenon DEF Fails
  <2>2. tries' = [tries EXCEPT ![c] = attempt[c] + 1]
    BY <1>4, <2>1, OneCaller DEF Fails
  <2> QED BY <1>4, <2>1, <2>2, AfterErrorCounts DEF Fails
<1>5. ASSUME NEW c \in Callers, NEW how \in Endings \ {"gave up"},
             Leave(c, how), pos[c] # "out", UNCHANGED tries
      PROVE  DoInv'
  <2>1. tries' = [tries EXCEPT ![c] = tries[c]] /\ tries[c] \in Nat
    BY <1>5, OneCaller
  <2>2. Counted("out", 0, how, tries[c])
    BY <1>5, OneCallerMoves, Zenon
  <2> QED BY <1>5, <2>1, <2>2, Values, OneCallerCounts DEF Leave
<1>6. ASSUME NEW c \in Callers, Succeeds(c) \/ FailsFatally(c) \/ SeesCancel(c) \/ DoPanics(c)
      PROVE  DoInv'
  <2>1. \E how \in Endings \ {"gave up"} : Leave(c, how)
    BY <1>6 DEF Succeeds, FailsFatally, SeesCancel, DoPanics, Endings
  <2>2. pos[c] # "out" /\ UNCHANGED tries
    BY <1>6 DEF Succeeds, FailsFatally, SeesCancel, DoPanics
  <2> QED BY <2>1, <2>2, <1>5
<1>7. ASSUME NEW c \in Callers, TimerFires(c) PROVE DoInv'
  <2>1. UNCHANGED <<attempt, result, tries>> /\ pos' = [pos EXCEPT ![c] = "ready"]
    BY <1>7 DEF TimerFires
  <2>2. Counted("ready", attempt[c], result[c], tries[c])
    BY <1>7, OneCallerMoves, Zenon DEF TimerFires
  <2>3. /\ attempt' = [attempt EXCEPT ![c] = attempt[c]] /\ attempt[c] \in 0..MaxAttempts
        /\ result' = [result EXCEPT ![c] = result[c]] /\ result[c] \in Endings \cup {"none"}
        /\ tries' = [tries EXCEPT ![c] = tries[c]] /\ tries[c] \in Nat
    BY <2>1, OneCaller
  <2> QED BY <2>1, <2>2, <2>3, Values, OneCallerCounts
<1>8. ASSUME UNCHANGED <<pos, attempt, result, tries>> PROVE DoInv'
  BY <1>8 DEF DoInv, DoTypeOK
<1>9. ASSUME NEW c \in Callers, Cancel(c) PROVE DoInv'
  BY <1>8, <1>9 DEF Cancel
<1>10. CASE Passes \/ UNCHANGED vars
  BY <1>8, <1>10 DEF Passes, vars, doVars
<1> QED BY <1>1, <1>2, <1>3, <1>4, <1>6, <1>7, <1>9, <1>10 DEF Next, Goes

\* Do calls f at most MaxAttempts + 1 times, and not less often when it gives up.
THEOREM RetriesAreCounted == Spec => []TriedInFull
<1>1. ASSUME DoInv, NEW c \in Callers
      PROVE  /\ tries[c] <= MaxAttempts + 1
             /\ result[c] = "gave up" => tries[c] = MaxAttempts + 1
  BY <1>1, OneCallerMoves, Zenon
<1>2. DoInv => TriedInFull
  BY <1>1 DEF TriedInFull
<1> QED BY <1>2, DoInvInit, DoInvStep, PTL DEF Spec

-----------------------------------------------------------------------------
(* How long Do waits. Interval is a recursive function: that there is one, *)
(* and that it has a bound, is proved by induction on the attempt.         *)

Cap == IF InitialInterval > MaxInterval THEN InitialInterval ELSE MaxInterval

\* The interval before attempt i, from the intervals g before the others.
IntervalFrom(g, i) ==
  IF i = 1 THEN InitialInterval
  ELSE IF g[i - 1] * Multiplier > MaxInterval THEN MaxInterval
  ELSE g[i - 1] * Multiplier

\* The policy's fields are natural numbers, and so is the cap.
LEMMA PolicyNats ==
  /\ MaxAttempts \in Nat /\ InitialInterval \in Nat /\ MaxInterval \in Nat
  /\ Multiplier \in Nat /\ JitterPct \in 0..100
  /\ Cap \in Nat /\ InitialInterval \in 0..Cap /\ MaxInterval \in 0..Cap
BY PolicyAssumption DEF Cap

\* An interval is within the cap if the one before it is.
LEMMA IntervalCapped ==
  ASSUME NEW g, NEW i \in Nat, i # 1 => g[i - 1] \in Nat
  PROVE  IntervalFrom(g, i) \in 0..Cap
<1>1. ASSUME NEW x \in Nat PROVE x * Multiplier \in Nat
  BY PolicyNats
<1>2. MaxInterval <= Cap /\ Cap \in Nat
  BY PolicyNats
<1>3. CASE i = 1
  BY <1>3, PolicyNats DEF IntervalFrom
<1>4. CASE i # 1
  <2> DEFINE x == g[i - 1] * Multiplier
  <2>1. x \in Nat
    BY <1>1, <1>4
  <2>2. IntervalFrom(g, i) = IF x > MaxInterval THEN MaxInterval ELSE x
    BY <1>4 DEF IntervalFrom
  <2> HIDE DEF x
  <2> QED BY <2>1, <2>2, <1>2, PolicyNats
<1> QED BY <1>3, <1>4

\* Each number of attempts has its intervals.
LEMMA IntervalsExist ==
  \A n \in Nat : \E g \in [1..n -> 0..Cap] : \A i \in 1..n : g[i] = IntervalFrom(g, i)
<1> DEFINE Has(n) == \E g \in [1..n -> 0..Cap] : \A i \in 1..n : g[i] = IntervalFrom(g, i)
           T == {n \in Nat : Has(n)}
<1>1. 0 \in T
  <2> DEFINE g == [i \in 1..0 |-> 0]
  <2>1. g \in [1..0 -> 0..Cap] /\ \A i \in 1..0 : g[i] = IntervalFrom(g, i)
    OBVIOUS
  <2> HIDE DEF g
  <2>2. Has(0)
    BY <2>1
  <2> QED BY <2>2
<1>2. ASSUME NEW n \in Nat, n \in T PROVE n + 1 \in T
  <2>1. PICK g \in [1..n -> 0..Cap] : \A i \in 1..n : g[i] = IntervalFrom(g, i)
    BY <1>2
  <2> DEFINE h == [i \in 1..(n + 1) |-> IF i = n + 1 THEN IntervalFrom(g, n + 1) ELSE g[i]]
  <2>2. IntervalFrom(g, n + 1) \in 0..Cap
    <3>1. n + 1 # 1 => g[(n + 1) - 1] \in Nat
      BY PolicyNats
    <3> QED BY <3>1, IntervalCapped
  <2>3. h \in [1..(n + 1) -> 0..Cap]
    BY <2>2
  <2>4. ASSUME NEW i \in 1..(n + 1) PROVE h[i] = IntervalFrom(h, i)
    <3>1. i # 1 => h[i - 1] = g[i - 1]
      OBVIOUS
    <3>2. IntervalFrom(h, i) = IntervalFrom(g, i)
      BY <3>1 DEF IntervalFrom
    <3>3. h[i] = IntervalFrom(g, i)
      BY <2>1
    <3> QED BY <3>2, <3>3
  <2> HIDE DEF h
  <2>5. Has(n + 1)
    BY <2>3, <2>4
  <2> QED BY <2>5
<1> HIDE DEF T
<1>3. \A n \in Nat : n \in T
  BY <1>1, <1>2, SetInduction
<1> QED BY <1>3 DEF T

\* NextInterval is what its definition says.
LEMMA IntervalIs == Interval = [i \in 1..MaxAttempts |-> IntervalFrom(Interval, i)]
<1>1. PICK g \in [1..MaxAttempts -> 0..Cap] : \A i \in 1..MaxAttempts : g[i] = IntervalFrom(g, i)
  BY IntervalsExist, PolicyNats
<1>2. g = [i \in 1..MaxAttempts |-> IntervalFrom(g, i)]
  BY <1>1
<1> QED BY <1>2, Zenon DEF Interval, IntervalFrom

\* No interval is above the cap.
LEMMA IntervalBounded == \A i \in 1..MaxAttempts : Interval[i] \in 0..Cap
<1> DEFINE T == {n \in Nat : n \in 1..MaxAttempts => Interval[n] \in 0..Cap}
<1>1. 0 \in T
  OBVIOUS
<1>2. ASSUME NEW n \in Nat, n \in T PROVE n + 1 \in T
  <2>1. SUFFICES ASSUME n + 1 \in 1..MaxAttempts PROVE Interval[n + 1] \in 0..Cap
    OBVIOUS
  <2>2. n + 1 # 1 => n \in 1..MaxAttempts
    BY <2>1, PolicyNats
  <2>3. n + 1 # 1 => Interval[(n + 1) - 1] \in Nat
    BY <1>2, <2>2, PolicyNats
  <2>4. Interval[n + 1] = IntervalFrom(Interval, n + 1)
    BY <2>1, IntervalIs
  <2> QED BY <2>3, <2>4, IntervalCapped
<1> HIDE DEF T
<1>3. \A n \in Nat : n \in T
  BY <1>1, <1>2, SetInduction
<1> QED BY <1>3, PolicyNats DEF T

\* w is a wait that the cap and the jitter allow.
Bounded(w) == w \in Nat /\ 200 * w <= Cap * (200 + JitterPct)

\* A wait of less is allowed if a wait is.
LEMMA ShorterIsBounded ==
  /\ Bounded(0)
  /\ \A w \in Nat : Bounded(w) => Bounded(IF w > 0 THEN w - 1 ELSE 0)
<1> DEFINE most == Cap * (200 + JitterPct)
<1>1. most \in Nat
  BY PolicyNats
<1>2. \A w : Bounded(w) <=> w \in Nat /\ 200 * w <= most
  BY DEF Bounded
<1> HIDE DEF most
<1> QED BY <1>1, <1>2

\* The jitter of an interval stays within the bound.
LEMMA JitterBounded ==
  ASSUME NEW i \in 1..MaxAttempts, NEW w \in Jittered(i)
  PROVE  Bounded(w)
<1> DEFINE n == Interval[i]
           f == 200 + JitterPct
<1>1. n \in 0..Cap /\ f \in Nat /\ f >= 200
  BY IntervalBounded, PolicyNats
<1>2. w \in Nat /\ (200 * w < n * f \/ w = n)
  BY <1>1 DEF Jittered
<1> HIDE DEF n, f
<1>3. \A a, b, c \in Nat : a <= b => a * c <= b * c
  OBVIOUS
<1>4. n * f <= Cap * f /\ 200 * n <= n * f /\ n * f \in Nat /\ Cap * f \in Nat
  BY <1>1, <1>3, PolicyNats
<1>5. 200 * w <= Cap * f
  BY <1>1, <1>2, <1>4
<1> QED BY <1>2, <1>5 DEF Bounded, f

\* The rest of Do's variables: the timers, the contexts, and that a caller is in f
\* exactly if the breaker has admitted it.
WaitInv == wait \in [Callers -> Nat] /\ \A c \in Callers : Bounded(wait[c])
ContextOK == ctxDone \in [Callers -> BOOLEAN]
AdmittedRuns == \A c \in Callers : pos[c] = "running" <=> call[c] # "idle"

RetryInv == BreakerInv /\ DoInv /\ WaitInv /\ ContextOK /\ AdmittedRuns

\* Nobody waits at first.
LEMMA RetryInvInit == Init => RetryInv
<1> SUFFICES ASSUME Init PROVE RetryInv
  OBVIOUS
<1>1. BreakerInv /\ DoInv
  BY BreakerInvInit, DoInvInit DEF Init
<1>2. WaitInv
  BY ShorterIsBounded DEF Init, WaitInv
<1>3. ContextOK
  BY Zenon DEF Init, ContextOK
<1>4. AdmittedRuns
  BY DEF Init, CBInit, AdmittedRuns
<1> QED BY <1>1, <1>2, <1>3, <1>4 DEF RetryInv

\* A caller that gets a wait that is allowed leaves the others theirs.
LEMMA OneWait ==
  ASSUME WaitInv, NEW c \in Callers, NEW w, Bounded(w), wait' = [wait EXCEPT ![c] = w]
  PROVE  WaitInv'
<1>1. w \in Nat
  BY DEF Bounded
<1>2. wait' \in [Callers -> Nat]
  BY <1>1 DEF WaitInv
<1>3. ASSUME NEW d \in Callers PROVE wait'[d] = w \/ wait'[d] = wait[d]
  BY DEF WaitInv
<1>4. ASSUME NEW d \in Callers PROVE Bounded(wait'[d])
  BY <1>3, Zenon DEF WaitInv
<1>5. \A d \in Callers : Bounded(wait[d])'
  BY <1>4 DEF Bounded
<1> QED BY <1>2, <1>5 DEF WaitInv

\* The timers stay within the bound.
LEMMA WaitStep == DoInv /\ WaitInv /\ [Next]_vars => WaitInv'
<1> SUFFICES ASSUME DoInv, WaitInv, [Next]_vars PROVE WaitInv'
  OBVIOUS
<1>1. ASSUME UNCHANGED wait PROVE WaitInv'
  BY <1>1 DEF WaitInv, Bounded
<1>2. ASSUME NEW c \in Callers, NEW how, Leave(c, how) PROVE WaitInv'
  BY <1>2, OneWait, ShorterIsBounded DEF Leave
<1>3. ASSUME NEW c \in Callers, AfterError(c) PROVE WaitInv'
  <2>1. CASE attempt[c] = MaxAttempts /\ Leave(c, "gave up")
    BY <2>1, <1>2
  <2>2. ASSUME attempt[c] < MaxAttempts,
               NEW w \in Jittered(attempt[c] + 1), wait' = [wait EXCEPT ![c] = w]
        PROVE  WaitInv'
    <3>1. attempt[c] + 1 \in 1..MaxAttempts
      BY <2>2, OneCaller, AttemptsNat
    <3>2. Bounded(w)
      BY <3>1, <2>2, JitterBounded
    <3> QED BY <2>2, <3>2, OneWait
  <2> QED BY <1>3, <2>1, <2>2 DEF AfterError
<1>4. ASSUME NEW c \in Callers, Goes(c) \/ Begin(c) \/ DoPanics(c) \/ Cancel(c) PROVE WaitInv'
  <2>1. UNCHANGED wait \/ AfterError(c) \/ \E how : Leave(c, how)
    BY <1>4 DEF Goes, Begin, Admitted, Rejected, Succeeds, Fails, FailsFatally, TimerFires,
                SeesCancel, DoPanics, Cancel
  <2> QED BY <2>1, <1>1, <1>2, <1>3
<1>5. CASE Passes
  <2>1. wait' = [c \in Callers |-> IF wait[c] > 0 THEN wait[c] - 1 ELSE 0]
    BY <1>5 DEF Passes
  <2>2. wait' \in [Callers -> Nat]
    BY <2>1 DEF WaitInv
  <2>3. ASSUME NEW c \in Callers PROVE Bounded(wait'[c])
    <3>1. wait[c] \in Nat /\ Bounded(wait[c])
      BY DEF WaitInv
    <3> QED BY <2>1, <3>1, ShorterIsBounded
  <2>4. \A c \in Callers : Bounded(wait[c])'
    BY <2>3 DEF Bounded
  <2> QED BY <2>2, <2>4 DEF WaitInv
<1>6. CASE UNCHANGED vars
  BY <1>1, <1>6 DEF vars, doVars
<1> QED BY <1>4, <1>5, <1>6 DEF Next

\* A call of f begins when the breaker admits it and ends when the breaker is told.
LEMMA AdmittedStep ==
  BreakerInv /\ DoInv /\ AdmittedRuns /\ ContextOK /\ [Next]_vars => AdmittedRuns' /\ ContextOK'
<1> SUFFICES ASSUME BreakerInv, DoInv, AdmittedRuns, ContextOK, [Next]_vars
             PROVE  AdmittedRuns' /\ ContextOK'
  OBVIOUS
<1>1. pos \in [Callers -> Positions] /\ call \in [Callers -> {"idle", "request", "trial"}]
  BY DEF DoInv, DoTypeOK, BreakerInv, BreakerTypeOK
<1>2. ASSUME NEW c \in Callers, NEW p, p # "running", pos[c] # "running",
             pos' = [pos EXCEPT ![c] = p], call' = call
      PROVE  AdmittedRuns'
  BY <1>1, <1>2 DEF AdmittedRuns
<1>3. ASSUME NEW c \in Callers, NEW p, p # "running",
             pos' = [pos EXCEPT ![c] = p], call' = [call EXCEPT ![c] = "idle"]
      PROVE  AdmittedRuns'
  BY <1>1, <1>3 DEF AdmittedRuns
<1>4. ASSUME NEW c \in Callers, Admitted(c) PROVE AdmittedRuns' /\ ContextOK'
  BY <1>1, <1>4 DEF Admitted, Allow, AllowRequest, AllowTrial, AdmittedRuns, ContextOK
<1>5. ASSUME NEW c \in Callers, AfterError(c)
      PROVE  \E p : p # "running" /\ pos' = [pos EXCEPT ![c] = p]
  BY <1>5 DEF AfterError, Leave
<1>6. ASSUME NEW c \in Callers, Rejected(c) \/ TimerFires(c) \/ SeesCancel(c)
      PROVE  AdmittedRuns' /\ ContextOK'
  <2>1. pos[c] # "running" /\ call' = call /\ ctxDone' = ctxDone
    BY <1>6 DEF Rejected, TimerFires, SeesCancel, cbVars
  <2>2. \E p : p # "running" /\ pos' = [pos EXCEPT ![c] = p]
    BY <1>5, <1>6 DEF Rejected, TimerFires, SeesCancel, Leave
  <2> QED BY <2>1, <2>2, <1>2 DEF ContextOK
<1>7. ASSUME NEW c \in Callers, Succeeds(c) \/ Fails(c) \/ FailsFatally(c) \/ DoPanics(c)
      PROVE  AdmittedRuns' /\ ContextOK'
  <2>1. call' = [call EXCEPT ![c] = "idle"] /\ ctxDone' = ctxDone
    BY <1>7 DEF Succeeds, Fails, FailsFatally, DoPanics, RecordSuccess, RecordFailure, Returns,
                Panics
  <2>2. \E p : p # "running" /\ pos' = [pos EXCEPT ![c] = p]
    BY <1>5, <1>7 DEF Succeeds, Fails, FailsFatally, DoPanics, Leave
  <2> QED BY <2>1, <2>2, <1>3 DEF ContextOK
<1>8. ASSUME NEW c \in Callers, Begin(c) PROVE AdmittedRuns' /\ ContextOK'
  <2>1. pos[c] # "running" /\ call' = call /\ pos' = [pos EXCEPT ![c] = "ready"]
    BY <1>8 DEF Begin, cbVars
  <2>2. ctxDone' = [ctxDone EXCEPT ![c] = FALSE]
    BY <1>8 DEF Begin
  <2>3. ContextOK'
    BY <2>2 DEF ContextOK
  <2> QED BY <2>1, <2>3, <1>2
<1>9. ASSUME NEW c \in Callers, Cancel(c) PROVE AdmittedRuns' /\ ContextOK'
  <2>1. call' = call /\ pos' = pos
    BY <1>9 DEF Cancel, cbVars
  <2>2. ctxDone' = [ctxDone EXCEPT ![c] = TRUE]
    BY <1>9 DEF Cancel
  <2>3. ContextOK'
    BY <2>2 DEF ContextOK
  <2> QED BY <2>1, <2>3 DEF AdmittedRuns
<1>10. CASE Passes \/ UNCHANGED vars
  BY <1>10 DEF Passes, Tick, vars, doVars, cbVars, AdmittedRuns, ContextOK
<1> QED BY <1>4, <1>6, <1>7, <1>8, <1>9, <1>10 DEF Next, Goes

\* The whole invariant is kept.
LEMMA RetryInvStep == RetryInv /\ [Next]_vars => RetryInv'
BY BreakerInvStep, DoUsesBreaker, DoInvStep, WaitStep, AdmittedStep DEF RetryInv

\* The variables of the callers that retry have their types, and a caller is in f exactly
\* when the breaker holds its call.
THEOREM RetryTypeCorrect == Spec => []TypeOK
<1>1. RetryInv => TypeOK
  <2> SUFFICES ASSUME RetryInv PROVE TypeOK
    OBVIOUS
  <2>1. BreakerTypeOK /\ AdmittedRuns /\ ContextOK /\ wait \in [Callers -> Nat]
    BY DEF RetryInv, BreakerInv, WaitInv
  <2>2. DoTypeOK
    BY DEF RetryInv, DoInv
  <2> QED BY <2>1, <2>2 DEF TypeOK, DoTypeOK, Positions, Endings, AdmittedRuns, ContextOK
<1> QED BY <1>1, RetryInvInit, RetryInvStep, PTL DEF Spec

\* No wait is longer than the cap and half the jitter on top of it, for any policy.
THEOREM WaitsAreBounded == Spec => []WaitBounded
<1>1. RetryInv => WaitBounded
  BY DEF RetryInv, WaitInv, Bounded, Cap, WaitBounded
<1> QED BY <1>1, RetryInvInit, RetryInvStep, PTL DEF Spec
=============================================================================
