--------------------------- MODULE CircuitBreaker ---------------------------
(***************************************************************************)
(* errs.CircuitBreaker: the goroutines that share one breaker. Execute     *)
(* asks allow under the mutex, calls f outside it, and reports what f      *)
(* returned under the mutex again; other callers come and go in between.   *)
(***************************************************************************)
EXTENDS Integers, FiniteSets

CONSTANTS
  Callers,   \* goroutines
  Threshold, \* failures that trip the circuit
  Timeout,   \* clock ticks it then stays open
  MayPanic   \* TRUE if f may panic

ASSUME BreakerAssumption ==
  /\ IsFiniteSet(Callers)
  /\ Threshold \in Nat
  /\ Timeout \in Nat
  /\ MayPanic \in BOOLEAN

VARIABLES
  state,         \* "Closed", "Open" or "HalfOpen"
  failures,      \* counted up to Threshold: the code only compares it with that
  age,           \* time.Since(lastFailure), counted up to the first tick past Timeout
  trialInFlight,
  call,          \* call[c]: "idle", or how f was admitted: "request", "trial"
  stale,         \* history: a call admitted by the closed circuit reported to another
  lost           \* history: a trial panicked

breaker == <<state, failures, age, trialInFlight>>
cbVars == <<breaker, call, stale, lost>>

CBInit ==
  /\ state = "Closed" /\ failures = 0 /\ age = 0 /\ trialInFlight = FALSE
  /\ call = [c \in Callers |-> "idle"]
  /\ stale = FALSE /\ lost = FALSE

Smaller(a, b) == IF a < b THEN a ELSE b

-----------------------------------------------------------------------------
(* allow.                                                                  *)

AdmitsTrial_Twice == state = "HalfOpen" \/ (state = "Open" /\ age > Timeout) \* mutant
AdmitsTrial_Early == state = "Open" \/ (state = "HalfOpen" /\ ~trialInFlight) \* mutant
AdmitsTrial ==
  \/ state = "Open" /\ age > Timeout
  \/ state = "HalfOpen" /\ ~trialInFlight

Rejects == state # "Closed" /\ ~AdmitsTrial

AllowRequest(c) ==
  /\ call[c] = "idle"
  /\ state = "Closed"
  /\ call' = [call EXCEPT ![c] = "request"]
  /\ UNCHANGED <<breaker, stale, lost>>

AllowTrial(c) ==
  /\ call[c] = "idle"
  /\ AdmitsTrial
  /\ state' = "HalfOpen" /\ trialInFlight' = TRUE
  /\ call' = [call EXCEPT ![c] = "trial"]
  /\ UNCHANGED <<failures, age, stale, lost>>

Allow(c) == AllowRequest(c) \/ AllowTrial(c)

-----------------------------------------------------------------------------
(* f returns, or does not.                                                 *)

IsLate(c) == call[c] = "request" /\ state # "Closed"

Returns(c) ==
  /\ call[c] # "idle"
  /\ call' = [call EXCEPT ![c] = "idle"]
  /\ stale' = (stale \/ IsLate(c))
  /\ UNCHANGED lost

RecordFailure_Stays(c) == \* mutant
  /\ Returns(c)
  /\ failures' = Smaller(failures + 1, Threshold)
  /\ age' = 0 /\ UNCHANGED trialInFlight
  /\ state' = IF failures' >= Threshold /\ state = "Closed" THEN "Open" ELSE state
RecordFailure(c) ==
  /\ Returns(c)
  /\ failures' = Smaller(failures + 1, Threshold)
  /\ age' = 0
  /\ trialInFlight' = FALSE
  /\ state' = IF state = "HalfOpen" \/ failures' >= Threshold THEN "Open" ELSE state

RecordSuccess(c) ==
  /\ Returns(c)
  /\ failures' = 0
  /\ trialInFlight' = FALSE
  /\ state' = "Closed"
  /\ UNCHANGED age

\* The panic unwinds through Execute, which has no recover and reports nothing.
Panics(c) ==
  /\ MayPanic
  /\ call[c] # "idle"
  /\ call' = [call EXCEPT ![c] = "idle"]
  /\ lost' = (lost \/ call[c] = "trial")
  /\ UNCHANGED <<breaker, stale>>

Clock(t) == Smaller(t + 1, Timeout + 1)

Tick == age' = Clock(age) /\ UNCHANGED <<state, failures, trialInFlight, call, stale, lost>>

CBNext ==
  \/ \E c \in Callers : Allow(c) \/ RecordFailure(c) \/ RecordSuccess(c) \/ Panics(c)
  \/ Tick

CBSpec == CBInit /\ [][CBNext]_cbVars

-----------------------------------------------------------------------------
\* The breaker's fields and the callers' positions have their types.
BreakerTypeOK ==
  /\ state \in {"Closed", "Open", "HalfOpen"}
  /\ failures \in 0..Threshold
  /\ age \in 0..(Timeout + 1)
  /\ trialInFlight \in BOOLEAN
  /\ call \in [Callers -> {"idle", "request", "trial"}]
  /\ stale \in BOOLEAN /\ lost \in BOOLEAN

Trials == {c \in Callers : call[c] = "trial"}

\* Trials go one at a time (circuit_breaker.go:24, StateHalfOpen "allows a single
\* trial request"), unless a call that was admitted before the circuit opened came
\* back late: it ends a trial it does not belong to.
OneTrialAtATime == ~stale => \A c, d \in Trials : c = d

\* An open circuit rejects until its timeout, again unless such a late call closes it.
OpenHolds == [][state = "Open" /\ ~stale' => state' = "Open" \/ age > Timeout]_cbVars

\* A half-open circuit rejects for a reason: the trial it waits for is running. A trial
\* that panicked is the exception, and then nothing ever reports it.
HalfOpenIsTried == state = "HalfOpen" => lost \/ Trials # {}

\* So a trial is decided, one way or another, unless one of them panics.
TrialDecides == state = "HalfOpen" ~> state # "HalfOpen" \/ lost
=============================================================================
