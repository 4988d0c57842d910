------------------------------- MODULE Retry --------------------------------
(***************************************************************************)
(* errs.RetryPolicy.Do around CircuitBreaker.Execute: each caller retries  *)
(* a call that goes through the breaker all of them share. The package     *)
(* offers the two together (errors.go:1-3) and nothing in src/ uses them   *)
(* yet; a caller of Do alone is one whose circuit stays closed.            *)
(***************************************************************************)
EXTENDS CircuitBreaker

CONSTANTS
  MaxAttempts,     \* the fields of RetryPolicy
  InitialInterval,
  MaxInterval,
  Multiplier,
  JitterPct        \* Jitter, in percent

\* A policy that backs off: a Multiplier below 1 would make the waits shrink.
ASSUME PolicyAssumption ==
  /\ {MaxAttempts, InitialInterval, MaxInterval} \subseteq Nat
  /\ Multiplier \in Nat \ {0}
  /\ JitterPct \in 0..100

VARIABLES
  pos,      \* pos[c]: outside Do ("out"), about to call f ("ready"), in f ("running"), or in the select ("wait")
  attempt,  \* attempt[c]: the loop's counter
  wait,     \* wait[c]: what is left of the timer
  ctxDone,  \* ctxDone[c]: the context given to Do is cancelled
  result,   \* result[c]: how c's last Do ended
  tries     \* history: how often that Do called f

doVars == <<pos, attempt, wait, ctxDone, result, tries>>
vars == <<cbVars, doVars>>

Init ==
  /\ CBInit
  /\ pos = [c \in Callers |-> "out"]
  /\ attempt = [c \in Callers |-> 0]
  /\ wait = [c \in Callers |-> 0]
  /\ ctxDone = [c \in Callers |-> FALSE]
  /\ result = [c \in Callers |-> "none"]
  /\ tries = [c \in Callers |-> 0]

-----------------------------------------------------------------------------
(* NextInterval.                                                           *)

Interval[i \in 1..MaxAttempts] ==
  IF i = 1 THEN InitialInterval
  ELSE IF Interval[i - 1] * Multiplier > MaxInterval THEN MaxInterval
  ELSE Interval[i - 1] * Multiplier

\* The jitter spreads the wait evenly over JitterPct percent of the interval, half of
\* it on each side; the conversion to a Duration cuts the fraction off.
Jittered_Above(i) == \* mutant
  LET n == Interval[i] IN {w \in n..(2 * n) : 100 * w <= n * (100 + JitterPct)}
Jittered(i) ==
  LET n == Interval[i]
  IN {w \in 0..(2 * n) : /\ 200 * w > n * (200 - JitterPct) - 200
                         /\ \/ 200 * w < n * (200 + JitterPct)
                            \/ w = n}

-----------------------------------------------------------------------------
(* Do.                                                                     *)

Leave(c, how) ==
  /\ pos' = [pos EXCEPT ![c] = "out"]
  /\ result' = [result EXCEPT ![c] = how]
  /\ wait' = [wait EXCEPT ![c] = 0]
  /\ attempt' = [attempt EXCEPT ![c] = 0]

Begin(c) ==
  /\ pos[c] = "out"
  /\ pos' = [pos EXCEPT ![c] = "ready"]
  /\ ctxDone' = [ctxDone EXCEPT ![c] = FALSE]
  /\ result' = [result EXCEPT ![c] = "none"]
  /\ tries' = [tries EXCEPT ![c] = 0]
  /\ UNCHANGED <<cbVars, attempt, wait>>

\* What the loop does with an error of f that is not fatal.
AfterError_TooMany(c) == \* mutant
  \/ /\ attempt[c] > MaxAttempts
     /\ Leave(c, "gave up")
  \/ /\ attempt[c] <= MaxAttempts
     /\ attempt' = [attempt EXCEPT ![c] = @ + 1]
     /\ \E w \in Jittered(Smaller(attempt[c] + 1, MaxAttempts)) : wait' = [wait EXCEPT ![c] = w]
     /\ pos' = [pos EXCEPT ![c] = "wait"]
     /\ UNCHANGED result
AfterError(c) ==
  \/ /\ attempt[c] = MaxAttempts
     /\ Leave(c, "gave up")
  \/ /\ attempt[c] < MaxAttempts
     /\ attempt' = [attempt EXCEPT ![c] = @ + 1]
     /\ \E w \in Jittered(attempt[c] + 1) : wait' = [wait EXCEPT ![c] = w]
     /\ pos' = [pos EXCEPT ![c] = "wait"]
     /\ UNCHANGED result

CountTry(c) == tries' = [tries EXCEPT ![c] = @ + 1]

Admitted(c) ==
  /\ pos[c] = "ready"
  /\ Allow(c)
  /\ pos' = [pos EXCEPT ![c] = "running"]
  /\ CountTry(c)
  /\ UNCHANGED <<attempt, wait, ctxDone, result>>

\* ErrCircuitOpen is an error like any other: it uses up an attempt.
Rejected_Free(c) == \* mutant
  /\ pos[c] = "ready"
  /\ Rejects
  /\ \E w \in Jittered(1) : wait' = [wait EXCEPT ![c] = w]
  /\ pos' = [pos EXCEPT ![c] = "wait"]
  /\ UNCHANGED <<cbVars, attempt, ctxDone, result, tries>>
Rejected(c) ==
  /\ pos[c] = "ready"
  /\ Rejects
  /\ AfterError(c)
  /\ CountTry(c)
  /\ UNCHANGED <<cbVars, ctxDone>>

Succeeds(c) ==
  /\ pos[c] = "running"
  /\ RecordSuccess(c)
  /\ Leave(c, "ok")
  /\ UNCHANGED <<ctxDone, tries>>

\* A FatalError counts as a failure with the breaker, and is not tried again.
FailsFatally(c) ==
  /\ pos[c] = "running"
  /\ RecordFailure(c)
  /\ Leave(c, "fatal")
  /\ UNCHANGED <<ctxDone, tries>>

Fails(c) ==
  /\ pos[c] = "running"
  /\ RecordFailure(c)
  /\ AfterError(c)
  /\ UNCHANGED <<ctxDone, tries>>

DoPanics(c) ==
  /\ pos[c] = "running"
  /\ Panics(c)
  /\ Leave(c, "panic")
  /\ UNCHANGED <<ctxDone, tries>>

\* The select: with both ready, either may be taken.
TimerFires(c) ==
  /\ pos[c] = "wait"
  /\ wait[c] = 0
  /\ pos' = [pos EXCEPT ![c] = "ready"]
  /\ UNCHANGED <<cbVars, attempt, wait, ctxDone, result, tries>>

SeesCancel(c) ==
  /\ pos[c] = "wait"
  /\ ctxDone[c]
  /\ Leave(c, "cancelled")
  /\ UNCHANGED <<cbVars, ctxDone, tries>>

Cancel(c) ==
  /\ pos[c] # "out"
  /\ ctxDone' = [ctxDone EXCEPT ![c] = TRUE]
  /\ UNCHANGED <<cbVars, pos, attempt, wait, result, tries>>

Passes ==
  /\ Tick
  /\ wait' = [c \in Callers |-> IF wait[c] > 0 THEN wait[c] - 1 ELSE 0]
  /\ UNCHANGED <<pos, attempt, ctxDone, result, tries>>

Goes(c) ==
  \/ Admitted(c) \/ Rejected(c)
  \/ Succeeds(c) \/ Fails(c) \/ FailsFatally(c)
  \/ TimerFires(c) \/ SeesCancel(c)

Next ==
  \/ \E c \in Callers : Goes(c) \/ Begin(c) \/ DoPanics(c) \/ Cancel(c)
  \/ Passes

Spec == Init /\ [][Next]_vars

\* A caller inside Do goes on (f returns), and the clock does; nobody has to call,
\* cancel or panic.
FairSpec == Spec /\ WF_vars(Passes) /\ \A c \in Callers : WF_vars(Goes(c))

-----------------------------------------------------------------------------
\* The breaker's fields, the loops' variables and the callers' positions fit together.
TypeOK ==
  /\ BreakerTypeOK
  /\ pos \in [Callers -> {"out", "ready", "running", "wait"}]
  /\ attempt \in [Callers -> 0..MaxAttempts]
  /\ wait \in [Callers -> Nat]
  /\ ctxDone \in [Callers -> BOOLEAN]
  /\ result \in [Callers -> {"none", "ok", "fatal", "gave up", "cancelled", "panic"}]
  /\ tries \in [Callers -> Nat]
  /\ \A c \in Callers : pos[c] = "running" <=> call[c] # "idle"

\* Do calls f once and then MaxAttempts times more (retry.go:14, "the maximum number of
\* times an operation will be retried"): never more often, and it gives up only then.
TriedInFull ==
  \A c \in Callers : /\ tries[c] <= MaxAttempts + 1
                     /\ result[c] = "gave up" => tries[c] = MaxAttempts + 1

\* No wait is longer than the cap and half the jitter on top of it. (retry.go:18 calls
\* MaxInterval "the maximum possible wait time", but the jitter is added to the capped
\* interval, and the first interval is not capped.)
WaitBounded ==
  LET cap == IF InitialInterval > MaxInterval THEN InitialInterval ELSE MaxInterval
  IN \A c \in Callers : 200 * wait[c] <= cap * (200 + JitterPct)

\* Do comes back, however the breaker answers.
DoEnds == \A c \in Callers : pos[c] # "out" ~> pos[c] = "out"
=============================================================================
