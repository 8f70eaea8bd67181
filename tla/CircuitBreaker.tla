--------------------------- MODULE CircuitBreaker ---------------------------
(***************************************************************************)
(* The per-provider circuit breaker (internal/router/circuitbreaker.go) as *)
(* operators on a breaker record.  Every method of the code runs under the *)
(* breaker's mutex, so each is one operator here and is applied in one     *)
(* step by the modules that own breakers.                                  *)
(*                                                                         *)
(* The code keeps lastFailureTime and asks time.Since of it; only whether  *)
(* RecoveryTimeout has passed matters, so the record keeps the time since  *)
(* the last failure, in ticks, saturated at RecoveryTimeout.               *)
(***************************************************************************)
EXTENDS Integers

CONSTANTS
    FailureThreshold,   \* consecutive failures that open a closed breaker
    RecoveryTimeout,    \* ticks an open breaker refuses requests
    HalfOpenMax         \* successes that close a half-open breaker

\* The configuration file is not validated: thresholds may be zero or less.
ASSUME BreakerConfig ==
    /\ FailureThreshold \in Int
    /\ HalfOpenMax \in Int
    /\ RecoveryTimeout \in Nat

CircuitState == {"closed", "open", "half-open"}

Breakers == [ state        : CircuitState,
              failureCount : Nat,
              successCount : Nat,
              sinceFailure : 0..RecoveryTimeout ]

\* lastFailureTime starts as the zero time: infinitely long ago.
NewCircuitBreaker == [ state |-> "closed", failureCount |-> 0,
                       successCount |-> 0, sinceFailure |-> RecoveryTimeout ]

\* Faulty: the recovery timeout is not awaited.
RecoveredAtOnce(cb) == cb.state = "open"

\* The recovery timeout of an open breaker has passed.
Recovered(cb) == cb.state = "open" /\ cb.sinceFailure >= RecoveryTimeout

\* The boolean that Allow returns.
Allows(cb) == cb.state # "open" \/ Recovered(cb)

\* The breaker that Allow leaves behind.
AfterAllow(cb) ==
    IF Recovered(cb) THEN [cb EXCEPT !.state = "half-open", !.successCount = 0]
                     ELSE cb

\* Faulty: a success takes one failure back instead of all of them.
AfterSuccessTakesOneBack(cb) == [cb EXCEPT !.failureCount = @ - 1]

\* Faulty: a success does not reset the count of a closed breaker.
AfterSuccessForgets(cb) ==
    CASE cb.state = "half-open" /\ cb.successCount + 1 >= HalfOpenMax ->
           [cb EXCEPT !.state = "closed", !.failureCount = 0, !.successCount = 0]
      [] cb.state = "half-open" /\ cb.successCount + 1 < HalfOpenMax ->
           [cb EXCEPT !.successCount = @ + 1]
      [] OTHER -> cb

\* RecordSuccess
AfterSuccess(cb) ==
    CASE cb.state = "closed" -> [cb EXCEPT !.failureCount = 0]
      [] cb.state = "half-open" ->
           IF cb.successCount + 1 >= HalfOpenMax
           THEN [cb EXCEPT !.state = "closed", !.failureCount = 0, !.successCount = 0]
           ELSE [cb EXCEPT !.successCount = @ + 1]
      [] OTHER -> cb

\* RecordFailure
AfterFailure(cb) ==
    CASE cb.state = "closed" ->
           [cb EXCEPT !.state = IF cb.failureCount + 1 >= FailureThreshold
                                THEN "open" ELSE "closed",
                      !.failureCount = @ + 1,
                      !.sinceFailure = 0]
      [] cb.state = "half-open" ->
           [cb EXCEPT !.state = "open", !.successCount = 0, !.sinceFailure = 0]
      [] OTHER -> [cb EXCEPT !.sinceFailure = 0]

\* One tick of the clock.
AfterTick(cb) ==
    IF cb.sinceFailure < RecoveryTimeout THEN [cb EXCEPT !.sinceFailure = @ + 1]
                                         ELSE cb
=============================================================================
