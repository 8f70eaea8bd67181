-------------------------- MODULE AbstractBreaker ---------------------------
(***************************************************************************)
(* What the circuit breakers promise, stated over the outcomes the         *)
(* providers really had and without the counters the code keeps:           *)
(*                                                                         *)
(*  - a closed breaker opens exactly when the last FailureThreshold        *)
(*    outcomes of its provider were failures;                              *)
(*  - an open breaker lets requests through again (half-open) only after   *)
(*    RecoveryTimeout ticks without any failure;                           *)
(*  - a half-open breaker opens again at the first failure, and closes     *)
(*    only when the last HalfOpenMax outcomes were successes.              *)
(***************************************************************************)
EXTENDS Integers

CONSTANTS Provider, FailureThreshold, RecoveryTimeout, HalfOpenMax

VARIABLES
    state,      \* provider -> state of its breaker
    streak,     \* provider -> run of equal outcomes at the end of its history
    rested      \* provider -> ticks since its last failure (saturated)

vars == <<state, streak, rested>>

\* Lengths of runs are compared with the thresholds only: they saturate here.
StreakCap == LET m == IF FailureThreshold > HalfOpenMax THEN FailureThreshold
                                                        ELSE HalfOpenMax
             IN  IF m > 1 THEN m ELSE 1

NoOutcome == [outcome |-> "none", length |-> 0]

\* The run s followed by one more outcome o.
Extend(s, o) ==
    [ outcome |-> o,
      length  |-> IF s.outcome # o THEN 1
                  ELSE IF s.length < StreakCap THEN s.length + 1 ELSE StreakCap ]

Init ==
    /\ state = [p \in Provider |-> "closed"]
    /\ streak = [p \in Provider |-> NoOutcome]
    /\ rested = [p \in Provider |-> RecoveryTimeout]

Succeed(p) ==
    /\ streak' = [streak EXCEPT ![p] = Extend(@, "success")]
    /\ \/ state' = state
       \/ /\ state[p] = "half-open"
          /\ streak'[p].length >= HalfOpenMax
          /\ state' = [state EXCEPT ![p] = "closed"]
    /\ UNCHANGED rested

Fail(p) ==
    /\ streak' = [streak EXCEPT ![p] = Extend(@, "failure")]
    /\ state' = [state EXCEPT ![p] =
                    IF @ = "closed" /\ streak'[p].length < FailureThreshold
                    THEN "closed" ELSE "open"]
    /\ rested' = [rested EXCEPT ![p] = 0]

Probe(p) ==
    /\ state[p] = "open"
    /\ rested[p] >= RecoveryTimeout
    /\ state' = [state EXCEPT ![p] = "half-open"]
    /\ UNCHANGED <<streak, rested>>

Tick ==
    /\ rested' = [p \in Provider |-> IF rested[p] < RecoveryTimeout
                                     THEN rested[p] + 1 ELSE rested[p]]
    /\ UNCHANGED <<state, streak>>

Next == Tick \/ \E p \in Provider : Succeed(p) \/ Fail(p) \/ Probe(p)

Spec == Init /\ [][Next]_vars
=============================================================================
