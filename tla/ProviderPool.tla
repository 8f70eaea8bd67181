---------------------------- MODULE ProviderPool ----------------------------
(***************************************************************************)
(* The state every request shares: one circuit breaker and one semaphore   *)
(* per provider of fallback_global.yaml, created by NewRouter and used     *)
(* through the router's methods by the chat, batch and streaming paths.    *)
(* Providers without a configuration entry have neither.                   *)
(***************************************************************************)
EXTENDS CircuitBreaker, FiniteSets

CONSTANTS
    Provider,       \* the provider names a request may carry
    Configured,     \* those with an entry in fallback_global.yaml
    Registered,     \* those the provider registry knows (they had an API key)
    Timed,          \* configured providers with a timeout_ms > 0
    MaxConcurrent   \* [Configured -> Int]: max_concurrent of the entry

ASSUME PoolConfig ==
    /\ Configured \subseteq Provider
    /\ Registered \subseteq Provider
    /\ Timed \subseteq Configured
    /\ MaxConcurrent \in [Configured -> Int]

VARIABLES
    breaker,    \* [Configured -> Breakers]
    sem,        \* [Configured -> Nat]: taken slots, the length of Semaphore.ch
    streak      \* history only: the run of outcomes recorded last, per provider

poolVars == <<breaker, sem, streak>>

\* NewSemaphore replaces a capacity that is not positive.
Capacity(p) == IF MaxConcurrent[p] <= 0 THEN 1 ELSE MaxConcurrent[p]

AB == INSTANCE AbstractBreaker WITH
        Provider <- Configured,
        state    <- [p \in Configured |-> breaker[p].state],
        rested   <- [p \in Configured |-> breaker[p].sinceFailure]

PoolTypeOK ==
    /\ breaker \in [Configured -> Breakers]
    /\ sem \in [Configured -> Nat]
    /\ streak \in [Configured -> [ outcome : {"none", "success", "failure"},
                                   length  : 0..AB!StreakCap ]]

PoolInit ==
    /\ breaker = [p \in Configured |-> NewCircuitBreaker]
    /\ sem = [p \in Configured |-> 0]
    /\ streak = [p \in Configured |-> AB!NoOutcome]

-----------------------------------------------------------------------------

\* CheckCircuitBreaker(p): whether it passes, and what it does to the breaker.
Passes(p) == p \in Configured => Allows(breaker[p])

CheckCircuitBreaker(p) ==
    breaker' = IF p \in Configured THEN [breaker EXCEPT ![p] = AfterAllow(@)]
                                   ELSE breaker

\* AcquireSemaphore(p): blocks while every slot is taken.
AcquireSemaphore(p) ==
    /\ p \in Configured
    /\ sem[p] < Capacity(p)
    /\ sem' = [sem EXCEPT ![p] = @ + 1]

\* ReleaseSemaphore(p): receives from the channel, so it blocks on an empty one.
ReleaseSemaphore(p) ==
    /\ sem[p] > 0
    /\ sem' = [sem EXCEPT ![p] = @ - 1]

RecordSuccess(p) ==
    IF p \in Configured
    THEN /\ breaker' = [breaker EXCEPT ![p] = AfterSuccess(@)]
         /\ streak' = [streak EXCEPT ![p] = AB!Extend(@, "success")]
    ELSE UNCHANGED <<breaker, streak>>

RecordFailure(p) ==
    IF p \in Configured
    THEN /\ breaker' = [breaker EXCEPT ![p] = AfterFailure(@)]
         /\ streak' = [streak EXCEPT ![p] = AB!Extend(@, "failure")]
    ELSE UNCHANGED <<breaker, streak>>

\* Time passes.  Only a tick some breaker can observe is a step.
PoolTick ==
    /\ breaker' = [p \in Configured |-> AfterTick(breaker[p])]
    /\ breaker' # breaker
    /\ UNCHANGED <<sem, streak>>
=============================================================================
