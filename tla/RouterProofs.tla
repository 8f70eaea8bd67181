---------------------------- MODULE RouterProofs ----------------------------
(***************************************************************************)
(* Proofs about the router: its types, the slots its calls hold, and the   *)
(* promise of the breakers it drives.  The first section is about the      *)
(* breakers alone: they stay well formed, and each operation on them is a  *)
(* step of AbstractBreaker.                                                *)
(***************************************************************************)
EXTENDS Router, FiniteSetTheorems, TLAPS

-----------------------------------------------------------------------------
\* The breakers.

\* What a step of any request path may do to the breakers: check one, record an
\* outcome with one, let time pass, or nothing.
BreakerStep ==
    \/ PoolTick
    \/ \E p \in Configured : CheckCircuitBreaker(p) /\ UNCHANGED streak
    \/ \E p \in Configured : RecordSuccess(p)
    \/ \E p \in Configured : RecordFailure(p)
    \/ UNCHANGED <<breaker, streak>>

BreakerTypeOK ==
    /\ breaker \in [Configured -> Breakers]
    /\ streak \in [Configured -> [ outcome : {"none", "success", "failure"},
                                   length  : 0..AB!StreakCap ]]

\* The counters of the code summarise the real outcomes: while the breaker is
\* closed failureCount is the length of the final run of failures and has not
\* reached the threshold; while it is half-open all counted successes are part
\* of a final run of successes.
CountersAgree(p) ==
    LET cb == breaker[p]
        s == streak[p]
    IN  /\ cb.state = "closed" =>
             IF s.outcome = "failure" THEN s.length = cb.failureCount
                                      ELSE cb.failureCount = 0
        /\ cb.state = "half-open" /\ cb.successCount > 0 =>
             s.outcome = "success" /\ s.length >= cb.successCount
        /\ cb.state = "closed" /\ cb.failureCount > 0 =>
             cb.failureCount < FailureThreshold

BreakerInv == BreakerTypeOK /\ \A p \in Configured : CountersAgree(p)

-----------------------------------------------------------------------------

\* RecordFailure, written out as the record it leaves behind.
LEMMA FailureResult ==
    ASSUME NEW cb \in Breakers
    PROVE  AfterFailure(cb) =
             [ state |-> IF cb.state = "closed" /\ cb.failureCount + 1 < FailureThreshold
                         THEN "closed" ELSE "open",
               failureCount |-> IF cb.state = "closed" THEN cb.failureCount + 1
                                                       ELSE cb.failureCount,
               successCount |-> IF cb.state = "half-open" THEN 0 ELSE cb.successCount,
               sinceFailure |-> 0 ]
<1>1. CASE cb.state = "closed"
  <2>1. cb.failureCount \in Nat
    BY DEF Breakers
  <2>2. CASE cb.failureCount + 1 >= FailureThreshold
    <3>1. ~(cb.failureCount + 1 < FailureThreshold)
      BY <2>1, <2>2, BreakerConfig
    <3>2. QED
      BY <1>1, <2>2, <3>1 DEF AfterFailure, Breakers
  <2>3. CASE ~(cb.failureCount + 1 >= FailureThreshold)
    <3>1. cb.failureCount + 1 < FailureThreshold
      BY <2>1, <2>3, BreakerConfig
    <3>2. QED
      BY <1>1, <2>3, <3>1 DEF AfterFailure, Breakers
  <2>4. QED
    BY <2>2, <2>3
<1>2. CASE cb.state = "half-open"
  BY <1>2 DEF AfterFailure, Breakers
<1>3. CASE cb.state = "open"
  BY <1>3 DEF AfterFailure, Breakers
<1>4. QED
  BY <1>1, <1>2, <1>3 DEF Breakers, CircuitState

\* RecordSuccess, written out as the record it leaves behind.
LEMMA SuccessResult ==
    ASSUME NEW cb \in Breakers
    PROVE  LET closes == cb.state = "half-open" /\ cb.successCount + 1 >= HalfOpenMax
           IN  AfterSuccess(cb) =
                 [ state |-> IF closes THEN "closed" ELSE cb.state,
                   failureCount |-> IF cb.state = "closed" \/ closes THEN 0
                                                                     ELSE cb.failureCount,
                   successCount |-> IF closes THEN 0
                                    ELSE IF cb.state = "half-open" THEN cb.successCount + 1
                                    ELSE cb.successCount,
                   sinceFailure |-> cb.sinceFailure ]
<1>1. CASE cb.state = "closed"
  BY <1>1, BreakerConfig DEF AfterSuccess, Breakers
<1>2. CASE cb.state = "half-open"
  BY <1>2, BreakerConfig DEF AfterSuccess, Breakers
<1>3. CASE cb.state = "open"
  BY <1>3 DEF AfterSuccess, Breakers
<1>4. QED
  BY <1>1, <1>2, <1>3 DEF Breakers, CircuitState

\* Each operation yields a well-formed breaker again.
LEMMA BreakerOperationsTyped ==
    ASSUME NEW cb \in Breakers
    PROVE  /\ AfterAllow(cb) \in Breakers
           /\ AfterSuccess(cb) \in Breakers
           /\ AfterFailure(cb) \in Breakers
           /\ AfterTick(cb) \in Breakers
<1>1. AfterAllow(cb) \in Breakers
  BY BreakerConfig DEF AfterAllow, Breakers, CircuitState
<1>2. AfterSuccess(cb) \in Breakers
  BY SuccessResult, BreakerConfig DEF Breakers, CircuitState
<1>3. AfterFailure(cb) \in Breakers
  BY FailureResult, BreakerConfig DEF Breakers, CircuitState
<1>4. AfterTick(cb) \in Breakers
  BY BreakerConfig DEF AfterTick, Breakers, CircuitState
<1>5. QED
  BY <1>1, <1>2, <1>3, <1>4

\* The cap on run lengths is at least both thresholds, and positive.
LEMMA CapBounds ==
    /\ AB!StreakCap \in Nat
    /\ AB!StreakCap >= 1
    /\ AB!StreakCap >= FailureThreshold
    /\ AB!StreakCap >= HalfOpenMax
BY BreakerConfig DEF AB!StreakCap

\* What extending a run by an outcome yields.
LEMMA ExtendFacts ==
    ASSUME NEW s \in [outcome : {"none", "success", "failure"}, length : 0..AB!StreakCap],
           NEW o \in {"success", "failure"}
    PROVE  /\ AB!Extend(s, o) \in [outcome : {"none", "success", "failure"},
                                   length : 0..AB!StreakCap]
           /\ AB!Extend(s, o).outcome = o
           /\ s.outcome # o => AB!Extend(s, o).length = 1
           /\ s.outcome = o /\ s.length < AB!StreakCap => AB!Extend(s, o).length = s.length + 1
           /\ s.outcome = o /\ s.length >= AB!StreakCap => AB!Extend(s, o).length = AB!StreakCap
BY CapBounds DEF AB!Extend

\* The breakers stay well formed.
LEMMA BreakerTypeStep ==
    ASSUME BreakerTypeOK, BreakerStep
    PROVE  BreakerTypeOK'
<1>1. CASE PoolTick
  BY <1>1, BreakerOperationsTyped DEF PoolTick, BreakerTypeOK
<1>2. ASSUME NEW p \in Configured, CheckCircuitBreaker(p), UNCHANGED streak
      PROVE  BreakerTypeOK'
  BY <1>2, BreakerOperationsTyped DEF CheckCircuitBreaker, BreakerTypeOK
<1>3. ASSUME NEW p \in Configured, RecordSuccess(p)
      PROVE  BreakerTypeOK'
  <2>1. AfterSuccess(breaker[p]) \in Breakers
    BY BreakerOperationsTyped DEF BreakerTypeOK
  <2>2. AB!Extend(streak[p], "success") \in
           [outcome : {"none", "success", "failure"}, length : 0..AB!StreakCap]
    BY ExtendFacts DEF BreakerTypeOK
  <2>3. QED
    BY <1>3, <2>1, <2>2 DEF RecordSuccess, BreakerTypeOK
<1>4. ASSUME NEW p \in Configured, RecordFailure(p)
      PROVE  BreakerTypeOK'
  <2>1. AfterFailure(breaker[p]) \in Breakers
    BY BreakerOperationsTyped DEF BreakerTypeOK
  <2>2. AB!Extend(streak[p], "failure") \in
           [outcome : {"none", "success", "failure"}, length : 0..AB!StreakCap]
    BY ExtendFacts DEF BreakerTypeOK
  <2>3. QED
    BY <1>4, <2>1, <2>2 DEF RecordFailure, BreakerTypeOK
<1>5. CASE UNCHANGED <<breaker, streak>>
  BY <1>5 DEF BreakerTypeOK
<1>6. QED
  BY <1>1, <1>2, <1>3, <1>4, <1>5 DEF BreakerStep

\* The breakers start well formed, with counters that agree.
LEMMA BreakerInvInit == PoolInit => BreakerInv
<1> SUFFICES ASSUME PoolInit PROVE BreakerInv
  OBVIOUS
<1>1. BreakerTypeOK
  BY BreakerConfig, CapBounds DEF PoolInit, BreakerTypeOK, NewCircuitBreaker, Breakers,
     CircuitState, AB!NoOutcome
<1>2. \A p \in Configured : CountersAgree(p)
  BY DEF PoolInit, CountersAgree, NewCircuitBreaker, AB!NoOutcome
<1>3. QED
  BY <1>1, <1>2 DEF BreakerInv

\* Every breaker operation keeps the counters in agreement with the outcomes.
LEMMA CountersStep ==
    ASSUME BreakerInv, BreakerStep
    PROVE  \A p \in Configured : CountersAgree(p)'
<1> USE DEF BreakerInv
<1> SUFFICES ASSUME NEW q \in Configured PROVE CountersAgree(q)'
  OBVIOUS
<1>0. breaker[q] \in Breakers /\ CountersAgree(q)
  BY DEF BreakerTypeOK
<1>1. CASE PoolTick
  <2>1. breaker'[q] = AfterTick(breaker[q]) /\ streak' = streak
    BY <1>1 DEF PoolTick
  <2>2. /\ breaker'[q].state = breaker[q].state
        /\ breaker'[q].failureCount = breaker[q].failureCount
        /\ breaker'[q].successCount = breaker[q].successCount
    BY <1>0, <2>1 DEF AfterTick, Breakers
  <2>3. QED
    BY <1>0, <2>1, <2>2 DEF CountersAgree
<1>2. ASSUME NEW p \in Configured, CheckCircuitBreaker(p), UNCHANGED streak
      PROVE  CountersAgree(q)'
  <2>1. breaker'[q] = IF p = q THEN AfterAllow(breaker[q]) ELSE breaker[q]
    BY <1>2 DEF CheckCircuitBreaker, BreakerTypeOK
  <2>2. QED
    BY <1>0, <1>2, <2>1 DEF CountersAgree, AfterAllow, Breakers, Recovered
<1>3. ASSUME NEW p \in Configured, RecordSuccess(p)
      PROVE  CountersAgree(q)'
  <2>1. CASE p = q
    <3>1. /\ breaker'[q] = AfterSuccess(breaker[q])
          /\ streak'[q] = AB!Extend(streak[q], "success")
      BY <1>3, <2>1 DEF RecordSuccess, BreakerTypeOK
    <3>2. streak[q] \in [outcome : {"none", "success", "failure"}, length : 0..AB!StreakCap]
      BY DEF BreakerTypeOK
    <3>3. /\ breaker'[q].state = "closed" => breaker'[q].failureCount = 0
          /\ breaker'[q].state = "half-open" =>
               /\ breaker[q].state = "half-open"
               /\ breaker'[q].successCount = breaker[q].successCount + 1
               /\ breaker'[q].successCount < HalfOpenMax
      BY <1>0, <3>1, SuccessResult, BreakerConfig DEF Breakers, CircuitState
    <3>4. /\ streak'[q].outcome = "success"
          /\ streak[q].outcome # "success" => streak'[q].length = 1
          /\ streak[q].outcome = "success" /\ streak[q].length < AB!StreakCap =>
               streak'[q].length = streak[q].length + 1
          /\ streak[q].outcome = "success" /\ streak[q].length >= AB!StreakCap =>
               streak'[q].length = AB!StreakCap
      BY <3>1, <3>2, ExtendFacts
    <3>5. breaker[q].successCount \in Nat /\ streak[q].length \in Nat
      BY <1>0, <3>2 DEF Breakers
    <3>6. QED
      BY <1>0, <3>3, <3>4, <3>5, CapBounds, BreakerConfig DEF CountersAgree
  <2>2. CASE p # q
    BY <1>0, <1>3, <2>2 DEF RecordSuccess, BreakerTypeOK, CountersAgree
  <2>3. QED
    BY <2>1, <2>2
<1>4. ASSUME NEW p \in Configured, RecordFailure(p)
      PROVE  CountersAgree(q)'
  <2>1. CASE p = q
    <3>1. /\ breaker'[q] = AfterFailure(breaker[q])
          /\ streak'[q] = AB!Extend(streak[q], "failure")
      BY <1>4, <2>1 DEF RecordFailure, BreakerTypeOK
    <3>2. streak[q] \in [outcome : {"none", "success", "failure"}, length : 0..AB!StreakCap]
      BY DEF BreakerTypeOK
    <3>3. /\ breaker'[q].state # "half-open"
          /\ breaker'[q].state = "closed" =>
               /\ breaker[q].state = "closed"
               /\ breaker'[q].failureCount = breaker[q].failureCount + 1
               /\ breaker'[q].failureCount < FailureThreshold
      BY <1>0, <3>1, FailureResult, BreakerConfig DEF Breakers, CircuitState
    <3>4. /\ streak'[q].outcome = "failure"
          /\ streak[q].outcome # "failure" => streak'[q].length = 1
          /\ streak[q].outcome = "failure" /\ streak[q].length < AB!StreakCap =>
               streak'[q].length = streak[q].length + 1
      BY <3>1, <3>2, ExtendFacts
    <3>5. breaker[q].failureCount \in Nat /\ streak[q].length \in Nat
      BY <1>0, <3>2 DEF Breakers
    <3>6. QED
      BY <1>0, <3>3, <3>4, <3>5, CapBounds, BreakerConfig DEF CountersAgree
  <2>2. CASE p # q
    BY <1>0, <1>4, <2>2 DEF RecordFailure, BreakerTypeOK, CountersAgree
  <2>3. QED
    BY <2>1, <2>2
<1>5. CASE UNCHANGED <<breaker, streak>>
  BY <1>0, <1>5 DEF CountersAgree
<1>6. QED
  BY <1>1, <1>2, <1>3, <1>4, <1>5 DEF BreakerStep

\* The invariant about breakers survives every step.
LEMMA BreakerInvStep == BreakerInv /\ BreakerStep => BreakerInv'
BY BreakerTypeStep, CountersStep DEF BreakerInv

\* The breakers start as AbstractBreaker does.
LEMMA AbstractInit == PoolInit => AB!Init
BY DEF PoolInit, AB!Init, NewCircuitBreaker

\* Every breaker operation is a step of AbstractBreaker, or changes nothing that
\* it knows of.
LEMMA AbstractStep ==
    ASSUME BreakerInv, BreakerStep
    PROVE  [AB!Next]_(AB!vars)
<1> USE DEF BreakerInv
<1>1. CASE PoolTick
  <2>1. \A p \in Configured : /\ breaker'[p] = AfterTick(breaker[p])
                              /\ breaker[p] \in Breakers
    BY <1>1 DEF PoolTick, BreakerTypeOK
  <2>2. \A p \in Configured :
           /\ breaker'[p].state = breaker[p].state
           /\ breaker'[p].sinceFailure = IF breaker[p].sinceFailure < RecoveryTimeout
                                         THEN breaker[p].sinceFailure + 1
                                         ELSE breaker[p].sinceFailure
    BY <2>1 DEF AfterTick, Breakers
  <2>3. AB!Tick
    BY <1>1, <2>2 DEF AB!Tick, PoolTick
  <2>4. QED
    BY <2>3 DEF AB!Next
<1>2. ASSUME NEW p \in Configured, CheckCircuitBreaker(p), UNCHANGED streak
      PROVE  [AB!Next]_(AB!vars)
  <2>1. CASE p \in Configured /\ Recovered(breaker[p])
    <3>1. /\ breaker[p] \in Breakers
          /\ breaker' = [breaker EXCEPT ![p] =
                            [breaker[p] EXCEPT !.state = "half-open", !.successCount = 0]]
      BY <1>2, <2>1 DEF CheckCircuitBreaker, AfterAllow, BreakerTypeOK
    <3>2. \A q \in Configured :
             /\ breaker'[q].state = IF q = p THEN "half-open" ELSE breaker[q].state
             /\ breaker'[q].sinceFailure = breaker[q].sinceFailure
      BY <2>1, <3>1 DEF BreakerTypeOK, Breakers
    <3>3. AB!Probe(p)
      BY <1>2, <2>1, <3>2 DEF AB!Probe, Recovered
    <3>4. QED
      BY <2>1, <3>3 DEF AB!Next
  <2>2. CASE ~(p \in Configured /\ Recovered(breaker[p]))
    <3>1. breaker' = breaker
      BY <1>2, <2>2 DEF CheckCircuitBreaker, AfterAllow, BreakerTypeOK
    <3>2. QED
      BY <1>2, <3>1 DEF AB!vars
  <2>3. QED
    BY <2>1, <2>2
<1>3. ASSUME NEW p \in Configured, RecordSuccess(p)
      PROVE  [AB!Next]_(AB!vars)
  <2> DEFINE closes == /\ breaker[p].state = "half-open"
                       /\ breaker[p].successCount + 1 >= HalfOpenMax
  <2>1. /\ breaker[p] \in Breakers
        /\ CountersAgree(p)
        /\ breaker' = [breaker EXCEPT ![p] = AfterSuccess(breaker[p])]
        /\ streak' = [streak EXCEPT ![p] = AB!Extend(streak[p], "success")]
        /\ streak[p] \in [outcome : {"none", "success", "failure"},
                          length : 0..AB!StreakCap]
    BY <1>3 DEF RecordSuccess, BreakerTypeOK
  <2>2. \A q \in Configured :
           /\ breaker'[q].state = IF q = p /\ closes THEN "closed" ELSE breaker[q].state
           /\ breaker'[q].sinceFailure = breaker[q].sinceFailure
    BY <2>1, SuccessResult DEF BreakerTypeOK, Breakers
  <2>3. closes => AB!Extend(streak[p], "success").length >= HalfOpenMax
    <3>1. breaker[p].successCount \in Nat /\ streak[p].length \in Nat
      BY <2>1 DEF Breakers
    <3>2. /\ streak[p].outcome # "success" =>
               AB!Extend(streak[p], "success").length = 1
          /\ streak[p].outcome = "success" /\ streak[p].length < AB!StreakCap =>
               AB!Extend(streak[p], "success").length = streak[p].length + 1
          /\ streak[p].outcome = "success" /\ streak[p].length >= AB!StreakCap =>
               AB!Extend(streak[p], "success").length = AB!StreakCap
      BY <2>1, ExtendFacts
    <3>3. QED
      BY <2>1, <3>1, <3>2, CapBounds, BreakerConfig DEF CountersAgree
  <2>4. streak'[p] = AB!Extend(streak[p], "success")
    BY <2>1 DEF BreakerTypeOK
  <2>5. AB!Succeed(p)
    <3>1. [q \in Configured |-> breaker'[q].sinceFailure]
            = [q \in Configured |-> breaker[q].sinceFailure]
      BY <2>2
    <3>2. CASE closes
      <4>1. [q \in Configured |-> breaker'[q].state] =
              [[q \in Configured |-> breaker[q].state] EXCEPT ![p] = "closed"]
        BY <2>2, <3>2
      <4>2. QED
        BY <2>1, <2>3, <2>4, <3>1, <3>2, <4>1 DEF AB!Succeed
    <3>3. CASE ~closes
      <4>1. [q \in Configured |-> breaker'[q].state]
              = [q \in Configured |-> breaker[q].state]
        BY <2>2, <3>3
      <4>2. QED
        BY <2>1, <3>1, <4>1 DEF AB!Succeed
    <3>4. QED
      BY <3>2, <3>3
  <2>6. QED
    BY <2>5 DEF AB!Next
<1>4. ASSUME NEW p \in Configured, RecordFailure(p)
      PROVE  [AB!Next]_(AB!vars)
  <2> DEFINE stays == /\ breaker[p].state = "closed"
                      /\ AB!Extend(streak[p], "failure").length < FailureThreshold
  <2>1. /\ breaker[p] \in Breakers
        /\ CountersAgree(p)
        /\ breaker' = [breaker EXCEPT ![p] = AfterFailure(breaker[p])]
        /\ streak' = [streak EXCEPT ![p] = AB!Extend(streak[p], "failure")]
        /\ streak[p] \in [outcome : {"none", "success", "failure"},
                          length : 0..AB!StreakCap]
    BY <1>4 DEF RecordFailure, BreakerTypeOK
  <2>2. breaker[p].state = "closed" =>
           AB!Extend(streak[p], "failure").length = breaker[p].failureCount + 1
    <3>1. breaker[p].failureCount \in Nat /\ streak[p].length \in Nat
      BY <2>1 DEF Breakers
    <3>2. /\ streak[p].outcome # "failure" =>
               AB!Extend(streak[p], "failure").length = 1
          /\ streak[p].outcome = "failure" /\ streak[p].length < AB!StreakCap =>
               AB!Extend(streak[p], "failure").length = streak[p].length + 1
      BY <2>1, ExtendFacts
    <3>3. QED
      BY <2>1, <3>1, <3>2, CapBounds, BreakerConfig DEF CountersAgree
  <2>3. \A q \in Configured :
           /\ breaker'[q].state = IF q = p THEN IF stays THEN "closed" ELSE "open"
                                           ELSE breaker[q].state
           /\ breaker'[q].sinceFailure = IF q = p THEN 0 ELSE breaker[q].sinceFailure
    BY <2>1, <2>2, FailureResult DEF BreakerTypeOK, Breakers
  <2>4. streak'[p] = AB!Extend(streak[p], "failure")
    BY <2>1 DEF BreakerTypeOK
  <2>5. AB!Fail(p)
    <3>1. [q \in Configured |-> breaker'[q].state] =
            [[q \in Configured |-> breaker[q].state] EXCEPT ![p] =
                IF @ = "closed" /\ streak'[p].length < FailureThreshold
                THEN "closed" ELSE "open"]
      BY <2>3, <2>4
    <3>2. [q \in Configured |-> breaker'[q].sinceFailure] =
            [[q \in Configured |-> breaker[q].sinceFailure] EXCEPT ![p] = 0]
      BY <2>3
    <3>3. QED
      BY <2>1, <3>1, <3>2 DEF AB!Fail
  <2>6. QED
    BY <2>5 DEF AB!Next
<1>5. CASE UNCHANGED <<breaker, streak>>
  BY <1>5 DEF AB!vars
<1>6. QED
  BY <1>1, <1>2, <1>3, <1>4, <1>5 DEF BreakerStep

-----------------------------------------------------------------------------
\* The router's state.

\* The types of what the router keeps per request.
TypeOfRequests ==
    /\ phase \in [Requests -> {"idle", "running", "succeeded", "failed"}]
    /\ policy \in [Requests -> Policies]
    /\ targets \in [Requests -> {<<>>} \cup Chains]
    /\ gone \in [Requests -> BOOLEAN]
    /\ attempts \in [Requests -> Seq(Orders)]
    /\ winner \in [Requests -> {0} \cup Orders]
    /\ inbox \in [Requests -> Seq(Orders)]

\* The types of what it keeps per call.
TypeOfCalls ==
    /\ pc \in [Calls -> PCs]
    /\ status \in [Calls -> Statuses]
    /\ err \in [Calls -> ErrorKinds \cup {"none"}]

\* The typing invariant, in the parts the steps below treat apart.
LEMMA TypeOKParts ==
    TypeOK <=> BreakerTypeOK /\ sem \in [Configured -> Nat] /\ TypeOfRequests /\ TypeOfCalls
BY DEF TypeOK, PoolTypeOK, BreakerTypeOK, TypeOfRequests, TypeOfCalls

\* A call is a request and an order.
LEMMA CallParts ==
    ASSUME NEW a \in Calls
    PROVE  a[1] \in Requests /\ a[2] \in Orders /\ a = <<a[1], a[2]>>
BY DEF Calls

\* Every step of the router does to the breakers what BreakerStep allows.
LEMMA RouterBreakerStep == Next => BreakerStep
<1> SUFFICES ASSUME Next PROVE BreakerStep
  OBVIOUS
<1>1. CASE Tick
  BY <1>1 DEF Tick, BreakerStep
<1>2. ASSUME NEW r \in Requests, NEW pol \in UsedPolicies, NEW chain \in Chains,
             Execute(r, pol, chain)
      PROVE  BreakerStep
  BY <1>2 DEF Execute, BreakerStep, poolVars
<1>3. ASSUME NEW r \in Requests, Cancel(r) \/ RequestStep(r) \/ Retire(r)
      PROVE  BreakerStep
  BY <1>3 DEF Cancel, RequestStep, Retire, Advance, Collect, Drain, BreakerStep, poolVars
<1>4. ASSUME NEW a \in Calls, CallStep(a)
      PROVE  BreakerStep
  <2>1. CASE Admit(a)
    BY <2>1 DEF Admit, CheckCircuitBreaker, BreakerStep
  <2>2. CASE ChatSucceeds(a)
    BY <2>2 DEF ChatSucceeds, RecordSuccess, BreakerStep
  <2>3. ASSUME NEW e \in ErrorKinds, ChatFails(a, e)
        PROVE  BreakerStep
    BY <2>3 DEF ChatFails, RecordFailure, BreakerStep
  <2>4. CASE Acquire(a) \/ AcquireCancelled(a) \/ Send(a) \/ Release(a)
    BY <2>4 DEF Acquire, AcquireCancelled, Send, Release, BreakerStep, poolVars
  <2>5. QED
    BY <1>4, <2>1, <2>2, <2>3, <2>4 DEF CallStep
<1>5. QED
  BY <1>1, <1>2, <1>3, <1>4 DEF Next, RouterNext

\* Every step keeps the records of the requests in their types.
LEMMA RequestTypeStep ==
    ASSUME TypeOfRequests, Next
    PROVE  TypeOfRequests'
<1> USE DEF TypeOfRequests
<1>1. CASE Tick
  BY <1>1 DEF Tick, routerVars, requestVars
<1>2. ASSUME NEW r \in Requests, NEW pol \in UsedPolicies, NEW chain \in Chains,
             Execute(r, pol, chain)
      PROVE  TypeOfRequests'
  <2>1. EffectivePolicy(pol) \in Policies
    BY RouterConfig DEF EffectivePolicy, Policies
  <2>2. QED
    BY <1>2, <2>1 DEF Execute
<1>3. ASSUME NEW r \in Requests, Cancel(r)
      PROVE  TypeOfRequests'
  BY <1>3 DEF Cancel
<1>4. ASSUME NEW r \in Requests, Advance(r)
      PROVE  TypeOfRequests'
  <2> DEFINE i == Len(attempts[r]) + 1
  <2>1. i \in Orders /\ Append(attempts[r], i) \in Seq(Orders)
    BY <1>4 DEF Advance
  <2>2. /\ attempts' = [attempts EXCEPT ![r] = Append(attempts[r], i)]
        /\ UNCHANGED <<policy, targets, gone, inbox>>
        /\ \/ phase' = phase
           \/ phase' = [phase EXCEPT ![r] = "succeeded"]
           \/ phase' = [phase EXCEPT ![r] = "failed"]
        /\ winner' = winner \/ winner' = [winner EXCEPT ![r] = i]
    BY <1>4 DEF Advance
  <2>3. QED
    BY <2>1, <2>2
<1>5. ASSUME NEW r \in Requests, Collect(r)
      PROVE  TypeOfRequests'
  <2>1. /\ Head(inbox[r]) \in Orders
        /\ Tail(inbox[r]) \in Seq(Orders)
        /\ Append(attempts[r], Head(inbox[r])) \in Seq(Orders)
    BY <1>5 DEF Collect
  <2>2. QED
    BY <1>5, <2>1 DEF Collect
<1>6. ASSUME NEW r \in Requests, Drain(r)
      PROVE  TypeOfRequests'
  BY <1>6 DEF Drain
<1>7. ASSUME NEW r \in Requests, Retire(r)
      PROVE  TypeOfRequests'
  BY <1>7 DEF Retire, Policies
<1>8. ASSUME NEW a \in Calls, CallStep(a)
      PROVE  TypeOfRequests'
  <2>1. CASE Send(a)
    BY <2>1, CallParts DEF Send
  <2>2. CASE ~Send(a)
    BY <1>8, <2>2 DEF CallStep, Admit, Acquire, AcquireCancelled, ChatSucceeds, ChatFails,
       Release, requestVars
  <2>3. QED
    BY <2>1, <2>2
<1>9. QED
  BY <1>1, <1>2, <1>3, <1>4, <1>5, <1>6, <1>7, <1>8 DEF Next, RouterNext, RequestStep

\* Every step keeps the records of the calls in their types.
LEMMA CallTypeStep ==
    ASSUME TypeOfCalls, Next
    PROVE  TypeOfCalls'
<1> USE DEF TypeOfCalls, PCs, Statuses, ErrorKinds
<1>1. CASE Tick
  BY <1>1 DEF Tick, routerVars, callVars
<1>2. ASSUME NEW r \in Requests, NEW pol \in UsedPolicies, NEW chain \in Chains,
             Execute(r, pol, chain)
      PROVE  TypeOfCalls'
  BY <1>2 DEF Execute
<1>3. ASSUME NEW r \in Requests, Cancel(r) \/ Collect(r) \/ Drain(r)
      PROVE  TypeOfCalls'
  BY <1>3 DEF Cancel, Collect, Drain, callVars
<1>4. ASSUME NEW r \in Requests, Advance(r)
      PROVE  TypeOfCalls'
  BY <1>4 DEF Advance
<1>5. ASSUME NEW r \in Requests, Retire(r)
      PROVE  TypeOfCalls'
  BY <1>5 DEF Retire
<1>6. ASSUME NEW a \in Calls, CallStep(a)
      PROVE  TypeOfCalls'
  <2>1. CASE Admit(a)
    BY <2>1 DEF Admit, Outcome, Unheld
  <2>2. CASE Acquire(a) \/ Send(a) \/ Release(a)
    BY <2>2 DEF Acquire, Send, Release
  <2>3. CASE AcquireCancelled(a)
    BY <2>3 DEF AcquireCancelled, Outcome, Unheld
  <2>4. CASE ChatSucceeds(a)
    BY <2>4 DEF ChatSucceeds, Outcome, AfterChat
  <2>5. ASSUME NEW e \in ErrorKinds, ChatFails(a, e)
        PROVE  TypeOfCalls'
    BY <2>5 DEF ChatFails, Outcome, AfterChat
  <2>6. QED
    BY <1>6, <2>1, <2>2, <2>3, <2>4, <2>5 DEF CallStep
<1>7. QED
  BY <1>1, <1>2, <1>3, <1>4, <1>5, <1>6 DEF Next, RouterNext, RequestStep

\* Every step keeps the slot counters natural numbers: Release waits for a slot
\* that is taken.
LEMMA SemTypeStep ==
    ASSUME sem \in [Configured -> Nat], Next
    PROVE  sem' \in [Configured -> Nat]
<1>1. CASE Tick
  BY <1>1 DEF Tick, PoolTick
<1>2. ASSUME NEW r \in Requests, NEW pol \in UsedPolicies, NEW chain \in Chains,
             Execute(r, pol, chain)
      PROVE  sem' \in [Configured -> Nat]
  BY <1>2 DEF Execute, poolVars
<1>3. ASSUME NEW r \in Requests, Cancel(r) \/ RequestStep(r) \/ Retire(r)
      PROVE  sem' \in [Configured -> Nat]
  BY <1>3 DEF Cancel, RequestStep, Retire, Advance, Collect, Drain, poolVars
<1>4. ASSUME NEW a \in Calls, CallStep(a)
      PROVE  sem' \in [Configured -> Nat]
  <2>1. CASE Acquire(a)
    BY <2>1 DEF Acquire, AcquireSemaphore
  <2>2. CASE Release(a)
    <3>1. CASE Target(a) \in Configured
      BY <2>2, <3>1 DEF Release, ReleaseSemaphore
    <3>2. CASE Target(a) \notin Configured
      BY <2>2, <3>2 DEF Release, ReleaseSemaphore
    <3>3. QED
      BY <3>1, <3>2
  <2>3. CASE ~Acquire(a) /\ ~Release(a)
    BY <1>4, <2>3 DEF CallStep, Admit, AcquireCancelled, ChatSucceeds, ChatFails, Send, poolVars
  <2>4. QED
    BY <2>1, <2>2, <2>3
<1>5. QED
  BY <1>1, <1>2, <1>3, <1>4 DEF Next, RouterNext

\* The initial state is well typed.
LEMMA TypeInit == Init => TypeOK
<1> SUFFICES ASSUME Init PROVE TypeOK
  OBVIOUS
<1>1. BreakerTypeOK /\ sem \in [Configured -> Nat]
  BY BreakerInvInit DEF Init, PoolInit, BreakerInv
<1>2. TypeOfRequests /\ TypeOfCalls
  BY DEF Init, RouterInit, TypeOfRequests, TypeOfCalls, Policies, PCs, Statuses
<1>3. QED
  BY <1>1, <1>2, TypeOKParts

\* Every step preserves the types.
LEMMA TypeStep == TypeOK /\ [Next]_vars => TypeOK'
<1> SUFFICES ASSUME TypeOK, [Next]_vars PROVE TypeOK'
  OBVIOUS
<1>1. CASE Next
  <2>1. BreakerTypeOK'
    BY <1>1, TypeOKParts, RouterBreakerStep, BreakerTypeStep
  <2>2. sem' \in [Configured -> Nat] /\ TypeOfRequests' /\ TypeOfCalls'
    BY <1>1, TypeOKParts, SemTypeStep, RequestTypeStep, CallTypeStep
  <2>3. QED
    BY <2>1, <2>2, TypeOKParts DEF TypeOK, PoolTypeOK, BreakerTypeOK, TypeOfRequests, TypeOfCalls
<1>2. CASE UNCHANGED vars
  BY <1>2 DEF TypeOK, PoolTypeOK, vars, poolVars, routerVars, requestVars, callVars
<1>3. QED
  BY <1>1, <1>2

\* Every variable of the router keeps its type, for any configuration, any number
\* of requests and chains of any length.
THEOREM RouterTypeCorrect == Spec => []TypeOK
BY TypeInit, TypeStep, PTL DEF Spec

-----------------------------------------------------------------------------
(* Slots.                                                                  *)

\* What the code relies on without saying so: an identifier that is not in use
\* has no goroutines, only calls that took a slot run the deferred Release, and
\* executeSequential has started no call beyond the current one.
Structure ==
    /\ \A r \in Requests : phase[r] = "idle" =>
         attempts[r] = <<>> /\ \A i \in Orders : pc[<<r, i>>] = "idle"
    /\ \A a \in Calls : pc[a] = "release" => Target(a) \in Configured
    /\ \A a \in Calls : ~Fastest(a[1]) /\ a[2] > Len(attempts[a[1]]) + 1 => pc[a] = "idle"

\* The structure holds initially.
LEMMA StructureInit == Init => Structure
BY DEF Init, RouterInit, Structure, Calls

\* Every step of a call preserves the structure.
LEMMA StructureCallStep ==
    ASSUME TypeOK, Structure, NEW a \in Calls, CallStep(a)
    PROVE  Structure'
<1> USE CallParts DEF Structure, TypeOK, Target, Fastest
<1>1. pc[a] # "idle"
  BY DEF CallStep, Admit, Acquire, AcquireCancelled, ChatSucceeds, ChatFails, Send, Release
<1>2. UNCHANGED <<phase, policy, targets, attempts>>
  BY DEF CallStep, Admit, Acquire, AcquireCancelled, ChatSucceeds, ChatFails, Send, Release,
         requestVars
<1>3. /\ pc' = [pc EXCEPT ![a] = pc'[a]]
      /\ pc'[a] = "release" => Target(a) \in Configured
  <2>1. CASE Admit(a)
    BY <2>1 DEF Admit, Outcome, Unheld
  <2>2. CASE Acquire(a)
    BY <2>2 DEF Acquire
  <2>3. CASE AcquireCancelled(a)
    BY <2>3 DEF AcquireCancelled, Outcome, Unheld
  <2>4. CASE ChatSucceeds(a)
    BY <2>4 DEF ChatSucceeds, Outcome, AfterChat
  <2>5. ASSUME NEW e \in ErrorKinds, ChatFails(a, e)
        PROVE  /\ pc' = [pc EXCEPT ![a] = pc'[a]]
               /\ pc'[a] = "release" => Target(a) \in Configured
    BY <2>5 DEF ChatFails, Outcome, AfterChat
  <2>6. CASE Send(a)
    BY <2>6 DEF Send, HoldsSlot
  <2>7. CASE Release(a)
    BY <2>7 DEF Release
  <2>8. QED
    BY <2>1, <2>2, <2>3, <2>4, <2>5, <2>6, <2>7 DEF CallStep
<1>4. \A b \in Calls : b # a => pc'[b] = pc[b]
  BY <1>3
<1>5. \A r \in Requests : phase'[r] = "idle" =>
         attempts'[r] = <<>> /\ \A i \in Orders : pc'[<<r, i>>] = "idle"
  <2> SUFFICES ASSUME NEW r \in Requests, phase'[r] = "idle", NEW i \in Orders
               PROVE  attempts'[r] = <<>> /\ pc'[<<r, i>>] = "idle"
    BY <1>2 DEF Structure
  <2>1. phase[r] = "idle" /\ attempts[r] = <<>> /\ pc[<<r, i>>] = "idle"
    BY <1>2
  <2>2. <<r, i>> # a /\ <<r, i>> \in Calls
    BY <1>1, <2>1 DEF Calls
  <2>3. QED
    BY <1>2, <1>4, <2>1, <2>2
<1>6. \A b \in Calls : pc'[b] = "release" => Target(b)' \in Configured
  BY <1>2, <1>3, <1>4
<1>7. \A b \in Calls : ~Fastest(b[1])' /\ b[2] > Len(attempts'[b[1]]) + 1 => pc'[b] = "idle"
  BY <1>1, <1>2, <1>4
<1>8. QED
  BY <1>5, <1>6, <1>7

\* Every step of the router preserves the structure.
LEMMA StructureStep ==
    ASSUME TypeOK, Structure, Next
    PROVE  Structure'
<1> USE CallParts DEF Structure, TypeOK, Target, Fastest
<1>1. CASE Tick
  BY <1>1 DEF Tick, routerVars, requestVars, callVars
<1>2. ASSUME NEW r \in Requests, NEW pol \in UsedPolicies, NEW chain \in Chains,
             Execute(r, pol, chain)
      PROVE  Structure'
  <2>1. \A b \in Calls : b[1] # r => pc'[b] = pc[b]
    BY <1>2 DEF Execute
  <2>2. \A b \in Calls : b[1] = r => pc'[b] \in {"idle", "admit"}
    <3> SUFFICES ASSUME NEW b \in Calls, b[1] = r PROVE pc'[b] \in {"idle", "admit"}
      OBVIOUS
    <3>1. pc[b] = "idle"
      BY <1>2 DEF Execute
    <3>2. QED
      BY <1>2, <3>1 DEF Execute
  <2>3. \A q \in Requests : phase'[q] = "idle" => q # r /\ phase[q] = "idle"
    BY <1>2 DEF Execute
  <2>4. /\ attempts' = attempts
        /\ attempts[r] = <<>>
        /\ \A q \in Requests : q # r => targets'[q] = targets[q] /\ policy'[q] = policy[q]
    BY <1>2 DEF Execute
  <2>5. policy'[r] # "always_fastest" =>
           \A b \in Calls : b[1] = r /\ b[2] > 1 => pc'[b] = "idle"
    <3> SUFFICES ASSUME policy'[r] # "always_fastest", NEW b \in Calls, b[1] = r, b[2] > 1
                 PROVE  pc'[b] = "idle"
      OBVIOUS
    <3>1. pc[b] = "idle"
      BY <1>2 DEF Execute
    <3>2. pol # "always_fastest"
      BY <1>2 DEF Execute, EffectivePolicy
    <3>3. QED
      BY <1>2, <3>1, <3>2 DEF Execute, Orders
  <2>6. \A q \in Requests : phase'[q] = "idle" =>
           attempts'[q] = <<>> /\ \A i \in Orders : pc'[<<q, i>>] = "idle"
    BY <2>1, <2>3, <2>4 DEF Calls
  <2>7. \A b \in Calls : pc'[b] = "release" => Target(b)' \in Configured
    BY <2>1, <2>2, <2>4
  <2>8. \A b \in Calls : ~Fastest(b[1])' /\ b[2] > Len(attempts'[b[1]]) + 1 => pc'[b] = "idle"
    <3> SUFFICES ASSUME NEW b \in Calls, ~Fastest(b[1])', b[2] > Len(attempts'[b[1]]) + 1
                 PROVE  pc'[b] = "idle"
      OBVIOUS
    <3>1. CASE b[1] = r
      BY <2>4, <2>5, <3>1 DEF Orders
    <3>2. CASE b[1] # r
      BY <2>1, <2>4, <3>2
    <3>3. QED
      BY <3>1, <3>2
  <2>9. QED
    BY <2>6, <2>7, <2>8
<1>3. ASSUME NEW r \in Requests, Cancel(r) \/ Drain(r)
      PROVE  Structure'
  BY <1>3 DEF Cancel, Drain, callVars
<1>4. ASSUME NEW r \in Requests, Collect(r)
      PROVE  Structure'
  <2>1. UNCHANGED <<pc, policy, targets>> /\ Fastest(r)
    BY <1>4 DEF Collect, callVars
  <2>2. \A q \in Requests : q # r => phase'[q] = phase[q] /\ attempts'[q] = attempts[q]
    BY <1>4 DEF Collect
  <2>3. phase'[r] # "idle"
    BY <1>4 DEF Collect
  <2>4. QED
    BY <2>1, <2>2, <2>3
<1>5. ASSUME NEW r \in Requests, Retire(r)
      PROVE  Structure'
  <2>1. /\ UNCHANGED pc
        /\ \A i \in Orders : pc[<<r, i>>] = "idle"
        /\ attempts'[r] = <<>>
        /\ \A q \in Requests : q # r =>
             /\ phase'[q] = phase[q] /\ attempts'[q] = attempts[q]
             /\ targets'[q] = targets[q] /\ policy'[q] = policy[q]
    BY <1>5 DEF Retire
  <2>2. \A b \in Calls : b[1] = r => pc[b] = "idle"
    BY <2>1
  <2>3. \A q \in Requests : phase'[q] = "idle" =>
           attempts'[q] = <<>> /\ \A i \in Orders : pc'[<<q, i>>] = "idle"
    BY <2>1
  <2>4. \A b \in Calls : pc'[b] = "release" => Target(b)' \in Configured
    BY <2>1, <2>2
  <2>5. \A b \in Calls : ~Fastest(b[1])' /\ b[2] > Len(attempts'[b[1]]) + 1 => pc'[b] = "idle"
    <3> SUFFICES ASSUME NEW b \in Calls, ~Fastest(b[1])', b[2] > Len(attempts'[b[1]]) + 1
                 PROVE  pc'[b] = "idle"
      OBVIOUS
    <3>1. CASE b[1] = r
      BY <2>1, <2>2, <3>1
    <3>2. CASE b[1] # r
      BY <2>1, <3>2
    <3>3. QED
      BY <3>1, <3>2
  <2>6. QED
    BY <2>3, <2>4, <2>5
<1>6. ASSUME NEW r \in Requests, Advance(r)
      PROVE  Structure'
  <2> DEFINE i == Len(attempts[r]) + 1
  <2>1. /\ i \in Orders
        /\ attempts' = [attempts EXCEPT ![r] = Append(attempts[r], i)]
        /\ UNCHANGED <<policy, targets>>
        /\ phase[r] = "running"
        /\ \A q \in Requests : q # r => phase'[q] = phase[q]
        /\ phase'[r] # "idle"
    BY <1>6 DEF Advance
  <2>2. Len(attempts'[r]) = i
    BY <2>1
  <2>3. \A b \in Calls : \/ pc'[b] = pc[b]
                         \/ pc'[b] = "idle"
                         \/ pc'[b] = "admit" /\ b[1] = r /\ b[2] = i + 1
    <3>1. CASE pc' = [pc EXCEPT ![<<r, i>>] = "idle"]
      BY <3>1
    <3>2. CASE pc' = [pc EXCEPT ![<<r, i>>] = "idle", ![<<r, i + 1>>] = "admit"]
      <4> SUFFICES ASSUME NEW b \in Calls
                   PROVE  \/ pc'[b] = pc[b]
                          \/ pc'[b] = "idle"
                          \/ pc'[b] = "admit" /\ b[1] = r /\ b[2] = i + 1
        OBVIOUS
      <4>1. CASE b = <<r, i + 1>>
        BY <3>2, <4>1
      <4>2. CASE b # <<r, i + 1>>
        BY <3>2, <4>2
      <4>3. QED
        BY <4>1, <4>2
    <3>3. QED
      BY <1>6, <3>1, <3>2 DEF Advance
  <2>4. \A q \in Requests : phase'[q] = "idle" =>
           attempts'[q] = <<>> /\ \A k \in Orders : pc'[<<q, k>>] = "idle"
    <3> SUFFICES ASSUME NEW q \in Requests, phase'[q] = "idle", NEW k \in Orders
                 PROVE  attempts'[q] = <<>> /\ pc'[<<q, k>>] = "idle"
      BY <2>1
    <3>1. q # r /\ phase[q] = "idle"
      BY <2>1
    <3>2. <<q, k>> \in Calls /\ <<q, k>>[1] = q
      BY DEF Calls
    <3>3. QED
      BY <2>1, <2>3, <3>1, <3>2
  <2>5. \A b \in Calls : pc'[b] = "release" => Target(b)' \in Configured
    BY <2>1, <2>3
  <2>6. \A b \in Calls : ~Fastest(b[1])' /\ b[2] > Len(attempts'[b[1]]) + 1 => pc'[b] = "idle"
    <3> SUFFICES ASSUME NEW b \in Calls, ~Fastest(b[1])', b[2] > Len(attempts'[b[1]]) + 1
                 PROVE  pc'[b] = "idle"
      OBVIOUS
    <3>1. CASE b[1] = r
      <4>1. b[2] > i + 1 /\ b[2] \in Int /\ i \in Int
        BY <2>1, <2>2, <3>1 DEF Orders
      <4>2. b[2] > Len(attempts[b[1]]) + 1 /\ ~Fastest(b[1])
        BY <2>1, <3>1, <4>1
      <4>3. pc[b] = "idle"
        BY <4>2
      <4>4. QED
        BY <2>3, <4>1, <4>3
    <3>2. CASE b[1] # r
      BY <2>1, <2>3, <3>2
    <3>3. QED
      BY <3>1, <3>2
  <2>7. QED
    BY <2>4, <2>5, <2>6
<1>7. ASSUME NEW a \in Calls, CallStep(a)
      PROVE  Structure'
  BY <1>7, StructureCallStep
<1>8. QED
  BY <1>1, <1>2, <1>3, <1>4, <1>5, <1>6, <1>7 DEF Next, RouterNext, RequestStep

-----------------------------------------------------------------------------

\* What one step may do to the slots of provider p and to the calls that hold
\* them: nothing, hand a free slot to one call, or take back the slot of one.
Keeps(p) == Holders(p)' = Holders(p) /\ sem'[p] = sem[p]

Gains(p) ==
    \E a \in Calls \ Holders(p) : /\ Holders(p)' = Holders(p) \cup {a}
                                  /\ sem[p] < Capacity(p)
                                  /\ sem'[p] = sem[p] + 1

Returns(p) ==
    \E a \in Holders(p) : /\ Holders(p)' = Holders(p) \ {a}
                          /\ sem'[p] = sem[p] - 1

Balanced(p) == Keeps(p) \/ Gains(p) \/ Returns(p)

\* Calls whose own state stays as it is, or that hold nothing before and after,
\* leave the holders alone.
LEMMA SameHolders ==
    ASSUME NEW p \in Configured, sem' = sem,
           \A b \in Calls : (HoldsSlot(b)' /\ Target(b)' = p) <=> (HoldsSlot(b) /\ Target(b) = p)
    PROVE  Balanced(p)
BY DEF Balanced, Keeps, Holders

\* The steps of one call keep the slots balanced.
LEMMA BalanceCallStep ==
    ASSUME TypeOK, Structure, NEW a \in Calls, CallStep(a), NEW p \in Configured
    PROVE  Balanced(p)
<1> USE CallParts
<1>1. UNCHANGED <<phase, policy, targets>>
  BY DEF CallStep, Admit, Acquire, AcquireCancelled, ChatSucceeds, ChatFails, Send, Release,
         requestVars
<1>2. \A b \in Calls : Target(b)' = Target(b)
  BY <1>1 DEF Target
<1>3. /\ pc' = [pc EXCEPT ![a] = pc'[a]]
      /\ status' = [status EXCEPT ![a] = status'[a]]
  <2> USE DEF TypeOK
  <2>1. CASE Admit(a)
    BY <2>1 DEF Admit, Outcome
  <2>2. CASE Acquire(a) \/ Send(a) \/ Release(a)
    BY <2>2 DEF Acquire, Send, Release
  <2>3. CASE AcquireCancelled(a) \/ ChatSucceeds(a) \/ \E e \in ErrorKinds : ChatFails(a, e)
    BY <2>3 DEF AcquireCancelled, ChatSucceeds, ChatFails, Outcome
  <2>4. QED
    BY <2>1, <2>2, <2>3 DEF CallStep
<1>4. \A b \in Calls : b # a => pc'[b] = pc[b] /\ status'[b] = status[b]
  BY <1>3 DEF TypeOK
<1>5. \A b \in Calls : b # a => (HoldsSlot(b)' <=> HoldsSlot(b))
  BY <1>2, <1>4 DEF HoldsSlot
<1>6. ASSUME sem' = sem, HoldsSlot(a)' <=> HoldsSlot(a)
      PROVE  Balanced(p)
  BY <1>2, <1>5, <1>6, SameHolders
<1>7. CASE Admit(a)
  <2>1. sem' = sem /\ pc[a] = "admit"
    BY <1>7 DEF Admit
  <2>2. \/ pc'[a] = "acquire"
        \/ pc'[a] = "chat" /\ Target(a) \notin Configured
        \/ pc'[a] = "returned"
        \/ pc'[a] = "send" /\ status'[a] \in {"circuit_open", "provider_not_found"}
    BY <1>7 DEF Admit, Outcome, Unheld, TypeOK
  <2>3. ~HoldsSlot(a) /\ ~HoldsSlot(a)'
    BY <1>2, <2>1, <2>2 DEF HoldsSlot
  <2>4. QED
    BY <1>6, <2>1, <2>3
<1>8. CASE Acquire(a)
  <2>1. /\ pc[a] = "acquire" /\ pc'[a] = "chat"
        /\ Target(a) \in Configured
        /\ sem[Target(a)] < Capacity(Target(a))
        /\ sem' = [sem EXCEPT ![Target(a)] = sem[Target(a)] + 1]
    BY <1>8 DEF Acquire, AcquireSemaphore, TypeOK
  <2>2. ~HoldsSlot(a) /\ HoldsSlot(a)'
    BY <1>2, <2>1 DEF HoldsSlot
  <2>3. CASE Target(a) = p
    <3>1. a \in Calls \ Holders(p) /\ Holders(p)' = Holders(p) \cup {a}
      BY <1>2, <1>5, <2>2, <2>3 DEF Holders
    <3>2. sem[p] < Capacity(p) /\ sem'[p] = sem[p] + 1
      BY <2>1, <2>3 DEF TypeOK, PoolTypeOK
    <3>3. QED
      BY <3>1, <3>2 DEF Balanced, Gains
  <2>4. CASE Target(a) # p
    <3>1. Holders(p)' = Holders(p)
      BY <1>2, <1>5, <2>4 DEF Holders
    <3>2. sem'[p] = sem[p]
      BY <2>1, <2>4 DEF TypeOK, PoolTypeOK
    <3>3. QED
      BY <3>1, <3>2 DEF Balanced, Keeps
  <2>5. QED
    BY <2>3, <2>4
<1>9. CASE AcquireCancelled(a)
  <2>1. /\ sem' = sem /\ pc[a] = "acquire"
        /\ pc'[a] = "returned" \/ (pc'[a] = "send" /\ status'[a] = "timeout")
    BY <1>9 DEF AcquireCancelled, Outcome, Unheld, TypeOK, poolVars
  <2>2. ~HoldsSlot(a) /\ ~HoldsSlot(a)'
    BY <2>1 DEF HoldsSlot
  <2>3. QED
    BY <1>6, <2>1, <2>2
<1>10. CASE ChatSucceeds(a) \/ \E e \in ErrorKinds : ChatFails(a, e)
  <2>1. /\ sem' = sem /\ pc[a] = "chat" /\ pc'[a] = AfterChat(a)
        /\ status'[a] \in {"success", "error"}
    BY <1>10 DEF ChatSucceeds, ChatFails, Outcome, TypeOK
  <2>2. CASE Target(a) \in Configured
    <3>1. AfterChat(a) \in {"send", "release"}
      BY <2>2 DEF AfterChat
    <3>2. HoldsSlot(a) /\ HoldsSlot(a)'
      BY <1>2, <2>1, <2>2, <3>1 DEF HoldsSlot
    <3>3. QED
      BY <1>6, <2>1, <3>2
  <2>3. CASE Target(a) \notin Configured
    <3>1. ~HoldsSlot(a) /\ ~HoldsSlot(a)'
      BY <1>2, <2>3 DEF HoldsSlot
    <3>2. QED
      BY <1>6, <2>1, <3>1
  <2>4. QED
    BY <2>2, <2>3
<1>11. CASE Send(a)
  <2>1. /\ sem' = sem /\ pc[a] = "send"
        /\ pc'[a] = IF HoldsSlot(a) THEN "release" ELSE "idle"
    BY <1>11 DEF Send, poolVars, TypeOK
  <2>2. CASE HoldsSlot(a)
    <3>1. HoldsSlot(a)'
      BY <1>2, <2>1, <2>2 DEF HoldsSlot
    <3>2. QED
      BY <1>6, <2>1, <2>2, <3>1
  <2>3. CASE ~HoldsSlot(a)
    <3>1. ~HoldsSlot(a)'
      BY <2>1, <2>3 DEF HoldsSlot
    <3>2. QED
      BY <1>6, <2>1, <2>3, <3>1
  <2>4. QED
    BY <2>2, <2>3
<1>12. CASE Release(a)
  <2>1. /\ pc[a] = "release" /\ pc'[a] \in {"idle", "returned"}
        /\ sem' = [sem EXCEPT ![Target(a)] = sem[Target(a)] - 1]
    BY <1>12 DEF Release, ReleaseSemaphore, TypeOK
  <2>2. HoldsSlot(a) /\ ~HoldsSlot(a)'
    BY <2>1 DEF HoldsSlot, Structure
  <2>3. CASE Target(a) = p
    <3>1. a \in Holders(p) /\ Holders(p)' = Holders(p) \ {a}
      BY <1>2, <1>5, <2>2, <2>3 DEF Holders
    <3>2. sem'[p] = sem[p] - 1
      BY <2>1, <2>3 DEF TypeOK, PoolTypeOK
    <3>3. QED
      BY <3>1, <3>2 DEF Balanced, Returns
  <2>4. CASE Target(a) # p
    <3>1. Holders(p)' = Holders(p)
      BY <1>2, <1>5, <2>4 DEF Holders
    <3>2. sem'[p] = sem[p]
      BY <2>1, <2>4 DEF TypeOK, PoolTypeOK
    <3>3. QED
      BY <3>1, <3>2 DEF Balanced, Keeps
  <2>5. QED
    BY <2>3, <2>4
<1>13. QED
  BY <1>7, <1>8, <1>9, <1>10, <1>11, <1>12 DEF CallStep

\* Every step of the router keeps the slots of every provider balanced.
LEMMA BalanceStep ==
    ASSUME TypeOK, Structure, Next, NEW p \in Configured
    PROVE  Balanced(p)
<1> USE CallParts
<1>1. CASE Tick
  BY <1>1, SameHolders DEF Tick, PoolTick, routerVars, requestVars, callVars, HoldsSlot, Target
<1>2. ASSUME NEW r \in Requests, NEW pol \in UsedPolicies, NEW chain \in Chains,
             Execute(r, pol, chain)
      PROVE  Balanced(p)
  <2>1. sem' = sem /\ status' = status /\ phase[r] = "idle"
    BY <1>2 DEF Execute, poolVars
  <2>2. \A b \in Calls : b[1] = r => pc[b] = "idle" /\ pc'[b] \in {"idle", "admit"}
    BY <1>2, <2>1 DEF Execute, Structure
  <2>3. \A b \in Calls : b[1] # r => pc'[b] = pc[b] /\ Target(b)' = Target(b)
    BY <1>2 DEF Execute, Target, TypeOK
  <2>4. \A b \in Calls : (HoldsSlot(b)' /\ Target(b)' = p) <=> (HoldsSlot(b) /\ Target(b) = p)
    BY <2>1, <2>2, <2>3 DEF HoldsSlot
  <2>5. QED
    BY <2>1, <2>4, SameHolders
<1>3. ASSUME NEW r \in Requests, Cancel(r) \/ Collect(r) \/ Drain(r)
      PROVE  Balanced(p)
  <2>1. UNCHANGED <<sem, targets, pc, status>>
    BY <1>3 DEF Cancel, Collect, Drain, poolVars, callVars
  <2>2. QED
    BY <2>1, SameHolders DEF HoldsSlot, Target
<1>4. ASSUME NEW r \in Requests, Retire(r)
      PROVE  Balanced(p)
  <2>1. sem' = sem /\ pc' = pc /\ \A b \in Calls : b[1] = r => pc[b] = "idle"
    BY <1>4 DEF Retire, poolVars
  <2>2. \A b \in Calls : b[1] # r => status'[b] = status[b] /\ Target(b)' = Target(b)
    BY <1>4 DEF Retire, Target, TypeOK
  <2>3. \A b \in Calls : (HoldsSlot(b)' /\ Target(b)' = p) <=> (HoldsSlot(b) /\ Target(b) = p)
    BY <2>1, <2>2 DEF HoldsSlot
  <2>4. QED
    BY <2>1, <2>3, SameHolders
<1>5. ASSUME NEW r \in Requests, Advance(r)
      PROVE  Balanced(p)
  <2> DEFINE i == Len(attempts[r]) + 1
  <2>1. /\ UNCHANGED <<sem, targets, status>>
        /\ ~Fastest(r) /\ pc[<<r, i>>] = "returned" /\ i \in Orders
        /\ \/ pc' = [pc EXCEPT ![<<r, i>>] = "idle"]
           \/ pc' = [pc EXCEPT ![<<r, i>>] = "idle", ![<<r, i + 1>>] = "admit"]
    BY <1>5 DEF Advance, poolVars
  <2>2. \A b \in Calls :
           \/ pc'[b] = pc[b]
           \/ pc[b] \in {"returned", "idle"} /\ pc'[b] \in {"admit", "idle"}
    <3> SUFFICES ASSUME NEW b \in Calls
                 PROVE  \/ pc'[b] = pc[b]
                        \/ pc[b] \in {"returned", "idle"} /\ pc'[b] \in {"admit", "idle"}
      OBVIOUS
    <3>1. CASE b = <<r, i + 1>>
      <4>1. b[1] = r /\ b[2] = i + 1 /\ i \in Int
        BY <2>1, <3>1 DEF Orders
      <4>2. b[2] > Len(attempts[b[1]]) + 1
        BY <4>1
      <4>3. pc[b] = "idle"
        BY <2>1, <4>1, <4>2 DEF Structure
      <4>4. pc'[b] = pc[b] \/ pc'[b] \in {"admit", "idle"}
        BY <2>1, <3>1 DEF TypeOK
      <4>5. QED
        BY <4>3, <4>4
    <3>2. CASE b # <<r, i + 1>>
      BY <2>1, <3>2 DEF TypeOK
    <3>3. QED
      BY <3>1, <3>2
  <2>3. \A b \in Calls : (HoldsSlot(b)' /\ Target(b)' = p) <=> (HoldsSlot(b) /\ Target(b) = p)
    BY <2>1, <2>2 DEF HoldsSlot, Target
  <2>4. QED
    BY <2>1, <2>3, SameHolders
<1>6. ASSUME NEW a \in Calls, CallStep(a)
      PROVE  Balanced(p)
  BY <1>6, BalanceCallStep
<1>7. QED
  BY <1>1, <1>2, <1>3, <1>4, <1>5, <1>6 DEF Next, RouterNext, RequestStep

\* The calls that hold a slot are finitely many.
LEMMA HoldersFinite ==
    ASSUME NEW p
    PROVE  IsFiniteSet(Holders(p))
<1>1. IsFiniteSet(Orders)
  BY RouterConfig, FS_Interval DEF Orders
<1>2. IsFiniteSet(Calls)
  BY <1>1, RouterConfig, FS_Product DEF Calls
<1>3. Holders(p) \in SUBSET Calls
  BY DEF Holders
<1>4. QED
  BY <1>2, <1>3, FS_Subset

\* A capacity is at least one.
LEMMA CapacityPositive ==
    ASSUME NEW p \in Configured
    PROVE  Capacity(p) \in Nat /\ Capacity(p) >= 1
BY PoolConfig DEF Capacity

\* A balanced step keeps the count of the taken slots right.
LEMMA AccountStep ==
    ASSUME TypeOK, TypeOK', NEW p \in Configured, Balanced(p),
           sem[p] = Cardinality(Holders(p)), sem[p] <= Capacity(p)
    PROVE  sem'[p] = Cardinality(Holders(p)') /\ sem'[p] <= Capacity(p)
<1>0. IsFiniteSet(Holders(p)) /\ sem[p] \in Nat /\ Capacity(p) \in Nat
  BY HoldersFinite, CapacityPositive DEF TypeOK, PoolTypeOK
<1>1. CASE Keeps(p)
  BY <1>1 DEF Keeps
<1>2. CASE Gains(p)
  <2>1. PICK a \in Calls \ Holders(p) : /\ Holders(p)' = Holders(p) \cup {a}
                                        /\ sem[p] < Capacity(p)
                                        /\ sem'[p] = sem[p] + 1
    BY <1>2 DEF Gains
  <2>2. Cardinality(Holders(p) \cup {a}) = Cardinality(Holders(p)) + 1
    BY <1>0, <2>1, FS_AddElement
  <2>3. QED
    BY <1>0, <2>1, <2>2
<1>3. CASE Returns(p)
  <2>1. PICK a \in Holders(p) : Holders(p)' = Holders(p) \ {a} /\ sem'[p] = sem[p] - 1
    BY <1>3 DEF Returns
  <2>2. Cardinality(Holders(p) \ {a}) = Cardinality(Holders(p)) - 1
    BY <1>0, <2>1, FS_RemoveElement
  <2>3. QED
    BY <1>0, <2>1, <2>2
<1>4. QED
  BY <1>1, <1>2, <1>3 DEF Balanced

\* The inductive invariant of the slots.
SlotInv == TypeOK /\ Structure /\ SlotsAccounted

\* It holds initially: no call runs and every semaphore is empty.
LEMMA SlotInvInit == Init => SlotInv
<1> SUFFICES ASSUME Init PROVE SlotInv
  OBVIOUS
<1>1. \A p \in Configured : Holders(p) = {}
  BY DEF Init, RouterInit, Holders, HoldsSlot
<1>2. SlotsAccounted
  BY <1>1, FS_EmptySet, CapacityPositive DEF SlotsAccounted, Init, PoolInit
<1>3. QED
  BY <1>2, TypeInit, StructureInit DEF SlotInv

\* Every step preserves it.
LEMMA SlotInvStep == SlotInv /\ [Next]_vars => SlotInv'
<1> SUFFICES ASSUME SlotInv, [Next]_vars PROVE SlotInv'
  OBVIOUS
<1>1. TypeOK'
  BY TypeStep DEF SlotInv
<1>2. CASE Next
  <2>1. Structure'
    BY <1>2, StructureStep DEF SlotInv
  <2>2. \A p \in Configured : sem'[p] = Cardinality(Holders(p)') /\ sem'[p] <= Capacity(p)
    BY <1>1, <1>2, BalanceStep, AccountStep DEF SlotInv, SlotsAccounted
  <2>3. QED
    BY <1>1, <2>1, <2>2 DEF SlotInv, SlotsAccounted, Holders, HoldsSlot, Target
<1>3. CASE UNCHANGED vars
  <2>1. Structure'
    BY <1>3 DEF SlotInv, Structure, vars, routerVars, requestVars, callVars, Target, Fastest
  <2>2. SlotsAccounted'
    BY <1>3 DEF SlotInv, SlotsAccounted, vars, poolVars, routerVars, requestVars, callVars,
       Holders, HoldsSlot, Target
  <2>3. QED
    BY <1>1, <2>1, <2>2 DEF SlotInv
<1>4. QED
  BY <1>2, <1>3

\* The semaphores of the router never leak a slot, release one twice or exceed
\* their capacity, for any number of requests, targets and providers.
THEOREM RouterSlotsAccounted == Spec => []SlotsAccounted
<1>1. SlotInv => SlotsAccounted
  BY DEF SlotInv
<1>2. QED
  BY <1>1, SlotInvInit, SlotInvStep, PTL DEF Spec

-----------------------------------------------------------------------------
(* Breakers.                                                               *)

\* A step that leaves the router alone leaves the breakers alone.
LEMMA RouterBreakerStutter == [Next]_vars => BreakerStep
BY RouterBreakerStep DEF vars, poolVars, BreakerStep

\* The router's use of the breakers implements AbstractBreaker: whatever calls
\* are in flight and in whatever order their outcomes arrive, a breaker opens
\* only on a run of FailureThreshold failures (or one failure when half-open),
\* rests RecoveryTimeout after the last failure, and closes only on a run of
\* HalfOpenMax successes.
THEOREM RouterBreakersKeepPromise == Spec => BreakersKeepPromise
<1>1. Init => BreakerInv /\ AB!Init
  BY BreakerInvInit, AbstractInit DEF Init
<1>2. BreakerInv /\ [Next]_vars => BreakerInv'
  BY BreakerInvStep, RouterBreakerStutter
<1>3. BreakerInv /\ [Next]_vars => [AB!Next]_(AB!vars)
  BY AbstractStep, RouterBreakerStutter
<1>4. QED
  BY <1>1, <1>2, <1>3, PTL DEF Spec, BreakersKeepPromise, AB!Spec

-----------------------------------------------------------------------------
(* Answers.                                                                *)

\* The last and the first result of a channel or of a list of attempts.
LEMMA RangeAppend ==
    ASSUME NEW S, NEW s \in Seq(S), NEW e \in S
    PROVE  /\ Range(Append(s, e)) = Range(s) \cup {e}
           /\ IsInjective(s) /\ e \notin Range(s) => IsInjective(Append(s, e))
<1>1. /\ DOMAIN s = 1..Len(s) /\ DOMAIN Append(s, e) = 1..(Len(s) + 1) /\ Len(s) \in Nat
      /\ Len(Append(s, e)) = Len(s) + 1 /\ Append(s, e)[Len(s) + 1] = e
      /\ \A k \in 1..Len(s) : Append(s, e)[k] = s[k]
  OBVIOUS
<1>2. \A k \in 1..(Len(s) + 1) : k \in 1..Len(s) \/ k = Len(s) + 1
  BY <1>1
<1>3. Range(Append(s, e)) = Range(s) \cup {e}
  <2>1. Range(Append(s, e)) \subseteq Range(s) \cup {e}
    BY <1>1, <1>2 DEF Range
  <2>2. Range(s) \subseteq Range(Append(s, e)) /\ e \in Range(Append(s, e))
    BY <1>1 DEF Range
  <2>3. QED
    BY <2>1, <2>2
<1>4. ASSUME IsInjective(s), e \notin Range(s) PROVE IsInjective(Append(s, e))
  BY <1>1, <1>2, <1>4 DEF IsInjective, Range
<1>5. QED
  BY <1>3, <1>4

LEMMA RangeTail ==
    ASSUME NEW S, NEW s \in Seq(S), s # <<>>, IsInjective(s)
    PROVE  /\ Head(s) \in Range(s)
           /\ Range(Tail(s)) = Range(s) \ {Head(s)}
           /\ IsInjective(Tail(s))
<1>1. /\ DOMAIN s = 1..Len(s) /\ Len(s) \in Nat /\ Len(s) > 0 /\ Head(s) = s[1]
      /\ DOMAIN Tail(s) = 1..(Len(s) - 1) /\ Len(Tail(s)) = Len(s) - 1
      /\ \A k \in 1..(Len(s) - 1) : Tail(s)[k] = s[k + 1]
  OBVIOUS
<1>2. /\ \A k \in 1..(Len(s) - 1) : k + 1 \in 1..Len(s) /\ k + 1 # 1
      /\ \A k \in 1..Len(s) : k # 1 => k - 1 \in 1..(Len(s) - 1) /\ (k - 1) + 1 = k
      /\ 1 \in 1..Len(s)
  BY <1>1
<1>3. Head(s) \in Range(s)
  BY <1>1, <1>2 DEF Range
<1>4. ASSUME NEW x \in Range(Tail(s)) PROVE x \in Range(s) \ {Head(s)}
  <2>1. PICK k \in 1..(Len(s) - 1) : x = s[k + 1]
    BY <1>1, <1>4 DEF Range
  <2>2. QED
    BY <1>1, <1>2, <2>1 DEF Range, IsInjective
<1>5. ASSUME NEW x \in Range(s) \ {Head(s)} PROVE x \in Range(Tail(s))
  <2>1. PICK k \in 1..Len(s) : x = s[k] /\ k # 1
    BY <1>1, <1>5 DEF Range
  <2>2. k - 1 \in 1..(Len(s) - 1) /\ Tail(s)[k - 1] = x
    BY <1>1, <1>2, <2>1
  <2>3. QED
    BY <1>1, <2>2 DEF Range
<1>6. IsInjective(Tail(s))
  <2> SUFFICES ASSUME NEW k \in 1..(Len(s) - 1), NEW l \in 1..(Len(s) - 1),
                      Tail(s)[k] = Tail(s)[l]
               PROVE  k = l
    BY <1>1 DEF IsInjective
  <2>1. k + 1 = l + 1
    BY <1>1, <1>2 DEF IsInjective
  <2>2. QED
    BY <1>1, <2>1
<1>7. QED
  BY <1>3, <1>4, <1>5, <1>6

\* A sequence without repetitions has as many values as it is long.
LEMMA RangeCount ==
    ASSUME NEW S, NEW s \in Seq(S), IsInjective(s)
    PROVE  IsFiniteSet(Range(s)) /\ Cardinality(Range(s)) = Len(s)
<1>1. Len(s) \in Nat /\ DOMAIN s = 1..Len(s) /\ s \in [1..Len(s) -> Range(s)]
  BY DEF Range
<1>2. s \in Injection(1..Len(s), Range(s))
  BY <1>1 DEF Injection, IsInjective
<1>3. s \in Surjection(1..Len(s), Range(s))
  BY <1>1 DEF Surjection, Range
<1>4. ExistsBijection(1..Len(s), Range(s))
  BY <1>2, <1>3 DEF ExistsBijection, Bijection
<1>5. IsFiniteSet(1..Len(s)) /\ Cardinality(1..Len(s)) = Len(s)
  BY <1>1, FS_Interval
<1>6. QED
  BY <1>4, <1>5, FS_Bijection

\* The attempt of r at order i let the loop go on to the next target.
PassedOver(r, i) ==
    \/ status[<<r, i>>] \in {"circuit_open", "provider_not_found"}
    \/ status[<<r, i>>] = "error" /\ shouldFallback(policy[r], err[<<r, i>>])

\* An identifier that is not in use has no outcomes and no results in its channel.
Quiet(r) ==
    phase[r] = "idle" => inbox[r] = <<>> /\ \A i \in Orders : status[<<r, i>>] = "none"

\* The calls of r: they belong to a target, have an outcome once they are past Chat,
\* and give up waiting for a slot in the sequential loop only when the client is gone.
CallShape(r) ==
    \A i \in Orders :
        /\ pc[<<r, i>>] # "idle" => i <= Len(targets[r])
        /\ pc[<<r, i>>] \in {"send", "release", "returned"} => status[<<r, i>>] # "none"
        /\ pc[<<r, i>>] = "send" => Fastest(r)
        /\ ~Fastest(r) /\ status[<<r, i>>] = "timeout" => gone[r]

\* executeSequential has recorded the targets in order: the recorded ones are over and,
\* except for the one it stopped at, passed over; the ones to come are untouched.
Loop(r) ==
    LET n == Len(attempts[r]) IN
    ~Fastest(r) =>
        /\ \A k \in 1..n : attempts[r][k] = k
        /\ \A i \in Orders :
             /\ i <= n => pc[<<r, i>>] = "idle" /\ status[<<r, i>>] # "none"
             /\ i > n + 1 \/ (i > n /\ phase[r] # "running") =>
                  pc[<<r, i>>] = "idle" /\ status[<<r, i>>] = "none"
             /\ i < n \/ (i <= n /\ phase[r] = "running") => PassedOver(r, i)

\* A result of executeFastest that was sent: its call has only its slot to give back.
Delivered(r, i) ==
    /\ i <= Len(targets[r])
    /\ pc[<<r, i>>] \in {"release", "idle"}
    /\ status[<<r, i>>] # "none"

\* executeFastest has heard from no call twice, neither among the results it collected
\* nor among those still in the channel.
Race(r) ==
    Fastest(r) =>
        /\ IsInjective(attempts[r]) /\ IsInjective(inbox[r])
        /\ Range(attempts[r]) \cap Range(inbox[r]) = {}
        /\ \A i \in Range(attempts[r]) \cup Range(inbox[r]) : Delivered(r, i)

\* Only the last attempt of a request that succeeded was a success.
Verdict(r) ==
    LET n == Len(attempts[r]) IN
    /\ \A k \in 1..n : k < n \/ phase[r] # "succeeded" => ~Succeeded(<<r, attempts[r][k]>>)
    /\ phase[r] = "failed" /\ Fastest(r) => n = Len(targets[r])
    /\ phase[r] = "succeeded" => /\ n > 0
                                 /\ winner[r] = attempts[r][n]
                                 /\ Succeeded(<<r, winner[r]>>)

RequestInv(r) == Quiet(r) /\ CallShape(r) /\ Loop(r) /\ Race(r) /\ Verdict(r)

\* The inductive invariant of the answers.
AnswerInv == TypeOK /\ Structure /\ \A r \in Requests : RequestInv(r)

\* The types of the parts of one request.
LEMMA RequestTypes ==
    ASSUME TypeOK, NEW r \in Requests
    PROVE  /\ attempts[r] \in Seq(Orders) /\ inbox[r] \in Seq(Orders)
           /\ Len(attempts[r]) \in Nat /\ Len(inbox[r]) \in Nat /\ Len(targets[r]) \in Nat
           /\ \A k \in 1..Len(attempts[r]) : attempts[r][k] \in Orders
           /\ \A k \in 1..Len(inbox[r]) : inbox[r][k] \in Orders
           /\ \A i \in Orders : i \in Nat /\ <<r, i>> \in Calls
           /\ phase[r] \in {"idle", "running", "succeeded", "failed"}
<1>1. targets[r] \in Seq(Provider)
  <2>1. targets[r] \in {<<>>} \cup Chains /\ <<>> \in Seq(Provider)
    BY DEF TypeOK
  <2>2. QED
    BY <2>1, RouterConfig
<1>2. attempts[r] \in Seq(Orders) /\ inbox[r] \in Seq(Orders)
  BY DEF TypeOK
<1>3. QED
  BY <1>1, <1>2, RouterConfig DEF TypeOK, Orders, Calls

\* What a step leaves of request q and of its calls.
SameRequest(q) ==
    /\ phase'[q] = phase[q] /\ policy'[q] = policy[q] /\ targets'[q] = targets[q]
    /\ attempts'[q] = attempts[q] /\ winner'[q] = winner[q]
    /\ gone[q] => gone'[q]

SameCall(a) == pc'[a] = pc[a] /\ status'[a] = status[a] /\ err'[a] = err[a]

\* A step that leaves a request and its calls alone, but for a client that goes or a
\* result that is taken out of the channel, preserves its invariant.
LEMMA RequestFrame ==
    ASSUME TypeOK, NEW q \in Requests, RequestInv(q), SameRequest(q),
           \A i \in Orders : SameCall(<<q, i>>),
           inbox'[q] = inbox[q] \/ (inbox[q] # <<>> /\ inbox'[q] = Tail(inbox[q]))
    PROVE  RequestInv(q)'
<1> USE RequestTypes DEF SameRequest, SameCall
<1>1. Quiet(q)'
  BY DEF RequestInv, Quiet
<1>2. CallShape(q)'
  BY DEF RequestInv, CallShape, Fastest
<1>3. Loop(q)'
  BY DEF RequestInv, Loop, Fastest, PassedOver
<1>4. Race(q)'
  <2> SUFFICES ASSUME Fastest(q)' PROVE Race(q)'
    BY DEF Race
  <2>1. Race(q) /\ Fastest(q)
    BY DEF RequestInv, Fastest
  <2>2. IsInjective(inbox'[q]) /\ Range(inbox'[q]) \subseteq Range(inbox[q])
    BY <2>1, RangeTail DEF Race
  <2>3. \A i \in Range(attempts[q]) \cup Range(inbox[q]) : i \in Orders /\ Delivered(q, i)
    BY <2>1 DEF Race, Range
  <2>4. QED
    BY <2>1, <2>2, <2>3 DEF Race, Delivered
<1>5. Verdict(q)'
  BY DEF RequestInv, Verdict, Fastest, Succeeded
<1>6. QED
  BY <1>1, <1>2, <1>3, <1>4, <1>5 DEF RequestInv

\* What a step of a call does to its request and its own record: it works towards an
\* outcome, sends it, or gives its slot back.
LEMMA CallMoves ==
    ASSUME TypeOK, NEW a \in Calls, CallStep(a)
    PROVE  /\ UNCHANGED <<phase, policy, targets, gone, attempts, winner>>
           /\ \A b \in Calls \ {a} : SameCall(b)
           /\ \/ /\ pc[a] \in {"admit", "acquire", "chat"} /\ UNCHANGED inbox
                 /\ pc'[a] \in {"acquire", "chat", "send", "release", "returned"}
                 /\ pc'[a] \in {"send", "release", "returned"} => status'[a] # "none"
                 /\ pc'[a] = "send" => Fastest(a[1])
                 /\ status'[a] = "timeout" => status[a] = "timeout" \/ CtxDone(a[1])
              \/ /\ pc[a] = "send" /\ UNCHANGED <<status, err>>
                 /\ pc'[a] \in {"release", "idle"}
                 /\ inbox' = [inbox EXCEPT ![a[1]] = Append(inbox[a[1]], a[2])]
              \/ /\ pc[a] = "release" /\ UNCHANGED <<status, err, inbox>>
                 /\ pc'[a] = IF Fastest(a[1]) THEN "idle" ELSE "returned"
<1> USE DEF SameCall, TypeOK
<1>1. CASE Admit(a)
  BY <1>1 DEF Admit, Outcome, Unheld, requestVars
<1>2. CASE Acquire(a)
  BY <1>2 DEF Acquire, requestVars
<1>3. CASE AcquireCancelled(a)
  BY <1>3 DEF AcquireCancelled, Outcome, Unheld, requestVars
<1>4. CASE ChatSucceeds(a)
  BY <1>4 DEF ChatSucceeds, Outcome, AfterChat, requestVars
<1>5. CASE \E e \in ErrorKinds : ChatFails(a, e)
  BY <1>5 DEF ChatFails, Outcome, AfterChat, requestVars
<1>6. CASE Send(a)
  BY <1>6 DEF Send
<1>7. CASE Release(a)
  BY <1>7 DEF Release, requestVars
<1>8. QED
  BY <1>1, <1>2, <1>3, <1>4, <1>5, <1>6, <1>7 DEF CallStep

\* A step of a call preserves the invariant of its request.
LEMMA RequestCallStep ==
    ASSUME TypeOK, Structure, NEW r \in Requests, NEW i \in Orders, CallStep(<<r, i>>),
           RequestInv(r)
    PROVE  RequestInv(r)'
<1> DEFINE a == <<r, i>>
           n == Len(attempts[r])
<1>1. a \in Calls /\ a[1] = r /\ a[2] = i
  BY RequestTypes
<1>2. /\ SameRequest(r) /\ UNCHANGED <<phase, policy, targets, gone, attempts, winner>>
      /\ \A j \in Orders : j # i => SameCall(<<r, j>>)
  BY <1>1, CallMoves, RequestTypes DEF SameRequest
<1>3. \/ /\ pc[a] \in {"admit", "acquire", "chat"} /\ UNCHANGED inbox
         /\ pc'[a] \in {"acquire", "chat", "send", "release", "returned"}
         /\ pc'[a] \in {"send", "release", "returned"} => status'[a] # "none"
         /\ pc'[a] = "send" => Fastest(r)
         /\ status'[a] = "timeout" => status[a] = "timeout" \/ CtxDone(r)
      \/ /\ pc[a] = "send" /\ UNCHANGED <<status, err>>
         /\ pc'[a] \in {"release", "idle"}
         /\ inbox' = [inbox EXCEPT ![r] = Append(inbox[r], i)]
      \/ /\ pc[a] = "release" /\ UNCHANGED <<status, err, inbox>>
         /\ pc'[a] = IF Fastest(r) THEN "idle" ELSE "returned"
  BY <1>1, CallMoves
<1> HIDE DEF a
<1>4. /\ pc[a] # "idle" /\ pc[a] # "returned" /\ phase[r] # "idle"
      /\ Fastest(r)' <=> Fastest(r)
  BY <1>1, <1>2, <1>3 DEF a, Structure, Fastest
<1> USE RequestTypes
<1>5. ~Fastest(r) => i = n + 1 /\ phase[r] = "running" /\ pc[a] # "send"
  BY <1>4 DEF a, RequestInv, Loop, CallShape
<1>6. Quiet(r)'
  BY <1>2, <1>4 DEF Quiet
<1>7. CallShape(r)'
  <2> SUFFICES ASSUME NEW j \in Orders
               PROVE  /\ pc'[<<r, j>>] # "idle" => j <= Len(targets[r])
                      /\ pc'[<<r, j>>] \in {"send", "release", "returned"} => status'[<<r, j>>] # "none"
                      /\ pc'[<<r, j>>] = "send" => Fastest(r)
                      /\ ~Fastest(r) /\ status'[<<r, j>>] = "timeout" => gone[r]
    BY <1>2, <1>4 DEF CallShape
  <2>1. CASE j # i
    BY <1>2, <2>1 DEF RequestInv, CallShape, SameCall
  <2>2. CASE j = i
    BY <1>3, <1>4, <2>2 DEF RequestInv, CallShape, a, CtxDone
  <2>3. QED
    BY <2>1, <2>2
<1>8. Loop(r)'
  <2> SUFFICES ASSUME ~Fastest(r) PROVE Loop(r)'
    BY <1>4 DEF Loop
  <2>1. i = n + 1 /\ phase[r] = "running" /\ Loop(r)
    BY <1>5 DEF RequestInv
  <2>2. \A j \in Orders : j # i => (PassedOver(r, j)' <=> PassedOver(r, j))
    BY <1>2 DEF PassedOver, SameCall
  <2>3. QED
    BY <1>2, <2>1, <2>2 DEF Loop, SameCall
<1>9. Fastest(r) /\ pc[a] # "release" => i \notin Range(attempts[r]) \cup Range(inbox[r])
  BY <1>4 DEF a, RequestInv, Race, Delivered
<1>10. Race(r)'
  <2> SUFFICES ASSUME Fastest(r) PROVE Race(r)'
    BY <1>4 DEF Race
  <2> DEFINE heard == Range(attempts[r]) \cup Range(inbox[r])
  <2>1. Race(r)
    BY DEF RequestInv
  <2>2. \A j \in heard : j \in Orders /\ Delivered(r, j)
    BY <2>1 DEF Race, Range
  <2>3. CASE pc[a] # "send"
    <3>1. UNCHANGED inbox /\ \A j \in heard : pc'[<<r, j>>] \in {"release", "idle"}
                                         /\ status'[<<r, j>>] # "none"
      BY <1>2, <1>3, <1>9, <2>2, <2>3 DEF a, Delivered, SameCall
    <3>2. QED
      BY <1>2, <2>1, <2>2, <3>1 DEF Race, Delivered
  <2>4. CASE pc[a] = "send"
    <3>1. /\ inbox'[r] = Append(inbox[r], i) /\ i \notin heard
          /\ status[a] # "none" /\ i <= Len(targets[r])
      BY <1>3, <1>9, <2>4 DEF TypeOK, RequestInv, CallShape, a
    <3>2. Range(inbox'[r]) = Range(inbox[r]) \cup {i} /\ IsInjective(inbox'[r])
      BY <2>1, <3>1, RangeAppend DEF Race
    <3>3. \A j \in heard \cup {i} : pc'[<<r, j>>] \in {"release", "idle"}
                                   /\ status'[<<r, j>>] # "none" /\ j <= Len(targets[r])
      BY <1>2, <1>3, <2>2, <2>4, <3>1 DEF a, Delivered, SameCall
    <3>4. QED
      BY <1>2, <2>1, <3>1, <3>2, <3>3 DEF Race, Delivered
  <2>5. QED
    BY <2>3, <2>4
<1>11. Verdict(r)'
  <2>1. \A k \in 1..n : status'[<<r, attempts[r][k]>>] = status[<<r, attempts[r][k]>>]
    <3> SUFFICES ASSUME NEW k \in 1..n, attempts[r][k] = i
                 PROVE  status'[<<r, i>>] = status[<<r, i>>]
      BY <1>2 DEF SameCall
    <3>1. CASE Fastest(r)
      <4>1. i \in Range(attempts[r])
        BY DEF Range
      <4>2. QED
        BY <1>3, <1>9, <3>1, <4>1 DEF a
    <3>2. CASE ~Fastest(r)
      BY <1>5, <3>2 DEF RequestInv, Loop
    <3>3. QED
      BY <3>1, <3>2
  <2>2. QED
    BY <1>2, <1>4, <2>1 DEF RequestInv, Verdict, Succeeded
<1>12. QED
  BY <1>6, <1>7, <1>8, <1>10, <1>11 DEF RequestInv

\* A request that starts has no attempts and its calls have no outcomes.
LEMMA RequestExecuteStep ==
    ASSUME TypeOK, Structure, NEW r \in Requests, NEW pol \in UsedPolicies, NEW chain \in Chains,
           Execute(r, pol, chain), RequestInv(r)
    PROVE  RequestInv(r)'
<1> USE RequestTypes
<1>1. /\ phase[r] = "idle" /\ attempts[r] = <<>> /\ inbox[r] = <<>>
      /\ \A i \in Orders : pc[<<r, i>>] = "idle" /\ status[<<r, i>>] = "none"
  BY DEF Execute, Structure, RequestInv, Quiet
<1>2. /\ UNCHANGED <<attempts, inbox, status>>
      /\ phase'[r] = "running" /\ targets'[r] = chain /\ Len(chain) \in Nat /\ Len(chain) >= 1
      /\ policy'[r] = EffectivePolicy(pol)
  BY RouterConfig DEF Execute, TypeOK
<1>3. /\ \A i \in Orders : pc'[<<r, i>>] \in {"idle", "admit"}
      /\ \A i \in Orders : pc'[<<r, i>>] # "idle" => i <= Len(chain)
      /\ ~Fastest(r)' => \A i \in Orders : i > 1 => pc'[<<r, i>>] = "idle"
  <2>1. ~Fastest(r)' => pol # "always_fastest"
    BY <1>2 DEF Fastest, EffectivePolicy
  <2>2. \A i \in Orders : pc'[<<r, i>>] # "idle" =>
           /\ pc'[<<r, i>>] = "admit"
           /\ i \in IF pol = "always_fastest" THEN 1..Len(chain) ELSE {1}
    BY <1>1 DEF Execute
  <2>3. QED
    BY <1>2, <2>1, <2>2
<1>4. Len(attempts'[r]) = 0 /\ Len(inbox'[r]) = 0
  BY <1>1, <1>2
<1>5. Quiet(r)' /\ CallShape(r)'
  BY <1>1, <1>2, <1>3 DEF Quiet, CallShape
<1>6. Loop(r)'
  <2>1. 1..Len(attempts'[r]) = {} /\ \A i \in Orders : i >= 1
    BY <1>4 DEF Orders
  <2>2. ~Fastest(r)' => \A i \in Orders :
           i > Len(attempts'[r]) + 1 \/ (i > Len(attempts'[r]) /\ phase'[r] # "running") =>
             pc'[<<r, i>>] = "idle" /\ status'[<<r, i>>] = "none"
    BY <1>1, <1>2, <1>3, <1>4
  <2>3. \A i \in Orders : ~(i <= Len(attempts'[r])) /\ ~(i < Len(attempts'[r]))
    BY <1>4 DEF Orders
  <2>4. QED
    BY <2>1, <2>2, <2>3 DEF Loop
<1>7. Race(r)'
  BY <1>1, <1>2, <1>4 DEF Race, Range, IsInjective
<1>8. Verdict(r)'
  BY <1>2, <1>4 DEF Verdict
<1>9. QED
  BY <1>5, <1>6, <1>7, <1>8 DEF RequestInv

\* A request whose identifier is freed has none either.
LEMMA RequestRetireStep ==
    ASSUME TypeOK, NEW r \in Requests, Retire(r)
    PROVE  RequestInv(r)'
<1> USE RequestTypes
<1>1. /\ phase'[r] = "idle" /\ attempts'[r] = <<>> /\ inbox'[r] = <<>> /\ policy'[r] = "on_error"
      /\ \A i \in Orders : pc'[<<r, i>>] = "idle" /\ status'[<<r, i>>] = "none"
  BY DEF Retire, TypeOK
<1>2. Len(attempts'[r]) = 0 /\ ~Fastest(r)'
  BY <1>1 DEF Fastest
<1>3. Quiet(r)' /\ CallShape(r)' /\ Race(r)' /\ Verdict(r)'
  BY <1>1, <1>2 DEF Quiet, CallShape, Race, Verdict
<1>4. Loop(r)'
  <2>1. 1..Len(attempts'[r]) = {} /\ \A i \in Orders : i >= 1
    BY <1>2 DEF Orders
  <2>2. \A i \in Orders : ~(i <= Len(attempts'[r])) /\ ~(i < Len(attempts'[r]))
    BY <1>2 DEF Orders
  <2>3. QED
    BY <1>1, <2>1, <2>2 DEF Loop
<1>5. QED
  BY <1>3, <1>4 DEF RequestInv

\* The loop of executeSequential goes on only after an attempt that lets it.
LEMMA RequestAdvanceStep ==
    ASSUME TypeOK, NEW r \in Requests, Advance(r), RequestInv(r)
    PROVE  RequestInv(r)'
<1> DEFINE n == Len(attempts[r])
           i == n + 1
<1> USE RequestTypes
<1>1. /\ n \in Nat /\ i \in Orders /\ <<r, i>> \in Calls
      /\ phase[r] = "running" /\ ~Fastest(r) /\ pc[<<r, i>>] = "returned"
      /\ UNCHANGED <<policy, targets, gone, inbox, status, err>>
      /\ attempts'[r] = Append(attempts[r], i)
  BY DEF Advance, TypeOK
<1>2. /\ Len(attempts'[r]) = i /\ attempts'[r][i] = i
      /\ \A k \in 1..n : attempts'[r][k] = attempts[r][k]
      /\ \A k \in 1..i : k \in 1..n \/ k = i
  BY <1>1
<1>3. \/ /\ Succeeded(<<r, i>>) /\ phase'[r] = "succeeded" /\ winner'[r] = i
         /\ pc' = [pc EXCEPT ![<<r, i>>] = "idle"]
      \/ /\ ~Succeeded(<<r, i>>) /\ FallsBack(<<r, i>>) /\ i < Len(targets[r])
         /\ phase'[r] = "running"
         /\ pc' = [pc EXCEPT ![<<r, i>>] = "idle", ![<<r, i + 1>>] = "admit"]
      \/ /\ ~Succeeded(<<r, i>>) /\ phase'[r] = "failed"
         /\ pc' = [pc EXCEPT ![<<r, i>>] = "idle"]
  BY <1>1 DEF Advance, TypeOK
<1>4. /\ \A j \in Orders \ {i, i + 1} : pc'[<<r, j>>] = pc[<<r, j>>]
      /\ pc'[<<r, i>>] = "idle"
      /\ i + 1 \in Orders => \/ pc'[<<r, i + 1>>] = pc[<<r, i + 1>>]
                             \/ /\ pc'[<<r, i + 1>>] = "admit" /\ phase'[r] = "running"
                                /\ i + 1 <= Len(targets[r])
  BY <1>1, <1>3 DEF TypeOK
<1>5. status[<<r, i>>] # "none" /\ (status[<<r, i>>] = "timeout" => gone[r])
  BY <1>1 DEF RequestInv, CallShape
<1>6. phase'[r] = "running" => PassedOver(r, i)
  <2> SUFFICES ASSUME FallsBack(<<r, i>>), ~Succeeded(<<r, i>>) PROVE PassedOver(r, i)
    BY <1>3
  <2>1. ~gone[r] /\ status[<<r, i>>] \notin {"none", "timeout", "success"}
    BY <1>5 DEF FallsBack, Succeeded
  <2>2. status[<<r, i>>] \in Statuses
    BY <1>1 DEF TypeOK
  <2>3. QED
    BY <2>1, <2>2 DEF FallsBack, PassedOver, Statuses
<1> HIDE DEF i
<1>7. Loop(r)
  BY DEF RequestInv
<1>8. Loop(r)'
  <2>1. \A k \in 1..i : attempts'[r][k] = k
    BY <1>1, <1>2, <1>7 DEF Loop
  <2>2. \A j \in Orders : PassedOver(r, j)' <=> PassedOver(r, j)
    BY <1>1 DEF PassedOver
  <2>3. ASSUME NEW j \in Orders
        PROVE  /\ j <= i => pc'[<<r, j>>] = "idle" /\ status[<<r, j>>] # "none"
               /\ j > i + 1 \/ (j > i /\ phase'[r] # "running") =>
                    pc'[<<r, j>>] = "idle" /\ status[<<r, j>>] = "none"
               /\ j < i \/ (j <= i /\ phase'[r] = "running") => PassedOver(r, j)
    <3>1. CASE j <= n
      BY <1>1, <1>4, <1>7, <3>1 DEF Loop, i
    <3>2. CASE j = i
      BY <1>1, <1>4, <1>5, <1>6, <3>2 DEF i
    <3>3. CASE j > i
      <4>1. pc[<<r, j>>] = "idle" /\ status[<<r, j>>] = "none"
        BY <1>1, <1>7, <3>3 DEF Loop, i
      <4>2. QED
        BY <1>1, <1>4, <3>3, <4>1 DEF i
    <3>4. QED
      BY <1>1, <3>1, <3>2, <3>3 DEF i
  <2>4. QED
    BY <1>1, <1>2, <2>1, <2>2, <2>3 DEF Loop
<1>9. Quiet(r)' /\ Race(r)'
  BY <1>1, <1>3 DEF Quiet, Race, Fastest
<1>10. CallShape(r)'
  <2> SUFFICES ASSUME NEW j \in Orders
               PROVE  /\ pc'[<<r, j>>] # "idle" => j <= Len(targets[r])
                      /\ pc'[<<r, j>>] \in {"send", "release", "returned"} => status[<<r, j>>] # "none"
                      /\ pc'[<<r, j>>] # "send"
                      /\ status[<<r, j>>] = "timeout" => gone[r]
    BY <1>1 DEF CallShape, Fastest
  <2>1. CASE pc'[<<r, j>>] = pc[<<r, j>>]
    BY <1>1, <2>1 DEF RequestInv, CallShape
  <2>2. CASE pc'[<<r, j>>] # pc[<<r, j>>]
    BY <1>1, <1>4, <2>2 DEF RequestInv, CallShape
  <2>3. QED
    BY <2>1, <2>2
<1>11. Verdict(r)'
  <2>1. \A k \in 1..n : ~Succeeded(<<r, attempts[r][k]>>)
    BY <1>1 DEF RequestInv, Verdict
  <2>2. \A j \in Orders : Succeeded(<<r, j>>)' <=> Succeeded(<<r, j>>)
    BY <1>1 DEF Succeeded
  <2>3. ASSUME NEW k \in 1..i, k < i \/ phase'[r] # "succeeded"
        PROVE  status[<<r, attempts'[r][k]>>] # "success"
    <3>1. CASE k \in 1..n
      BY <1>2, <2>1, <3>1 DEF Succeeded
    <3>2. CASE k = i
      <4>1. ~Succeeded(<<r, i>>)
        BY <1>1, <1>3, <2>3, <3>2 DEF i
      <4>2. QED
        BY <1>2, <3>2, <4>1 DEF Succeeded
    <3>3. QED
      BY <1>2, <3>1, <3>2
  <2>4. ~Fastest(r)'
    BY <1>1 DEF Fastest
  <2>5. phase'[r] = "succeeded" => winner'[r] = i /\ status[<<r, i>>] = "success" /\ i > 0
    BY <1>1, <1>3 DEF i, Succeeded
  <2>6. UNCHANGED status /\ Len(attempts'[r]) = i /\ attempts'[r][i] = i
    BY <1>1, <1>2
  <2>7. QED
    BY <2>3, <2>4, <2>5, <2>6 DEF Verdict, Succeeded
<1>12. QED
  BY <1>8, <1>9, <1>10, <1>11 DEF RequestInv

\* The collector of executeFastest takes a result nobody has taken before, and stops at
\* the first success or at the last result.
LEMMA RequestCollectStep ==
    ASSUME TypeOK, NEW r \in Requests, Collect(r), RequestInv(r)
    PROVE  RequestInv(r)'
<1> DEFINE n == Len(attempts[r])
           h == Head(inbox[r])
<1> USE RequestTypes
<1>1. /\ n \in Nat /\ h \in Orders /\ inbox[r] # <<>> /\ phase[r] = "running" /\ Fastest(r)
      /\ UNCHANGED <<policy, targets, gone, pc, status, err>>
      /\ attempts'[r] = Append(attempts[r], h) /\ inbox'[r] = Tail(inbox[r])
  BY DEF Collect, TypeOK, callVars
<1>2. /\ Len(attempts'[r]) = n + 1 /\ attempts'[r][n + 1] = h
      /\ \A k \in 1..n : attempts'[r][k] = attempts[r][k]
      /\ \A k \in 1..(n + 1) : k \in 1..n \/ k = n + 1
  BY <1>1
<1>3. \/ Succeeded(<<r, h>>) /\ phase'[r] = "succeeded" /\ winner'[r] = h
      \/ /\ ~Succeeded(<<r, h>>)
         /\ phase'[r] = IF n + 1 = Len(targets[r]) THEN "failed" ELSE "running"
  BY DEF Collect, TypeOK, LastResult
<1> HIDE DEF h
<1>4. Quiet(r)' /\ CallShape(r)' /\ Loop(r)' /\ Fastest(r)'
  <2>1. Fastest(r)' /\ phase'[r] # "idle"
    BY <1>1, <1>3 DEF Fastest
  <2>2. CallShape(r)'
    BY <1>1, <2>1 DEF RequestInv, CallShape
  <2>3. QED
    BY <2>1, <2>2 DEF Quiet, Loop
<1>5. Race(r)'
  <2>1. Race(r)
    BY DEF RequestInv
  <2>2. /\ h \in Range(inbox[r]) /\ Range(inbox'[r]) = Range(inbox[r]) \ {h}
        /\ IsInjective(inbox'[r])
    BY <1>1, <2>1, RangeTail DEF Race, h
  <2>3. h \notin Range(attempts[r])
    BY <1>1, <2>1, <2>2 DEF Race
  <2>4. Range(attempts'[r]) = Range(attempts[r]) \cup {h} /\ IsInjective(attempts'[r])
    BY <1>1, <2>1, <2>3, RangeAppend DEF Race
  <2>5. \A i \in Range(attempts[r]) \cup Range(inbox[r]) :
           /\ i <= Len(targets'[r]) /\ pc'[<<r, i>>] \in {"release", "idle"}
           /\ status'[<<r, i>>] # "none"
    BY <1>1, <2>1 DEF Race, Delivered
  <2>6. QED
    BY <2>1, <1>1, <2>2, <2>4, <2>5 DEF Race, Delivered
<1>6. Verdict(r)'
  <2>1. \A k \in 1..n : status[<<r, attempts[r][k]>>] # "success"
    BY <1>1 DEF RequestInv, Verdict, Succeeded
  <2>2. ASSUME NEW k \in 1..(n + 1), k < n + 1 \/ phase'[r] # "succeeded"
        PROVE  status[<<r, attempts'[r][k]>>] # "success"
    <3>1. CASE k \in 1..n
      BY <1>2, <2>1, <3>1
    <3>2. CASE k = n + 1
      BY <1>1, <1>2, <1>3, <2>2, <3>2 DEF Succeeded
    <3>3. QED
      BY <1>2, <3>1, <3>2
  <2>3. phase'[r] = "failed" => n + 1 = Len(targets'[r])
    BY <1>1, <1>3
  <2>4. phase'[r] = "succeeded" => winner'[r] = h /\ status[<<r, h>>] = "success"
    BY <1>3 DEF Succeeded
  <2>5. UNCHANGED status /\ Len(attempts'[r]) = n + 1 /\ attempts'[r][n + 1] = h /\ n + 1 > 0
    BY <1>1, <1>2
  <2>6. QED
    BY <2>2, <2>3, <2>4, <2>5 DEF Verdict, Succeeded
<1>7. QED
  BY <1>4, <1>5, <1>6 DEF RequestInv

\* The invariant of the answers holds initially.
LEMMA AnswerInvInit == Init => AnswerInv
<1> SUFFICES ASSUME Init, NEW r \in Requests PROVE RequestInv(r)
  BY TypeInit, StructureInit DEF AnswerInv
<1> USE TypeInit, RequestTypes
<1>1. /\ phase[r] = "idle" /\ attempts[r] = <<>> /\ inbox[r] = <<>> /\ policy[r] = "on_error"
      /\ \A i \in Orders : pc[<<r, i>>] = "idle" /\ status[<<r, i>>] = "none"
  BY DEF Init, RouterInit
<1>2. Len(attempts[r]) = 0 /\ ~Fastest(r)
  BY <1>1 DEF Fastest
<1>3. Quiet(r) /\ CallShape(r) /\ Race(r) /\ Verdict(r)
  BY <1>1, <1>2 DEF Quiet, CallShape, Race, Verdict
<1>4. Loop(r)
  <2>1. 1..Len(attempts[r]) = {}
    BY <1>2
  <2>2. \A i \in Orders : ~(i <= Len(attempts[r])) /\ ~(i < Len(attempts[r]))
    BY <1>2 DEF Orders
  <2>3. QED
    BY <1>1, <2>1, <2>2 DEF Loop
<1>5. QED
  BY <1>3, <1>4 DEF RequestInv

\* Every step preserves it: a step is of one request, and leaves the others alone.
LEMMA AnswerInvStep == AnswerInv /\ [Next]_vars => AnswerInv'
<1> SUFFICES ASSUME AnswerInv, [Next]_vars PROVE AnswerInv'
  OBVIOUS
<1>1. TypeOK /\ Structure /\ \A q \in Requests : RequestInv(q)
  BY DEF AnswerInv
<1>2. TypeOK'
  BY <1>1, TypeStep
<1>3. ASSUME NEW q \in Requests, SameRequest(q), \A i \in Orders : SameCall(<<q, i>>),
             inbox'[q] = inbox[q] \/ (inbox[q] # <<>> /\ inbox'[q] = Tail(inbox[q]))
      PROVE  RequestInv(q)'
  BY <1>1, <1>3, RequestFrame
<1>4. CASE Next
  <2> SUFFICES ASSUME NEW q \in Requests PROVE RequestInv(q)'
    BY <1>1, <1>2, <1>4, StructureStep DEF AnswerInv
  <2> USE <1>1, RequestTypes
  <2>1. CASE Tick
    BY <1>3, <2>1 DEF Tick, routerVars, requestVars, callVars, SameRequest, SameCall
  <2>2. ASSUME NEW r \in Requests, NEW pol \in UsedPolicies, NEW chain \in Chains,
               Execute(r, pol, chain)
        PROVE  RequestInv(q)'
    <3>1. CASE q = r
      BY <2>2, <3>1, RequestExecuteStep
    <3>2. CASE q # r
      BY <1>3, <2>2, <3>2 DEF Execute, SameRequest, SameCall, TypeOK
    <3>3. QED
      BY <3>1, <3>2
  <2>3. ASSUME NEW r \in Requests, Cancel(r) \/ Drain(r)
        PROVE  RequestInv(q)'
    BY <1>3, <2>3 DEF Cancel, Drain, callVars, SameRequest, SameCall, TypeOK
  <2>4. ASSUME NEW r \in Requests, Advance(r)
        PROVE  RequestInv(q)'
    <3>1. CASE q = r
      BY <2>4, <3>1, RequestAdvanceStep
    <3>2. CASE q # r
      <4>1. /\ phase'[q] = phase[q] /\ winner'[q] = winner[q] /\ attempts'[q] = attempts[q]
            /\ UNCHANGED <<policy, targets, gone, inbox, status, err>>
        BY <2>4, <3>2 DEF Advance, TypeOK
      <4>2. \A i \in Orders : pc'[<<q, i>>] = pc[<<q, i>>]
        BY <2>4, <3>2 DEF Advance, TypeOK
      <4>3. QED
        BY <1>3, <4>1, <4>2 DEF SameRequest, SameCall
    <3>3. QED
      BY <3>1, <3>2
  <2>5. ASSUME NEW r \in Requests, Collect(r)
        PROVE  RequestInv(q)'
    <3>1. CASE q = r
      BY <2>5, <3>1, RequestCollectStep
    <3>2. CASE q # r
      BY <1>3, <2>5, <3>2 DEF Collect, callVars, SameRequest, SameCall, TypeOK
    <3>3. QED
      BY <3>1, <3>2
  <2>6. ASSUME NEW r \in Requests, Retire(r)
        PROVE  RequestInv(q)'
    <3>1. CASE q = r
      BY <2>6, <3>1, RequestRetireStep
    <3>2. CASE q # r
      BY <1>3, <2>6, <3>2 DEF Retire, SameRequest, SameCall, TypeOK
    <3>3. QED
      BY <3>1, <3>2
  <2>7. ASSUME NEW a \in Calls, CallStep(a)
        PROVE  RequestInv(q)'
    <3>1. CASE q = a[1]
      BY <2>7, <3>1, CallParts, RequestCallStep
    <3>2. CASE q # a[1]
      <4>1. \A i \in Orders : <<q, i>> \in Calls \ {a}
        BY <3>2, CallParts
      <4>2. inbox'[q] = inbox[q]
        BY <2>7, <3>2, CallMoves DEF TypeOK
      <4>3. QED
        BY <1>3, <2>7, <4>1, <4>2, CallMoves DEF SameRequest
    <3>3. QED
      BY <3>1, <3>2
  <2>8. QED
    BY <1>4, <2>1, <2>2, <2>3, <2>4, <2>5, <2>6, <2>7 DEF Next, RouterNext, RequestStep
<1>5. CASE UNCHANGED vars
  <2>1. Structure'
    BY <1>1, <1>5 DEF Structure, vars, routerVars, requestVars, callVars, Target, Fastest
  <2>2. \A q \in Requests : RequestInv(q)'
    BY <1>3, <1>5 DEF vars, routerVars, requestVars, callVars, SameRequest, SameCall
  <2>3. QED
    BY <1>2, <2>1, <2>2 DEF AnswerInv
<1>6. QED
  BY <1>4, <1>5

\* executeSequential never has two calls under way and never reaches a target that the
\* request's policy does not let it reach, whatever the other requests do.
THEOREM RouterSequentialDiscipline == Spec => []SequentialDiscipline
<1>1. AnswerInv => SequentialDiscipline
  <2> SUFFICES ASSUME AnswerInv, NEW r \in Requests, ~Fastest(r),
                      NEW i \in Orders, NEW j \in Orders, i < j,
                      pc[<<r, j>>] # "idle" \/ status[<<r, j>>] # "none"
               PROVE  pc[<<r, i>>] = "idle" /\ PassedOver(r, i)
    BY DEF SequentialDiscipline, PassedOver
  <2>1. /\ TypeOK /\ Loop(r) /\ i \in Nat /\ j \in Nat /\ Len(attempts[r]) \in Nat
    BY RequestTypes DEF AnswerInv, RequestInv, Orders
  <2>2. j <= Len(attempts[r]) + 1 /\ (phase[r] # "running" => j <= Len(attempts[r]))
    BY <2>1 DEF Loop
  <2>3. i <= Len(attempts[r]) /\ (i < Len(attempts[r]) \/ phase[r] = "running")
    BY <2>1, <2>2
  <2>4. QED
    BY <2>1, <2>3 DEF Loop
<1>2. QED
  BY <1>1, AnswerInvInit, AnswerInvStep, PTL DEF Spec

\* Execute reports success only with the answer of the last attempt it recorded, which
\* succeeded, and failure only when none of the attempts it recorded succeeded; the race
\* of always_fastest ends in failure only when it has heard from every target once.
THEOREM RouterAnswerFaithful == Spec => []AnswerFaithful
<1>1. AnswerInv => AnswerFaithful
  <2> SUFFICES ASSUME AnswerInv, NEW r \in Requests
               PROVE  LET heard == {attempts[r][k] : k \in DOMAIN attempts[r]}
                      IN  /\ Cardinality(heard) = Len(attempts[r])
                          /\ phase[r] = "failed" =>
                               /\ \A i \in heard : status[<<r, i>>] \notin {"none", "success"}
                               /\ Fastest(r) => heard = DOMAIN targets[r]
                          /\ phase[r] = "succeeded" =>
                               /\ winner[r] = attempts[r][Len(attempts[r])]
                               /\ status[<<r, winner[r]>>] = "success"
    BY DEF AnswerFaithful
  <2> DEFINE n == Len(attempts[r])
             heard == Range(attempts[r])
  <2>1. TypeOK /\ Loop(r) /\ Race(r) /\ Verdict(r)
    BY DEF AnswerInv, RequestInv
  <2>2. /\ attempts[r] \in Seq(Orders) /\ n \in Nat /\ DOMAIN attempts[r] = 1..n
        /\ \A k \in 1..n : attempts[r][k] \in Orders
    BY <2>1, RequestTypes
  <2>3. IsInjective(attempts[r])
    BY <2>1, <2>2 DEF Race, Loop, IsInjective
  <2>4. IsFiniteSet(heard) /\ Cardinality(heard) = n
    BY <2>2, <2>3, RangeCount
  <2>5. ASSUME NEW i \in heard PROVE status[<<r, i>>] # "none"
    <3>1. PICK k \in 1..n : i = attempts[r][k]
      BY <2>2 DEF Range
    <3>2. CASE Fastest(r)
      BY <2>1, <3>2 DEF Race, Delivered
    <3>3. CASE ~Fastest(r)
      <4>1. i = k /\ k \in Orders /\ k <= n
        BY <2>1, <2>2, <3>1, <3>3 DEF Loop
      <4>2. QED
        BY <2>1, <3>3, <4>1 DEF Loop
    <3>4. QED
      BY <3>2, <3>3
  <2>6. ASSUME phase[r] = "failed", NEW i \in heard PROVE status[<<r, i>>] # "success"
    BY <2>1, <2>2, <2>6 DEF Range, Verdict, Succeeded
  <2>7. ASSUME phase[r] = "failed", Fastest(r) PROVE heard = DOMAIN targets[r]
    <3>1. /\ n = Len(targets[r]) /\ DOMAIN targets[r] = 1..n
      BY <2>1, <2>7, RequestTypes, RouterConfig DEF Verdict, TypeOK
    <3>2. ASSUME NEW i \in heard PROVE i \in 1..n
      <4>1. i <= n
        BY <2>1, <2>7, <3>1 DEF Race, Delivered
      <4>2. i \in Orders
        BY <2>2 DEF Range
      <4>3. QED
        BY <2>2, <4>1, <4>2 DEF Orders
    <3>3. IsFiniteSet(1..n) /\ Cardinality(1..n) = n
      BY <2>2, FS_Interval
    <3>4. QED
      BY <2>4, <3>1, <3>2, <3>3, FS_Subset
  <2>8. phase[r] = "succeeded" => /\ winner[r] = attempts[r][n]
                                 /\ status[<<r, winner[r]>>] = "success"
    BY <2>1 DEF Verdict, Succeeded
  <2>9. QED
    BY <2>4, <2>5, <2>6, <2>7, <2>8 DEF Range
<1>2. QED
  BY <1>1, AnswerInvInit, AnswerInvStep, PTL DEF Spec
=============================================================================
