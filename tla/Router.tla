------------------------------- MODULE Router -------------------------------
(***************************************************************************)
(* The routing engine (internal/router/router.go): Execute runs a chat or  *)
(* batch request over its chain of targets, one after another              *)
(* (executeSequential) or all at once (executeFastest).                    *)
(*                                                                         *)
(* One call <<r, i>> is the attempt of request r at its i-th target, the   *)
(* body of tryProvider or of one goroutine of executeFastest:              *)
(*                                                                         *)
(*   "admit"    about to ask the circuit breaker and the registry          *)
(*   "acquire"  blocked in Semaphore.Acquire                               *)
(*   "chat"     inside Provider.Chat, holding a slot                       *)
(*   "send"     (fastest) about to send its result on the channel          *)
(*   "release"  about to run the deferred Semaphore.Release                *)
(*   "returned" (sequential) tryProvider has returned                      *)
(*   "idle"     not running                                                *)
(*                                                                         *)
(* A request identifier is a slot for requests: when a request is answered *)
(* and all its goroutines are gone, the identifier serves another one.     *)
(***************************************************************************)
EXTENDS ProviderPool, Fallback, Sequences

CONSTANTS
    Requests,       \* identifiers of the requests in flight
    MaxTargets,     \* bound on the length of a chain of targets
    Chains,         \* the chains (primary first) a request may carry
    UsedPolicies,   \* the policies a request may carry
    Faults          \* the errors a provider may answer with by itself

ASSUME RouterConfig ==
    /\ IsFiniteSet(Requests)
    /\ MaxTargets \in Nat
    /\ Chains \subseteq {c \in Seq(Provider) : Len(c) \in 1..MaxTargets}
    /\ UsedPolicies \subseteq Policies
    /\ Faults \subseteq ErrorKinds \ {"deadline", "canceled"}

Orders == 1..MaxTargets
Calls == Requests \X Orders

VARIABLES
    phase,      \* request -> "idle", "running", "succeeded" or "failed"
    policy,     \* request -> its policy
    targets,    \* request -> its chain
    gone,       \* request -> its context was cancelled (client or shutdown)
    attempts,   \* request -> orders of the attempts recorded so far
    winner,     \* request -> order of the attempt answered with, 0 if none
    inbox,      \* request -> results in the channel of executeFastest
    pc,         \* call -> where it is
    status,     \* call -> FallbackAttempt.Status
    err         \* call -> kind of the error it returned

requestVars == <<phase, policy, targets, gone, attempts, winner, inbox>>
callVars == <<pc, status, err>>
routerVars == <<requestVars, callVars>>
vars == <<poolVars, routerVars>>

PCs == {"idle", "admit", "acquire", "chat", "send", "release", "returned"}
Statuses == {"none", "circuit_open", "provider_not_found", "timeout",
             "error", "success"}

\* Every variable stays in its domain.
TypeOK ==
    /\ PoolTypeOK
    /\ phase \in [Requests -> {"idle", "running", "succeeded", "failed"}]
    /\ policy \in [Requests -> Policies]
    /\ targets \in [Requests -> {<<>>} \cup Chains]
    /\ gone \in [Requests -> BOOLEAN]
    /\ attempts \in [Requests -> Seq(Orders)]
    /\ winner \in [Requests -> {0} \cup Orders]
    /\ inbox \in [Requests -> Seq(Orders)]
    /\ pc \in [Calls -> PCs]
    /\ status \in [Calls -> Statuses]
    /\ err \in [Calls -> ErrorKinds \cup {"none"}]

-----------------------------------------------------------------------------

Fastest(r) == policy[r] = "always_fastest"

\* The provider that call a addresses.
Target(a) == targets[a[1]][a[2]]

\* The call is past Acquire and has yet to run its deferred Release.
HoldsSlot(a) ==
    /\ \/ pc[a] \in {"chat", "release"}
       \/ pc[a] = "send" /\ status[a] \in {"error", "success"}
    /\ Target(a) \in Configured

Holders(p) == {a \in Calls : HoldsSlot(a) /\ Target(a) = p}

\* The context the call runs under is done.  executeFastest cancels the one it
\* derives as soon as it returns.
CtxDone(r) == gone[r] \/ (Fastest(r) /\ phase[r] # "running")

RouterInit ==
    /\ phase = [r \in Requests |-> "idle"]
    /\ policy = [r \in Requests |-> "on_error"]
    /\ targets = [r \in Requests |-> <<>>]
    /\ gone = [r \in Requests |-> FALSE]
    /\ attempts = [r \in Requests |-> <<>>]
    /\ winner = [r \in Requests |-> 0]
    /\ inbox = [r \in Requests |-> <<>>]
    /\ pc = [a \in Calls |-> "idle"]
    /\ status = [a \in Calls |-> "none"]
    /\ err = [a \in Calls |-> "none"]

Init == PoolInit /\ RouterInit

-----------------------------------------------------------------------------
(* Requests start and lose their clients.                                  *)

\* Execute: the calls that start at once, the first or, for fastest, all.
Execute(r, pol, chain) ==
    LET started == IF pol = "always_fastest" THEN 1..Len(chain) ELSE {1}
    IN  /\ phase[r] = "idle"
        /\ phase' = [phase EXCEPT ![r] = "running"]
        /\ policy' = [policy EXCEPT ![r] = EffectivePolicy(pol)]
        /\ targets' = [targets EXCEPT ![r] = chain]
        /\ pc' = [a \in Calls |-> IF a[1] = r /\ a[2] \in started
                                  THEN "admit" ELSE pc[a]]
        /\ UNCHANGED <<poolVars, gone, attempts, winner, inbox, status, err>>

\* The client disconnects, or Consumer.Stop cancels a batch request.
Cancel(r) ==
    /\ phase[r] = "running"
    /\ ~gone[r]
    /\ gone' = [gone EXCEPT ![r] = TRUE]
    /\ UNCHANGED <<phase, policy, targets, attempts, winner, inbox, callVars, poolVars>>

-----------------------------------------------------------------------------
(* One call.                                                               *)

\* Where a call goes that ends without a slot.
Unheld(r) == IF Fastest(r) THEN "send" ELSE "returned"

\* The call returns with status s and error e and goes on at location l.
Outcome(a, s, e, l) ==
    /\ status' = [status EXCEPT ![a] = s]
    /\ err' = [err EXCEPT ![a] = e]
    /\ pc' = [pc EXCEPT ![a] = l]

\* Allow, then registry.Get.  The registry does not change once the server
\* runs, so the lookup is part of the same step.
Admit(a) ==
    LET p == Target(a) IN
    /\ pc[a] = "admit"
    /\ CheckCircuitBreaker(p)
    /\ CASE ~Passes(p) -> Outcome(a, "circuit_open", "client_error", Unheld(a[1]))
         [] Passes(p) /\ p \notin Registered ->
              Outcome(a, "provider_not_found", "client_error", Unheld(a[1]))
         [] OTHER -> Outcome(a, "none", "none", IF p \in Configured THEN "acquire" ELSE "chat")
    /\ UNCHANGED <<sem, streak, requestVars>>

Acquire(a) ==
    /\ pc[a] = "acquire"
    /\ AcquireSemaphore(Target(a))
    /\ pc' = [pc EXCEPT ![a] = "chat"]
    /\ UNCHANGED <<breaker, streak, requestVars, status, err>>

\* The other branch of Acquire's select.  When both are ready Go picks one at
\* random.  Nothing is recorded with the breaker.
AcquireCancelled(a) ==
    /\ pc[a] = "acquire"
    /\ CtxDone(a[1])
    /\ Outcome(a, "timeout", "canceled", Unheld(a[1]))
    /\ UNCHANGED <<poolVars, requestVars>>

\* Where a call goes when Chat has returned: executeFastest sends the result
\* before its deferred Release runs, tryProvider releases as it returns.
AfterChat(a) ==
    CASE Fastest(a[1])            -> "send"
      [] Target(a) \in Configured -> "release"
      [] OTHER                    -> "returned"

ChatSucceeds(a) ==
    /\ pc[a] = "chat"
    /\ RecordSuccess(Target(a))
    /\ Outcome(a, "success", "none", AfterChat(a))
    /\ UNCHANGED <<sem, requestVars>>

\* The errors Chat may return in the current state.
ChatErrors(a) ==
    Faults \cup (IF Target(a) \in Timed THEN {"deadline"} ELSE {})
           \cup (IF CtxDone(a[1]) THEN {"canceled"} ELSE {})

\* Faulty: the slot is given back on success only.
ChatFailsLeaks(a, e) ==
    /\ pc[a] = "chat"
    /\ e \in ChatErrors(a)
    /\ RecordFailure(Target(a))
    /\ Outcome(a, "error", e, "returned")
    /\ UNCHANGED <<sem, requestVars>>

ChatFails(a, e) ==
    /\ pc[a] = "chat"
    /\ e \in ChatErrors(a)
    /\ RecordFailure(Target(a))
    /\ Outcome(a, "error", e, AfterChat(a))
    /\ UNCHANGED <<sem, requestVars>>

\* Faulty: the channel is not buffered and nobody drains it.
SendUnbuffered(a) ==
    /\ pc[a] = "send"
    /\ phase[a[1]] = "running"
    /\ inbox' = [inbox EXCEPT ![a[1]] = Append(@, a[2])]
    /\ pc' = [pc EXCEPT ![a] = IF HoldsSlot(a) THEN "release" ELSE "idle"]
    /\ UNCHANGED <<poolVars, phase, policy, targets, gone, attempts, winner, status, err>>

\* ch <- result.  The channel holds len(targets) results.
Send(a) ==
    LET r == a[1] IN
    /\ pc[a] = "send"
    /\ Len(inbox[r]) < Len(targets[r])
    /\ inbox' = [inbox EXCEPT ![r] = Append(@, a[2])]
    /\ pc' = [pc EXCEPT ![a] = IF HoldsSlot(a) THEN "release" ELSE "idle"]
    /\ UNCHANGED <<poolVars, phase, policy, targets, gone, attempts, winner, status, err>>

Release(a) ==
    /\ pc[a] = "release"
    /\ ReleaseSemaphore(Target(a))
    /\ pc' = [pc EXCEPT ![a] = IF Fastest(a[1]) THEN "idle" ELSE "returned"]
    /\ UNCHANGED <<breaker, streak, requestVars, status, err>>

-----------------------------------------------------------------------------
(* The loop of executeSequential and the collector of executeFastest.      *)

\* The attempt returned no error.
Succeeded(a) == status[a] = "success"

\* Faulty: every error falls back, whatever the policy.
FallsBackAlways(a) == ~gone[a[1]]

\* The failed attempt a lets the loop go on to the next target.
FallsBack(a) ==
    /\ ~gone[a[1]]
    /\ \/ status[a] \in {"circuit_open", "provider_not_found"}
       \/ shouldFallback(policy[a[1]], err[a])

Advance(r) ==
    LET i == Len(attempts[r]) + 1
        a == <<r, i>>
        next == <<r, i + 1>>
    IN  /\ phase[r] = "running"
        /\ ~Fastest(r)
        /\ i \in Orders
        /\ pc[a] = "returned"
        /\ attempts' = [attempts EXCEPT ![r] = Append(@, i)]
        /\ \/ /\ Succeeded(a)
              /\ phase' = [phase EXCEPT ![r] = "succeeded"]
              /\ winner' = [winner EXCEPT ![r] = i]
              /\ pc' = [pc EXCEPT ![a] = "idle"]
           \/ /\ ~Succeeded(a)
              /\ FallsBack(a) /\ i < Len(targets[r])
              /\ pc' = [pc EXCEPT ![a] = "idle", ![next] = "admit"]
              /\ UNCHANGED <<phase, winner>>
           \/ /\ ~Succeeded(a)
              /\ ~(FallsBack(a) /\ i < Len(targets[r]))
              /\ phase' = [phase EXCEPT ![r] = "failed"]
              /\ pc' = [pc EXCEPT ![a] = "idle"]
              /\ UNCHANGED winner
        /\ UNCHANGED <<poolVars, policy, targets, gone, inbox, status, err>>

\* Faulty: the first error is taken for the last.
FirstResult(r) == Len(attempts[r]) >= 0

\* The result being collected is the last of len(targets).
LastResult(r) == Len(attempts[r]) + 1 = Len(targets[r])

Collect(r) ==
    LET a == <<r, Head(inbox[r])>>
    IN  /\ phase[r] = "running"
        /\ Fastest(r)
        /\ inbox[r] # <<>>
        /\ inbox' = [inbox EXCEPT ![r] = Tail(@)]
        /\ attempts' = [attempts EXCEPT ![r] = Append(@, Head(inbox[r]))]
        /\ \/ /\ Succeeded(a)
              /\ phase' = [phase EXCEPT ![r] = "succeeded"]
              /\ winner' = [winner EXCEPT ![r] = Head(inbox[r])]
           \/ /\ ~Succeeded(a)
              /\ phase' = [phase EXCEPT ![r] = IF LastResult(r) THEN "failed" ELSE "running"]
              /\ UNCHANGED winner
        /\ UNCHANGED <<poolVars, policy, targets, gone, callVars>>

\* The goroutine that empties the channel once the request is answered.
Drain(r) ==
    /\ phase[r] # "running"
    /\ inbox[r] # <<>>
    /\ inbox' = [inbox EXCEPT ![r] = Tail(@)]
    /\ UNCHANGED <<poolVars, phase, policy, targets, gone, attempts, winner, callVars>>

\* The request is answered, its goroutines are gone and its channel is garbage:
\* its identifier is free for another one.
Retire(r) ==
    /\ phase[r] \in {"succeeded", "failed"}
    /\ inbox[r] = <<>>
    /\ \A i \in Orders : pc[<<r, i>>] = "idle"
    /\ phase' = [phase EXCEPT ![r] = "idle"]
    /\ policy' = [policy EXCEPT ![r] = "on_error"]
    /\ targets' = [targets EXCEPT ![r] = <<>>]
    /\ gone' = [gone EXCEPT ![r] = FALSE]
    /\ attempts' = [attempts EXCEPT ![r] = <<>>]
    /\ winner' = [winner EXCEPT ![r] = 0]
    /\ status' = [a \in Calls |-> IF a[1] = r THEN "none" ELSE status[a]]
    /\ err' = [a \in Calls |-> IF a[1] = r THEN "none" ELSE err[a]]
    /\ UNCHANGED <<poolVars, inbox, pc>>

Tick == PoolTick /\ UNCHANGED routerVars

CallStep(a) ==
    \/ Admit(a)
    \/ Acquire(a)
    \/ AcquireCancelled(a)
    \/ ChatSucceeds(a)
    \/ \E e \in ErrorKinds : ChatFails(a, e)
    \/ Send(a)
    \/ Release(a)

RequestStep(r) == Advance(r) \/ Collect(r) \/ Drain(r)

RouterNext ==
    \/ \E r \in Requests, pol \in UsedPolicies, chain \in Chains : Execute(r, pol, chain)
    \/ \E r \in Requests : Cancel(r) \/ RequestStep(r) \/ Retire(r)
    \/ \E a \in Calls : CallStep(a)

Next == Tick \/ RouterNext

Spec == Init /\ [][Next]_vars

\* The steps a call takes by itself once it runs.
Progress(a) == \/ Admit(a) \/ ChatSucceeds(a) \/ \E e \in ErrorKinds : ChatFails(a, e)
               \/ Send(a) \/ Release(a)

-----------------------------------------------------------------------------
(* Correctness.                                                            *)

\* No slot is leaked, released twice or handed out beyond the limit: the taken
\* slots of every semaphore are exactly the calls between Acquire and Release
\* (the deferred Release of tryProvider and of executeFastest's goroutines).
SlotsAccounted ==
    \A p \in Configured : /\ sem[p] = Cardinality(Holders(p))
                          /\ sem[p] <= Capacity(p)

\* executeSequential has at most one call under way, and it reaches a target
\* only when every earlier one failed in a way that lets it go on: breaker
\* open, provider unknown, or an error the request's own policy covers.
SequentialDiscipline ==
    \A r \in Requests : ~Fastest(r) =>
        \A i, j \in Orders : i < j /\ (pc[<<r, j>>] # "idle" \/ status[<<r, j>>] # "none") =>
            /\ pc[<<r, i>>] = "idle"
            /\ \/ status[<<r, i>>] \in {"circuit_open", "provider_not_found"}
               \/ status[<<r, i>>] = "error" /\ shouldFallback(policy[r], err[<<r, i>>])

\* Execute reports failure only when no attempt it recorded succeeded, and, for
\* always_fastest, only after it has heard from every target exactly once; it
\* reports success only with the answer of an attempt that succeeded, the last
\* one it recorded.
AnswerFaithful ==
    \A r \in Requests :
        LET heard == {attempts[r][k] : k \in DOMAIN attempts[r]}
        IN  /\ Cardinality(heard) = Len(attempts[r])
            /\ phase[r] = "failed" =>
                 /\ \A i \in heard : status[<<r, i>>] \notin {"none", "success"}
                 /\ Fastest(r) => heard = DOMAIN targets[r]
            /\ phase[r] = "succeeded" =>
                 /\ winner[r] = attempts[r][Len(attempts[r])]
                 /\ status[<<r, winner[r]>>] = "success"

\* The breakers keep the promise of AbstractBreaker whatever the requests do:
\* outcomes of calls admitted in an earlier state of the breaker may arrive at
\* any time.
BreakersKeepPromise == AB!Spec

\* Every slot comes back, also those of the calls that lost an always_fastest
\* race and whose results nobody waits for.
EverySlotReturned ==
    \A a \in Calls : HoldsSlot(a) ~> ~HoldsSlot(a)
=============================================================================
