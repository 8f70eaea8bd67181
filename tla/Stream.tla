------------------------------- MODULE Stream -------------------------------
(***************************************************************************)
(* The streaming handler (internal/handler/stream.go), which walks the     *)
(* chain of targets itself and shares the breakers and semaphores with the *)
(* router.  Unlike tryProvider it takes the slot before it looks the       *)
(* provider up, applies neither the fallback policy nor a timeout, and     *)
(* records the outcome when the stream has ended.                          *)
(*                                                                         *)
(*   "check"    about to call CheckCircuitBreaker for the current target   *)
(*   "wait"     blocked in AcquireSemaphore                                *)
(*   "connect"  holding the slot, about to look up and call ChatStream     *)
(*   "blame"    ChatStream failed and the slot is back, failure unrecorded *)
(*   "relay"    copying chunks from the provider's channel to the client   *)
(*   "record"   the channel ended, outcome unrecorded                      *)
(*   "close"    outcome recorded, log written, deferred Release to run     *)
(***************************************************************************)
EXTENDS ProviderPool, Sequences

CONSTANTS
    Streams,        \* identifiers of the streams in flight
    StreamChains,   \* the chains of targets a stream may carry
    Eager,          \* providers whose ChatStream may itself return an error
    StreamFaults    \* whether providers may fail a stream

ASSUME StreamConfig ==
    /\ IsFiniteSet(Streams)
    /\ StreamChains \subseteq {c \in Seq(Provider) : Len(c) > 0}
    /\ Eager \subseteq Provider
    /\ StreamFaults \in BOOLEAN

VARIABLES
    stage,      \* stream -> where the handler is
    line,       \* stream -> its chain of targets
    at,         \* stream -> index of the current target
    left,       \* stream -> the client has disconnected
    sent,       \* stream -> some content went out to the client
    broken      \* stream -> an error chunk arrived (streamErrorMsg)

streamVars == <<stage, line, at, left, sent, broken>>

Stages == {"idle", "check", "wait", "connect", "blame", "relay", "record",
           "close", "done", "failed"}

StreamTypeOK ==
    /\ stage \in [Streams -> Stages]
    /\ line \in [Streams -> {<<>>} \cup StreamChains]
    /\ at \in [Streams -> Nat]
    /\ left \in [Streams -> BOOLEAN]
    /\ sent \in [Streams -> BOOLEAN]
    /\ broken \in [Streams -> BOOLEAN]

\* The provider the stream is at.
Current(s) == line[s][at[s]]

HoldsStreamSlot(s) ==
    /\ stage[s] \in {"connect", "relay", "record", "close"}
    /\ Current(s) \in Configured

StreamHolders(p) == {s \in Streams : HoldsStreamSlot(s) /\ Current(s) = p}

StreamInit ==
    /\ stage = [s \in Streams |-> "idle"]
    /\ line = [s \in Streams |-> <<>>]
    /\ at = [s \in Streams |-> 0]
    /\ left = [s \in Streams |-> FALSE]
    /\ sent = [s \in Streams |-> FALSE]
    /\ broken = [s \in Streams |-> FALSE]

-----------------------------------------------------------------------------

StartStream(s, chain) ==
    /\ stage[s] = "idle"
    /\ stage' = [stage EXCEPT ![s] = "check"]
    /\ line' = [line EXCEPT ![s] = chain]
    /\ at' = [at EXCEPT ![s] = 1]
    /\ UNCHANGED <<poolVars, left, sent, broken>>

Disconnect(s) ==
    /\ stage[s] \in Stages \ {"idle", "done", "failed"}
    /\ ~left[s]
    /\ left' = [left EXCEPT ![s] = TRUE]
    /\ UNCHANGED <<poolVars, stage, line, at, sent, broken>>

\* continue: the next target, or the 502 when there is none.  The handler does
\* not look at the client's context here.
NextTarget(s) ==
    /\ IF at[s] < Len(line[s])
       THEN /\ at' = [at EXCEPT ![s] = @ + 1]
            /\ stage' = [stage EXCEPT ![s] = "check"]
       ELSE /\ stage' = [stage EXCEPT ![s] = "failed"]
            /\ UNCHANGED at
    /\ UNCHANGED <<line, left, sent, broken>>

GoTo(s, l) ==
    /\ stage' = [stage EXCEPT ![s] = l]
    /\ UNCHANGED <<line, at, left, sent, broken>>

\* ReleaseSemaphore does nothing for a provider without a semaphore.
GiveBack(p) == IF p \in Configured THEN ReleaseSemaphore(p) ELSE sem' = sem

StreamCheck(s) ==
    LET p == Current(s) IN
    /\ stage[s] = "check"
    /\ CheckCircuitBreaker(p)
    /\ IF Passes(p) THEN GoTo(s, IF p \in Configured THEN "wait" ELSE "connect")
                    ELSE NextTarget(s)
    /\ UNCHANGED <<sem, streak>>

StreamAcquire(s) ==
    /\ stage[s] = "wait"
    /\ AcquireSemaphore(Current(s))
    /\ GoTo(s, "connect")
    /\ UNCHANGED <<breaker, streak>>

StreamAcquireCancelled(s) ==
    /\ stage[s] = "wait"
    /\ left[s]
    /\ NextTarget(s)
    /\ UNCHANGED poolVars

\* Faulty: the slot is not given back before the next target.
StreamLookupFailsLeaks(s) ==
    /\ stage[s] = "connect"
    /\ Current(s) \notin Registered
    /\ NextTarget(s)
    /\ UNCHANGED poolVars

\* registry.Get fails: the slot goes back before the next target.
StreamLookupFails(s) ==
    /\ stage[s] = "connect"
    /\ Current(s) \notin Registered
    /\ GiveBack(Current(s))
    /\ NextTarget(s)
    /\ UNCHANGED <<breaker, streak>>

StreamConnects(s) ==
    /\ stage[s] = "connect"
    /\ Current(s) \in Registered
    /\ GoTo(s, "relay")
    /\ UNCHANGED poolVars

\* ChatStream returns an error: the slot goes back first, then the failure is
\* recorded.
StreamConnectFails(s) ==
    /\ stage[s] = "connect"
    /\ Current(s) \in Registered \cap Eager
    /\ GiveBack(Current(s))
    /\ GoTo(s, "blame")
    /\ UNCHANGED <<breaker, streak>>

StreamBlame(s) ==
    /\ stage[s] = "blame"
    /\ RecordFailure(Current(s))
    /\ NextTarget(s)
    /\ UNCHANGED sem

\* A text chunk goes out.
Relay(s) ==
    /\ stage[s] = "relay"
    /\ ~sent[s]
    /\ sent' = [sent EXCEPT ![s] = TRUE]
    /\ UNCHANGED <<poolVars, stage, line, at, left, broken>>

\* The final chunk, the end of the channel, or the client gone: no error.
StreamEnds(s) ==
    /\ stage[s] = "relay"
    /\ GoTo(s, "record")
    /\ UNCHANGED poolVars

\* An error chunk.  A cancelled context makes one, too: that of a client that left, or that
\* of a stream past its write deadline, which is one of the faults here.
StreamBreaks(s) ==
    /\ stage[s] = "relay"
    /\ StreamFaults \/ left[s]
    /\ broken' = [broken EXCEPT ![s] = TRUE]
    /\ stage' = [stage EXCEPT ![s] = "record"]
    /\ UNCHANGED <<poolVars, line, at, left, sent>>

StreamRecord(s) ==
    /\ stage[s] = "record"
    /\ IF broken[s] THEN RecordFailure(Current(s)) ELSE RecordSuccess(Current(s))
    /\ GoTo(s, "close")
    /\ UNCHANGED sem

\* Faulty: the slot of the target that answered is never given back.
StreamCloseLeaks(s) ==
    /\ stage[s] = "close"
    /\ GoTo(s, "done")
    /\ UNCHANGED poolVars

StreamClose(s) ==
    /\ stage[s] = "close"
    /\ GiveBack(Current(s))
    /\ GoTo(s, "done")
    /\ UNCHANGED <<breaker, streak>>

\* The handler has returned: its identifier is free for another stream.
StreamRetire(s) ==
    /\ stage[s] \in {"done", "failed"}
    /\ stage' = [stage EXCEPT ![s] = "idle"]
    /\ line' = [line EXCEPT ![s] = <<>>]
    /\ at' = [at EXCEPT ![s] = 0]
    /\ left' = [left EXCEPT ![s] = FALSE]
    /\ sent' = [sent EXCEPT ![s] = FALSE]
    /\ broken' = [broken EXCEPT ![s] = FALSE]
    /\ UNCHANGED poolVars

StreamProgress(s) ==
    \/ StreamCheck(s) \/ StreamLookupFails(s) \/ StreamConnects(s)
    \/ StreamConnectFails(s) \/ StreamBlame(s) \/ StreamEnds(s)
    \/ StreamBreaks(s) \/ StreamRecord(s) \/ StreamClose(s)

StreamNext ==
    \E s \in Streams :
        \/ \E chain \in StreamChains : StartStream(s, chain)
        \/ Disconnect(s)
        \/ StreamAcquire(s)
        \/ StreamAcquireCancelled(s)
        \/ Relay(s)
        \/ StreamProgress(s)
        \/ StreamRetire(s)
=============================================================================
