---------------------------- MODULE GatewayProofs ---------------------------
(***************************************************************************)
(* Theorems about the request paths together.  A step is one of the router *)
(* or one of a stream, and each leaves the other's part alone; what they   *)
(* share, the breakers and the slots, is treated once for both.            *)
(***************************************************************************)
EXTENDS Gateway, RouterProofs

\* What one step may do to the slots of provider p and to the streams that hold them.
StreamKeeps(p) == StreamHolders(p)' = StreamHolders(p) /\ sem'[p] = sem[p]

StreamGains(p) ==
    \E s \in Streams \ StreamHolders(p) : /\ StreamHolders(p)' = StreamHolders(p) \cup {s}
                                          /\ sem[p] < Capacity(p)
                                          /\ sem'[p] = sem[p] + 1

StreamReturns(p) ==
    \E s \in StreamHolders(p) : /\ StreamHolders(p)' = StreamHolders(p) \ {s}
                                /\ sem'[p] = sem[p] - 1

StreamBalanced(p) == StreamKeeps(p) \/ StreamGains(p) \/ StreamReturns(p)

-----------------------------------------------------------------------------

\* The moves of a stream's handler: the stream keeps its chain, and others keep all.
LEMMA StreamMoves ==
    ASSUME StreamTypeOK, NEW s \in Streams,
           NextTarget(s) \/ \E l \in Stages : GoTo(s, l)
    PROVE  /\ StreamTypeOK' /\ UNCHANGED line
           /\ \A t \in Streams \ {s} : stage'[t] = stage[t] /\ at'[t] = at[t]
           /\ NextTarget(s) => stage'[s] \in {"check", "failed"}
           /\ \A l \in Stages : GoTo(s, l) => stage'[s] = l /\ at'[s] = at[s]
BY DEF StreamTypeOK, NextTarget, GoTo, Stages

\* A stream whose handler moves without a slot before and after, or keeps the one it
\* has, leaves the holders alone.
LEMMA SameStreamHolders ==
    ASSUME NEW s \in Streams, NEW p \in Configured, UNCHANGED sem,
           \A t \in Streams \ {s} : (HoldsStreamSlot(t)' <=> HoldsStreamSlot(t)) /\ Current(t)' = Current(t),
           (HoldsStreamSlot(s)' /\ Current(s)' = p) <=> (HoldsStreamSlot(s) /\ Current(s) = p)
    PROVE  StreamBalanced(p)
BY DEF StreamBalanced, StreamKeeps, StreamHolders

\* Every step of a stream does to the breakers what BreakerStep allows.
LEMMA StreamBreakerStep == StreamNext => BreakerStep
<1> SUFFICES ASSUME NEW s \in Streams,
                    \/ \E chain \in StreamChains : StartStream(s, chain)
                    \/ Disconnect(s) \/ StreamAcquire(s) \/ StreamAcquireCancelled(s)
                    \/ Relay(s) \/ StreamProgress(s) \/ StreamRetire(s)
             PROVE  BreakerStep
  BY DEF StreamNext
<1>1. CASE \/ \E chain \in StreamChains : StartStream(s, chain)
           \/ Disconnect(s) \/ StreamAcquire(s) \/ StreamAcquireCancelled(s)
           \/ Relay(s) \/ StreamRetire(s) \/ StreamLookupFails(s) \/ StreamConnects(s)
           \/ StreamConnectFails(s) \/ StreamEnds(s) \/ StreamBreaks(s) \/ StreamClose(s)
  <2>1. UNCHANGED <<breaker, streak>>
    BY <1>1 DEF StartStream, Disconnect, StreamAcquire, StreamAcquireCancelled, Relay,
       StreamRetire, StreamLookupFails, StreamConnects, StreamConnectFails, StreamEnds,
       StreamBreaks, StreamClose, poolVars
  <2>2. QED
    BY <2>1 DEF BreakerStep
<1>2. CASE StreamCheck(s)
  BY <1>2 DEF StreamCheck, CheckCircuitBreaker, BreakerStep
<1>3. CASE StreamBlame(s)
  BY <1>3 DEF StreamBlame, RecordFailure, BreakerStep
<1>4. CASE StreamRecord(s)
  BY <1>4 DEF StreamRecord, RecordFailure, RecordSuccess, BreakerStep
<1>5. QED
  BY <1>1, <1>2, <1>3, <1>4 DEF StreamProgress

\* What every step of a stream does to the streams' variables and to the slots.
LEMMA StreamStep ==
    ASSUME StreamTypeOK, sem \in [Configured -> Nat], StreamNext
    PROVE  /\ StreamTypeOK' /\ sem' \in [Configured -> Nat]
           /\ \A p \in Configured : StreamBalanced(p)
<1>1. PICK s \in Streams :
        \/ \E chain \in StreamChains : StartStream(s, chain)
        \/ Disconnect(s) \/ StreamAcquire(s) \/ StreamAcquireCancelled(s)
        \/ Relay(s) \/ StreamProgress(s) \/ StreamRetire(s)
  BY DEF StreamNext
<1> DEFINE Rest == \A t \in Streams \ {s} :
                      (HoldsStreamSlot(t)' <=> HoldsStreamSlot(t)) /\ Current(t)' = Current(t)
<1> USE DEF HoldsStreamSlot, Current
<1>2. ASSUME UNCHANGED sem, ~HoldsStreamSlot(s), ~HoldsStreamSlot(s)', Rest
      PROVE  sem' \in [Configured -> Nat] /\ \A p \in Configured : StreamBalanced(p)
  BY <1>2, SameStreamHolders
<1>3. ASSUME UNCHANGED <<sem, stage, line, at>>
      PROVE  sem' \in [Configured -> Nat] /\ \A p \in Configured : StreamBalanced(p)
  BY <1>3, SameStreamHolders
<1>4. CASE (\E chain \in StreamChains : StartStream(s, chain)) \/ StreamRetire(s)
  <2>1. StreamTypeOK'
    <3>1. ASSUME NEW chain \in StreamChains, StartStream(s, chain)
          PROVE  StreamTypeOK'
      <4>1. chain \in {<<>>} \cup StreamChains /\ 1 \in Nat /\ "check" \in Stages
        BY DEF Stages
      <4>2. QED
        BY <3>1, <4>1 DEF StartStream, StreamTypeOK
    <3>2. CASE StreamRetire(s)
      <4>1. <<>> \in {<<>>} \cup StreamChains /\ 0 \in Nat /\ "idle" \in Stages
        BY DEF Stages
      <4>2. /\ stage' \in [Streams -> Stages]
            /\ line' \in [Streams -> {<<>>} \cup StreamChains] /\ at' \in [Streams -> Nat]
        BY <3>2, <4>1 DEF StreamRetire, StreamTypeOK
      <4>3. left' \in [Streams -> BOOLEAN]
        BY <3>2, Zenon DEF StreamRetire, StreamTypeOK
      <4>4. sent' \in [Streams -> BOOLEAN]
        BY <3>2, Zenon DEF StreamRetire, StreamTypeOK
      <4>5. broken' \in [Streams -> BOOLEAN]
        BY <3>2, Zenon DEF StreamRetire, StreamTypeOK
      <4>6. QED
        BY <4>2, <4>3, <4>4, <4>5 DEF StreamTypeOK
    <3>3. QED
      BY <1>4, <3>1, <3>2
  <2>2. UNCHANGED sem /\ ~HoldsStreamSlot(s) /\ ~HoldsStreamSlot(s)' /\ Rest
    BY <1>4 DEF StartStream, StreamRetire, StreamTypeOK, poolVars
  <2>3. QED
    BY <1>2, <2>1, <2>2
<1>5. CASE Disconnect(s) \/ Relay(s)
  <2>1. StreamTypeOK' /\ UNCHANGED <<sem, stage, line, at>>
    BY <1>5 DEF Disconnect, Relay, StreamTypeOK, poolVars
  <2>2. QED
    BY <1>3, <2>1
<1>6. CASE StreamCheck(s)
  <2>1. /\ UNCHANGED sem /\ stage[s] = "check"
        /\ NextTarget(s) \/ (\E l \in Stages : GoTo(s, l))
        /\ \/ NextTarget(s) \/ GoTo(s, "wait")
           \/ Current(s) \notin Configured /\ GoTo(s, "connect")
    BY <1>6 DEF StreamCheck, Stages
  <2>2. StreamTypeOK' /\ Rest /\ ~HoldsStreamSlot(s) /\ ~HoldsStreamSlot(s)'
    BY <2>1, StreamMoves DEF Stages
  <2>3. QED
    BY <1>2, <2>1, <2>2
<1>7. CASE StreamAcquireCancelled(s) \/ StreamBlame(s)
  <2>1. UNCHANGED sem /\ stage[s] \in {"wait", "blame"} /\ NextTarget(s)
    BY <1>7 DEF StreamAcquireCancelled, StreamBlame, poolVars
  <2>2. StreamTypeOK' /\ Rest /\ ~HoldsStreamSlot(s) /\ ~HoldsStreamSlot(s)'
    BY <2>1, StreamMoves
  <2>3. QED
    BY <1>2, <2>1, <2>2
<1>8. CASE StreamConnects(s) \/ StreamEnds(s) \/ StreamBreaks(s) \/ StreamRecord(s)
  <2>1. /\ UNCHANGED <<sem, line, at>> /\ StreamTypeOK'
        /\ stage[s] \in {"connect", "relay", "record"} /\ stage'[s] \in {"relay", "record", "close"}
        /\ \A t \in Streams \ {s} : stage'[t] = stage[t]
    BY <1>8 DEF StreamConnects, StreamEnds, StreamBreaks, StreamRecord, GoTo, StreamTypeOK,
       Stages, poolVars
  <2>2. Rest /\ (HoldsStreamSlot(s)' <=> HoldsStreamSlot(s)) /\ Current(s)' = Current(s)
    BY <2>1
  <2>3. QED
    BY <2>1, <2>2, SameStreamHolders
<1>9. CASE StreamAcquire(s)
  <2>1. /\ stage[s] = "wait" /\ Current(s) \in Configured /\ GoTo(s, "connect")
        /\ sem[Current(s)] < Capacity(Current(s))
        /\ sem' = [sem EXCEPT ![Current(s)] = sem[Current(s)] + 1]
    BY <1>9 DEF StreamAcquire, AcquireSemaphore
  <2>2. /\ StreamTypeOK' /\ Rest /\ ~HoldsStreamSlot(s) /\ HoldsStreamSlot(s)'
        /\ Current(s)' = Current(s)
    BY <2>1, StreamMoves DEF Stages
  <2>3. sem' \in [Configured -> Nat]
    BY <2>1
  <2>4. ASSUME NEW p \in Configured PROVE StreamBalanced(p)
    <3>1. CASE Current(s) = p
      <4>1. s \in Streams \ StreamHolders(p) /\ StreamHolders(p)' = StreamHolders(p) \cup {s}
        BY <2>2, <3>1 DEF StreamHolders
      <4>2. sem[p] < Capacity(p) /\ sem'[p] = sem[p] + 1
        BY <2>1, <3>1
      <4>3. QED
        BY <4>1, <4>2 DEF StreamBalanced, StreamGains
    <3>2. CASE Current(s) # p
      <4>1. StreamHolders(p)' = StreamHolders(p) /\ sem'[p] = sem[p]
        BY <2>1, <2>2, <3>2 DEF StreamHolders
      <4>2. QED
        BY <4>1 DEF StreamBalanced, StreamKeeps
    <3>3. QED
      BY <3>1, <3>2
  <2>5. QED
    BY <2>2, <2>3, <2>4
<1>10. CASE StreamLookupFails(s) \/ StreamConnectFails(s) \/ StreamClose(s)
  <2>1. /\ stage[s] \in {"connect", "close"} /\ GiveBack(Current(s))
        /\ NextTarget(s) \/ GoTo(s, "blame") \/ GoTo(s, "done")
    BY <1>10 DEF StreamLookupFails, StreamConnectFails, StreamClose
  <2>2. StreamTypeOK' /\ Rest /\ ~HoldsStreamSlot(s)'
    BY <2>1, StreamMoves DEF Stages
  <2>3. CASE Current(s) \notin Configured
    <3>1. UNCHANGED sem /\ ~HoldsStreamSlot(s)
      BY <2>1, <2>3 DEF GiveBack
    <3>2. QED
      BY <1>2, <2>2, <3>1
  <2>4. CASE Current(s) \in Configured
    <3>1. /\ sem[Current(s)] > 0 /\ sem' = [sem EXCEPT ![Current(s)] = sem[Current(s)] - 1]
          /\ HoldsStreamSlot(s)
      BY <2>1, <2>4 DEF GiveBack, ReleaseSemaphore
    <3>2. sem' \in [Configured -> Nat]
      BY <2>4, <3>1
    <3>3. ASSUME NEW p \in Configured PROVE StreamBalanced(p)
      <4>1. CASE Current(s) = p
        <5>1. s \in StreamHolders(p) /\ StreamHolders(p)' = StreamHolders(p) \ {s}
          BY <2>2, <3>1, <4>1 DEF StreamHolders
        <5>2. sem'[p] = sem[p] - 1
          BY <3>1, <4>1
        <5>3. QED
          BY <5>1, <5>2 DEF StreamBalanced, StreamReturns
      <4>2. CASE Current(s) # p
        <5>1. StreamHolders(p)' = StreamHolders(p) /\ sem'[p] = sem[p]
          BY <2>2, <3>1, <4>2 DEF StreamHolders
        <5>2. QED
          BY <5>1 DEF StreamBalanced, StreamKeeps
      <4>3. QED
        BY <4>1, <4>2
    <3>4. QED
      BY <2>2, <3>2, <3>3
  <2>5. QED
    BY <2>3, <2>4
<1>11. QED
  BY <1>1, <1>4, <1>5, <1>6, <1>7, <1>8, <1>9, <1>10 DEF StreamProgress

-----------------------------------------------------------------------------
(* The slots both paths share.                                             *)

\* The streams that hold a slot are finitely many.
LEMMA StreamHoldersFinite ==
    ASSUME NEW p
    PROVE  IsFiniteSet(StreamHolders(p))
<1>1. StreamHolders(p) \in SUBSET Streams
  BY DEF StreamHolders
<1>2. QED
  BY <1>1, StreamConfig, FS_Subset

\* The count of the taken slots of provider p.
SharedCount(p) ==
    /\ sem[p] = Cardinality(Holders(p)) + Cardinality(StreamHolders(p))
    /\ sem[p] <= Capacity(p)

\* A step of the router, which leaves the streams alone, keeps the count.
LEMMA SharedCountRouterStep ==
    ASSUME NEW p \in Configured, sem[p] \in Nat, SharedCount(p), Balanced(p),
           StreamHolders(p)' = StreamHolders(p)
    PROVE  SharedCount(p)'
<1>0. /\ IsFiniteSet(Holders(p)) /\ Capacity(p) \in Nat
      /\ Cardinality(Holders(p)) \in Nat /\ Cardinality(StreamHolders(p)) \in Nat
  BY HoldersFinite, StreamHoldersFinite, CapacityPositive, FS_CardinalityType
<1>1. CASE Keeps(p)
  BY <1>1 DEF Keeps, SharedCount
<1>2. CASE Gains(p)
  <2>1. PICK a \in Calls \ Holders(p) : /\ Holders(p)' = Holders(p) \cup {a}
                                        /\ sem[p] < Capacity(p)
                                        /\ sem'[p] = sem[p] + 1
    BY <1>2 DEF Gains
  <2>2. Cardinality(Holders(p) \cup {a}) = Cardinality(Holders(p)) + 1
    BY <1>0, <2>1, FS_AddElement
  <2>3. QED
    BY <1>0, <2>1, <2>2 DEF SharedCount
<1>3. CASE Returns(p)
  <2>1. PICK a \in Holders(p) : Holders(p)' = Holders(p) \ {a} /\ sem'[p] = sem[p] - 1
    BY <1>3 DEF Returns
  <2>2. Cardinality(Holders(p) \ {a}) = Cardinality(Holders(p)) - 1
    BY <1>0, <2>1, FS_RemoveElement
  <2>3. QED
    BY <1>0, <2>1, <2>2 DEF SharedCount
<1>4. QED
  BY <1>1, <1>2, <1>3 DEF Balanced

\* A step of a stream, which leaves the router's calls alone, keeps it too.
LEMMA SharedCountStreamStep ==
    ASSUME NEW p \in Configured, sem[p] \in Nat, SharedCount(p), StreamBalanced(p),
           Holders(p)' = Holders(p)
    PROVE  SharedCount(p)'
<1>0. /\ IsFiniteSet(StreamHolders(p)) /\ Capacity(p) \in Nat
      /\ Cardinality(Holders(p)) \in Nat /\ Cardinality(StreamHolders(p)) \in Nat
  BY HoldersFinite, StreamHoldersFinite, CapacityPositive, FS_CardinalityType
<1>1. CASE StreamKeeps(p)
  BY <1>1 DEF StreamKeeps, SharedCount
<1>2. CASE StreamGains(p)
  <2>1. PICK s \in Streams \ StreamHolders(p) :
                /\ StreamHolders(p)' = StreamHolders(p) \cup {s}
                /\ sem[p] < Capacity(p)
                /\ sem'[p] = sem[p] + 1
    BY <1>2 DEF StreamGains
  <2>2. Cardinality(StreamHolders(p) \cup {s}) = Cardinality(StreamHolders(p)) + 1
    BY <1>0, <2>1, FS_AddElement
  <2>3. QED
    BY <1>0, <2>1, <2>2 DEF SharedCount
<1>3. CASE StreamReturns(p)
  <2>1. PICK s \in StreamHolders(p) :
                StreamHolders(p)' = StreamHolders(p) \ {s} /\ sem'[p] = sem[p] - 1
    BY <1>3 DEF StreamReturns
  <2>2. Cardinality(StreamHolders(p) \ {s}) = Cardinality(StreamHolders(p)) - 1
    BY <1>0, <2>1, FS_RemoveElement
  <2>3. QED
    BY <1>0, <2>1, <2>2 DEF SharedCount
<1>4. QED
  BY <1>1, <1>2, <1>3 DEF StreamBalanced

\* The inductive invariant of the gateway.
GatewayInv == GatewayTypeOK /\ Structure /\ SharedSlotsAccounted

\* It holds initially: nothing runs and every semaphore is empty.
LEMMA GatewayInvInit == GatewayInit => GatewayInv
<1> SUFFICES ASSUME GatewayInit PROVE GatewayInv
  OBVIOUS
<1>1. StreamTypeOK
  BY DEF GatewayInit, StreamInit, StreamTypeOK, Stages
<1>2. \A p \in Configured : Holders(p) = {}
  BY DEF GatewayInit, Init, RouterInit, Holders, HoldsSlot
<1>3. \A p \in Configured : StreamHolders(p) = {}
  BY DEF GatewayInit, StreamInit, StreamHolders, HoldsStreamSlot
<1>4. \A p \in Configured : sem[p] = 0
  BY DEF GatewayInit, Init, PoolInit
<1>5. SharedSlotsAccounted
  <2> SUFFICES ASSUME NEW p \in Configured
               PROVE  /\ sem[p] = Cardinality(Holders(p)) + Cardinality(StreamHolders(p))
                      /\ sem[p] <= Capacity(p)
    BY DEF SharedSlotsAccounted
  <2>1. Cardinality(Holders(p)) = 0 /\ Cardinality(StreamHolders(p)) = 0
    BY <1>2, <1>3, FS_EmptySet
  <2>2. QED
    BY <1>4, <2>1, CapacityPositive
<1>6. QED
  BY <1>1, <1>5, TypeInit, StructureInit DEF GatewayInv, GatewayTypeOK, GatewayInit

\* Every step preserves it.
LEMMA GatewayInvStep == GatewayInv /\ [GatewayNext]_gatewayVars => GatewayInv'
<1> SUFFICES ASSUME GatewayInv, [GatewayNext]_gatewayVars PROVE GatewayInv'
  OBVIOUS
<1>1. TypeOK /\ StreamTypeOK /\ Structure /\ sem \in [Configured -> Nat]
  BY DEF GatewayInv, GatewayTypeOK, TypeOK, PoolTypeOK
<1>2. \A p \in Configured : SharedCount(p)
  BY DEF GatewayInv, SharedSlotsAccounted, SharedCount
<1>3. ASSUME \A p \in Configured : SharedCount(p)' PROVE SharedSlotsAccounted'
  BY <1>3 DEF SharedSlotsAccounted, SharedCount
<1>4. CASE Next /\ UNCHANGED streamVars
  <2>1. TypeOK'
    BY <1>1, <1>4, TypeStep
  <2>2. Structure'
    BY <1>1, <1>4, StructureStep
  <2>3. StreamTypeOK'
    BY <1>1, <1>4 DEF StreamTypeOK, streamVars
  <2>4. \A p \in Configured : StreamHolders(p)' = StreamHolders(p)
    BY <1>4 DEF StreamHolders, HoldsStreamSlot, Current, streamVars
  <2>5. \A p \in Configured : Balanced(p)
    BY <1>1, <1>4, BalanceStep
  <2>6. \A p \in Configured : SharedCount(p)'
    BY <1>1, <1>2, <2>4, <2>5, SharedCountRouterStep
  <2>7. QED
    BY <1>3, <2>1, <2>2, <2>3, <2>6 DEF GatewayInv, GatewayTypeOK
<1>5. CASE StreamNext /\ UNCHANGED routerVars
  <2>1. /\ StreamTypeOK' /\ sem' \in [Configured -> Nat]
        /\ \A p \in Configured : StreamBalanced(p)
    BY <1>1, <1>5, StreamStep
  <2>2. BreakerTypeOK'
    BY <1>1, <1>5, TypeOKParts, StreamBreakerStep, BreakerTypeStep
  <2>3. TypeOK'
    BY <1>1, <1>5, <2>1, <2>2 DEF TypeOK, PoolTypeOK, BreakerTypeOK, routerVars, requestVars,
       callVars
  <2>4. Structure'
    BY <1>1, <1>5 DEF Structure, routerVars, requestVars, callVars, Target, Fastest
  <2>5. \A p \in Configured : Holders(p)' = Holders(p)
    BY <1>5 DEF Holders, HoldsSlot, Target, routerVars, requestVars, callVars
  <2>6. \A p \in Configured : SharedCount(p)'
    BY <1>1, <1>2, <2>1, <2>5, SharedCountStreamStep
  <2>7. QED
    BY <1>3, <2>1, <2>3, <2>4, <2>6 DEF GatewayInv, GatewayTypeOK
<1>6. CASE UNCHANGED gatewayVars
  <2>1. TypeOK'
    BY <1>1, <1>6, TypeStep DEF gatewayVars, vars
  <2>2. StreamTypeOK'
    BY <1>1, <1>6 DEF StreamTypeOK, gatewayVars, streamVars
  <2>3. Structure'
    BY <1>1, <1>6 DEF Structure, gatewayVars, routerVars, requestVars, callVars, Target, Fastest
  <2>4. \A p \in Configured : SharedCount(p)'
    BY <1>2, <1>6 DEF SharedCount, gatewayVars, poolVars, streamVars, routerVars, requestVars,
       callVars, Holders, HoldsSlot, Target, StreamHolders, HoldsStreamSlot, Current
  <2>5. QED
    BY <1>3, <2>1, <2>2, <2>3, <2>4 DEF GatewayInv, GatewayTypeOK
<1>7. QED
  BY <1>4, <1>5, <1>6 DEF GatewayNext

\* Every variable of both request paths keeps its type, for any number of requests,
\* streams and providers and any interleaving of the two paths.
THEOREM GatewayTypeCorrect == GatewaySpec => []GatewayTypeOK
<1>1. GatewayInv => GatewayTypeOK
  BY DEF GatewayInv
<1>2. QED
  BY <1>1, GatewayInvInit, GatewayInvStep, PTL DEF GatewaySpec

\* Chat, batch and streaming requests together never leak a slot, give one back twice
\* or take more than max_concurrent of a provider (AcquireSemaphore, ReleaseSemaphore
\* and the deferred releases of both handlers).
THEOREM GatewaySharedSlotsAccounted == GatewaySpec => []SharedSlotsAccounted
<1>1. GatewayInv => SharedSlotsAccounted
  BY DEF GatewayInv
<1>2. QED
  BY <1>1, GatewayInvInit, GatewayInvStep, PTL DEF GatewaySpec

-----------------------------------------------------------------------------
(* Breakers.                                                               *)

\* Every step of the gateway does to the breakers what BreakerStep allows.
LEMMA GatewayBreakerStep == [GatewayNext]_gatewayVars => BreakerStep
<1>1. UNCHANGED gatewayVars => BreakerStep
  BY DEF gatewayVars, poolVars, BreakerStep
<1>2. QED
  BY <1>1, RouterBreakerStep, StreamBreakerStep DEF GatewayNext

\* Streams record their outcomes long after they were admitted and chat calls at any
\* time in between; the breakers still keep the promise of AbstractBreaker.
THEOREM GatewayBreakersKeepPromise == GatewaySpec => BreakersKeepPromise
<1>1. GatewayInit => BreakerInv /\ AB!Init
  BY BreakerInvInit, AbstractInit DEF GatewayInit, Init
<1>2. BreakerInv /\ [GatewayNext]_gatewayVars => BreakerInv'
  BY BreakerInvStep, GatewayBreakerStep
<1>3. BreakerInv /\ [GatewayNext]_gatewayVars => [AB!Next]_(AB!vars)
  BY AbstractStep, GatewayBreakerStep
<1>4. QED
  BY <1>1, <1>2, <1>3, PTL DEF GatewaySpec, BreakersKeepPromise, AB!Spec
=============================================================================
