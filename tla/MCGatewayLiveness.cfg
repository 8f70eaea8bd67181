\* A chat request that names one provider twice, one after the other or racing, and a
\* stream over the only slot, under fairness.
SPECIFICATION FairGatewaySpec
CONSTANTS
    Requests = {r1}
    Streams = {s1}
    MaxTargets = 2
    Provider <- MCProvider
    Configured = {"claude"}
    Registered <- MCRegistered
    Timed = {}
    MaxConcurrent <- ZeroSlots
    FailureThreshold = 1
    RecoveryTimeout = 1
    HalfOpenMax = 1
    Chains <- TwiceChain
    UsedPolicies = {"on_error", "always_fastest"}
    Faults = {"server"}
    StreamChains <- SoleStreamChain
    Eager = {}
    StreamFaults = TRUE
PROPERTIES
    EverybodyServed
    EverySlotReturned
