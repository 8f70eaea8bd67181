\* A chat request and two streams over one slot per provider.
SPECIFICATION GatewaySpec
CONSTANTS
    Requests = {r1}
    Streams = {s1, s2}
    MaxTargets = 1
    Provider <- MCProvider
    Configured = {"claude", "absent"}
    Registered <- MCRegistered
    Timed = {}
    MaxConcurrent <- OneSlot
    FailureThreshold = 2
    RecoveryTimeout = 1
    HalfOpenMax = 2
    Chains <- MCChains
    UsedPolicies = {"on_error"}
    Faults = {"server"}
    StreamChains <- MixedStreamChains
    Eager = {"claude"}
    StreamFaults = TRUE
SYMMETRY SameStreams
INVARIANTS
    GatewayTypeOK
    SharedSlotsAccounted
PROPERTIES
    BreakersKeepPromise
