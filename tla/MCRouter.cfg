\* Sequential and racing requests, two at a time.
SPECIFICATION Spec
CONSTANTS
    Requests = {r1, r2}
    MaxTargets = 2
    Provider <- MCProvider
    Configured = {"claude"}
    Registered <- MCRegistered
    Timed = {"claude"}
    MaxConcurrent <- OneSlot
    FailureThreshold = 1
    RecoveryTimeout = 1
    HalfOpenMax = 1
    Chains <- MixedChains
    UsedPolicies = {"", "on_timeout", "always_fastest"}
    Faults = {"gateway_timeout"}
SYMMETRY Identical
INVARIANTS
    TypeOK
    SlotsAccounted
    SequentialDiscipline
    AnswerFaithful
PROPERTIES
    BreakersKeepPromise
