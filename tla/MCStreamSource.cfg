\* Every provider, up to three events, a channel of one chunk.
SPECIFICATION FairSpec
CONSTANTS
    Kinds <- MCKinds
    Scripts <- MCScripts
    BufSize = 1
INVARIANTS
    TypeOK
    RelayExact
    VerdictFaithful
PROPERTIES
    HandlerReturns
    SourceEnds
CHECK_DEADLOCK FALSE
