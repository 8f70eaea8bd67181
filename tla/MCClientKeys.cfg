\* Two calls at a time, two secrets, any command may fail.
SPECIFICATION FairSpec
CONSTANTS
    Calls = {c1, c2}
    MaxSecrets = 2
    MaxLife = 2
    CacheTTL = 2
    Faults = TRUE
    NoKey = NoKey
INVARIANTS
    TypeOK
PROPERTIES
    ExpiryHonoured
    RevokedRowUntouched
    DecisionsConverge
