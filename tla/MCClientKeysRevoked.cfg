\* Revocation against a validation in progress, no command fails.
SPECIFICATION Spec
CONSTANTS
    Calls = {c1, c2}
    MaxSecrets = 1
    MaxLife = 2
    CacheTTL = 2
    Faults = FALSE
    NoKey = NoKey
SYMMETRY SameCalls
INVARIANTS
    RevokedAtOnce
