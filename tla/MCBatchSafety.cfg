\* Two workers, the reaper, one outage, a failed command and a lost reply.
SPECIFICATION Spec
CONSTANTS
    Jobs = {j1, j2}
    Workers = {w1, w2}
    MaxRetries = 1
    StaleAfter = 1
    MaxOutages = 1
    MaxRedisErrors = 1
    MaxLostReplies = 1
    NoJob = NoJob
SYMMETRY Identical
INVARIANTS
    TypeOK
    ItemInOnePlace
    OwnerKept
PROPERTIES
    WorkersKeepAnswers
CHECK_DEADLOCK FALSE
