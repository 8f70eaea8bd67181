\* Crashes and stops, a failed command and a lost reply: accepted jobs settle, tracked
\* ones even across outages.
SPECIFICATION FairSpec
CONSTANTS
    Jobs = {j1, j2}
    Workers = {w1}
    MaxRetries = 1
    StaleAfter = 1
    MaxOutages = 2
    MaxRedisErrors = 1
    MaxLostReplies = 1
    NoJob = NoJob
PROPERTIES
    AcceptedJobSettles
    TrackedJobSettles
CHECK_DEADLOCK FALSE
