\* Two requests, a buffer of one record, a failing INSERT, and the signal at any time.
SPECIFICATION FairSpec
CONSTANTS
    Requests = {r1, r2}
    BufSize = 1
    MaxDbErrors = 1
    Prompts <- MCPrompts
    Queries <- MCQueries
INVARIANTS
    TypeOK
    AnswersRecorded
    HitMatchesRequest
    PanicOnlyAfterTimeout
PROPERTIES
    AcceptedRecordSettles
CHECK_DEADLOCK FALSE
