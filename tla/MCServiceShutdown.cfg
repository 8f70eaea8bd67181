\* The end of the process: main against Shutdown.
SPECIFICATION Spec
CONSTANTS
    Requests = {r1, r2}
    BufSize = 1
    MaxDbErrors = 0
    Prompts <- MCPrompts
    Queries <- MCQueries
INVARIANTS
    ShutdownFlushes
CHECK_DEADLOCK FALSE
