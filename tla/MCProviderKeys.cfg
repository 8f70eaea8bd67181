\* Two calls of the API and the command line, a restart, a failing statement.
SPECIFICATION Spec
CONSTANTS
    Calls = {c1, c2}
    Providers = {"claude", "gpt"}
    Names = {"main", "spare"}
    Main = "main"
    EnvKeys = {"gpt"}
    MaxRows = 2
    MaxClock = 1
    MaxFaults = 1
    MaxRestarts = 1
SYMMETRY SameCalls
INVARIANTS
    TypeOK
    OneRowPerName
    FailedCallChangesNothing
    ChangesAudited
    LoadedKeyKnown
CHECK_DEADLOCK FALSE
