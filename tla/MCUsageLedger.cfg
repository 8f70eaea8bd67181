\* Two requests of two clients over two days, one client outside the trusted networks.
SPECIFICATION Spec
CONSTANTS
    Requests = {r1, r2}
    BufSize = 1
    MaxDbErrors = 0
    Clients = {"inside", "outside"}
    Outsiders = {"outside"}
    Allowed = {"archive", "soft_reset", "hard_delete"}
    MaxDay = 2
SYMMETRY SameRequests
INVARIANTS
    TypeOK
    UsageConserved
    PastArchivesSucceed
    OwnUsageOnly
CHECK_DEADLOCK FALSE
