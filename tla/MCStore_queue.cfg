\* Two uploads and two jobs: every order of leases, retries and limits.
SPECIFICATION Spec
CONSTANTS
    Upload = {u1, u2}
    Job = {j1, j2}
    NoUpload = NoUpload
    NoJob = NoJob
    MaxUploadBytes = 2
    MaxStorageBytes = 4
    MinUploadCharge = 1
    MaxPendingJobs = 2
    MaxAttempts = 2
    Retention = 0
    MaxJobAge = 2
    Lease = 1
    StaleAge = 0
    MaxSave = 0
    Skew = 1
    Size = {1}
    MaxClock = 4
    LastArrival = 0
    RemovalMayFail = FALSE
SYMMETRY IdSymmetry
INVARIANTS
    TypeOK
    AttemptsBounded
    FencedCommit
    LinksAgree
    FilesPaidFor
PROPERTIES
    OutcomeFinal
    LeaseRespected
    OldestFirst
    ImplementsLifecycle
