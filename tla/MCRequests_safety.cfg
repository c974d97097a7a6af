\* Two requests of any kind beside workers and the janitor.
SPECIFICATION RequestsSpec
CONSTANTS
    Upload = {u1, u2}
    Job = {j1, j2}
    NoUpload = NoUpload
    NoJob = NoJob
    MaxUploadBytes = 2
    MaxStorageBytes = 3
    MinUploadCharge = 1
    MaxPendingJobs = 1
    MaxAttempts = 1
    Retention = 1
    MaxJobAge = 1
    Lease = 1
    StaleAge = 1
    MaxSave = 1
    Skew = 0
    Size = {1, 3}
    MaxClock = 3
    LastArrival = 1
    RemovalMayFail = FALSE
    Request = {r1, r2}
    Kind = {"sync", "upload", "url"}
    UploadSlots = 1
    SyncTimeout = 2
    PollEvery = 1
SYMMETRY RequestSymmetry
CHECK_DEADLOCK FALSE
INVARIANTS
    CountsExact
    RequestsTypeOK
    SlotsExact
    SyncLeavesNothing
    UploadsAreOwned
    UploadAwaitsSubmission
    NeverAnsweredGone
    LeftOnlyIfLeft
