\* One worker on a fine clock: slow answers, lost answers and lost requests, and
\* reports that are sent again after a pause.
SPECIFICATION WorkersSpec
CONSTANTS
    Upload = {u1}
    Job = {j1}
    NoUpload = NoUpload
    NoJob = NoJob
    MaxUploadBytes = 1
    MaxStorageBytes = 1
    MinUploadCharge = 1
    MaxPendingJobs = 1
    MaxAttempts = 1
    Retention = 14
    MaxJobAge = 14
    Lease = 6
    StaleAge = 14
    MaxSave = 0
    Skew = 0
    Size = {1}
    MaxClock = 11
    LastArrival = 0
    RemovalMayFail = FALSE
    Worker = {w1}
    Period = 3
    Timeout = 2
    Stall = 11
    Pace = 5
    Attempts = 2
    Pause <- MCPause
    MaxFaults = 2
    LastFault = 10
INVARIANTS
    WorkersTypeOK
    LeaseKept
    RenewalFresh
    HealthyUnlessStuck
CHECK_DEADLOCK FALSE
