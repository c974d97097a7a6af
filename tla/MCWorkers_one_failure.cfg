\* One renewal that fails is enough to lose the lease.
SPECIFICATION WorkersSpec
CONSTANTS
    Upload = {u1}
    Job = {j1}
    NoUpload = NoUpload
    NoJob = NoJob
    MaxUploadBytes = 1
    MaxStorageBytes = 1
    MinUploadCharge = 1
    MaxPendingJobs = 1
    MaxAttempts = 1
    Retention = 9
    MaxJobAge = 9
    Lease = 6
    StaleAge = 9
    MaxSave = 0
    Skew = 0
    Size = {1}
    MaxClock = 8
    LastArrival = 0
    RemovalMayFail = FALSE
    Worker = {w1}
    Period = 2
    Timeout = 2
    Stall = 5
    Pace = 5
    Attempts = 1
    Pause <- MCPause
    MaxFaults = 1
    LastFault = 6
INVARIANTS
    OneFailureHarmless
CHECK_DEADLOCK FALSE
