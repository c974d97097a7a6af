\* A worker is answered 409 for a job that it has itself completed.
SPECIFICATION WorkersSpec
CONSTANTS
    Upload = {u1}
    Job = {j1}
    NoUpload = NoUpload
    NoJob = NoJob
    MaxUploadBytes = 1
    MaxStorageBytes = 1
    MinUploadCharge = 1
    MaxPendingJobs = 1
    MaxAttempts = 2
    Retention = 9
    MaxJobAge = 9
    Lease = 3
    StaleAge = 9
    MaxSave = 0
    Skew = 0
    Size = {1}
    MaxClock = 6
    LastArrival = 0
    RemovalMayFail = FALSE
    Worker = {w1}
    Period = 1
    Timeout = 1
    Stall = 2
    Pace = 2
    Attempts = 2
    Pause <- MCPause
    MaxFaults = 2
    LastFault = 3
INVARIANTS
    ConflictMeansFenced
CHECK_DEADLOCK FALSE
