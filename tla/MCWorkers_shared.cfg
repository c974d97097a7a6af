\* Two workers, one job of two attempts, one failure of either.
SPECIFICATION WorkersSpec
CONSTANTS
    Upload = {u1}
    Job = {j1}
    NoUpload = NoUpload
    NoJob = NoJob
    MaxUploadBytes = 1
    MaxStorageBytes = 1
    MinUploadCharge = 1
    MaxPendingJobs = 1
    MaxAttempts = 2
    Retention = 9
    MaxJobAge = 9
    Lease = 3
    StaleAge = 9
    MaxSave = 0
    Skew = 0
    Size = {1}
    MaxClock = 6
    LastArrival = 0
    RemovalMayFail = FALSE
    Worker = {w1, w2}
    Period = 1
    Timeout = 1
    Stall = 5
    Pace = 2
    Attempts = 2
    Pause <- MCPause
    MaxFaults = 1
    LastFault = 5
SYMMETRY WorkerSymmetry
INVARIANTS
    AckedIsCommitted
    ExpiryNeedsFaults
CHECK_DEADLOCK FALSE
