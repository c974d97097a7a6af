\* One worker that fails early, twice; time goes on until every lease has lapsed.
SPECIFICATION WorkersFairSpec
CONSTANTS
    Upload = {u1}
    Job = {j1}
    NoUpload = NoUpload
    NoJob = NoJob
    MaxUploadBytes = 1
    MaxStorageBytes = 1
    MinUploadCharge = 1
    MaxPendingJobs = 1
    MaxAttempts = 2
    Retention = 9
    MaxJobAge = 9
    Lease = 3
    StaleAge = 9
    MaxSave = 0
    Skew = 0
    Size = {1}
    MaxClock = 10
    LastArrival = 0
    RemovalMayFail = FALSE
    Worker = {w1}
    Period = 1
    Timeout = 1
    Stall = 4
    Pace = 1
    Attempts = 1
    Pause <- MCPause
    MaxFaults = 2
    LastFault = 2
PROPERTIES
    JobsFinish
CHECK_DEADLOCK FALSE
