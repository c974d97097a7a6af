\* Time is fair: jobs settle and the storage drains, removals failing or not.
SPECIFICATION ServerSpec
CONSTANTS
    Upload = {u1}
    Job = {j1}
    NoUpload = NoUpload
    NoJob = NoJob
    MaxUploadBytes = 1
    MaxStorageBytes = 2
    MinUploadCharge = 1
    MaxPendingJobs = 1
    MaxAttempts = 2
    Retention = 1
    MaxJobAge = 1
    Lease = 1
    StaleAge = 1
    MaxSave = 1
    Skew = 1
    Size = {1, 2}
    MaxClock = 7
    LastArrival = 1
    RemovalMayFail = TRUE
PROPERTIES
    JobsSettle
    JobsForgotten
    StorageDrains
