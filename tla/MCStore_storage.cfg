\* Saves of every size beside the sweep: quota and files.
SPECIFICATION Spec
CONSTANTS
    Upload = {u1, u2}
    Job = {j1}
    NoUpload = NoUpload
    NoJob = NoJob
    MaxUploadBytes = 3
    MaxStorageBytes = 5
    MinUploadCharge = 2
    MaxPendingJobs = 1
    MaxAttempts = 1
    Retention = 1
    MaxJobAge = 1
    Lease = 1
    StaleAge = 1
    MaxSave = 1
    Skew = 1
    Size = {0, 1, 3, 4}
    MaxClock = 4
    LastArrival = 1
    RemovalMayFail = TRUE
SYMMETRY IdSymmetry
INVARIANTS
    QuotaExact
    AudioAvailable
