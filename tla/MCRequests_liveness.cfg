\* One request, with later retries and older readings of the clock: it returns.
SPECIFICATION RequestsSpec
CONSTANTS
    Upload = {u1}
    Job = {j1}
    NoUpload = NoUpload
    NoJob = NoJob
    MaxUploadBytes = 1
    MaxStorageBytes = 1
    MinUploadCharge = 1
    MaxPendingJobs = 1
    MaxAttempts = 2
    Retention = 2
    MaxJobAge = 1
    Lease = 1
    StaleAge = 1
    MaxSave = 1
    Skew = 1
    Size = {0, 1, 2}
    MaxClock = 5
    LastArrival = 1
    RemovalMayFail = FALSE
    Request = {r1}
    Kind = {"sync", "upload", "url"}
    UploadSlots = 1
    SyncTimeout = 3
    PollEvery = 1
CHECK_DEADLOCK FALSE
PROPERTIES
    RequestsReturn
