SPECIFICATION Spec
CONSTANTS
    j1 = j1
    j2 = j2
    j3 = j3
    w1 = w1
    w2 = w2
    t1 = t1
    k1 = k1
    NoKey = NoKey
    Nobody = Nobody
    NoJob = NoJob
    Jobs = {j1, j2}
    Workers = {w1, w2}
    Tenants = {t1}
    DedupeKey <- KeysShared
    TenantOf <- OneTenant
    Lane <- AllLanes
    MaxAttempts <- TwoAttempts
    Backoff <- ExpBackoff
    Delays = {0, 1}
    StaleAge = 2
    MaxSilence = 3
    MediaJobs = {j1, j2}
    DbFaults = TRUE
SYMMETRY WorkerSymmetry
INVARIANTS OneInFlightPerKey
PROPERTIES DoneIsFinal
