SPECIFICATION FairSpec
CONSTANTS
    j1 = j1
    j2 = j2
    j3 = j3
    w1 = w1
    w2 = w2
    t1 = t1
    k1 = k1
    NoKey = NoKey
    Nobody = Nobody
    NoJob = NoJob
    Jobs = {j1, j2, j3}
    Workers = {w1, w2}
    Tenants = {t1}
    DedupeKey <- KeysShared
    TenantOf <- OneTenant
    Lane <- AllLanes
    MaxAttempts <- OnceForTheThird
    Backoff <- ExpBackoff
    Delays = {0, 1}
    StaleAge = 2
    MaxSilence = 1
    MediaJobs = {}
    DbFaults = FALSE
INVARIANTS TypeOK VerdictMatchesAttempts RunExclusive
PROPERTIES ImplementsQueue ImplementsKeyQueue EveryJobSettles
