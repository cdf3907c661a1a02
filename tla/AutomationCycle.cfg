SPECIFICATION FairSpec
CONSTANTS
    c1 = c1
    c2 = c2
    c3 = c3
    rq = rq
    rs = rs
    rc = rc
    Recs = {c1, c2, c3}
    Rules = {rq, rs, rc}
    Enabled = {{rq}, {rs}, {rc}}
    Accounts = {a1}
    Rounds = {w1, w2}
    Human = Human
    Nobody = Nobody
    Wants <- WantsOf
    Cap <- CapOf
    ApproveFirst = {rq, rc}
    ByQuota = {rq, rc}
    Plan <- PlanOf
    PerTick <- PerTickOf
    Lead = 1
    Grace = 1
    ByHand = {c1}
    MayFail = {c1, c3}
    DayEnd = 2
    MaxFaults = 1
INVARIANTS TypeOK SentOnce SharesHold AdoptedWithinCap
PROPERTIES ApprovedWhenSent EveryClipIsDecided
