SPECIFICATION FairSpec
CONSTANTS
    c1 = c1
    c2 = c2
    c3 = c3
    c4 = c4
    o1 = o1
    i1 = i1
    i2 = i2
    t1 = t1
    t2 = t2
    Callers = {c1, c2, c3, c4}
    Others = {o1}
    Instances = {i1, i2}
    InstanceOf <- TwoInstances
    Tenants = {t1, t2}
    TenantOf <- TwoTenants
    CallOf <- TwoCycles
    PoolMax = 5
    Impatient = {c3}
    Fragile = {c1, c4}
INVARIANTS TypeOK SlotsAreCounted LocksLeaveAConnection Exclusive
PROPERTIES EveryCallReturns
