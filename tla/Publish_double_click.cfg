SPECIFICATION Spec
CONSTANTS
    Dests = {yt}
    YouTube = {yt}
    Instagram = {}
    Facebook = {}
    Requests = {r1, r2}
    Workers = {w1}
    Keys = {k1, k2}
    Videos = {v1, v2}
    None = None
    MayGiveUp = {yt}
    Faults = {}
SYMMETRY Interchangeable
INVARIANTS OneChargeInFlight
CHECK_DEADLOCK FALSE
