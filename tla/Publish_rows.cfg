SPECIFICATION Spec
CONSTANTS
    Dests = {yt, ig}
    YouTube = {yt}
    Instagram = {ig}
    Facebook = {}
    Requests = {r1}
    Workers = {w1}
    Keys = {k1, k2}
    Videos = {v1, v2}
    None = None
    MayGiveUp = {yt}
    Faults = {"crash", "reply", "record"}
SYMMETRY Interchangeable
INVARIANTS TypeOK PublishedIsLive FailedIsRefunded
PROPERTIES LiveIsNeverFailed UsesQueue
CHECK_DEADLOCK FALSE
