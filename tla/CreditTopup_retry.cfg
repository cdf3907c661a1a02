SPECIFICATION Spec
CONSTANTS
    AutoRuns = {}
    CardRuns = {c1}
    Hooks = {}
    Keys = {k1}
    Windows = {}
    MaxSlot = 2
    MaxDay = 1
    MaxUsed = 0
    Needs = {0}
    ListLimit = 1
    ListDays = 1
    NoRun = NoRun
    NoPay = NoPay
    Crashes = FALSE
    LostReplies = TRUE
    LateApproval = FALSE
    LostLookups = FALSE
INVARIANTS OneChargePerKey
CHECK_DEADLOCK FALSE
