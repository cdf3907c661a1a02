SPECIFICATION Spec
CONSTANTS
    AutoRuns = {a1, a2}
    CardRuns = {}
    Hooks = {}
    Keys = {}
    Windows = {}
    MaxSlot = 2
    MaxDay = 2
    MaxUsed = 2
    Needs = {0, 1}
    ListLimit = 2
    ListDays = 1
    NoRun = NoRun
    NoPay = NoPay
    Crashes = TRUE
    LostReplies = TRUE
    LateApproval = FALSE
    LostLookups = FALSE
SYMMETRY RunSymmetry
INVARIANTS TypeOK OneChargePerShortage
PROPERTIES NoChargeOverCapture
CHECK_DEADLOCK FALSE
