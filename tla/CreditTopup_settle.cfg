SPECIFICATION FairSpec
CONSTANTS
    AutoRuns = {a1}
    CardRuns = {}
    Hooks = {h1, h2}
    Keys = {}
    Windows = {}
    MaxSlot = 1
    MaxDay = 1
    MaxUsed = 1
    Needs = {0, 1}
    ListLimit = 1
    ListDays = 1
    NoRun = NoRun
    NoPay = NoPay
    Crashes = TRUE
    LostReplies = TRUE
    LateApproval = TRUE
    LostLookups = TRUE
PROPERTIES CapturesAreSettled
CHECK_DEADLOCK FALSE
