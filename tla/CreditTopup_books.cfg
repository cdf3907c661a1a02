SPECIFICATION Spec
CONSTANTS
    AutoRuns = {a1}
    CardRuns = {c1}
    Hooks = {h1}
    Keys = {k1}
    Windows = {p1}
    MaxSlot = 1
    MaxDay = 1
    MaxUsed = 1
    Needs = {0, 1}
    ListLimit = 1
    ListDays = 1
    NoRun = NoRun
    NoPay = NoPay
    Crashes = TRUE
    LostReplies = TRUE
    LateApproval = TRUE
    LostLookups = TRUE
INVARIANTS CreditsMatchCaptures PaidOrdersAreCredited
PROPERTIES ImplementsPurchase
CHECK_DEADLOCK FALSE
