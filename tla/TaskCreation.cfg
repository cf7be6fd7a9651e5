SPECIFICATION CreationSpec
CONSTANTS
    DECIMAL_PLACES = 2
    MAX_SAFE_INTEGER = 511
    MAX_INTEGER = 50
    Wallets = {ana}
    None = none
    TaskFields = {"title"}
    Rewards <- MCRewards
    Deadlines = {1}
    MaxCriteria = 2
    MaxTime = 1
    MaxReloads = 1
    MaxTurns = 3
INVARIANTS
    StepsBehindAreRight
    CriterionErrorIsItsOwn
    ReviewedIsCreated
    NoSecondDraft
    
    StoredRewardIsExact
PROPERTIES
    VisitSettles
CHECK_DEADLOCK FALSE
