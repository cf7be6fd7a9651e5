SPECIFICATION PendingSpec
CONSTANTS
    Wallets = {w1, w2, w3}
    Client = w1
    MaxTransactions = 3
    MaxReloads = 1
    None = none
INVARIANTS
    HeardIsRemembered
    SignsOnlyAfterFailure
PROPERTY EffectIsConfirmed
CHECK_DEADLOCK FALSE
