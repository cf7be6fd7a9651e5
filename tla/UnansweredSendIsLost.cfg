SPECIFICATION PendingSpec
CONSTANTS
    Wallets = {w1, w2, w3}
    Client = w1
    MaxTransactions = 2
    MaxReloads = 0
    None = none
INVARIANT EffectIsRemembered
CHECK_DEADLOCK FALSE
