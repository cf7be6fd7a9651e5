SPECIFICATION WalletSessionSpec
CONSTANTS
    Wallets = {ana, ben}
    StoredWallet = ana
    MaxPresses = 3
    MaxSessions = 2
    None = none
INVARIANTS
    ChangeWalletHolds
    OneSessionEverywhere
PROPERTIES
    LoaderEnds
    OtherWalletsSessionEnds
CHECK_DEADLOCK FALSE
