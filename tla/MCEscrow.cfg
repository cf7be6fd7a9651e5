SPECIFICATION FairSpec
CONSTANTS
    client = client
    developer = developer
    verifier = verifier
    Accounts <- MCAccounts
    Verifier = verifier
    Contract = contract
    BountyIds = {1, 2}
    Amounts <- MCAmounts
    Deadlines = {1, 2}
    CriteriaHashes = {"c1"}
    EvidenceHashes = {"e1", "e2"}
    Funds <- MCFunds
    MaxTime = 3
    None = none
INVARIANTS
    EscrowSolvent
    RecordConsistent
PROPERTIES
    DeadlineSeparatesExits
    KeepsPromise
    RewardNeverStranded
CHECK_DEADLOCK FALSE
