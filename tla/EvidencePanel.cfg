SPECIFICATION EvidenceSpec
CONSTANTS
    client = client
    developer = developer
    verifier = verifier
    Accounts <- MCAccounts
    Verifier = verifier
    Contract = contract
    BountyIds = {1}
    Amounts = {1, 2}
    Deadlines = {1}
    CriteriaHashes = {"c1"}
    EvidenceHashes <- Evidence
    Funds <- MCFunds
    MaxTime = 2
    None = none
    Workers = {w1}
    Task = 1
    TaskTerms <- MCTaskTerms
    Githubs = {"ana"}
    BaseShas = {"b1"}
    Heads = {"h1", "h2"}
    MaxReleases = 1
    MaxRetries = 1
INVARIANTS
    EvidenceTypeOK
    SettlementIsProved
    NoFalseMismatch
PROPERTIES
    EvidenceSettles
CHECK_DEADLOCK FALSE
