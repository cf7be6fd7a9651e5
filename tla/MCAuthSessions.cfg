SPECIFICATION AuthSpec
CONSTANTS
    Wallets = {ana, luis}
    Challenges = {1, 2}
    Workers = {w1, w2}
    CHALLENGE_TTL_SECONDS = 1
    SESSION_TTL_SECONDS = 2
    MaxTime = 4
    MaxSessions = 3
    None = none
SYMMETRY AuthSymmetry
INVARIANTS
    ChallengeOpensOneSession
    SessionWithinLifetimes
PROPERTY RevocationIsFinal
CHECK_DEADLOCK FALSE
