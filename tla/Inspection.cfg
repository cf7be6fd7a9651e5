SPECIFICATION InspectionSpec
CONSTANTS
    Repositories = {"mergepay"}
    Branches = {"main"}
    BaseShas = {"b1"}
    Authors = {"ana"}
    Heads = {"h1", "h2", "h3"}
    Paths = {"src", "doc", "ci"}
    PROTECTED_PATHS = {"ci"}
    REQUIRED_CHECKS = {build, tests}
    None = none
    expected <- MCExpected
    FilesOf <- MCFilesOf
    MAX_FILES = 2
    MAX_CHECK_RUNS = 3
    MaxRuns = 3
    MaxPushes = 1
SYMMETRY CheckSymmetry
INVARIANTS
    SteadyPassCoversEveryFile
PROPERTIES
    PassIsEarned
    RunningChecksAreWaitedFor
CHECK_DEADLOCK FALSE
