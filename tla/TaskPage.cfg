SPECIFICATION TaskPageSpec
CONSTANTS
    Results = {"PASS", "FAIL"}
    MaxInputs = 3
    MaxVerifications = 3
INVARIANTS
    TaskPageTypeOK
    PassIsExplained
PROPERTIES
    AnswersDoNotGoBack
    PageSettles
CHECK_DEADLOCK FALSE
