CONSTANTS
    Alerts = {series}
    Recurring = {series}
    Workers = {w1, w2}
    NoJob = NoJob
    MaxAttempts = 3
    Backoff <- MCBackoff
    StaleClaimSecs = 1
    AttemptsCeiling = 3
    MaxLate = 1
    MaxDelay = 1
    LastOccurrence = 1
    MaxGeneration = 12
    MaxFaults = 1
SPECIFICATION FairSpec
PROPERTIES
    OutagesOnlyDelay
    OldChatEmpties
    ImplementsFairLifecycle
