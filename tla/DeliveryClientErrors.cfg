CONSTANTS
    Alerts = {series}
    Recurring = {series}
    Workers = {w1}
    NoJob = NoJob
    MaxAttempts = 2
    Backoff <- MCBackoff
    StaleClaimSecs = 1
    AttemptsCeiling = 3
    MaxLate = 1
    MaxDelay = 1
    LastOccurrence = 1
    MaxGeneration = 12
    MaxFaults = 0
SPECIFICATION Spec
PROPERTY ClientErrorsFail
