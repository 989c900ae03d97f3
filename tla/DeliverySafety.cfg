CONSTANTS
    Alerts = {oneshot, series}
    Recurring = {series}
    Workers = {w1, w2}
    NoJob = NoJob
    MaxAttempts = 2
    Backoff <- MCBackoff
    StaleClaimSecs = 1
    AttemptsCeiling = 3
    MaxLate = 1
    MaxDelay = 2
    LastOccurrence = 1
    MaxGeneration = 12
    MaxFaults = 1
SPECIFICATION Spec
SYMMETRY WorkerSymmetry
INVARIANTS
    TypeOK
    ClaimFencing
    TimelyAttemptsOwnTheirClaim
    SentWasDelivered
    FailureIsJustified
    DuplicatesNeedFaults
PROPERTIES
    FinishedForGood
    NoOccurrenceIsDropped
    FinishedStaysSilent
