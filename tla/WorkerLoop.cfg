CONSTANTS
    Alerts = {a1, a2}
    NoAlert = NoAlert
    IdleWait = 2
    RetryWait = 1
    MaxDelay = 3
    MaxLate = 1
    MaxRepeats = 1
    MaxFaults = 2
SPECIFICATION FairSpec
INVARIANTS
    TypeOK
    TimerCoversPending
    CleanStopLeavesNoClaim
PROPERTIES
    DueAlertsAreClaimed
    ComesToRest
