CONSTANTS
    Users = {ann}
    Dms = {ann}
    Alerts = {a1, a2, a3}
    NoAlert = NoAlert
    Idle = Idle
    MaxAlertsPerUser = 1
    MaxAlertsPerChat = 3
    CanUpgrade = FALSE
    RightsChange = FALSE
    MaxUpdates = 3
SPECIFICATION Spec
SYMMETRY AlertSymmetry
CHECK_DEADLOCK FALSE
INVARIANTS
    TypeOK
    UserQuotaOvershoot
