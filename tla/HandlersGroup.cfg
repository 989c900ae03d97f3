CONSTANTS
    Users = {ann, bob}
    Dms = {ann}
    Alerts = {a1, a2}
    NoAlert = NoAlert
    Idle = Idle
    MaxAlertsPerUser = 2
    MaxAlertsPerChat = 1
    CanUpgrade = TRUE
    RightsChange = TRUE
    MaxUpdates = 2
SPECIFICATION Spec
SYMMETRY AlertSymmetry
CHECK_DEADLOCK FALSE
INVARIANTS
    ChatQuota
    OldGroupStaysEmpty
PROPERTIES
    SharedNeedsRights
    DeliveryIsNotInterrupted
    NoReachAcrossChats
