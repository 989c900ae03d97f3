CONSTANTS
    Zones <- AllZones
    Moments <- MCMoments
    Phrases <- MCPhrases
    Delays <- MCDelays
    MaxFires = 2
SPECIFICATION Spec
INVARIANTS
    TypeOK
    NamedTimeIsTheNext
    SpanIsAsSaid
    TextAndClockApart
    RingsAsNamed
    NothingLeftOut
    ClampsAreTold
    RefusedOnlyForCause
CHECK_DEADLOCK FALSE
