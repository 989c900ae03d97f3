CONSTANTS
    Zones <- AllZones
    Moments <- MCMoments
    Phrases <- DepartingPhrases
    Delays <- MCDelays
    MaxFires = 2
SPECIFICATION Spec
INVARIANTS
    NamedTimesAreFound
CHECK_DEADLOCK FALSE
