CONSTANTS
    Zones <- SeriesZones
    Moments <- MCMoments
    Phrases <- GluedPhrases
    Delays <- MCDelays
    MaxFires = 2
SPECIFICATION Spec
INVARIANTS
    LongformsMayBeGlued
CHECK_DEADLOCK FALSE
