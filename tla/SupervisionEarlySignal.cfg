CONSTANTS
    MaxHandlers = 2
    MaxFailures = 0
SPECIFICATION FairSpec
CHECK_DEADLOCK FALSE
PROPERTIES
    EverySignalStops
