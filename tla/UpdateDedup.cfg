CONSTANTS
    Updates = {u1}
    KeepAge = 1
    PurgeAge = 1
    MaxCopies = 2
    MaxFaults = 4
SPECIFICATION FairSpec
INVARIANTS
    TypeOK
    HandledOncePerExcuse
PROPERTIES
    OnlyHitUpdatesAreSwallowed
