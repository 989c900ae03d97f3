CONSTANTS
    MaxHandlers = 2
    MaxFailures = 2
SPECIFICATION FairSpec
CHECK_DEADLOCK FALSE
INVARIANTS
    TypeOK
    CleanExitFinishesAll
    DeadWorkerFailsProcess
    JoinsAreTold
PROPERTIES
    StopsWhenAsked
