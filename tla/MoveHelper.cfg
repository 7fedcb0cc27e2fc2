SPECIFICATION FairSpec
CONSTANTS
    Targets <- MCTargets
    Plans <- MCPlans
    MaxCalls = 3
INVARIANTS
    TypeOK
    AnnouncedOnce
PROPERTIES
    StopsInAuto
    Served
CHECK_DEADLOCK FALSE
