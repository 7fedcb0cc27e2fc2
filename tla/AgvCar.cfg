SPECIFICATION Spec
CONSTANTS
    Tolerance = 1
    Paths <- MCPaths
    Inputs <- MCInputs
    SplitOutcomes = {TRUE, FALSE}
    FaultCodes <- MCFaultCodes
    LiftReports <- MCLiftReports
    IsAutoLoop = FALSE
    IsStopCarForScheOffLine = TRUE
    MaxPaths = 1
    MaxInputs = 2
INVARIANTS
    TypeOK
    HaltedCarStands
    RunningCarRuns
    DrivesToTarget
CHECK_DEADLOCK FALSE
