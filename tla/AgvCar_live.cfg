SPECIFICATION FairSpec
CONSTANTS
    Tolerance = 2
    Paths <- MCRoutes
    Inputs <- MCFlaps
    SplitOutcomes = {TRUE}
    FaultCodes = {}
    LiftReports = {"AtTop"}
    IsAutoLoop = FALSE
    IsStopCarForScheOffLine = FALSE
    MaxPaths = 2
    MaxInputs = 1
PROPERTIES
    RouteFinishes
CHECK_DEADLOCK FALSE
