SPECIFICATION Spec
CONSTANTS
    NumSensors = 2
    CanId <- MCCanId
    ES0_CANID = "ES0_CANID"
    RCanId <- MCRCanId
    OfflineLimit = 2
INVARIANTS
    TypeOK
PROPERTIES
    LostWasSilent
    ReportsSettle
