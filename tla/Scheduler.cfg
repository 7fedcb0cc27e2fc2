SPECIFICATION FairSpec
CONSTANTS
    MaxSockets = 4
    HeartBeatLimit = 2
    MainSends = TRUE
    MaxFaults = 3
INVARIANTS
    TypeOK
    CarKnows
    ConnectedClientIsOpen
PROPERTIES
    DetectsSilence
    Reconnects
