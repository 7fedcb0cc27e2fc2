SPECIFICATION BusSpec
CONSTANTS
    CanId <- MCCanId
    Talker <- MCCanId
    Parts = 2
    Long = 2
    BufferSize = 6
    BeatLimit = 1
    MaxLost = 2
INVARIANTS
    BusTypeOK
    WholeMessage
PROPERTIES
    HeardAgain
    BeatsGoOut
