SPECIFICATION SetupSpec
CONSTANTS
    Chars <- MCChars
    Length = 2
    Addresses <- MCAddresses
    Factory <- MCFactory
    Leases <- MCLeases
    MinLength = 2
    Speeds = {0, 50, 255}
    MaxFrames = 4
    MaxSettings = 2
    MaxStarts = 2
INVARIANTS
    AddressInForce
    SpeedShown
CHECK_DEADLOCK FALSE
