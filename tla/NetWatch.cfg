SPECIFICATION Spec
CONSTANTS
    Slots = 4
    MaxChanges = 3
INVARIANT
    OneClient
PROPERTIES
    Served
    AllStop
CHECK_DEADLOCK FALSE
