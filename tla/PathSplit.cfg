SPECIFICATION SplitSpec
CONSTANTS
    Xs <- MCXs
    Ys <- MCYs
    Angles <- MCAngles
    SavedRadius = 150
INVARIANTS
    Drivable
    Arrives
CHECK_DEADLOCK FALSE
