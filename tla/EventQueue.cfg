SPECIFICATION FairSpec
CONSTANTS
    main = main
    timer = timer
    can = can
    free = free
    signal = signal
    Main <- main
    Timer <- timer
    Free <- free
    Signal <- signal
    Producers = {can}
    Interruptible <- MCInterruptible
    Requested = {0, 1, 3}
    MaxPosts = 1
INVARIANTS
    TypeOK
    MutualExclusion
    PopFindsEvent
    NothingLost
PROPERTIES
    ImplementsBus
    AllTaken
CHECK_DEADLOCK FALSE
