SPECIFICATION Spec
CONSTANTS
    Paths <- MCPaths
    Heights <- MCHeights
    ReadOpens = {TRUE, FALSE}
    WriteOpens = {TRUE}
    MaxCrashes = 2
INVARIANTS
    TypeOK
    CursorOK
    CursorSaved
    ReportedOnce
PROPERTIES
    FlapKeepsProgress
    LoadGivesSentRoute
