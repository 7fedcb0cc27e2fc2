SPECIFICATION Spec
CONSTANTS
    Paths <- MCPaths
    Heights <- MCHeights
    ReadOpens = {TRUE}
    WriteOpens = {TRUE}
    MaxCrashes = 1
PROPERTIES
    RestartResumesRoute
