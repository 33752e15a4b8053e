\* One request of four kinds, three acts of user code, four frames.
CONSTANTS
    Params = {":x", ":y", ":r", ":xb", ":x:x", ":x*r"}
    CatchAlls = {"*r", "*"}
    Name <- MCName
    Glue <- MCGlue
    Limit = 2
    MaxFrames = 4
    AppGroups <- MCGroups
    Routes <- MCRoutes
    Handlers <- MCHandlers
    Paths <- MCPaths
    MaxActs = 3
    RouteLists <- MCRouteLists
    RoutedPaths <- MCRoutedPaths
    GroupSpecs <- MCGroupSpecs
    Comps <- MCComps
SPECIFICATION FairSpec
INVARIANTS
    RoutesRight
    OnceEach
    AnswerAsLogged
    DeliveredWhole
PROPERTIES
    ConnectionEnds
CHECK_DEADLOCK FALSE
