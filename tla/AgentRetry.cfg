SPECIFICATION MCSpec
CONSTANTS
    Roots = {r1}
    Kids = {k1}
    r1 = r1
    r2 = r2
    k1 = k1
    k2 = k2
    WritePaths <- MCWritePaths
    Paths <- MCPaths
    Overlap <- MCOverlap
    NoTask = NoTask
    Retry = 1
    HasSchema = {}
    HasPreRetry = {}
    HasTimeout = {r1}
    Policy = "unlimited"
    Shared = FALSE
    MaxFault = 0
    MaxAllowed = 2
INVARIANT RetriesStart
