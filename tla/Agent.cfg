SPECIFICATION MCFairSpec
CONSTANTS
    Roots = {r1}
    Kids = {k1, k2}
    r1 = r1
    r2 = r2
    k1 = k1
    k2 = k2
    WritePaths <- MCWritePaths
    Paths <- MCPaths
    Overlap <- MCOverlap
    NoTask = NoTask
    Retry = 1
    HasSchema = {r1}
    HasPreRetry = {r1}
    HasTimeout = {r1}
    Policy = "timeout_grace"
    Shared = FALSE
    MaxFault = 1
    MaxAllowed = 2
INVARIANT OutcomesAgree
 
PROPERTY AgentTaskEnds
 
 
 
