SPECIFICATION MCFairSpec
CONSTANTS
    a = a
    b = b
    c = c
    d = d
    e = e
    f = f
    g = g
    k = k
    Root = Root
    Tasks = {a, b, c, d, e, f, g, k}
    Parent <- TreeParent
    Kind <- TreeKind
    DependsOn <- TreeDeps
    InMap = {a, b, c, d, e, f, g, k}
    MaxConcurrency = 1
    AbortOnFailure = {f}
    Policies = {"continue_independent", "halt", "abort_all"}
    Signals = {"pause", "resume", "abort", "budget"}
    MaxSignals = 2
    MaxRetries = 1
    TurnLimits = {0, 2}
    MaxSends = 2
    MaxAnswers = 3
    MaxBlocks = 2
    MaxOpens = 2
INVARIANT OrderKept
INVARIANT OutcomesRecorded
PROPERTY WorkflowEnds
INVARIANT RequestsPaired
INVARIANT CallsExecutedOnce
 
