SPECIFICATION MCSpec
CONSTANTS
    a = a
    b = b
    c = c
    d = d
    e = e
    f = f
    g = g
    k = k
    Root = Root
    Tasks = {a, b, c, d, e, f, g, k}
    Parent <- TreeParent
    Kind <- TreeKind
    DependsOn <- TreeDeps
    InMap = {}
    MaxConcurrency = 1
    AbortOnFailure = {f}
    Policies = {"halt"}
    Signals = {}
    MaxSignals = 0
    MaxRetries = 1
    TurnLimits = {0, 1}
    MaxSends = 2
    MaxAnswers = 3
    MaxBlocks = 2
    MaxOpens = 2
INVARIANT DependenciesReturned
