SPECIFICATION MCSpec
CONSTANTS
    a = a
    b = b
    d = d
    srv = srv
    cli = cli
    c1 = c1
    c2 = c2
    c3 = c3
    Runs = {a, b, d}
    Procs = {srv, cli}
    HostOf <- MCHost
    Conns = {c1, c2, c3}
    PoolOf <- MCPool
    NoConn = NoConn
    NoRun = NoRun
    Commands = {"paused", "running"}
    Commanded = {d}
    MaxCrash = 1
    Caller = {x, y}
    Ref = {u}
    MaxRows = 5
    MaxRequests = 3
    MaxStored = 4
    MaxSteps = 5
    Slugs = {"s", "t"}
    Owners = {"o", "p"}
    Refs = {1, 2}
    Events = {1, 2}
    Digests = {1, 2}
    Limits = {1, 2}
    MaxWrites = 3
    MaxN = 2
    MaxLines = 4
    MaxResults = 3
SYMMETRY ServerSymmetry
CHECK_DEADLOCK FALSE
INVARIANT DeadReclaimed
INVARIANT CleanerHoldsLock
INVARIANT DirectoryWhole
INVARIANT StoresAgree
 
INVARIANT ReadToolsFaithful
 
INVARIANT SchemaHolds
