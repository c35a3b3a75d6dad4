SPECIFICATION Spec
CONSTANTS
    a = a
    b = b
    d = d
    srv = srv
    cli = cli
    c1 = c1
    c2 = c2
    c3 = c3
    Runs = {a, b, d}
    Procs = {srv, cli}
    HostOf <- MCHost
    Conns = {c1, c2, c3}
    PoolOf <- MCPool
    NoConn = NoConn
    NoRun = NoRun
    Commands = {}
    Commanded = {}
    MaxCrash = 0
PROPERTY CleanedMeansCrashed
