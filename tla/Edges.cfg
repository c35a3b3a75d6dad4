SPECIFICATION MCSpec
CONSTANTS
    MaxStreams = 2
    MaxRows = 2
    MaxConns = 2
    ReplayLimit = 2
    LiveLimit = 2
    Client = {c1, c2}
    Run = {r1, r2}
    MaxEvents = 2
    Worker = {w1, w2}
    Consumer = {k1, k2}
    Session = {s1}
    MaxLinks = 2
    MaxCalls = 1
    Agent = {a, b}
    File = {f, g}
    MaxTools = 3
    MaxRetries = 1
CHECK_DEADLOCK FALSE
 
 
 
INVARIANT BridgeSafe
PROPERTY CallsEnd
 
