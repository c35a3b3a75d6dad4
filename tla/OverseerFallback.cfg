SPECIFICATION MCSpec
CONSTANTS
    Client = {c1, c2}
    Item = {i1, i2}
    Key = {k1}
    MaxCalls = 3
    Task = {t1, t2}
    Budget = 5
    Costs = {4}
    MaxAttempts = 2
    Window = 2
    ContextLimit = 2
    Answers = {"none", "invalid"}
    MaxSessions = 2
INVARIANT EscalationReviewed
