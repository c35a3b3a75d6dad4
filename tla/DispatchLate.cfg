SPECIFICATION Spec
CONSTANTS
    Workers = {w1}
    run = run
    sum = sum
    sRun = sRun
    sSum = sSum
    Actions <- MCActions
    Subs <- MCSubs
    SubOf <- MCSubOf
    EventTypes = {"t", "u"}
    Wants <- MCWants
    Accumulating <- MCAccumulating
    Threshold <- MCThreshold
    Timed <- MCTimed
    Fires <- MCFires
    NoEvent = NoEvent
    NoAction = NoAction
    BatchSize = 2
    ClaimLimit = 2
    MaxEvent = 2
    MaxCrash = 0
    MayStop = FALSE
    MayEdit = FALSE
INVARIANT NoEventLost
