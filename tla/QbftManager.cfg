SPECIFICATION Spec
CONSTANTS
    MaxWorkers = 1
    UrgentSize = 2
    PermitlessSize = 1
    Callers = {c1, c2}
    m1 = m1
    m2 = m2
    Messages = {m1, m2}
    Effect <- MCEffect
    MaxTasks = 2
    MaxRounds = 2
    RoundTimeout = 1
    StartTime = 1
    SlotTicks = 2
    Height = 0
    MaxTime = 4
    BufferLimit = 1
INVARIANTS
    NoPermitLeaks
    MessagesInOrder
    RoundsGetTheirTime
PROPERTIES
    EveryDecisionAnswered
    InstancesEnd
CHECK_DEADLOCK FALSE
