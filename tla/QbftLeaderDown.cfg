SPECIFICATION DeliverySpec
CONSTANTS
    Operators = {1, 2, 3, 4}
    Active = {2, 3, 4}
    Amnesic = {}
    a = a
    b = b
    Values = {a, b}
    Start <- MCStart
    Valid <- MCValid
    MaxRounds = 2
    GoodRound = 2
    InstanceHeight = 0
    SlotsPerEpoch = 32
    IncludeEpochShift = FALSE
    NoRoot = NoRoot
    TimedOut = TimedOut
PROPERTY EveryoneDecides
CHECK_DEADLOCK FALSE
