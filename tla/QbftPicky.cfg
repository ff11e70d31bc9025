SPECIFICATION Spec
CONSTANTS
    Operators = {1, 2, 3, 4}
    Active = {1, 2, 3, 4}
    Amnesic = {3}
    a = a
    b = b
    Values = {a, b}
    Start <- MCStart
    Valid <- MCPickyValid
    MaxRounds = 2
    InstanceHeight = 0
    SlotsPerEpoch = 32
    IncludeEpochShift = FALSE
    NoRoot = NoRoot
    TimedOut = TimedOut
INVARIANT
    DecidedIsValid
CHECK_DEADLOCK FALSE
CONSTRAINT ThirdRefuses
VIEW View
