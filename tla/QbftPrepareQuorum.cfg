SPECIFICATION Spec
CONSTANTS
    Operators = {1, 2, 3, 4}
    Active = {1, 2, 3, 4}
    Amnesic = {}
    a = a
    b = b
    Values = {a, b}
    Start <- MCStart
    Valid <- MCValid
    MaxRounds = 2
    InstanceHeight = 0
    SlotsPerEpoch = 32
    IncludeEpochShift = FALSE
    NoRoot = NoRoot
    TimedOut = TimedOut
INVARIANT PrepareQuorumSendsCommit
CHECK_DEADLOCK FALSE
CONSTRAINT FirstProposalLost
VIEW View
