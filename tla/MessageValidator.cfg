SPECIFICATION Spec
CONSTANTS
    NoRoot = NoRoot
    A = A
    B = B
    C = C
    D = D
    SLOTS_PER_EPOCH = 4
    LATE_SLOT_ALLOWANCE = 2
    MIN_SEED_LOOKAHEAD = 1
    MAX_PROPOSER_PREFERENCES_DISTINCT_ROOTS = 2
    MAX_REQUEST_AUTH_DISTINCT_ROOTS = 2
    Committee = {1, 2, 3, 4}
    Traffic <- MCTraffic
    InitialViews <- MCInitialViews
    Validators <- MCValidators
    SyncValidators = {2}
    SyncCommitteeSize = 2
    DutySlots <- MCDutySlots
    ExitSlots = {2}
    BooleEpoch = 1
    GloasEpoch = 1
    TicksPerSlot = 3
    EARLY_MESSAGE_MARGIN = 1
    LATE_MESSAGE_MARGIN = 1
    QUICK_TIMEOUT = 1
    QUICK_TIMEOUT_THRESHOLD = 8
    SLOW_TIMEOUT = 30
    MaxTime <- MCMaxTime
    MaxAccepted = 2
INVARIANTS
    DutyLimit
    HeardOnce
    HonestNotRejected
    HonestAccepted
PROPERTIES
    CleanerForgetsNothing
CHECK_DEADLOCK FALSE
