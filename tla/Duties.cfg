SPECIFICATION Spec
CONSTANTS
    SlotsPerEpoch = 2
    None = None
    v1 = v1
    v2 = v2
    Validators = {v1, v2}
    Slots = {4, 5, 6}
    SyncSubnets <- mc_SyncSubnets
    Votes <- mc_Votes
    BooleEpoch = 3
    GloasEpoch = 3
    HistoryEpochs = 1
    RetainSlots = 1
    RetainEpochs = 1
    Proposer = v1
    Blocks <- mc_Blocks
    MaxDecidedRootAge = 1
    SingleDuties <- mc_SingleDuties
    CollectionSlots = 2
    IndexOf <- mc_IndexOf
    RegistrationSlots = 4
    Exits <- mc_Exits
    PostponeSlots = 1
    WaitEpochs = 1
    PtcDuty <- mc_PtcDuty
    ProposerDuty <- mc_ProposerDuty
    EpochsPerPeriod = 2
    HistoricalEpochs = 1
    Scenarios <- mc_Scenarios
INVARIANTS
    NothingSlashable
    OneMessagePerDuty
    CompleteBatchSent
    AggregatesOnce
    NoHeadOfLineBlocking
    ExitsAttempted
    NoFalseAlarm
    VerdictsAreTrue
PROPERTIES
    EnvelopeServed
CHECK_DEADLOCK FALSE
