CONSTANTS
    None = None
    OwnKey = OwnKey
    Chains <- MCChains
    BeaconIndex <- MCBeaconIndex
    BATCH_SIZE = 2
    FETCH_CONCURRENT = 1
    MaxErrors = 1
    MaxCrashes = 1
SPECIFICATION Spec
INVARIANTS
    RegistryMatchesChain
    RecoveryRestoresState
    ProtectedBeforeServed
    ExitsRequestedOnce
PROPERTIES
    CatchesUp
    EveryValidatorIndexed
CHECK_DEADLOCK FALSE
