CONSTANTS
    None = None
    OwnKey = OwnKey
    Chains <- MCChains
    BeaconIndex <- MCBeaconIndex
    BATCH_SIZE = 2
    FETCH_CONCURRENT = 1
    MaxErrors = 1
    MaxCrashes = 0
SPECIFICATION Spec
INVARIANT
    DiskMatchesChain
CHECK_DEADLOCK FALSE
