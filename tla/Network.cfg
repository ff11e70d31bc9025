SPECIFICATION Spec
CONSTANTS
    SLOTS_PER_EPOCH = 2
    FORK_PREPARATION_EPOCHS = 1
    SUBSEQUENT_WINDOW_SLOTS = 2
    ForkEpoch <- mc_ForkEpoch
    NoSlot <- mc_NoSlot
    Subnets = {1, 2}
    Clusters <- mc_Clusters
    SubnetOf <- mc_SubnetOf
    CHANNEL_SIZE = 1
    AllPeers <- mc_OnePeer
    PeerEnr <- mc_PeerEnr
    PeerDomains <- mc_PeerDomains
    BASE_PEER_COUNT = 1
    PEERS_PER_SUBNET = 1
    MAX_PEER_COUNT = 2
    MIN_PEERS_PER_SUBNET = 1
    PEER_OVERDIAL_FACTOR = 1
    RETAIN_SCORE = 2
    Scenarios <- mc_Scenarios
    c1 = c1
    c2 = c2
    p1 = p1
INVARIANT SettledIsConsistent
PROPERTIES
    LifecycleOnlyAdvances
    Converges
    UnwelcomePeersLeave
