SPECIFICATION Spec
CONSTANTS
    MaxTxs = 3
    MaxBlocks = 3
    Earned = {1, 3}
    Asked <- AskedAmounts
    Cents = 2
    MaxInputs = 2
    MaxSatoshi = 4
    Horizon = 2
    Txs = {1, 2}
    NumShards = 2
    ShardOf <- TurnShards
    MaxPending = 1
    Heads = {h1}
    PipeSize = 1
    MAX_PEERS = 1
    MIN_PEERS = 2
    MAX_REQUESTS = 2
    Requests = {"r1", "r2"}
    Blocks = {"b1", "b2"}
    BlockOf <- OwnBlock
    MaxPkts = 1
    Deposits = {"d1", "d2", "d3"}
    Procs = {1, 2}
    Poison = {"d3"}
    Amount <- BtcAmounts
    Width = 3
    MaxDeaths = 2
    TextChars = {"{", "}", "[", "]", "q", "e", "s", "f", "z", "0"}
    MaxText = 5
    Streams <- ClientStreams
    InitialSize = 2
INVARIANTS
    
    
    PaidOnce
    NavigationExact
    RepliesInOrder
PROPERTIES
    AllAnswered
    MiningResumes
    PendingReachesGenerator
    QueuedSent
CHECK_DEADLOCK FALSE
