SPECIFICATION Spec
CONSTANTS
    Window = 3
    Interval = 2
    IdealTime = 4
    Base = 4
    Easier = 2
    GenesisDifficulty <- EasyGenesis
    Horizon = 4
    Close = 1
    Visits = 3
    RewardPeriod = 2
    ShardNums <- TwoShards
    MaxDepth = 7
    Times = {0, 1, 2, 3, 4, 5, 22}
    Levels = 2
    LeafTxs = {1, 2}
    MaxSize = 3
    ShardTxs = {1, 2, 3}
    BadTxs = {2}
    Word = 16
    LEN = 2
    PKT = 3
    HDR = 2
    SHA = 3
    TAILER = 1
    TxSize <- SmallTx
    TxExtra <- SmallInput
    MaxOrder = 2
    MaxPacket = 10
    Orders = {0, 2}
    Counts = {0, 13}
    Lens = {2, 5, 6, 11}
    MaxSent = 2
    Sizes = {1, 2}
    Report = 2
    MaxMem = 5
    MaxLogs = 5
    Width = 5
    Ptrs <- FivePtrs
    Hash <- FewHashes
    MaxBits = 3
    Fds = {1, 2}
    Addrs = {1, 2, 3}
    Arrays = {TRUE}
    LevelBits = 1
    TimeBits = 5
    TimerIds = {1, 2}
    MaxTime = 9
INVARIANTS
    TargetsBounded
    HistoryReached
    ProofsSound
    ShardAccounts
    
    LogBounded
    TableExact
    TreeSound
    NeverEarly
PROPERTIES
    HtableImplements
CHECK_DEADLOCK FALSE
