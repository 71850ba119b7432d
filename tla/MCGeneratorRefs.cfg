SPECIFICATION Spec
CONSTANTS
    Txs = {1, 2}
    NumShards = 1
    ShardOf <- MCShardOf
    MaxPending = 2
    Heads = {h1, h2}
    PipeSize = 1
INVARIANT RefsForBase
