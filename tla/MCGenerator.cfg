SPECIFICATION Spec
CONSTANTS
    Txs = {1, 2, 3}
    NumShards = 1
    ShardOf <- MCShardOf
    MaxPending = 2
    Heads = {h1, h2}
    PipeSize = 1
SYMMETRY MCSymmetry
INVARIANTS
    GeneratorInStep
    GeneratorSurvives
    NeverStuck
