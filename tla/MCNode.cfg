SPECIFICATION Spec
CONSTANTS
    Blocks = {"b0", "b1", "b2", "b3", "b4"}
    Txs = {"g", "x", "y", "w"}
    Anc <- ForkAnc
    Content <- ForkContent
    Spends <- ForkSpends
    WrongInput = {}
    WrongAmount = {"w"}
    Pending = "pending"
    Skips = {0, 1}
    CBlocks <- TwoCBlocks
    CAnc <- TwoCAnc
    CContent <- TwoCContent
    CTxs <- TwoCTxs
    Inputs <- TwoInputs
    Kind <- TwoKind
    Value <- TwoValue
    Sent <- TwoSent
    Fee <- TwoFee
    Rank <- TwoRank
    NotMine <- TwoNotMine
    Invalid <- TwoInvalid
    BadRef <- TwoBadRef
    Addrs = {"a1", "a2"}
    Uuids = {"self", "u1"}
    Self = "self"
    Buckets = {0, 1}
    Seeds = {1, 2}
    BucketOf <- TwoSeeds
    MaxPeers = 2
    MinPeers = 2
    SeedTries = 0
    MaxSeeding = 1
    MaxLost = 1
    NoPeersOk = FALSE
INVARIANTS
    IndexExact
    DoubleSpendNoticed
    PendingMinable
    
    
    CacheSurvives
CHECK_DEADLOCK FALSE
