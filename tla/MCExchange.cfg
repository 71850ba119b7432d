SPECIFICATION Spec
CONSTANTS
    SyncNodes = {1, 2}
    Tree = {"g", "a", "b", "c", "d"}
    Parent <- ForkTree
    Genesis = "g"
    MaxCount = 100
    Dense = 2
    Shards = {1, 2}
    Wanted = {1}
    Offs <- TwoOffs
    Affects <- OtherShard
    Late <- LateSlots
    Pool <- KnownSlots
    Spent <- SoughtSlots
    Items = {"b1", "b2", "b3", "b4"}
    Needs <- ChainNeeds
    Cells <- RecordCells
    MaxFile = 16
INVARIANTS
    ChainsSync
    AnswersSettle
    LoadedSound
PROPERTIES
    ContentsFetched
CHECK_DEADLOCK FALSE
