SPECIFICATION Spec
CONSTANTS
    MaxBlocks = 4
    Works = {1}
INVARIANTS
    LongestChainsExact
    LongestKnownsExact
    ChainsConsistent
PROPERTIES
    MiningHeadStable
    HeadsChosen
CHECK_DEADLOCK FALSE
