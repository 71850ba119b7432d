SPECIFICATION Spec
CONSTANTS
    MaxBlocks = 4
    Works = {1}
INVARIANTS
    AssertionsHold
CHECK_DEADLOCK FALSE
