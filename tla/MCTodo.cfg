SPECIFICATION Spec
CONSTANTS
    MAX_PEERS = 2
    MIN_PEERS = 2
    MAX_REQUESTS = 1
    r1 = r1
    r2 = r2
    b1 = b1
    b2 = b2
    Requests = {r1, r2}
    Blocks = {b1, b2}
    BlockOf <- MCBlockOf
    MaxPkts = 1
INVARIANTS
    OutstandingCovers
    NumbersNotConfused
    RequestsSound
