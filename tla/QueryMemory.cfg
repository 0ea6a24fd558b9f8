SPECIFICATION QuerySpec
CONSTANTS
    Worker = {w1, w2}
    Caller = caller
    Buffers = 15
    Allocator <- MCAllocator
    MaxCached = 1
    Classes = 1
    Slots = 2
    Plans <- MCPlans
    MaxBatches = 2
    Queue = 1
    Arena = {a1, a2}
    Block = {b1, b2, b3}
    BlockSize = 6
    MaxCachedBlocks = 1
    Unit = 2
    Request <- MCRequest
    MaxLive = 2
SYMMETRY Symmetry
INVARIANTS
    OneOwner
    ResultsKeep
    RangesApart
    BlocksAccounted
\* A query ends, and an arena may find no address left within the bound.
CHECK_DEADLOCK FALSE
