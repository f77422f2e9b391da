SPECIFICATION Spec
CONSTANTS
    p1 = p1
    p2 = p2
    Pages = {p1}
    Primary = primary
    Standbys = {}
    MaxBlock = 2
    SegBlocks = 1
    MaxWal = 4
    MaxCycle = 1
    MaxCrash = 1
    MaxPending = 1
    FirstBlock <- MCFirstBlock
CHECK_DEADLOCK FALSE
INVARIANTS
    RelocationRecovers
