SPECIFICATION Spec
CONSTANTS
    p1 = p1
    p2 = p2
    Pages = {p1, p2}
    Primary = primary
    Standbys = {standby}
    MaxBlock = 3
    SegBlocks = 2
    MaxWal = 4
    MaxCycle = 1
    MaxCrash = 1
    MaxPending = 1
    FirstBlock <- MCFirstBlock
ACTION_CONSTRAINT StandbysLast
VIEW Relevant
CHECK_DEADLOCK FALSE
INVARIANTS
    TypeOK
    PagesKept
    UnlinkWaitsForCheckpoint
