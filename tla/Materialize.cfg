SPECIFICATION Spec
CONSTANTS
    Backends = {b1, b2}
    Writers = {w}
    MapWriter = m
    MaxBlock = 4
    SegBlocks = 2
    RangeLen = 2
    SoftLow = 3
    HardLow = 1
    Batch = 1
SYMMETRY Symmetry
INVARIANTS
    TypeOK
    SingleFlight
    
    RangeExistsWhenApplied
VIEW Existence
