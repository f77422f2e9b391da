SPECIFICATION Spec
CONSTANTS
    Backends = {b1, b2}
    Compactor = c
    NBlocks = 2
    NBorn = 1
    MaxPblk = 3
    SegBlocks = 1
    MaxVersion = 2
SYMMETRY Symmetry
CONSTRAINT FewerChanges
INVARIANTS
    TypeOK
    OneOwnerPerEntry
    FreshBlocksAreFresh
    MappingInjective
    CleanPageIsMapped
    OldBaselineIsCurrent
    BoundaryBelowInflight
    DeadStaysDead
PROPERTY
    ImplementsPageStore
