\* Two readers, two pages, two slots, the mapwriter and the checkpointer.
SPECIFICATION Spec
CONSTANTS
    Readers = {r1, r2}
    MapWriter = mw
    Checkpointer = cp
    Pages = {p1, p2}
    NSlots = 2
    UsageLimit = 1
    UsageMod = 4
    MaxEvents = 2
    None = None
VIEW Ages
SYMMETRY Symmetry
CONSTRAINT UntilWrap
INVARIANTS
    TypeOK
    PinsCounted
    PinnedPageStays
    OneSlotPerPage
    ChangesKept
    CheckpointComplete
\* After a failed MAP write of the checkpointer everybody may wait.
CHECK_DEADLOCK FALSE
