SPECIFICATION Spec
CONSTANTS
  EntriesPerPage = 2
  GroupMainPages = 1
  MaxBlockNumber = 100
  MaxBlocks = 3
  MaxPblk = 4
  MaxWal = 3
  MaxCkpt = 1
  MaxCrash = 1
  Unmapped = Unmapped
  NotCached = NotCached
  Zeros = Zeros
INVARIANT SuperblockBehindPages
CHECK_DEADLOCK FALSE
