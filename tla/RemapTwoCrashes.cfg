\* One page, two records of both kinds, two checkpoints and two crashes.
SPECIFICATION FairSpec
CONSTANTS
  NPages = 1
  Kinds = {"delta", "image"}
  MaxBlock = 3
  MaxLsn = 2
  MaxCkpt = 2
  MaxCrash = 2
INVARIANTS NoLostUpdate BaselineIntact
PROPERTIES CheckpointEnds 
