\* One page, three delta records, two checkpoints and a crash.
SPECIFICATION Spec
CONSTANTS
  NPages = 1
  Kinds = {"delta"}
  MaxBlock = 3
  MaxLsn = 3
  MaxCkpt = 2
  MaxCrash = 1
CONSTRAINT UntilExposed
INVARIANTS NoLostUpdate BaselineIntact CheckpointCoversMap
