SPECIFICATION Spec
CONSTANTS
  NPages = 2
  Kinds = {"delta"}
  MaxBlock = 4
  MaxLsn = 2
  MaxCkpt = 1
  MaxCrash = 1
INVARIANTS TypeOK NoLostUpdate WalBeforeData WalBeforeMapInOrder FreshIsUnreferenced
