SPECIFICATION Spec
CONSTANTS
  NPages = 1
  Kinds = {"delta"}
  MaxBlock = 4
  MaxLsn = 3
  MaxCkpt = 1
  MaxCrash = 1
INVARIANT UncapturedRemapRecovers
