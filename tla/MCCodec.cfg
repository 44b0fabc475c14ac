SPECIFICATION Spec
CONSTANTS
  d1 = d1
  d2 = d2
  NoData = NoData
  Cids <- MCCids
  Data <- MCData
  Entries <- MCEntries
  MaxEntries = 2
  MaxParts = 2
INVARIANTS
  WantsUnderstood
  BlocksArrive
CHECK_DEADLOCK FALSE
