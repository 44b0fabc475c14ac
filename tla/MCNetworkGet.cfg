SPECIFICATION FairSpec
CONSTANTS
  k1 = k1
  NoCall = NoCall
  Gets = {g1}
  Cids = {k1}
  Handlers = {h1}
  MaxBlocks = 1
  Providers <- MCProviders
  g1 = g1
  CidOfGet <- MCCidOfGet
INVARIANTS
  TypeOK
  FoundBlocksPersist
  HungOnlyFromIpni
PROPERTIES
  GetSpec
  EntriesLeave
  GetsEndUnlessHung
CHECK_DEADLOCK FALSE
