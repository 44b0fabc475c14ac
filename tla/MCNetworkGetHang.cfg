SPECIFICATION FairSpec
CONSTANTS
  k1 = k1
  NoCall = NoCall
  Gets = {g1}
  Cids = {k1}
  Handlers = {h1}
  MaxBlocks = 1
  Providers <- MCIpniOnly
  g1 = g1
  CidOfGet <- MCCidOfGet
PROPERTIES
  GetsEnd
CHECK_DEADLOCK FALSE
