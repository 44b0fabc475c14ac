SPECIFICATION FairSpec
CONSTANTS
  k1 = k1
  c1 = c1
  c2 = c2
  c3 = c3
  s1 = s1
  s2 = s2
  h1 = h1
  h2 = h2
  NoCall = NoCall
  Calls = {c1, c2, c3}
  Cids = {k1}
  Signals = {s1, s2}
  Handlers = {h1, h2}
  MaxBlocks = 2
  CidOf <- MCCidOf
  SignalOf <- MCSignalOf
INVARIANTS
  TypeOK
  PendingIsLive
  OneAnswerer
  AbortIsFinal
  OrphanedByAbort
  StoredBeforeResolved
PROPERTIES
  WantsEnd
  ServiceSpec
CHECK_DEADLOCK FALSE
