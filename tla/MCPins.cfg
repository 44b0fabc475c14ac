SPECIFICATION FairSpec
CONSTANTS
  Cids = {c1, c2}
  Requests = {r1}
  Runs = {p1}
  NoCid = NoCid
INVARIANTS
  TypeOK
  PendingIsUnderWay
  SuccessIsEarned
PROPERTIES
  NoProvideAfterStop
  EveryPinReprovided
  RecordsRecover
