SPECIFICATION FairSpec
CONSTANTS
  p1 = p1
  p2 = p2
  NoPeer = NoPeer
  MemoryStorage = FALSE
  Bootstrap <- MCBootstrap
  Rounds = {1}
  Requests = {1}
  Shutdowns = {1, 2}
INVARIANTS
  TypeOK
  RequestsFindNodeUp
  StatsStayLocal
  CleanExit
PROPERTIES
  LoopsEndWithShutdown
  BootstrapKept
  ShutdownEnds
CHECK_DEADLOCK FALSE
