SPECIFICATION FairSpec
CONSTANTS
  a = a
  x = x
  o = o
  Addrs = {a, x, o}
  PeerOf <- MCPeerOf
  NoPeer = NoPeer
  NoAddr = NoAddr
  Candidates = {o}
  MaxBackup = 2
  Threshold = 2
  Rounds = {k1}
INVARIANTS
  TypeOK
  MemoryMirrorsStore
PROPERTIES
  KnownBackupsKept
  EveryBackupDialed
