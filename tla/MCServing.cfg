SPECIFICATION ServingSpec
CONSTANTS
  p1 = p1
  o1 = o1
  i1 = i1
  t1 = t1
  Peers = {p1}
  NoStream = NoStream
  Streams = {o1, i1}
  Outbound = {o1}
  Sends = {t1}
  RemoteOf <- MCRemoteOf
  PeerOf <- MCPeerOf
  StoreGet = {"generator", "asyncGenerator"}
PROPERTIES
  StoredBlocksServed
CHECK_DEADLOCK FALSE
