SPECIFICATION ExchangeFairSpec
CONSTANTS
  p1 = p1
  w1 = w1
  Peers = {p1}
  Wants = {w1}
  NoStream = NoStream
  Streams = {1, 2, 3}
  Outbound <- MCOutbound
  RemoteOf <- MCRemoteOf
  Sends <- MCSends
  PeerOf <- MCPeerOf
INVARIANTS
  PooledStreamsServe
  NoDeafStream
  NothingInboundAfterStop
  EveryPeerAsked
PROPERTIES
  SendsEnd
CHECK_DEADLOCK FALSE
