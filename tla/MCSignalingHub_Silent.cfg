SPECIFICATION FairSpec
CONSTANTS
  Conns = {c1, c2}
  Topics = {t1}
  PeerIds = {p1, p2}
  NoConn = NoConn
  NoTopic = NoTopic
  NoPeer = NoPeer
  MaxConnections = 2
  MaxTopics = 1
  MaxPeersPerTopic = 2
  IdleTicks = 1
  JoinedIdleTicks = 2
  RateTicks = 2
  MaxMessages = 2
INVARIANT
  TypeOK
PROPERTIES
  SilentSeatsAreFreed
