SPECIFICATION Spec
CONSTANTS
  Conns = {c1, c2, c3, c4}
  Topics = {t1, t2, t3}
  PeerIds = {p1, p2, p3}
  NoConn = NoConn
  NoTopic = NoTopic
  NoPeer = NoPeer
  MaxConnections = 3
  MaxTopics = 2
  MaxPeersPerTopic = 2
  IdleTicks = 0
  JoinedIdleTicks = 0
  RateTicks = 0
  MaxMessages = 1
SYMMETRY Interchangeable
INVARIANTS
  SeatsAgree
  TopicsAreOccupied
  RosterAccurate
  WithinLimits
PROPERTIES
  SeatKeptWhileMember
