SPECIFICATION FairSpec
CONSTANTS
  Conns = {c1, c2, c3}
  NoConn = NoConn
  KnownTokens = {TRUE, FALSE}
  Latency = 1
  ConnectTimeout = 3
  HandshakeTimeout = 3
  PingInterval = 2
  PingTimeout = 3
  MinDelay = 1
  MaxDelay = 3
  StableSession = 5
  HelloTimeout = 3
  CloseTimeout = 2
  Heartbeat = 2
  HeartbeatMisses = 4
  MaxFaults = 2
  Faults = {"linkDies", "refused", "serverRestart", "stop"}
INVARIANTS TypeOK NameFollowsAgent ServerNotices AgentNotices
PROPERTIES NoFalseAlarm Recovers StopEnds
