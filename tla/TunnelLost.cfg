SPECIFICATION FairSpec
CONSTANTS
  Conns = {c1, c2}
  NoConn = NoConn
  KnownTokens = {TRUE}
  Latency = 1
  ConnectTimeout = 3
  HandshakeTimeout = 3
  PingInterval = 2
  PingTimeout = 3
  MinDelay = 1
  MaxDelay = 3
  StableSession = 5
  HelloTimeout = 3
  CloseTimeout = 2
  Heartbeat = 2
  HeartbeatMisses = 4
  MaxFaults = 1
  Faults = {"linkDies"}
PROPERTIES TunnelsComeBack
