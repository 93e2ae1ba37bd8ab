SPECIFICATION Spec
CONSTANTS
  a1 = a1
  a2 = a2
  k1 = k1
  k2 = k2
  s1 = s1
  s2 = s2
  s3 = s3
  Sessions = {a1, a2}
  Tokens = {k1, k2}
  Subdomains = {s1, s2, s3}
  Reserved = {s3}
  Tunnels = {t1, t2, t3}
  Ports = {1, 2, 3, 4, 5}
  TcpPortMin = 1
  TcpPortMax = 5
  TokenOf <- TwoTokens
  MayClaim <- Labels
  PortLo <- LowPorts
  PortHi <- HighPorts
  MaxTunnels <- Caps
  NoTunnel = NoTunnel
  NoSession = NoSession
  NoSubdomain = NoSubdomain
  NoPort = NoPort
SYMMETRY Symmetric
INVARIANTS TypeOK IndexConsistent ListenersMatch HttpRoutesToLive WithinGrant Answered
PROPERTIES NoTakeover NoPortsTruthful
CHECK_DEADLOCK FALSE
