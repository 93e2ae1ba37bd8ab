SPECIFICATION FairSpec
CONSTANTS
  s1 = s1
  s2 = s2
  Sessions = {a1, a2}
  NoSession = NoSession
  NoHost = NoHost
  Hosts <- HostHeaders
  HeadEnds = {0, 2, 3}
  VisitorBytes = 5
  MaxHttpHead = 2
  HighWater = 2
  MaxChunk = 2
INVARIANTS TypeOK NothingLost
PROPERTIES RoutedByHost StreamOutlivesHeadTimer Settles
