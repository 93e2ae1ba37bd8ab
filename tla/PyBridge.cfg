SPECIFICATION FairSpec
CONSTANTS
  UpBytes = 3
  DownBytes = 3
  Window = 2
  PrereadSizes = {0}
  HighWater = 1
  HighMark = 0
  MaxChunk = 2
  KnownTunnel = {TRUE, FALSE}
  Histories <- FinAndOne
  RewriteHosts = {TRUE}
  HeadEnd = 2
  HostByte = 1
  TargetBytes <- Target
  MaxHead = 3
INVARIANTS TypeOK InOrder WholeBeforeEnd PeerIsTold
PROPERTIES BothAreWindows Delivered
CHECK_DEADLOCK FALSE
