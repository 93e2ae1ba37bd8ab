SPECIFICATION ReSpec
CONSTANTS
  UpBytes = 1
  DownBytes = 1
  Window = 1
  PrereadSizes = {0}
  HighWater = 1
  HighMark = 0
  MaxChunk = 1
  KnownTunnel = {TRUE}
  Histories = {{"linkLost"}}
  RewriteHosts = {FALSE}
  HeadEnd = 3
  HostByte = 1
  TargetBytes <- Target
  MaxHead = 4
  Stranger = 99
INVARIANTS OwnBytesOnly
CHECK_DEADLOCK FALSE
