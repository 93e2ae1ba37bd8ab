SPECIFICATION FairSpec
CONSTANTS
  UpBytes = 4
  DownBytes = 2
  Window = 2
  PrereadSizes = {0, 1}
  HighWater = 1
  MaxChunk = 2
  MaxCongestions = 1
  KnownTunnel = {TRUE}
  Events = {}
  RewriteHosts = {TRUE, FALSE}
  HeadEnd = 2
  HostByte = 1
  TargetBytes <- Target
  MaxHead = 3
  Objects <- SomeObjects
  EmptyObject = "none"
  Stringify <- TextOf
  ParseJson <- ObjectIn
INVARIANTS TypeOK BoundedBuffers
PROPERTIES BothAreWindows Delivered
CHECK_DEADLOCK FALSE
