SPECIFICATION FairSpec
CONSTANTS
  UpBytes = 2
  DownBytes = 0
  Window = 2
  PrereadSizes = {0}
  HighWater = 2
  MaxChunk = 1
  MaxCongestions = 1
  KnownTunnel = {TRUE}
  Events = {}
  RewriteHosts = {FALSE}
  HeadEnd = 3
  HostByte = 2
  TargetBytes <- Target
  MaxHead = 4
  Objects <- SomeObjects
  EmptyObject = "none"
  Stringify <- TextOf
  ParseJson <- ObjectIn
PROPERTIES LetsFlowAgain
CHECK_DEADLOCK FALSE
