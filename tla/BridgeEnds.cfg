SPECIFICATION FairSpec
CONSTANTS
  UpBytes = 2
  DownBytes = 1
  Window = 1
  PrereadSizes = {0}
  HighWater = 1
  MaxChunk = 1
  MaxCongestions = 0
  KnownTunnel = {TRUE, FALSE}
  Events = {"visitorFin", "serviceFin", "visitorAbort", "serviceAbort", "dialFail", "linkLost"}
  RewriteHosts = {TRUE, FALSE}
  HeadEnd = 3
  HostByte = 2
  TargetBytes <- Target
  MaxHead = 4
  Objects <- SomeObjects
  EmptyObject = "none"
  Stringify <- TextOf
  ParseJson <- ObjectIn
INVARIANTS InOrder ChannelDiscipline PeerIsTold
PROPERTIES EndsTogether
CHECK_DEADLOCK FALSE
