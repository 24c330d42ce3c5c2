\* One client against a backlog larger than the channel.
CONSTANTS
  Clients = {c1}
  Versions = {v1, v2}
  BacklogLimit = 2
  RingSize = 1
  MaxEvents = 5
  MaxStart = 6
  None = None
SPECIFICATION FairSpec
INVARIANTS
  BacklogIsLatest
  DeliveredIncreasing
  DeliveredWithoutHoles
  NothingMissed
PROPERTIES
  ImplementsFeed
  NoLostWakeup
  LiveClientsCatchUp
  HandlersEnd
