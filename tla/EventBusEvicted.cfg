\* A channel as large as the backlog.
CONSTANTS
  Clients = {c1}
  Versions = {v1, v2}
  BacklogLimit = 2
  RingSize = 2
  MaxEvents = 5
  MaxStart = 6
  None = None
SPECIFICATION Spec
SYMMETRY Symmetry
INVARIANTS
  NothingMissed
