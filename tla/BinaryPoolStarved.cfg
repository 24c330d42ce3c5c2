\* BINARY_POOL_SIZE=0 is raised to one connection; two tasks want it.
CONSTANTS
  Tasks = {t1, t2}
  MaxConnections = 0
  Permits = {p1}
  Streams = {s1, s2}
  CallNumbers = 1
  None = None
SPECIFICATION FairSpec
PROPERTY EveryCallReturns
