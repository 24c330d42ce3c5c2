\* As many connections as tasks.
CONSTANTS
  Tasks = {t1, t2}
  MaxConnections = 2
  Permits = {p1, p2}
  Streams = {s1, s2, s3}
  CallNumbers = 1
  None = None
SPECIFICATION FairSpec
PROPERTIES
  EveryCallReturns
