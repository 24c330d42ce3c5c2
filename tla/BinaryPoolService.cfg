\* BINARY_POOL_SIZE=0 is raised to one connection; three callers want it.
CONSTANTS
  Tasks = {t1, t2, t3}
  MaxConnections = 0
  Permits = {p1}
  Streams = {s1, s2}
  CallNumbers = 2
  None = None
SPECIFICATION CountSpec
SYMMETRY Symmetry
INVARIANTS
  ExecutedOncePerAttempt
  RepliesTellExecution
PROPERTIES
  ImplementsService
