\* Three websocket tasks share two upstream connections.
CONSTANTS
  Tasks = {t1, t2, t3}
  MaxConnections = 2
  Permits = {p1, p2}
  Streams = {s1, s2, s3}
  CallNumbers = 2
  None = None
SPECIFICATION Spec
SYMMETRY Symmetry
INVARIANTS
  TypeOK
  PermitsConserved
  StreamsExclusive
  PooledStreamsQuiet
  AnswersOwnRequest
  RetryOnlyAfterPeerClosed
  DemandBounded
