\* Two websockets and as many connections to the node.
CONSTANTS
  Tasks = {w1, w2}
  Permits = {p1, p2}
  CallNumbers = 1
  None = None
  MaxQueue = 1
  MaxMessages = 2
  MaxRequests = 3
SPECIFICATION SocketFairSpec
INVARIANTS
  CountersBalance
  GaugesTrue
  OneAnswerPerMessage
PROPERTIES
  EveryMessageAnswered
  HandlersOfGoneEnd
