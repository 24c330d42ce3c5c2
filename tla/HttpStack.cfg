\* Three requests, two at a time, JSON-RPC calls among them.
CONSTANTS
  Handlers = {h1, h2}
  MaxForwarded = 3
  None = None
  Paths <- MCPaths
  Names <- MCNames
  Clients = {ip1}
  MaxRequests = 3
SYMMETRY Symmetry
SPECIFICATION HttpSpec
INVARIANTS
  PeersNeverLeave
  UpstreamCallsAddUp
  EveryResponseCounted
  LabelsNameTheEndpoint
