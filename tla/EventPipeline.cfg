\* Four events of the node, of which the second cannot be serialised.
CONSTANTS
  MaxHead = 4
  Opaque = {2}
  Api = Api
  None = None
  Clients = {c1}
  Limit = 2
  MaxPushes = 4
SPECIFICATION PipelineSpec
PROPERTIES
  ClientsMissNothing
  ClientsNeverGoBack
