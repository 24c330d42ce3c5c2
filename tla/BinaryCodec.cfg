\* One call after another, every combination of what the decoders may say.
CONSTANT None = None
SPECIFICATION Spec
INVARIANTS
  PeersNeverLeave
  FaithfulToTheNode
  RepliesNameTheirRequest
  AgreesWithPool
