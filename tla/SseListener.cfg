\* Five events, of which the third and ApiVersion cannot be serialised.
CONSTANTS
  MaxHead = 5
  Opaque = {3, Api}
  Api = Api
  None = None
SPECIFICATION FairSpec
INVARIANTS
  NeverStepsBack
  NoGaps
  NoGapsAcrossRestarts
PROPERTIES
  LaterEventsArrive
