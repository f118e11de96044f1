SPECIFICATION FairSpec
CONSTANTS
  Requests = {r1, r2}
  None = None
PROPERTIES ImplementsCompletion DeliveryStops Settles SessionFreed
CHECK_DEADLOCK FALSE
