SPECIFICATION FairSpec
CONSTANTS
  Requests = {r1}
  MaxUpdates = 2
  MaxFaults = 3
  None = None
INVARIANTS
  OneActive
  RecordsSound
PROPERTY
  EveryRequestEnds
CHECK_DEADLOCK FALSE
