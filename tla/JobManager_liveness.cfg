SPECIFICATION FairSpec
CONSTANTS
  Ids = {j1, j2}
  Keys = {}
  NoKey = NoKey
  Idle = Idle
  Clients = {c1}
  MaxPending = 2
  MaxRunning = 1
  Faults = {"crash", "db"}
  MaxFaults = 1
PROPERTY
  EverythingMoves
