SPECIFICATION Spec
SYMMETRY Symmetry
CONSTANTS
  Ids = {j1, j2}
  Keys = {k}
  NoKey = NoKey
  Idle = Idle
  Clients = {c1}
  MaxPending = 2
  MaxRunning = 1
  Faults = {"crash", "drop", "db", "drain"}
  MaxFaults = 2
INVARIANTS
  TypeOK
  AtMostOnce
  WorkerOwnsRow
  CancelReaches
  Sound
PROPERTY
  ImplementsLifecycle
