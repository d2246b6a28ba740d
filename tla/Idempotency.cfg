SPECIFICATION Spec
SYMMETRY Symmetry
INVARIANTS
  OneLeader
  Coherent
  ReplaysMatch
PROPERTY
  RecordsKeep
CHECK_DEADLOCK FALSE
CONSTANTS
  Callers = {c1, c2, c3, c4}
  NoCaller = NoCaller
  Keys = {k1, k2, k3}
  NoKey = NoKey
  Prints = {p1, p2}
  Weights = {2, 3}
  MaxEntries = 2
  MaxBytes = 2
  CompletedTtl = 1
  InFlightTtl = 2
  UnknownTtl = 2
  LeaderTime = 2
  MaxTime = 2
