SPECIFICATION Spec
CONSTANTS
  Calls = {c1, c2}
  c1 = c1
  c2 = c2
  k1 = k1
  Sessions = {k1}
  Old = old
  None = none
  MaxChildren = 2
  Ring = 1
  MaxFaults = 1
  Requests <- MCRequests
INVARIANTS
  CutsAreTruthful
  Owned
PROPERTIES
  BindingsAreStable
  EveryCallEnds
CHECK_DEADLOCK FALSE
