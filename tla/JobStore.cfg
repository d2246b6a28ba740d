SPECIFICATION HistorySpec
CONSTANTS
  Ids = {1, 2}
  Scopes = {s1}
  Keys = {k}
  NoKey = NoKey
  Kinds = {small, large}
  small = small
  large = large
  Cost <- MCCost
  Changes <- MCChanges
  ResultSizes = {1, 2}
  Reserve = 1
  MaxPending = 1
  MaxDatabaseBytes = 4
  RetentionSecs = 1
  MaxRetained = 1
  MaxRetainedBytes = 2
  PageSize = 1
  MaxEdits = 1
  MaxTime = 1
INVARIANTS
  Admissions
  History
PROPERTIES
  RetentionKeepsNewest
  ImplementsTable
