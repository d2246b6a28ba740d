SPECIFICATION FairSpec
CONSTANTS
  Batches = {b1, b2}
  b1 = b1
  b2 = b2
  RequestsOf <- MCRequests
  NativeMax = 2
  MaxParallel = 2
  Models = {"m1", "m2"}
  Responses <- MCResponses
  ProviderErrors <- MCErrors
INVARIANTS
  TypeOK
  TruthfulStop
  OutputsInPlace
PROPERTY
  BatchesSettle
CHECK_DEADLOCK FALSE
