SPECIFICATION StreamSpec
CONSTANTS
  None = None
  Outputs <- MCOutputs
  MaxAttempts = 2
  MaxPreviews = 2
  Room = 1
  Wire = 1
  Images <- MCImages
  MaxEncodedBytes = 2
  MaxReferenceBytes = 3
  Hosts = {"h1", "h2"}
  Ports = {443, 8080}
  Addresses <- MCAddresses
  RemotePolicies <- MCRemotePolicies
INVARIANT
  CallsTruthful
PROPERTIES
  StreamIsExact
  PermitsReturn
\* a stream that has ended stays ended
CHECK_DEADLOCK FALSE
