SPECIFICATION FairSpec
CONSTANTS
  Calls = {c1, c2}
  Providers = {p1, p2}
  c1 = c1
  c2 = c2
  p1 = p1
  p2 = p2
  RoutesOf <- MCRoutes
  PolicyOf <- MCPolicy
  GlobalMax = 1
  GlobalQueue = 1
  ProviderMax = 1
  ProviderQueues = {0}
  DiscoveryFaults <- MCDiscovery
  ProviderFaults <- MCProvider
  OutputFaults <- MCOutput
  MaxEpoch = 1
  FailureThreshold = 1
  HalfOpenMaxCalls = 2
  SuccessThreshold = 1
PROPERTY
  EveryCallEnds
