SPECIFICATION TransportFairSpec
CONSTANTS
  BackoffConfigs <- MCConfigs
  MaxConnections = 3
INVARIANTS
  TransportTypeOK
  OnlyFirstDelayLonger
  FullJitterSchedule
  CallBounded
PROPERTIES
  OneConnection
  ResultsTrue
  TransportCallsSpec
  CallsShorten
  CallReturns
CHECK_DEADLOCK FALSE
