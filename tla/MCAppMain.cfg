SPECIFICATION AppSpec
CONSTANTS
  HostnameLengths = {60, 68}
  HostnameCapacity = 68
  Numbers <- MCNumbers
  NotNumber = NotNumber
  Absent = Absent
  MaxVersion = 3
  Patches <- MCPatches
  Commands <- MCCommands
  RestartNames = {"restart"}
  MaxCommands = 1
INVARIANTS
  AppTypeOK
  NothingLeftOpen
  WifiTrue
  Synced
  AckTruthful
  OneAnswer
PROPERTIES
  AckedInOrder
  AckReportsDesired
CHECK_DEADLOCK FALSE
