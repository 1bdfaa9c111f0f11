SPECIFICATION AppFairSpec
CONSTANTS
  HostnameLengths = {60}
  HostnameCapacity = 68
  Numbers <- MCNumbers
  NotNumber = NotNumber
  Absent = Absent
  MaxVersion = 2
  Patches <- MCPatches
  Commands <- MCCommands
  RestartNames = {"restart"}
  MaxCommands = 1
PROPERTIES
  SetupEnds
  RestartEnds
  Converges
CHECK_DEADLOCK FALSE
