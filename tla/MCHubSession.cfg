SPECIFICATION AppFairSpec
CONSTANTS
  HostnameLengths = {60}
  HostnameCapacity = 68
  Numbers <- MCNumbers
  NotNumber = NotNumber
  Absent = Absent
  MaxVersion = 1
  Patches <- MCUnknownDisplay
  Commands <- MCRestartCommand
  RestartNames = {"restart"}
  MaxCommands = 1
PROPERTIES
  SessionRestored
CHECK_DEADLOCK FALSE
