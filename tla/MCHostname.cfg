SPECIFICATION AppSpec
CONSTANTS
  HostnameLengths = {60, 68}
  HostnameCapacity = 68
  Numbers <- MCNumbers
  NotNumber = NotNumber
  Absent = Absent
  MaxVersion = 1
  Patches <- MCUnknownDisplay
  Commands <- MCRestartCommand
  RestartNames = {"restart"}
  MaxCommands = 1
INVARIANTS
  HostnameTerminated
CHECK_DEADLOCK FALSE
