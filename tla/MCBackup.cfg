CONSTANTS
  MaxEvents = 1
  MaxExports = 1
  MaxRestores = 1
  MaxLogouts = 1
  MaxCrashes = 1
  MaxFaults = 1
SPECIFICATION BackupSpec
INVARIANTS
  NothingSkipped
  LogoutLeavesNothing
CHECK_DEADLOCK FALSE
