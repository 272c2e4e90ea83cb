SPECIFICATION Spec
CONSTANTS
  MaxNow = 3
  MaxLaunches = 3
  MaxSessions = 2
INVARIANTS
  CrashReportedOnce
  SessionsCoverLaunches
  DurationsWithinLaunch
CHECK_DEADLOCK FALSE
