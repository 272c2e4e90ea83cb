SPECIFICATION FairSpec
CONSTANTS
  AppThreads = {t1, t2}
  Events = {"fault", "abort", "throw", "nsexception", "snapshot", "report", "reportall", "terminate"}
  MaxEvents = 2
  MaxFaults = 2
  MaxReports = 8
INVARIANTS
  WritesAlone
  RecrashIsItsOwn
  CrashLeavesReport
PROPERTIES
  CrashEnds
CHECK_DEADLOCK FALSE
