SPECIFICATION Spec
CONSTANTS
  Senders = {s1, s2}
  g_maxReportCount = 1
  Block = 4
  LowSize = 12
  MaxSerial = 3
  MaxLaunches = 2
  MaxNow = 3
INVARIANTS
  PruneKeepsNewest
  LostOnlyInARace
  CrashIsStored
CHECK_DEADLOCK FALSE
SYMMETRY Threads
