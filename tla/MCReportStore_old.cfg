SPECIFICATION Spec
CONSTANTS
  Senders = {s1}
  g_maxReportCount = 1
  Block = 4
  LowSize = 12
  MaxSerial = 2
  MaxLaunches = 3
  MaxNow = 4
INVARIANT PrunedAreOldest
CHECK_DEADLOCK FALSE
