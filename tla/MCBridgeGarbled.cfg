CONSTANTS
  g1 = g1
  g2 = g2
  Replies = {g1}
  Answers = {"verified", "garbled"}
  Gates = {"open"}
  CliAcks = {}
  FaultyAcks = {}
  MaxRecords = 1
  MaxParts = 1
  MaxAttempts = 2
  MaxRetries = 1
  MaxCrashes = 0
  MaxFaults = 0
SPECIFICATION Spec
INVARIANTS
  AtMostOnce
CHECK_DEADLOCK FALSE
