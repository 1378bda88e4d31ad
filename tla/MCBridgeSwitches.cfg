CONSTANTS
  g1 = g1
  g2 = g2
  Replies = {g1}
  Answers = {"accepted", "transient"}
  Gates <- AnyGate
  CliAcks = {"failed"}
  FaultyAcks = {"inflight", "terminal"}
  MaxRecords = 2
  MaxParts = 1
  MaxAttempts = 2
  MaxRetries = 1
  MaxCrashes = 1
  MaxFaults = 0
SPECIFICATION FairSpec
INVARIANTS
  NeverAttempted
PROPERTIES
  Settled
  AbandonedIsFailed
CHECK_DEADLOCK FALSE
