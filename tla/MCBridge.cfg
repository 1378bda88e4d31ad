CONSTANTS
  g1 = g1
  g2 = g2
  Replies = {g1}
  Answers <- UngarbledAnswers
  Gates = {"open"}
  CliAcks = {}
  FaultyAcks = {"inflight", "terminal"}
  MaxRecords = 3
  MaxParts = 2
  MaxAttempts = 2
  MaxRetries = 1
  MaxCrashes = 1
  MaxFaults = 1
SPECIFICATION Spec
INVARIANTS
  AtMostOnce
  RiskOnRecord
  OneLiveSuccessor
CHECK_DEADLOCK FALSE
