CONSTANTS
  w1 = w1
  q = q
  c1 = c1
  r1 = r1
  r3 = r3
  p1 = p1
  p2 = p2
  p3 = p3
  Writers = {w1}
  Resetters = {r1, r3}
  Queue = q
  Children = {c1}
  Procs = {p1, p2, p3}
  ProcOf <- MCProcOf
  Nobody = Nobody
  MaxParallel = 1
  MaxStarts = 2
SPECIFICATION FairSpec
INVARIANTS
  ClearsAlone
  WorkIsApproved
  RunLeavesNothing
PROPERTIES
  RunEndsInTheEnd
CHECK_DEADLOCK FALSE
