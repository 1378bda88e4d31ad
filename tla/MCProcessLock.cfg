CONSTANTS
  t1 = t1
  t2 = t2
  t3 = t3
  p1 = p1
  p2 = p2
  Threads = {t1, t2, t3}
  Procs = {p1, p2}
  ProcOf <- MCProcOf
  Tokens = {k1, k2, k3, k4, k5}
  NoToken = NoToken
  NoFile = NoFile
  Nobody = Nobody
  MaxStarts = 2
  MaxFails = 2
SPECIFICATION FairSpec
INVARIANTS
  HolderKeepsFile
PROPERTIES
  ImplementsMutex
  Recovers
CHECK_DEADLOCK FALSE
