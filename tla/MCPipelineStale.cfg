CONSTANTS
  i1 = i1
  s1 = s1
  p1 = p1
  Items = {i1}
  Senders = {s1}
  Procs = {p1}
  ProcOf <- MCProcOf
  NoItem = NoItem
  MaxStart = 1
  MaxIds = 2
  KeepResolved = 0
  Budgets <- MCStale
SPECIFICATION PSpec
INVARIANTS
  Converged
CHECK_DEADLOCK FALSE
