CONSTANTS
  i1 = i1
  s1 = s1
  p1 = p1
  Items = {i1}
  Senders = {s1}
  Procs = {p1}
  ProcOf <- MCProcOf
  NoItem = NoItem
  MaxStart = 1
  MaxIds = 3
  KeepResolved = 0
  Budgets <- MCBudgets
SPECIFICATION PFairSpec
INVARIANTS
  ConvergedUnlessRetried
  DeliveredOnce
  NeverOverstated
  TaskAgrees
PROPERTIES
  EventuallyProjected
CHECK_DEADLOCK FALSE
