SPECIFICATION Spec
CONSTANTS
  a = a
  m1 = m1
  m2 = m2
  m3 = m3
  side = side
  cli = cli
  Talkers = {a}
  Msgs = {m1, m2, m3}
  TalkerOf <- AllInA
  Pullers = {side, cli}
  Sidebar = side
  Overlap = 1
  Lag = 1
  Lookback = 1
  PageSize = 2
  MaxClock = 3
  Budgets <- Plans
SYMMETRY AnyOrder
INVARIANTS
  RecordedOnce
  NothingMissed
  OnlyDeletedRecalled
  OldNeverLive
  NewIsLive
CHECK_DEADLOCK FALSE
