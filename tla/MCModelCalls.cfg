SPECIFICATION FairSpec
CONSTANTS
  c1 = c1
  c2 = c2
  c3 = c3
  kA = kA
  kB = kB
  p1 = p1
  p2 = p2
  r1 = r1
  r2 = r2
  Calls = {c1, c2, c3}
  Clients = {kA, kB}
  Processes = {p1, p2}
  ClientOf <- CallsOf
  WorkOf <- WorkTwo
  Home <- HomeOf
  Refs <- TwoKeys
  FirstOf <- Rotation
  ShareOf <- SevenTenths
  MaxLimit = 2
  MaxEvents = 1
INVARIANTS
  WithinBudget
  NothingLeaks
PROPERTIES
  CallsEnd
CHECK_DEADLOCK FALSE
