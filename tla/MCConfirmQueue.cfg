CONSTANTS
  i1 = i1
  s1 = s1
  s2 = s2
  s3 = s3
  p1 = p1
  p2 = p2
  Items = {i1}
  Senders = {s1, s2, s3}
  Procs = {p1, p2}
  ProcOf <- MCProcOf
  NoItem = NoItem
  MaxStart = 2
  MaxIds = 3
SPECIFICATION Spec
INVARIANTS
  AtMostOneSend
PROPERTIES
  ClaimNeverStolen
  NothingSentAfterRejection
CHECK_DEADLOCK FALSE
