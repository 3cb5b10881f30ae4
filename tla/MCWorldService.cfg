SPECIFICATION FairWorldService
CONSTANTS
  p1 = p1
  p2 = p2
  d1 = d1
  d2 = d2
  None = None
  Requests = {"r1", "r2"}
  Principals <- MCPrincipals
  Decisions <- MCDecisions
  Owner <- MCOwner
  Limit = 4
  MaxSequence = 2
  MaxTick = 2
  Request = {r1, r2}
  McpSession = {s1, s2}
  Id = {i1, i2}
  Bearer = {b1, b2}
  MaxSessions = 2
  Absent = Absent
INVARIANTS
  StoresAgree
  PoolExact
  AlwaysRecoverable
PROPERTIES
  HistoryExact
  RecoversTheSame
  ImplementsService
  ServiceSettles
CHECK_DEADLOCK FALSE
