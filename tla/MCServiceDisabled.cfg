SPECIFICATION Spec
CONSTANTS
  r1 = r1
  r2 = r2
  None = None
  Req <- MCReq
  MaxConns = 2
  MaxHosts = 1
  MaxPending = 2
  MaxInflight = 2
  PoolSize = 2
  MaxRefused = 1
INVARIANTS
  DisabledIsTrue
CHECK_DEADLOCK FALSE
