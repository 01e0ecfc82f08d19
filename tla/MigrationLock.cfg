SPECIFICATION FairSpec
CONSTANTS
  p = p
  q = q
  t = t
  u = u
  Procs <- MCProcs
  Callers <- MCCallers
  Conns <- MCConns
  ProcOf <- MCProcOf
  MaxCalls = 1
  None = None
INVARIANTS ConnsMatchStep OneInForce NoStrayLock NoPoolDeadlock
PROPERTIES EveryCallReturns ImplementsGate
CHECK_DEADLOCK FALSE
