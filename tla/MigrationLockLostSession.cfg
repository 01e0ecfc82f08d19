SPECIFICATION FairSpec
CONSTANTS
  p = p
  q = q
  t = t
  u = u
  Procs <- MCProcs
  Callers <- MCCallers
  Conns <- MCConns
  ProcOf <- MCProcOf
  MaxCalls = 1
  None = None
INVARIANT OneInside
CHECK_DEADLOCK FALSE
