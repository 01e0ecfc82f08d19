SPECIFICATION TablesSpec
CONSTANTS
  None = None
  Null = Null
  Apps <- MCApps
  AuthorForge = "authorforge"
  Registrations <- MCRegistrations
  Attached <- MCAttached
  Foundations <- MCFoundations
  Registrars <- MCRegistrars
  Pruners <- MCPruners
  MinimumPruneDays = 2
  Windows <- MCWindows
  MaxSkew = 1
  MaxDay = 3
  Txs = {x1, x2, x3}
  Blocks = {b1, b2}
  Sessions = {s1, s2}
  NilStatuses <- MCNilStatuses
  MaxTime = 1
  MaxBatch = 2
  MaxRebuilds = 3
CHECK_DEADLOCK FALSE
SYMMETRY MCSymmetry
INVARIANTS CoreTypeOK RequiredIsMet CanonIsReplay CanonIsAccepted
PROPERTY RaisesAreIntended PruneKeepsRecent NodesGoForCause
