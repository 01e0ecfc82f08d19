SPECIFICATION Spec
CONSTANTS
  Tools = {t, u}
  Keys = {k, l}
  NoFile = NoFile
  Empty = Empty
  NoKey = NoKey
  Paths <- MCPaths
  Stem <- MCStem
  ForeignKey = ForeignKey
  NoEnvelope = NoEnvelope
  Malformed = Malformed
  Nobody = Nobody
  MaxRuns = 2
  MaxChanges = 0
SYMMETRY Symmetry
INVARIANT CompletedIsWhole
CHECK_DEADLOCK FALSE
