SPECIFICATION SchemaSpec
CONSTANTS
  Runners <- MCRunners
  Targets <- MCTargets
  Versions <- MCVersions
  Plan <- MCPlan
  Final <- MCFinal
  NoRow = NoRow
INVARIANTS SchemaTypeOK Converged OldVersionIsPending AppliedTargetHasRow
