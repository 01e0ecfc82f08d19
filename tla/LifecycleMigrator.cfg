SPECIFICATION Spec
CONSTANTS
  Procs <- MCProcs
  Callers <- MCCallers
  Starts <- MCStarts
  ProcOf <- MCProcOf
  Runners <- MCRunners
  Targets <- MCTargets
  Versions <- MCVersions
  Plan <- MCPlan
  Final <- MCFinal
  NoRow = NoRow
  None = None
PROPERTY ReadyExcludesMigrator
