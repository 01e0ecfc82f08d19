SPECIFICATION ReadersSpec
CONSTANTS
  Entries <- MCEntries
  Services <- MCServices
  Nodes <- MCNodes
  Documents <- MCDocuments
  Clients <- MCClients
  MayAsk <- MCMayAsk
  Limits <- MCLimits
  Filters <- MCFilters
  None = None
  MaxTime <- MCMaxTime
  Advanced <- MCAdvanced
  Reported <- MCReported
  MaxWrites <- MCMaxWrites
  MaxRows = 2
  MaxProposals = 1
  QueueStaleAfter = 0
  AgingThreshold = 1
  StaleThreshold = 2
  LeaseGrace = 0
INVARIANTS ReadersTypeOK ConnectionsAreReleased FailureIsNotAnEmptyAnswer AuditIsNotOlderThanState DownstreamIsExplained OverdueServicesAreFlagged CountsMatchList ListedEntriesOpen
PROPERTIES EveryRequestIsAnswered RequestsAdvance
