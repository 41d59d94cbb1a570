SPECIFICATION FairSpec
CONSTANTS
  Connections = {c1, c2}
  MaxJobs = 4
INVARIANT TypeOK NoDanglingJob RunOnce ResultReady SyncOnOpen
PROPERTY ImplementsService ActiveServes WaitEnds
