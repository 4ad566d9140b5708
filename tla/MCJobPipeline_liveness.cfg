SPECIFICATION Spec
CONSTANTS
  User = {u1}
  MaxConcurrent = 1
  MaxActive = 3
  MaxHistory = 1
  MaxJobs = 3
  MaxCrashes = 1
INVARIANTS
  PlaintextOwned
PROPERTIES
  JobsKeepTheirPromise
  EveryTaskEnds
  RemovalTried
