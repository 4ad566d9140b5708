SPECIFICATION Spec
CONSTANTS
  User = {u1}
  MaxConcurrent = 2
  MaxActive = 3
  MaxHistory = 1
  MaxJobs = 4
  MaxCrashes = 0
INVARIANTS
  TypeOK
  SlotAccounting
  FirstComeFirstServed
  StoreBounded
  NoAbandonedJob
PROPERTIES
  NoPhantomSuccess
