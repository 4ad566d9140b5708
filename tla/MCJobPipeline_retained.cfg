SPECIFICATION Spec
CONSTANTS
  User = {u1}
  MaxConcurrent = 1
  MaxActive = 2
  MaxHistory = 1
  MaxJobs = 2
  MaxCrashes = 1
PROPERTIES
  KeptWithoutDelegation
