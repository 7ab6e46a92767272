CONSTANTS
  None = None
  Modes <- MCModes
  Normal = normal
  Observe = observe
  Safe = safe
  Tries = 2
  MaxRuns = 2
  MaxOrders = 1
  MaxFaults = 2
SPECIFICATION Spec
INVARIANTS
  UpgradeIsAtomic
PROPERTIES
  UpgradeIsNeutral
  CallsAreHonest
CHECK_DEADLOCK FALSE
