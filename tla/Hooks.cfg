CONSTANTS
  u1 = u1
  u2 = u2
  good = good
  bad = bad
  None = None
  Original = original
  Observe = "observe-only"
  Updaters <- MCUpdaters
  Releases <- MCReleases
  Sound <- MCSound
  Modes <- MCModes
  Steps <- MCSteps
  Removals <- MCRemovals
  Hosts <- MCHosts
  MaxOrders = 1
  MaxFaults = 2
  MaxRuns = 3
SPECIFICATION Spec
INVARIANTS
  ScriptIsGuarded
  HooksOnlyLower
PROPERTIES
  PurgeIsEarned
