CONSTANTS
  None = None
  Observers = 2
  Hosts <- MCHosts
  Freshness = 1
  Window = 1
  Skew = 0
  MaxBack = 1
  MaxChanges = 1
SPECIFICATION FairSpec
PROPERTIES
  HealthyIsProven
  CausePrecedesFault
  FaultIsNotMasked
