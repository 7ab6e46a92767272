CONSTANTS
  o1 = o1
  o2 = o2
  None = None
  Observers <- MCObservers
  Aspects <- MCAspects
  Content <- MCContent
  SegEvents = 2
  TotalEvents = 4
  MaxCaptures = 5
  MaxFaults = 2
SPECIFICATION Spec
INVARIANTS
  NeverFailsClosed
  ExactlyOnce
