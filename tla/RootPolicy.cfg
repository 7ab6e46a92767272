CONSTANTS
  i1 = i1
  i2 = i2
  i3 = i3
  m = m
  None = None
  Ids <- MCIds
  Manual <- MCManual
  Commands <- MCCommands
  Racing <- MCConfirm
  FuseLimit = 2
  Cooldown = 1
  SameCooldown = 2
  MaxPerHour = 2
  Hour = 3
  MaxTime = 3
  MaxEpoch = 2
  MaxFaults = 1
SYMMETRY MCSymmetry
SPECIFICATION Spec
INVARIANTS
  RateIsBounded
  RuntimeIsNotWider
PROPERTIES
  FuseBlocks
  OrdersRevokeRequests
