CONSTANTS
  d1 = d1
  d2 = d2
  p1 = p1
  p2 = p2
  normal = normal
  disabled = disabled
  None = None
  Torn = Torn
  Decisions <- MCDecisions
  Payloads <- MCPayloads
  Modes <- MCModes
  MaxCompleted = 1
  MaxEvents = 5
  MaxFaults = 2
  Legacy = TRUE
SYMMETRY MCSymmetry
SPECIFICATION Spec
INVARIANTS
  ChangesAreAudited
  
PROPERTIES
  Durable
