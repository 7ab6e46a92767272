CONSTANTS
  a = a
  b = b
  e = e
  None = None
  Absent = Absent
  Down = Down
  Txns <- MCTxns
  AutoTxns <- MCAuto
  Edits <- MCEdit
  MaxGen = 1
  MaxEpoch = 1
  MaxFaults = 1
  WritesFail = TRUE
  HostEdits = "settled"
SPECIFICATION ExecFair
INVARIANTS
  RollbacksAreCounted
PROPERTIES
  HonoursTxnContract
  NoRevokedMutation
  ClaimIsReleased
  EventuallyDecided
