CONSTANTS
  a = a
  b = b
  e = e
  None = None
  Absent = Absent
  Down = Down
  Txns <- MCTwo
  AutoTxns <- MCAuto
  Edits <- MCEdits
  MaxGen = 1
  MaxFaults = 2
  WritesFail = TRUE
  HostEdits = "settled"
SPECIFICATION Spec
INVARIANTS
  TypeOK
  TerminalIsComplete
  CommitIsInLedger
  Converged
PROPERTIES
  OutcomeIsFinal
  Atomic
