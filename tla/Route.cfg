CONSTANTS
  m1 = m1
  m2 = m2
  u = u
  a = a
  b = b
  direct = direct
  block = block
  None = None
  Ids <- MCIds
  Users <- MCUsers
  Texts <- MCTexts
  Outs <- MCOuts
  Intents <- MCIntents
  Start <- MCStart
  Edits <- MCEdits
  Budget = 2
SPECIFICATION FairSpec
PROPERTIES
  UserRulesAreKept
  RestoreIsFixpoint
  EventuallyRestored
CHECK_DEADLOCK FALSE
