CONSTANTS
  a = a
  b = b
  Clients <- MCClients
  Uid <- MCUid
  Method <- MCMethod
  Root = "root"
  Account = "rill-xray-agent"
  None = None
  Capacity = 1
  MaxFaults = 1
SPECIFICATION FairSpec
INVARIANTS
  TypeOK
  SlotsAreConserved
  AnswersAreTrue
PROPERTIES
  AcceptedIsClosed
  StopCompletes
CHECK_DEADLOCK FALSE
