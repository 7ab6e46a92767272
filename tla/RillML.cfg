CONSTANTS
  Versions <- MCVersions
  Absent = Absent
  Bad = Bad
  None = None
  MaxFaults = 2
  MaxOps = 3
SPECIFICATION Spec
PROPERTIES
  ImplementsSlots
  StatusIsTrue
  NeverOlder
