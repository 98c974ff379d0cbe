SPECIFICATION Spec
CONSTANTS
  Pool = {p1}
  None = None
  MaxNodes = 1
  FaultKinds = {}
  MaxFaults = 0
CHECK_DEADLOCK FALSE
PROPERTIES ClosePersists
