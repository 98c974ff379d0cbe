SPECIFICATION Spec
CONSTANTS
  Cluster = {c1, c2}
  Vpc = {v1}
  Eip = {e1}
  None = None
  EndpointAccess = "private"
  Edits <- NoEdits
  Drift <- Sleep
  FaultKinds = {}
  MaxFaults = 0
CHECK_DEADLOCK FALSE
PROPERTY ReadyMeansServing
